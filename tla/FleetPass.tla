------------------------------- MODULE FleetPass -------------------------------
(***************************************************************************)
(* The passes of a node group whose cloud provider uses CreateFleet: the   *)
(* decision, ScaleUp and the scale lock (pkg/controller) around the        *)
(* IncreaseSize of FleetScaleUp.  The group needs Need nodes all the time. *)
(* A pass decides on the nodes that have registered; the cool-down of the  *)
(* lock is longer than an attached instance takes to register.             *)
(***************************************************************************)
EXTENDS FleetScaleUp

CONSTANT Need    \* how many nodes the pods of the group ask for

ASSUME NeedAssumption == Need \in Nat

VARIABLES
    registered,   \* attached instances that are nodes of the cluster
    locked,       \* the scale lock holds
    unlocked      \* instances that registered, or will, without a lock held for them

passVars == <<registered, locked, unlocked>>

Attached == {i \in Instance : state[i] = "attached"}

PassTypeOK ==
    /\ FleetTypeOK
    /\ registered \subseteq Attached /\ unlocked \subseteq Attached
    /\ locked \in BOOLEAN

PassInit == Init /\ registered = {} /\ locked = FALSE /\ unlocked = {}

\* calculateNodesToAdd, on the size that Refresh has read at the start of the pass.
NodesToAdd == Min({Need - Cardinality(registered), AsgMax - desired})

\* A pass that decides to grow the group gets no further than its lock.
ScaleUp ==
    /\ pc = "idle" /\ ~locked /\ NodesToAdd > 0
    /\ \/ CreateFleetFails(NodesToAdd)
       \/ \E S \in SUBSET Instance : CreateFleet(NodesToAdd, S)
    /\ UNCHANGED passVars

\* Mutant: the lock is never taken.
IncreaseSize_NoLock ==
    /\ IncreaseStep
    /\ unlocked' = IF result' = "error" THEN unlocked \cup (Attached' \ registered) ELSE unlocked
    /\ UNCHANGED <<registered, locked>>

\* ScaleUp locks when IncreaseSize has returned nil, and not when it returned an error,
\* although some batches may be attached.
IncreaseSize ==
    /\ IncreaseStep
    /\ locked' = (locked \/ result' = "nil")
    /\ unlocked' = IF result' = "error" THEN unlocked \cup (Attached' \ registered) ELSE unlocked
    /\ UNCHANGED registered

\* The lock is in memory only.
RestartPass ==
    /\ Restart
    /\ locked' = FALSE /\ unlocked' = unlocked \cup (Attached \ registered)
    /\ UNCHANGED registered

Register(i) ==
    /\ i \in Attached \ registered
    /\ registered' = registered \cup {i}
    /\ UNCHANGED <<vars, locked, unlocked>>

\* The first pass after the cool-down.
CoolDownEnds ==
    /\ pc = "idle" /\ locked /\ Attached \subseteq registered
    /\ locked' = FALSE
    /\ UNCHANGED <<vars, registered, unlocked>>

World ==
    /\ Rebuild \/ \E i \in Instance : Boot(i) \/ Reclaim(i)
    /\ UNCHANGED passVars

PassNext ==
    \/ ScaleUp \/ IncreaseSize \/ RestartPass \/ CoolDownEnds \/ World
    \/ \E i \in Instance : Register(i)

\* As in FleetScaleUp, the main loop waits for IncreaseSize.
PassSpec == PassInit /\ [][PassNext]_<<vars, passVars>> /\ WF_<<vars, passVars>>(IncreaseSize)

--------------------------------------------------------------------------------
(* Properties.                                                             *)

\* A group asks twice for the same nodes only when no lock was held for the first ones:
\* because IncreaseSize had failed half way, or because the process died.  The group never
\* grows past its need by more than these.
OverProvisionIsBounded == desired <= Need + Cardinality(unlocked)
================================================================================
