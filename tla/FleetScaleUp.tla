------------------------------ MODULE FleetScaleUp -----------------------------
(***************************************************************************)
(* IncreaseSize of the AWS provider when a launch template is configured   *)
(* (pkg/cloudprovider/aws/aws.go): the instances are acquired in one shot  *)
(* with CreateFleet, waited for, attached to the auto scaling group in     *)
(* batches, and terminated when one of these steps fails.  EC2 and the     *)
(* instances move between any two steps, every call may fail, and the      *)
(* process may die.  Instances come in any order, so the lists of the code *)
(* are sets here and a batch is any subset of the right size.              *)
(***************************************************************************)
EXTENDS Integers, FiniteSets, FiniteSetsExt

CONSTANTS
    Instance,         \* the instances that EC2 can give
    AsgMax,           \* MaxSize of the auto scaling group
    AttachBatch,      \* batchSize
    TerminateBatch,   \* terminateBatchSize
    TerminateLimit,   \* how many instances one TerminateInstances call may name
    MaxTries          \* maxTerminateInstancesTries

ASSUME FleetAssumption ==
    /\ IsFiniteSet(Instance)
    /\ AsgMax \in Nat /\ TerminateLimit \in Nat
    /\ {AttachBatch, TerminateBatch, MaxTries} \subseteq Nat \ {0}

VARIABLES
    pc,         \* where IncreaseSize is
    state,      \* what EC2 says of each instance
    desired,    \* the desired size of the group
    before,     \* what it was when IncreaseSize was called
    delta,      \* what IncreaseSize was asked for
    result,     \* what it has returned
    left,       \* instances still to be attached, or to be terminated
    sent,       \* the ids collected for TerminateInstances
    tries,      \* terminateInstancesTries
    leaked      \* instances left behind by a failed call or by the death of the process

vars == <<pc, state, desired, before, delta, result, left, sent, tries, leaked>>

FleetTypeOK ==
    /\ pc \in {"idle", "wait", "attach", "sweep", "dead"}
    /\ state \in [Instance -> {"free", "pending", "running", "attached", "terminated"}]
    /\ desired \in 0..AsgMax /\ before \in 0..AsgMax /\ delta \in 0..AsgMax
    /\ result \in {"none", "nil", "error"}
    /\ left \subseteq Instance /\ sent \subseteq Instance
    /\ tries \in 0..MaxTries
    /\ leaked \subseteq Instance

Init ==
    /\ pc = "idle" /\ state = [i \in Instance |-> "free"]
    /\ desired = 0 /\ before = 0 /\ delta = 0 /\ result = "none"
    /\ left = {} /\ sent = {} /\ tries = 0 /\ leaked = {}

\* The instances of S change to the given state.
Becomes(S, to) == [i \in Instance |-> IF i \in S THEN to ELSE state[i]]

--------------------------------------------------------------------------------
(* IncreaseSize and setASGDesiredSizeOneShot.                              *)

\* CreateFleet gives all the instances: its minimum is the size of the request.
CreateFleet(n, S) ==
    /\ pc = "idle" /\ n > 0 /\ desired + n <= AsgMax
    /\ Cardinality(S) = n /\ \A i \in S : state[i] = "free"
    /\ state' = Becomes(S, "pending")
    /\ pc' = "wait" /\ before' = desired /\ delta' = n /\ result' = "none" /\ left' = S
    /\ UNCHANGED <<desired, sent, tries, leaked>>

\* A size out of bounds, a failed setup, or a CreateFleet that gives no instance.
CreateFleetFails(n) ==
    /\ pc = "idle"
    /\ before' = desired /\ delta' = n /\ result' = "error"
    /\ UNCHANGED <<pc, state, desired, left, sent, tries, leaked>>

--------------------------------------------------------------------------------
(* attachInstancesToASG.                                                   *)

\* allInstancesReady
AllInstancesReady ==
    /\ pc = "wait" /\ \A i \in left : state[i] = "running"
    /\ pc' = "attach"
    /\ UNCHANGED <<state, desired, before, delta, result, left, sent, tries, leaked>>

\* Mutant: the deadline is looked at only when the instances are ready.
Deadline_AfterReady ==
    /\ pc = "wait" /\ \A i \in left : state[i] = "running"
    /\ pc' = "sweep"
    /\ UNCHANGED <<state, desired, before, delta, result, left, sent, tries, leaked>>

\* The deadline may win against a ticker that would find every instance running.
Deadline ==
    /\ pc = "wait"
    /\ pc' = "sweep"
    /\ UNCHANGED <<state, desired, before, delta, result, left, sent, tries, leaked>>

\* What the next AttachInstances call names.
NextBatch(B) ==
    /\ pc = "attach" /\ B \subseteq left
    /\ Cardinality(B) = Min({AttachBatch, Cardinality(left)})

\* Mutant: IncreaseSize returns after its first batch.
Attach_FirstBatch(B) ==
    /\ NextBatch(B) /\ \A i \in B : state[i] = "running"
    /\ state' = Becomes(B, "attached")
    /\ desired' = desired + Cardinality(B)
    /\ left' = {} /\ pc' = "idle" /\ result' = "nil" /\ tries' = 0
    /\ UNCHANGED <<before, delta, sent, leaked>>

\* AttachInstances raises the desired size too.  After the last batch IncreaseSize
\* returns nil.
Attach(B) ==
    /\ NextBatch(B) /\ \A i \in B : state[i] = "running"
    /\ state' = Becomes(B, "attached")
    /\ desired' = desired + Cardinality(B)
    /\ left' = left \ B
    /\ IF B = left
       THEN pc' = "idle" /\ result' = "nil" /\ tries' = 0
       ELSE UNCHANGED <<pc, result, tries>>
    /\ UNCHANGED <<before, delta, sent, leaked>>

\* Mutant: the batch of the failed call is not terminated.
AttachFails_DropsBatch(B) ==
    /\ NextBatch(B)
    /\ pc' = "sweep" /\ left' = left \ B
    /\ UNCHANGED <<state, desired, before, delta, result, sent, tries, leaked>>

\* All that is not attached is terminated, the batch of the failed call too.
AttachFails(B) ==
    /\ NextBatch(B)
    /\ pc' = "sweep"
    /\ UNCHANGED <<state, desired, before, delta, result, left, sent, tries, leaked>>

--------------------------------------------------------------------------------
(* terminateOrphanedInstances.                                             *)

\* One call of its loop.  The list of ids is not emptied between two calls, and a call
\* for more than the limit fails.
TerminateInstances(B) ==
    /\ pc = "sweep" /\ left # {} /\ B \subseteq left
    /\ Cardinality(B) = Min({TerminateBatch, Cardinality(left)})
    /\ left' = left \ B
    /\ sent' = sent \cup B
    /\ \/ /\ Cardinality(sent') <= TerminateLimit
          /\ state' = Becomes(sent', "terminated")
          /\ UNCHANGED leaked
       \/ leaked' = leaked \cup sent' /\ UNCHANGED state
    /\ UNCHANGED <<pc, desired, before, delta, result, tries>>

\* Mutant: one try too many.
SweepDone_OffByOne ==
    /\ pc = "sweep" /\ left = {}
    /\ tries' = tries + 1
    /\ pc' = IF tries' > MaxTries THEN "dead" ELSE "idle"
    /\ result' = "error" /\ sent' = {}
    /\ UNCHANGED <<state, desired, before, delta, left, leaked>>

\* IncreaseSize returns the error, or log.Fatalf ends the process.
SweepDone ==
    /\ pc = "sweep" /\ left = {}
    /\ tries' = tries + 1
    /\ pc' = IF tries' >= MaxTries THEN "dead" ELSE "idle"
    /\ result' = "error" /\ sent' = {}
    /\ UNCHANGED <<state, desired, before, delta, left, leaked>>

--------------------------------------------------------------------------------
(* The provider and the world.                                             *)

\* RunOnce builds a new provider after a failed Refresh: it counts its tries afresh.
Rebuild ==
    /\ pc = "idle" /\ tries' = 0
    /\ UNCHANGED <<pc, state, desired, before, delta, result, left, sent, leaked>>

\* The process dies and is started again; nothing remembers the fleet under way.
Restart ==
    /\ pc' = "idle" /\ result' = "none" /\ before' = desired /\ delta' = 0
    /\ leaked' = leaked \cup left \cup sent
    /\ left' = {} /\ sent' = {} /\ tries' = 0
    /\ UNCHANGED <<state, desired>>

Boot(i) ==
    /\ state[i] = "pending"
    /\ state' = [state EXCEPT ![i] = "running"]
    /\ UNCHANGED <<pc, desired, before, delta, result, left, sent, tries, leaked>>

\* EC2 takes an instance back before it is attached.
Reclaim(i) ==
    /\ state[i] \in {"pending", "running"}
    /\ state' = [state EXCEPT ![i] = "terminated"]
    /\ UNCHANGED <<pc, desired, before, delta, result, left, sent, tries, leaked>>

IncreaseStep ==
    \/ AllInstancesReady \/ Deadline \/ SweepDone
    \/ \E B \in SUBSET left : Attach(B) \/ AttachFails(B) \/ TerminateInstances(B)

Next ==
    \/ IncreaseStep \/ Rebuild \/ Restart
    \/ \E n \in 1..AsgMax : CreateFleetFails(n) \/ \E S \in SUBSET Instance : CreateFleet(n, S)
    \/ \E i \in Instance : Boot(i) \/ Reclaim(i)

\* The main loop waits for IncreaseSize, which waits no longer than its deadline.
Spec == Init /\ [][Next]_vars /\ WF_vars(IncreaseStep)

--------------------------------------------------------------------------------
(* Properties.                                                             *)

\* No instance is paid for and forgotten: once IncreaseSize has returned or given up,
\* every instance of its fleet is in the group or terminated, unless a TerminateInstances
\* call that failed named it or the process died under it.
NoOrphans ==
    pc \in {"idle", "dead"} =>
        \A i \in Instance : state[i] \in {"pending", "running"} => i \in leaked

\* The caller locks for what IncreaseSize returned: nil means that the group has grown by
\* all of delta, an error that it has not, although batches may be attached already.
IncreaseIsExact ==
    /\ result = "nil" => desired = before + delta
    /\ result = "error" => before <= desired /\ desired < before + delta

\* IncreaseSize returns, or ends the process, whatever the instances do.
IncreaseReturns == pc \in {"wait", "attach", "sweep"} ~> pc \in {"idle", "dead"}
================================================================================
