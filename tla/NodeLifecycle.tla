----------------------------- MODULE NodeLifecycle -----------------------------
(***************************************************************************)
(* What Escalator promises about the life of a node, without passes,       *)
(* lists, informers or API calls: a node serves, is drained, may be        *)
(* recalled, and is retired only when its grace periods are over.  Time,   *)
(* pods and the size of the group are what they are at that very moment.   *)
(* NodeGroupController implements this specification.                      *)
(***************************************************************************)
EXTENDS Integers, FiniteSets

CONSTANTS
    Node, InitialNodes,     \* all nodes, and the ones of the start
    MaxSize,                \* maximum of the auto scaling group
    SoftGrace, HardGrace,   \* grace periods, without and with pods on the node
    SchedulerLag            \* how long a pod may still come to a draining node

VARIABLES
    clock,
    phase,      \* "future", "serving", "draining" or "gone"
    since,      \* since when a node is drained
    loaded,     \* nodes with a pod on them
    ordered,    \* nodes an operator has ordered away
    size        \* the size Escalator has asked for

vars == <<clock, phase, since, loaded, ordered, size>>

Init ==
    /\ clock = 0
    /\ phase = [n \in Node |-> IF n \in InitialNodes THEN "serving" ELSE "future"]
    /\ since = [n \in Node |-> 0]
    /\ loaded = {} /\ ordered = {}
    /\ size = Cardinality(InitialNodes)

Pass ==
    /\ clock' = clock + 1
    /\ UNCHANGED <<phase, since, loaded, ordered, size>>

Join(n) ==
    /\ phase[n] = "future"
    /\ phase' = [phase EXCEPT ![n] = "serving"]
    /\ UNCHANGED <<clock, since, loaded, ordered, size>>

\* Tainting a node again does not restart its grace periods.
Drain(n) ==
    /\ phase[n] = "serving"
    /\ phase' = [phase EXCEPT ![n] = "draining"]
    /\ since' = [since EXCEPT ![n] = clock]
    /\ UNCHANGED <<clock, loaded, ordered, size>>

Recall(n) ==
    /\ phase[n] = "draining"
    /\ phase' = [phase EXCEPT ![n] = "serving"]
    /\ since' = [since EXCEPT ![n] = 0]
    /\ UNCHANGED <<clock, loaded, ordered, size>>

\* The node leaves, and what ran on it is killed.
Leave(n) ==
    /\ phase' = [phase EXCEPT ![n] = "gone"]
    /\ since' = [since EXCEPT ![n] = 0]
    /\ loaded' = loaded \ {n} /\ ordered' = ordered \ {n}
    /\ UNCHANGED clock

\* The reaper: the soft grace period is over, and the hard one where pods still run.
Retire(n) ==
    /\ phase[n] = "draining"
    /\ clock - since[n] > SoftGrace
    /\ n \in loaded => clock - since[n] > HardGrace
    /\ Leave(n) /\ size' = size - 1

\* Removal on the order of an operator: no grace period.
Dismiss(n) ==
    /\ n \in ordered /\ Leave(n) /\ size' = size - 1

\* The cloud loses the instance, and will replace it.
Lose(n) ==
    /\ phase[n] \in {"serving", "draining"} /\ Leave(n) /\ UNCHANGED size

Order(n) ==
    /\ phase[n] \in {"serving", "draining"}
    /\ ordered' = ordered \cup {n}
    /\ UNCHANGED <<clock, phase, since, loaded, size>>

PodComes(n) ==
    /\ \/ phase[n] = "serving"
       \/ phase[n] = "draining" /\ clock <= since[n] + SchedulerLag
    /\ loaded' = loaded \cup {n}
    /\ UNCHANGED <<clock, phase, since, ordered, size>>

PodsLeave(n) ==
    /\ loaded' = loaded \ {n}
    /\ UNCHANGED <<clock, phase, since, ordered, size>>

Grow ==
    /\ \E larger \in size + 1..MaxSize : size' = larger
    /\ UNCHANGED <<clock, phase, since, loaded, ordered>>

Next ==
    \/ Pass \/ Grow
    \/ \E n \in Node :
         \/ Join(n) \/ Drain(n) \/ Recall(n) \/ Retire(n) \/ Dismiss(n) \/ Lose(n)
         \/ Order(n) \/ PodComes(n) \/ PodsLeave(n)

Spec == Init /\ [][Next]_vars
================================================================================
