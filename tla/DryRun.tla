--------------------------------- MODULE DryRun --------------------------------
(***************************************************************************)
(* A node group in dry mode (pkg/controller): the names in taintTracker    *)
(* stand for the taints, nothing is terminated, and no node is asked for.  *)
(* The tracker is a list that only loses the first entry of a name, so it  *)
(* is a bag here.  A pass makes no call once it has its list of nodes, and *)
(* is one step.                                                            *)
(***************************************************************************)
EXTENDS Integers, FiniteSetsExt, Bags

CONSTANTS
    Node,          \* names of nodes
    MinNodes,      \* min_nodes
    AsgMax,        \* MaxSize of the auto scaling group
    MaxRate,       \* how many nodes a pass adds or removes at most
    MaxTracked     \* bound: how many names the tracker holds

VARIABLES
    nodes,         \* the nodes of the group
    unhealthy,     \* those that are not ready for longer than the grace period
    taintTracker,  \* the names that count as tainted
    locked         \* the scale lock holds

vars == <<nodes, unhealthy, taintTracker, locked>>

Init ==
    /\ nodes = {} /\ unhealthy = {}
    /\ taintTracker = EmptyBag /\ locked = FALSE

\* filterNodes in dry mode: cordons and real taints are not looked at.
Tainted(tracker) == {n \in nodes : BagIn(n, tracker)}

Untainted(tracker) == nodes \ Tainted(tracker)

\* Some k nodes of S, or all of them: which are the oldest or newest is left open.
Some(k, S) == {T \in SUBSET S : Cardinality(T) = Min({k, Cardinality(S)})}

--------------------------------------------------------------------------------
(* A pass.                                                                 *)

\* taintInstances appends a name for every unhealthy node, in every pass.
Tracked == taintTracker (+) SetToBag(unhealthy)

\* The pass ends after tainting unhealthy nodes: with too few nodes, under the scale lock,
\* or with a delta of zero, because nothing is reaped.
Rest ==
    /\ Cardinality(nodes) < MinNodes \/ Cardinality(Untainted(Tracked)) >= MinNodes
    /\ taintTracker' = Tracked
    /\ UNCHANGED <<nodes, unhealthy, locked>>

\* untaintNewestN drops one entry of a name and counts its node as untainted; the lock is
\* taken for the nodes that would be asked for.
ScaleUp(delta) ==
    /\ Cardinality(nodes) >= MinNodes
    /\ \E S \in Some(delta, Tainted(Tracked) \ unhealthy) :
         /\ taintTracker' = Tracked (-) SetToBag(S)
         /\ locked' = (locked \/ Min({delta - Cardinality(S), AsgMax - Cardinality(nodes)}) > 0)
    /\ UNCHANGED <<nodes, unhealthy>>

\* A group below its minimum is brought back to it, locked or not.
ScaleUpToMin ==
    LET missing == MinNodes - Cardinality(Untainted(Tracked))
    IN  missing > 0 /\ ScaleUp(missing)

ScaleUpBy(delta) ==
    /\ ~locked /\ Cardinality(Untainted(Tracked)) >= MinNodes
    /\ ScaleUp(delta)

\* scaleDownTaint, down to min_nodes; the size of the auto scaling group may allow less,
\* which is a smaller delta.
ScaleDown(delta) ==
    /\ ~locked /\ Cardinality(Untainted(Tracked)) >= MinNodes
    /\ \E S \in Some(Min({delta, Cardinality(Untainted(Tracked)) - MinNodes}), Untainted(Tracked)) :
         taintTracker' = Tracked (+) SetToBag(S)
    /\ UNCHANGED <<nodes, unhealthy, locked>>

Pass == Rest \/ ScaleUpToMin \/ \E delta \in 1..MaxRate : ScaleUpBy(delta) \/ ScaleDown(delta)

--------------------------------------------------------------------------------
(* The world.                                                              *)

HealthChanges(n) ==
    /\ n \in nodes
    /\ unhealthy' = (unhealthy \ {n}) \cup ({n} \ unhealthy)
    /\ UNCHANGED <<nodes, taintTracker, locked>>

\* The names of nodes that leave stay in the tracker.
NodesChange(n) ==
    /\ nodes' = (nodes \ {n}) \cup ({n} \ nodes) /\ unhealthy' = unhealthy \ {n}
    /\ UNCHANGED <<taintTracker, locked>>

CoolDownEnds == locked /\ locked' = FALSE /\ UNCHANGED <<nodes, unhealthy, taintTracker>>

Next ==
    \/ Pass /\ BagCardinality(taintTracker') <= MaxTracked
    \/ CoolDownEnds \/ \E n \in Node : HealthChanges(n) \/ NodesChange(n)

Spec == Init /\ [][Next]_vars

--------------------------------------------------------------------------------
(* Property.                                                               *)

\* A dry run logs what would be done: a node it untaints counts as untainted in the next
\* pass, as it would with a real taint, which a node has at most once.
UntaintedNodeIsUntainted ==
    [][\A n \in nodes \ unhealthy : CopiesIn(n, taintTracker') < CopiesIn(n, taintTracker) =>
         ~BagIn(n, taintTracker')]_vars
================================================================================
