------------------------------ MODULE ScalingLoop ------------------------------
(***************************************************************************)
(* The decision of Utilisation in a closed loop: nodes appear and leave as *)
(* the decision says, for any requests that stay the same, nodes of any    *)
(* size, and a group that may start with no node at all.                   *)
(***************************************************************************)
EXTENDS Utilisation

CONSTANTS MaxNodeCount,    \* bound on the nodes a group starts with
          MaxRequest,      \* bound on what its pods request of one resource
          MaxCapacity      \* bound on what a node offers of one resource

ASSUME LoopAssumption == {MaxNodeCount, MaxRequest, MaxCapacity} \subseteq Nat

VARIABLES
    request,    \* what the pods request, in total
    capacity,   \* what one node offers
    count,      \* untainted nodes
    known,      \* a node's capacity has been stored
    last        \* the delta of the last decision

vars == <<request, capacity, count, known, last>>

Init ==
    /\ request \in [Resources -> 0..MaxRequest]
    /\ capacity \in [Resources -> 1..MaxCapacity]
    /\ count \in 0..MaxNodeCount
    /\ known \in BOOLEAN
    /\ last = 0

Usage(n) == CalcPercentUsage(request, NodesCapacity(n, capacity), n)

\* Mutant: more nodes leave than there are.
Decide_Unclamped ==
    /\ known' = (known \/ count > 0)
    /\ \E d \in ThresholdDelta(count, Usage(count), request, IF known' THEN capacity ELSE Zero) :
          last' = d /\ count' = count + d
    /\ UNCHANGED <<request, capacity>>

\* One round of scaleNodeGroup: nodeCount 0 scales up from the stored capacity, if any.
Decide ==
    /\ known' = (known \/ count > 0)
    /\ \E d \in ThresholdDelta(count, Usage(count), request, IF known' THEN capacity ELSE Zero) :
          /\ last' = d
          /\ count' = Max({0, count + d})
    /\ UNCHANGED <<request, capacity>>

Spec == Init /\ [][Decide]_vars /\ WF_vars(Decide)

LoopTypeOK ==
    /\ request \in [Resources -> Nat] /\ capacity \in [Resources -> Nat]
    /\ count \in Nat /\ known \in BOOLEAN /\ last \in Int

\* calcScaleUpDelta adds enough: after a scale up the usage is not above the
\* threshold any more, unless the group grew from zero knowing no capacity.
ScaleUpSuffices ==
    [][last' > 0 /\ known' => ~Above(Usage(count'), ScaleUpThreshold)]_vars

\* It adds no more than it must, float64 rounding apart: two nodes less would
\* leave the usage above the threshold.
ScaleUpIsTight ==
    [][last' > 1 => Above(Usage(count' - 2), ScaleUpThreshold)]_vars

\* No flapping: the next pass does not undo a scale up in a group so large that one
\* node matters less than the gap between the thresholds, nor a scale down that
\* leaves enough nodes for a usage at the upper taint threshold.
NoFlapping ==
    [][/\ last > 0 /\ count * (ScaleUpThreshold - TaintUpper) >= ScaleUpThreshold => last' >= 0
       /\ last < 0 /\ count * ScaleUpThreshold >= (count - last) * TaintUpper => last' <= 0]_vars

\* Whatever the start, and from zero too, the group gets enough nodes again and again.
EnoughInTheEnd == []<>(~Above(Usage(count), ScaleUpThreshold))
================================================================================
