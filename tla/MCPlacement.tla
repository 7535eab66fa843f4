------------------------------ MODULE MCPlacement ------------------------------
(***************************************************************************)
(* Values for the model checker: three pods that need the same room, each  *)
(* for another reason, and pods of different shapes.                       *)
(***************************************************************************)
EXTENDS PodPlacement

CONSTANTS a, b, c

Size(cpu, mem) == [cpu |-> cpu, mem |-> mem]

Plain(kind, selector, affinity, size) ==
    [kind |-> kind, selector |-> selector, affinity |-> affinity,
     containers |-> <<size>>, initContainers |-> <<>>, overhead |-> Zero]

MCNodeCapacity == Size(10, 10)

\* Every pod needs six units.
MCEvenPods ==
    [p \in Pod |->
       CASE p = a -> [Plain("normal", {"group"}, {}, Zero) EXCEPT
                        !.containers = <<Size(3, 2), Size(2, 2)>>,
                        !.initContainers = <<Size(1, 5), Size(2, 3)>>, !.overhead = Size(1, 1)]
         [] p = b -> [Plain("normal", {}, {"group", "other"}, Size(2, 4)) EXCEPT
                        !.overhead = Size(4, 2)]
         [] OTHER -> Plain("normal", {"group"}, {}, Size(6, 6))]

\* Pods that name no node: one needs much CPU, one much memory, one half of both.
MCUnevenPods ==
    [p \in Pod |->
       CASE p = a -> Plain("normal", {}, {}, Size(6, 1))
         [] p = b -> Plain("normal", {}, {}, Size(1, 6))
         [] OTHER -> Plain("normal", {}, {}, Size(5, 5))]

\* The pods of both are pods the group lists, as RemovedNodeIsEmpty demands.
ASSUME MCPodsAreListed == PodsAreListed
================================================================================
