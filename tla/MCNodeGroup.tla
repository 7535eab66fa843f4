------------------------------ MODULE MCNodeGroup ------------------------------
(***************************************************************************)
(* Values for the model checker: nodes of ten units, and the nodes of the  *)
(* start and the names to come, each permutable among themselves.          *)
(***************************************************************************)
EXTENDS NodeGroupController, TLC

MCNodeCapacity == [cpu |-> 10, mem |-> 10]

\* An empty group, one that fills most of a node and one that needs two nodes.
MCDemands == {Zero, [cpu |-> 6, mem |-> 3], [cpu |-> 4, mem |-> 12]}

\* Load that goes away or needs two nodes.
MCOnOffDemand == {Zero, [cpu |-> 4, mem |-> 12]}

Interchangeable == {p \in Permutations(Node) : \A n \in Node : n \in InitialNodes <=> p[n] \in InitialNodes}
================================================================================
