----------------------------- MODULE PodPlacement ------------------------------
(***************************************************************************)
(* What a pass knows of the pods: which of them it counts to its group     *)
(* (the filters of pkg/controller/node_group.go), what they request        *)
(* (pkg/k8s/scheduler), which of them starves and which node is empty      *)
(* (pkg/k8s/util.go), against a scheduler that places pods on nodes one by *)
(* one.                                                                    *)
(*                                                                         *)
(* A pass is one step here, its lists are up to date, and nodes come at    *)
(* once: what happens in between is NodeGroupController.  min_nodes is     *)
(* zero, and a tainted node's soft grace period ends at any time, its hard *)
(* one never.                                                              *)
(***************************************************************************)
EXTENDS Utilisation, SequencesExt

CONSTANTS
    Pod, Node,       \* names
    PodSpec,         \* what each pod asks for, and of what kind it is
    NodeLabels,      \* labels of the group's nodes
    GroupLabel,      \* label_key and label_value of the group
    DefaultGroup,    \* the group is named "default"
    NodeCapacity,    \* allocatable resources of a node
    ScaleOnStarve    \* scale_on_starve

Quantity == [Resources -> Nat]

ASSUME PlacementAssumption ==
    /\ GroupLabel \in NodeLabels /\ NodeCapacity \in Quantity
    /\ {DefaultGroup, ScaleOnStarve} \subseteq BOOLEAN
    /\ PodSpec \in [Pod -> [kind : {"normal", "daemonset", "static"},
                           selector : SUBSET STRING, affinity : SUBSET STRING,
                           containers : Seq(Quantity), initContainers : Seq(Quantity),
                           overhead : Quantity]]

VARIABLES
    phase,      \* "none", "pending", "creating" (bound, still Pending) or "running"
    place,      \* the node a pod is bound to, or none: a set
    nodes,      \* the group's nodes
    tainted,    \* those that are tainted
    known       \* a node's capacity has been stored

vars == <<phase, place, nodes, tainted, known>>

PlacementTypeOK ==
    /\ phase \in [Pod -> {"none", "pending", "creating", "running"}]
    /\ place \in [Pod -> {{}} \cup {{n} : n \in Node}]
    /\ nodes \subseteq Node /\ tainted \subseteq nodes
    /\ known \in BOOLEAN

Init ==
    /\ phase = [p \in Pod |-> "none"] /\ place = [p \in Pod |-> {}]
    /\ nodes = {} /\ tainted = {} /\ known = FALSE

--------------------------------------------------------------------------------
(* Requests.                                                               *)

Add(a, b) == [r \in Resources |-> a[r] + b[r]]

\* Mutant: the overhead is forgotten.
ComputePodResourceRequest_NoOverhead(p) ==
    LET sum == FoldLeft(Add, Zero, PodSpec[p].containers)
        setMax(a, b) == [r \in Resources |-> Max({a[r], b[r]})]
    IN  FoldLeft(setMax, sum, PodSpec[p].initContainers)

\* Containers run together, init containers one by one before them.
ComputePodResourceRequest(p) ==
    LET sum == FoldLeft(Add, Zero, PodSpec[p].containers)
        setMax(a, b) == [r \in Resources |-> Max({a[r], b[r]})]
    IN  Add(FoldLeft(setMax, sum, PodSpec[p].initContainers), PodSpec[p].overhead)

\* What a set of pods requests together (CalculatePodsRequestedUsage).
TotalRequest ==
    [pods \in SUBSET Pod |->
       [r \in Resources |-> MapThenSumSet(LAMBDA p : ComputePodResourceRequest(p)[r], pods)]]

\* A sum of naturals: no pod gives room back.
ASSUME RequestAssumption == TotalRequest \in [SUBSET Pod -> Quantity]

Request(p) == TotalRequest[{p}]

--------------------------------------------------------------------------------
(* Which pods a group counts.                                              *)

\* NewPodAffinityFilterFunc: a static pod is not left out, and the terms of an affinity
\* are all alternatives.
PodAffinityFilter(p) ==
    /\ PodSpec[p].kind # "daemonset"
    /\ GroupLabel \in PodSpec[p].selector \cup PodSpec[p].affinity

\* NewPodDefaultFilterFunc
PodDefaultFilter(p) ==
    /\ PodSpec[p].kind = "normal"
    /\ PodSpec[p].selector = {} /\ PodSpec[p].affinity = {}

\* NewClient gives the group named "default" the filter of that name.
PodFilter(p) == IF DefaultGroup THEN PodDefaultFilter(p) ELSE PodAffinityFilter(p)

\* What the group's pod lister gives: pods that have neither succeeded nor failed.
ListedPods == {p \in Pod : phase[p] # "none" /\ PodFilter(p)}

\* Mutant: only running pods count, not those that have just been bound.
NodeEmpty_RunningOnly(n) == \A p \in ListedPods : phase[p] = "running" => place[p] # {n}

NodeEmpty(n) == \A p \in ListedPods : place[p] # {n}

--------------------------------------------------------------------------------
(* Starvation.                                                             *)

UntaintedNodes == nodes \ tainted

\* A bound pod of phase Pending is among them.
LargestPending(r) ==
    Max({0} \cup {Request(p)[r] :
                    p \in {q \in ListedPods : phase[q] \in {"pending", "creating"}}})

\* isPodUsingNodeResources: bound, and Pending or Running.
NodeAvailable(n) ==
    LET used == TotalRequest[{p \in ListedPods : place[p] = {n}}]
    IN  [r \in Resources |-> NodeCapacity[r] - used[r]]

LargestAvailable(r) == Max({0} \cup {NodeAvailable(n)[r] : n \in UntaintedNodes})

IsScaleOnStarve ==
    /\ ScaleOnStarve
    /\ \E r \in Resources : LargestPending(r) > LargestAvailable(r)
    /\ UntaintedNodes # Node

--------------------------------------------------------------------------------
(* A pass.                                                                 *)

Deltas ==
    LET count == Cardinality(UntaintedNodes)
        request == TotalRequest[ListedPods]
        percent == CalcPercentUsage(request, NodesCapacity(count, NodeCapacity), count)
        cached == IF known \/ nodes # {} THEN NodeCapacity ELSE Zero
    IN  {IF IsScaleOnStarve THEN Max({d, 1}) ELSE d :
           d \in ThresholdDelta(count, percent, request, cached)}

\* The pods of nodes that go are killed.
KillPodsOn(gone) ==
    LET killed == {p \in Pod : \E n \in gone : place[p] = {n}}
    IN  /\ phase' = [p \in Pod |-> IF p \in killed THEN "none" ELSE phase[p]]
        /\ place' = [p \in Pod |-> IF p \in killed THEN {} ELSE place[p]]

AtMost(k, S) == {T \in SUBSET S : Cardinality(T) = Min({k, Cardinality(S)})}

\* The capacity of a node is stored; without nodes and pods nothing else is done.
Looking == (nodes # {} \/ ListedPods # {}) /\ known' = (known \/ nodes # {})

\* Tainted nodes are untainted first, the rest is new, up to the maximum.
ScaleUp ==
    /\ Looking
    /\ \E delta \in Deltas :
         /\ delta > 0
         /\ \E back \in AtMost(delta, tainted) :
              \E new \in AtMost(delta - Cardinality(back), Node \ nodes) :
                 nodes' = nodes \cup new /\ tainted' = tainted \ back
    /\ UNCHANGED <<phase, place>>

\* Mutant: a removed node keeps its taint.
ScaleDown_KeepsTaint ==
    /\ Looking
    /\ \E delta \in Deltas :
         /\ delta <= 0
         /\ \E gone \in SUBSET {n \in tainted : NodeEmpty(n)} :
              \E out \in AtMost(-delta, UntaintedNodes) :
                 nodes' = nodes \ gone /\ tainted' = tainted \cup out /\ KillPodsOn(gone)

\* Nodes whose grace period is over are reaped if they are empty, then others are tainted.
ScaleDown ==
    /\ Looking
    /\ \E delta \in Deltas :
         /\ delta <= 0
         /\ \E gone \in SUBSET {n \in tainted : NodeEmpty(n)} :
              \E out \in AtMost(-delta, UntaintedNodes) :
                 /\ nodes' = nodes \ gone
                 /\ tainted' = (tainted \ gone) \cup out
                 /\ KillPodsOn(gone)

--------------------------------------------------------------------------------
(* Pods and the scheduler.                                                 *)

Submit(p) ==
    /\ phase[p] = "none"
    /\ phase' = [phase EXCEPT ![p] = "pending"]
    /\ UNCHANGED <<place, nodes, tainted, known>>

\* What the scheduler keeps free for a pod: its containers run together, each init
\* container runs alone before them.
Peak(p, r) ==
    LET spec == PodSpec[p]
        together == MapThenSumSet(LAMBDA i : spec.containers[i][r], DOMAIN spec.containers)
        alone == {spec.initContainers[i][r] : i \in DOMAIN spec.initContainers}
    IN  spec.overhead[r] + Max({together} \cup alone)

\* The sets of pods that fit on a node.
Fitting ==
    {pods \in SUBSET Pod :
       \A r \in Resources : MapThenSumSet(LAMBDA p : Peak(p, r), pods) <= NodeCapacity[r]}

Fits(p, n) == {q \in Pod : place[q] = {n}} \cup {p} \in Fitting

\* The labels a pod names let it onto the nodes of the group.
Admitted(p) ==
    /\ PodSpec[p].selector \subseteq NodeLabels
    /\ PodSpec[p].affinity = {} \/ PodSpec[p].affinity \cap NodeLabels # {}

\* A pod that names labels goes where they are; a daemonset's pod ignores the taint.
MayRunOn(p, n) ==
    /\ Admitted(p)
    /\ n \in nodes /\ (n \in tainted => PodSpec[p].kind = "daemonset")

Bind(p) ==
    /\ phase[p] = "pending"
    /\ \E n \in Node :
         /\ MayRunOn(p, n) /\ Fits(p, n)
         /\ place' = [place EXCEPT ![p] = {n}]
    /\ phase' = [phase EXCEPT ![p] = "creating"]
    /\ UNCHANGED <<nodes, tainted, known>>

Run(p) ==
    /\ phase[p] = "creating"
    /\ phase' = [phase EXCEPT ![p] = "running"]
    /\ UNCHANGED <<place, nodes, tainted, known>>

Finish(p) ==
    /\ phase[p] = "running"
    /\ phase' = [phase EXCEPT ![p] = "none"] /\ place' = [place EXCEPT ![p] = {}]
    /\ UNCHANGED <<nodes, tainted, known>>

Pass == ScaleUp \/ ScaleDown

Next == Pass \/ \E p \in Pod : Submit(p) \/ Bind(p) \/ Run(p) \/ Finish(p)

\* Passes follow one another.  A node is there for a scan interval at least, long enough
\* for the scheduler to find it: a pod that can be bound again and again is bound.
Spec == Init /\ [][Next]_vars /\ WF_vars(Pass) /\ \A p \in Pod : SF_vars(Bind(p))

--------------------------------------------------------------------------------
(* Properties.                                                             *)

\* Every pod that may land on the group's nodes, daemonsets' and static pods apart, is one
\* the group's filter lists: it names the group by its label, or the group is "default" and
\* it names none.  The code leaves this to whoever labels pods and nodes.
PodsAreListed ==
    \A p \in Pod : PodSpec[p].kind = "normal" /\ Admitted(p) => PodFilter(p)

\* A node is removed before its hard grace period only when it is empty: no pod but a
\* daemonset's or a static one is on it, of whatever labels.
RemovedNodeIsEmpty ==
    [][\A p \in Pod : PodSpec[p].kind = "normal" /\ phase[p] # "none" =>
         \A n \in nodes \ nodes' : place[p] # {n}]_vars

\* No pod of the group waits forever: with scale_on_starve a pod that no node has room for
\* gets one, although the usage of the group alone would not ask for a node.
PendingPodIsPlaced ==
    \A p \in Pod :
        PodFilter(p) => (phase[p] = "pending" ~> phase[p] # "pending")
================================================================================
