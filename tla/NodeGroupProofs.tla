---------------------------- MODULE NodeGroupProofs ----------------------------
(***************************************************************************)
(* Proofs about NodeGroupController, for every value of its constants:     *)
(* the types of its state, and the safety of the reaper.                   *)
(***************************************************************************)
EXTENDS NodeGroupController, UtilisationProofs, FiniteSetTheorems

(***************************************************************************)
(* Facts about the operators the decision is made of.                      *)
(***************************************************************************)

\* A set of nodes has a size.
LEMMA NodeCount ==
    ASSUME NEW S \in SUBSET Node
    PROVE  IsFiniteSet(S) /\ Cardinality(S) \in Nat
BY ClusterAssumption, FS_Subset, FS_CardinalityType

\* A pass aims for a whole number of nodes.
LEMMA DeltaIsInt ==
    ASSUME NEW demand \in [Resources -> Nat], NEW starved \in BOOLEAN, view \in NodeObjects
    PROVE  NodesDelta(demand, starved) \subseteq Int
<1> DEFINE count == Cardinality(UntaintedNodes(view))
           percent == CalcPercentUsage(demand, NodesCapacity(count, NodeCapacity), count)
           cached == IF known THEN NodeCapacity ELSE Zero
<1>1. count \in Nat
  <2>1. UntaintedNodes(view) \in SUBSET Node
    BY DEF UntaintedNodes, NodeObjects
  <2> QED  BY <2>1, NodeCount
<1>2. percent = UsageOf(demand, NodeCapacity, count) /\ cached \in {NodeCapacity, Zero}
  BY DEF UsageOf
<1>3. SizesOK(demand, NodeCapacity)
  BY OptionsAssumption DEF SizesOK
<1> HIDE DEF count, percent, cached
<1>4. ThresholdDelta(count, percent, demand, cached) \subseteq Int
  BY <1>1, <1>2, <1>3, Decision
<1>5. ASSUME NEW d \in Int PROVE Max({d, 1}) \in Int /\ Min({d, MaxNodes - count}) \in Int
  <2> 1 \in Int
    OBVIOUS
  <2>1. Max({d, 1}) \in Int
    BY MaxOfTwo
  <2>2. MaxNodes - count \in Int
    BY <1>1, OptionsAssumption
  <2> QED  BY <2>1, <2>2, MinOfTwo
<1> QED  BY <1>4, <1>5 DEF NodesDelta, count, percent, cached

(***************************************************************************)
(* Type correctness.                                                       *)
(***************************************************************************)

\* The first state has the right types: a group of registered nodes and an idle loop.
LEMMA InitTypeOK == Init => TypeOK
<1> SUFFICES ASSUME Init PROVE TypeOK
  OBVIOUS
<1> USE ClusterAssumption, OptionsAssumption DEF Init, ClusterInit
<1>1. NoNodes \in NodeObjects
  BY DEF NoNodes, NodeObjects
<1>2. api \in NodeObjects
  BY DEF NoNodes, NodeObjects
<1>3. Cardinality(InitialNodes) \in Int
  BY NodeCount
<1>4. ClusterTypeOK
  BY <1>2, <1>3 DEF ClusterTypeOK
<1>5. lockTime \in Int
  BY DEF NeverLocked
<1>6. asgView \in [desired: Int, instances: SUBSET Node] /\ delta \in Int /\ viewTime \in Nat /\ nextScan \in Nat
  BY DEF NoGroup
<1>7. known \in BOOLEAN /\ view \in NodeObjects /\ viewPods \in SUBSET Node /\ todo \in SUBSET Node
      /\ batch \in SUBSET Node /\ pc \in PassStates \cup {"idle"}
  BY <1>1, Zenon
<1> QED  BY <1>4, <1>5, <1>6, <1>7, Zenon DEF TypeOK

\* The end of a pass, common to many of its steps, leaves the pass's variables well typed.
LEMMA EndPassType ==
    ASSUME EndPass
    PROVE  /\ pc' = "idle" /\ view' \in NodeObjects /\ viewPods' \in SUBSET Node /\ viewTime' \in Nat
           /\ asgView' \in [desired: Int, instances: SUBSET Node]
           /\ delta' \in Int /\ todo' \in SUBSET Node /\ batch' \in SUBSET Node
BY DEF EndPass, NoNodes, NodeObjects, NoGroup

\* What happens in the cluster keeps the cluster's types.
LEMMA EnvironmentType == TypeOK /\ Environment => TypeOK'
<1> SUFFICES ASSUME TypeOK, Environment PROVE TypeOK'
  OBVIOUS
<1> USE DEF TypeOK, ClusterTypeOK, worldVars, cacheVars
<1>1. UNCHANGED controllerVars
  BY DEF Environment
<1>2. SUFFICES ClusterTypeOK'
  BY <1>1 DEF controllerVars, passVars
<1>3. CASE SyncNodes
  BY <1>3 DEF SyncNodes
<1>4. CASE SyncPods
  BY <1>4 DEF SyncPods
<1>5. ASSUME NEW n \in Node, NodeEvent(n) PROVE ClusterTypeOK'
  <2>1. CASE BindPod(n)
    BY <2>1 DEF BindPod
  <2>2. CASE PodsDone(n)
    BY <2>2 DEF PodsDone
  <2>3. CASE Launch(n)
    BY <2>3 DEF Launch
  <2>4. CASE Register(n)
    BY <2>4 DEF Register, NodeObjects
  <2>5. CASE InstanceLost(n)
    BY <2>5, ClusterAssumption DEF InstanceLost, Upset
  <2>6. CASE NodeCleanup(n)
    BY <2>6 DEF NodeCleanup, DeleteNode, Without, NodeObjects
  <2>7. CASE Cordon(n)
    BY <2>7 DEF Cordon, Upset, NodeObjects
  <2>8. CASE ForceTaint(n)
    BY <2>8 DEF ForceTaint, Upset, NodeObjects
  <2>9. CASE Annotate(n)
    BY <2>9 DEF Annotate, Upset, NodeObjects
  <2>10. CASE ReadyChanges(n)
    BY <2>10 DEF ReadyChanges, Upset, NodeObjects
  <2> QED  BY <1>5, <2>1, <2>2, <2>3, <2>4, <2>5, <2>6, <2>7, <2>8, <2>9, <2>10 DEF NodeEvent
<1> QED  BY <1>3, <1>4, <1>5 DEF Environment

\* A step that leaves the cluster alone keeps its types.
LEMMA ClusterUnchanged == ClusterTypeOK /\ UNCHANGED clusterVars => ClusterTypeOK'
BY DEF ClusterTypeOK, clusterVars, worldVars, cacheVars

\* A listed set of nodes stays a set of nodes when it is filtered.
LEMMA FilteredNodes ==
    ASSUME view \in NodeObjects
    PROVE  /\ TaintedNodes(view) \in SUBSET Node /\ UntaintedNodes(view) \in SUBSET Node
           /\ ForceCandidates \in SUBSET Node
           /\ \A healthy : ReapCandidates(healthy) \in SUBSET Node
BY DEF NodeObjects, TaintedNodes, UntaintedNodes, ForceTaintedNodes, ForceCandidates, ReapCandidates

\* The steps that begin a pass, judge what it has listed and choose what to do.
LEMMA DecisionType ==
    ASSUME TypeOK,
           \/ Refresh \/ List \/ Judge \/ ScaleDownTaint \/ \E healthy \in BOOLEAN : Scale(healthy)
    PROVE  TypeOK'
<1> USE DEF TypeOK, PassStates
<1>1. ASSUME UNCHANGED clusterVars PROVE ClusterTypeOK'
  BY <1>1, ClusterUnchanged
<1>2. CASE Refresh
  <2>1. ClusterTypeOK'
    BY <1>1, <1>2 DEF Refresh, RegisterNodeGroups
  <2>2. asgView' \in [desired: Int, instances: SUBSET Node] /\ nextScan' \in Nat
    BY <1>2, OptionsAssumption DEF Refresh, RegisterNodeGroups, ClusterTypeOK
  <2> QED  BY <1>2, <2>1, <2>2 DEF Refresh, RegisterNodeGroups
<1>3. CASE List
  <2>1. ClusterTypeOK'
    BY <1>1, <1>3 DEF List
  <2>2. /\ view' \in NodeObjects /\ viewPods' \in SUBSET Node /\ viewTime' \in Nat
        /\ todo' \in SUBSET Node
    BY <1>3 DEF List, ClusterTypeOK, NodeObjects
  <2>3. known' \in BOOLEAN
    BY <1>3, Zenon DEF List
  <2>4. pc' \in PassStates \cup {"idle"}
    BY <1>3 DEF List
  <2> QED  BY <1>3, <2>1, <2>2, <2>3, <2>4, Zenon DEF List
<1>4. ASSUME NEW demand \in Demands, NothingToDo(demand) PROVE TypeOK'
  BY <1>1, <1>4, EndPassType DEF NothingToDo
<1>5. ASSUME NEW demand \in Demands, RefuseTooFewNodes(demand) PROVE TypeOK'
  BY <1>1, <1>5, EndPassType DEF RefuseTooFewNodes
<1>6. ASSUME NEW demand \in Demands, WaitForScale(demand) PROVE TypeOK'
  BY <1>1, <1>6, EndPassType DEF WaitForScale
<1>7. ASSUME NEW demand \in Demands, ScaleUpToMin(demand) PROVE TypeOK'
  <2>1. MinNodes - Cardinality(UntaintedNodes(view)) \in Int
    BY FilteredNodes, NodeCount, OptionsAssumption
  <2> QED  BY <1>1, <1>7, <2>1, FilteredNodes DEF ScaleUpToMin, BeginScaleUp, listing
<1>8. ASSUME NEW demand \in Demands, NEW starved \in BOOLEAN, Decide(demand, starved) PROVE TypeOK'
  <2>1. delta' \in Int
    BY <1>8, DeltaIsInt, OptionsAssumption DEF Decide
  <2> QED  BY <1>1, <1>8, <2>1, FilteredNodes DEF Decide, TryDeleteNodes, listing
<1>9. ASSUME NEW healthy \in BOOLEAN, Scale(healthy) PROVE TypeOK'
  <2>1. TaintedNodes(view) \in SUBSET Node /\ ReapCandidates(healthy) \in SUBSET Node
    BY FilteredNodes
  <2>2. CASE healthy /\ delta > 0
    BY <1>1, <1>9, <2>1, <2>2 DEF Scale, BeginScaleUp, listing
  <2>3. CASE ~(healthy /\ delta > 0)
    BY <1>1, <1>9, <2>1, <2>3 DEF Scale, TryDeleteNodes, listing
  <2> QED  BY <2>2, <2>3
<1>10. CASE ScaleDownTaint
  <2>1. Cardinality(UntaintedNodes(view)) \in Nat
    BY FilteredNodes, NodeCount
  <2>2. -NodesToTaint \in Int
    BY <2>1, OptionsAssumption DEF NodesToTaint
  <2> QED  BY <1>1, <1>10, <2>2, FilteredNodes DEF ScaleDownTaint, listing
<1> QED  BY <1>2, <1>3, <1>4, <1>5, <1>6, <1>7, <1>8, <1>9, <1>10 DEF Judge

\* The steps that call the API server or the cloud for one node.
LEMMA NodeStepType ==
    ASSUME TypeOK, NEW n \in Node, NodeStep(n)
    PROVE  TypeOK'
<1> USE DEF TypeOK, PassStates, listing
<1>1. ASSUME UNCHANGED clusterVars PROVE ClusterTypeOK'
  BY <1>1, ClusterUnchanged
<1>2. AfterRemoval \in PassStates
  BY DEF AfterRemoval
<1>3. ASSUME AddToBeRemovedTaint(n) \/ DeleteToBeRemovedTaint(n)
      PROVE  api' \in NodeObjects
  <2>1. api \in NodeObjects /\ now \in Nat
    BY DEF ClusterTypeOK
  <2>2. CASE AddToBeRemovedTaint(n)
    BY <2>1, <2>2 DEF AddToBeRemovedTaint, NodeObjects
  <2>3. CASE DeleteToBeRemovedTaint(n)
    BY <2>1, <2>3 DEF DeleteToBeRemovedTaint, NodeObjects
  <2> QED  BY <1>3, <2>2, <2>3
<1>4. CASE TaintUnhealthy(n)
  <2>1. ClusterTypeOK'
    BY <1>3, <1>4 DEF TaintUnhealthy, ClusterTypeOK, cacheVars
  <2> QED  BY <1>4, <2>1 DEF TaintUnhealthy
<1>5. CASE TerminateNode(n)
  <2>1. ClusterTypeOK'
    BY <1>5 DEF TerminateNode, TerminateInstance, ClusterTypeOK, cacheVars
  <2> QED  BY <1>5, <2>1 DEF TerminateNode
<1>6. CASE TerminateFails(n)
  BY <1>1, <1>2, <1>6 DEF TerminateFails
<1>7. CASE DeleteFromKubernetes(n)
  <2>1. ClusterTypeOK'
    BY <1>7 DEF DeleteFromKubernetes, DeleteNode, Without, NodeObjects, ClusterTypeOK, cacheVars
  <2> QED  BY <1>2, <1>7, <2>1 DEF DeleteFromKubernetes
<1>8. CASE DeleteFails(n)
  BY <1>1, <1>2, <1>8 DEF DeleteFails
<1>9. CASE TaintOldest(n)
  <2>1. ClusterTypeOK'
    BY <1>3, <1>9 DEF TaintOldest, ClusterTypeOK, cacheVars
  <2> QED  BY <1>9, <2>1 DEF TaintOldest
<1>10. CASE UntaintNewest(n)
  <2>1. ClusterTypeOK'
    BY <1>3, <1>10 DEF UntaintNewest, ClusterTypeOK, cacheVars
  <2> QED  BY <1>10, <2>1 DEF UntaintNewest
<1> QED  BY <1>4, <1>5, <1>6, <1>7, <1>8, <1>9, <1>10, NodeStep(n) DEF NodeStep

\* The steps that end a pass, the clock and a restart.
LEMMA EndingType ==
    ASSUME TypeOK,
           \/ ReapDone \/ TaintDone \/ UntaintDone \/ IncreaseSize \/ IncreaseFails
           \/ Restart \/ Clock
    PROVE  TypeOK'
<1> USE DEF TypeOK, PassStates
<1>1. ASSUME UNCHANGED clusterVars PROVE ClusterTypeOK'
  BY <1>1, ClusterUnchanged
<1>2. CASE ReapDone
  BY <1>1, <1>2, EndPassType DEF ReapDone
<1>3. CASE TaintDone
  BY <1>1, <1>3, EndPassType DEF TaintDone
<1>4. CASE UntaintDone
  <2>1. CASE delta = 0
    BY <1>1, <1>4, <2>1, EndPassType DEF UntaintDone
  <2>2. CASE delta # 0
    BY <1>1, <1>4, <2>2 DEF UntaintDone, listing
  <2> QED  BY <2>1, <2>2
<1>5. CASE IncreaseSize
  <2>1. NodesToAdd \in Int
    <3>1. delta \in Int /\ AsgMax - asgView.desired \in Int
      BY OptionsAssumption
    <3> QED  BY <3>1, MinOfTwo DEF NodesToAdd
  <2>2. ClusterTypeOK' /\ lockTime' \in Int
    BY <1>5, <2>1, ClusterAssumption
       DEF IncreaseSize, SetDesiredCapacity, ClusterTypeOK, cacheVars
  <2> QED  BY <1>5, <2>2, EndPassType DEF IncreaseSize
<1>6. CASE IncreaseFails
  BY <1>1, <1>6, EndPassType DEF IncreaseFails
<1>7. CASE Restart
  <2>1. ClusterTypeOK' /\ nextScan' \in Nat
    BY <1>7 DEF Restart, ClusterTypeOK, worldVars
  <2>2. lockTime' \in Int
    BY <1>7, OptionsAssumption DEF Restart, NeverLocked
  <2>3. known' \in BOOLEAN
    BY <1>7, Zenon DEF Restart
  <2>4. pc' \in PassStates \cup {"idle"}
    BY <1>7, EndPassType DEF Restart
  <2> QED  BY <1>7, <2>1, <2>2, <2>3, <2>4, EndPassType, Zenon DEF Restart
<1>8. CASE Clock
  <2>1. ClusterTypeOK'
    BY <1>8 DEF Clock, Tick, ClusterTypeOK, worldVars, cacheVars
  <2> QED  BY <1>8, <2>1 DEF Clock, controllerVars, passVars
<1> QED  BY <1>2, <1>3, <1>4, <1>5, <1>6, <1>7, <1>8

\* Every step keeps the types.
LEMMA StepType ==
    ASSUME TypeOK, [Next]_vars
    PROVE  TypeOK'
<1>1. CASE PassStep
  BY <1>1, DecisionType, NodeStepType, EndingType DEF PassStep
<1>2. CASE UNCHANGED vars
  BY <1>2, ClusterUnchanged DEF TypeOK, vars, controllerVars, passVars
<1> QED  BY <1>1, <1>2, EnvironmentType, DecisionType, EndingType DEF Next

\* Type correctness: no call, early return, failure or restart of scaleNodeGroup leaves
\* a variable of the model outside its type.
THEOREM TypeCorrect == Spec => []TypeOK
BY InitTypeOK, StepType, PTL DEF Spec

(***************************************************************************)
(* Why the reaper is safe, for every number of nodes and every value of    *)
(* the options that SafeTiming admits: DrainInv is inductive, and in a     *)
(* state that satisfies it a call to terminate a node finds the node still *)
(* tainted, and drained or past the hard grace period.                     *)
(***************************************************************************)

\* The times of SafeTiming, as the provers need them.
LEMMA TimesAreNat ==
    /\ SchedulerLag \in Nat /\ CacheLag \in Nat /\ CacheLag > 0
    /\ ScanInterval \in Nat /\ PassDuration \in Nat
    /\ SoftGrace \in Nat /\ HardGrace \in Nat /\ SoftGrace < HardGrace
BY ClusterAssumption, OptionsAssumption DEF ValidateNodeGroup

\* The first state: every copy of the Node objects is the API server's.
LEMMA InitDrain == Init => DrainInv
<1> SUFFICES ASSUME Init PROVE DrainInv
  OBVIOUS
<1> USE ClusterAssumption DEF Init, ClusterInit
<1>1. api.nodes = InitialNodes /\ api.tainted = {} /\ nodeCache = api
  BY DEF NoNodes
<1>2. ClockInv
  BY TimesAreNat DEF ClockInv
<1>3. NamesInv
  BY <1>1 DEF NamesInv, WellFormed, NoNodes
<1>4. CacheInv /\ ViewInv /\ PodsInv /\ ReapInv
  BY <1>1 DEF CacheInv, SameTaint, ViewInv, PodsInv, ReapInv
<1> QED  BY <1>2, <1>3, <1>4 DEF DrainInv

\* The end of a pass forgets what the pass has listed.
LEMMA EndPassDrain ==
    ASSUME TypeOK, DrainInv, EndPass,
           UNCHANGED <<now, api, busy, unused, booting, cacheVars, nextScan>>
    PROVE  DrainInv'
<1> USE DEF TypeOK, ClusterTypeOK, DrainInv, EndPass, cacheVars
<1>1. ClockInv'
  BY DEF ClockInv
<1>2. NamesInv'
  BY DEF NamesInv, WellFormed, NoNodes
<1>3. CacheInv'
  <2>1. CASE \A n \in Node : SameTaint(nodeCache, n)
    BY <2>1 DEF CacheInv, SameTaint
  <2>2. CASE nodeCacheTime + CacheLag < nextScan
    BY <2>2 DEF CacheInv
  <2> QED  BY <2>1, <2>2 DEF CacheInv
<1>4. ViewInv' /\ PodsInv' /\ ReapInv'
  BY DEF ViewInv, PodsInv, ReapInv
<1> QED  BY <1>1, <1>2, <1>3, <1>4

\* A step of the pass from one part of it to the next, with what it has listed.
LEMMA MovesOn ==
    ASSUME TypeOK, DrainInv,
           UNCHANGED <<now, api, busy, unused, booting, cacheVars, nextScan, view, viewPods, viewTime>>,
           pc \notin {"idle", "refreshed"}, pc' \notin {"idle", "refreshed"},
           pc \in {"untaint", "increase"} => pc' \in {"untaint", "increase"},
           ReapInv'
    PROVE  DrainInv'
<1> USE DEF TypeOK, ClusterTypeOK, DrainInv, cacheVars
<1>1. ClockInv'
  BY DEF ClockInv
<1>2. NamesInv'
  BY DEF NamesInv, WellFormed
<1>3. CacheInv'
  <2>1. CASE \A n \in Node : SameTaint(nodeCache, n)
    BY <2>1 DEF CacheInv, SameTaint
  <2>2. CASE pc \in {"untaint", "increase"} /\ nodeCacheTime + CacheLag < nextScan
    BY <2>2 DEF CacheInv
  <2> QED  BY <2>1, <2>2 DEF CacheInv
<1>4. ViewInv'
  BY DEF ViewInv, SameTaint
<1>5. PodsInv'
  BY DEF PodsInv
<1> QED  BY <1>1, <1>2, <1>3, <1>4, <1>5

\* A Node object goes, with its pods; names are not used again.
LEMMA DeletedNode ==
    ASSUME TypeOK, DrainInv, NEW n \in Node, DeleteNode(n),
           UNCHANGED <<now, unused, booting, cacheVars, nextScan, view, viewPods, viewTime>>,
           \/ pc' = pc
           \/ pc \notin {"idle", "refreshed", "untaint", "increase"}
                /\ pc' \notin {"idle", "refreshed", "untaint", "increase"},
           ReapInv'
    PROVE  DrainInv'
<1> USE DEF TypeOK, ClusterTypeOK, DrainInv, cacheVars
<1>1. /\ api'.nodes = api.nodes \ {n} /\ api'.tainted = api.tainted \ {n} /\ busy' = busy \ {n}
      /\ \A m \in Node \ {n} : api'.taintTime[m] = api.taintTime[m]
  BY DEF DeleteNode, Without, NodeObjects
<1>2. ClockInv'
  BY DEF ClockInv
<1>3. NamesInv'
  BY <1>1 DEF NamesInv, WellFormed
<1>4. ASSUME NEW m \in Node, SameTaint(nodeCache, m) PROVE SameTaint(nodeCache, m)'
  BY <1>1, <1>4 DEF SameTaint
<1>5. ASSUME NEW m \in Node, SameTaint(view, m) PROVE SameTaint(view, m)'
  BY <1>1, <1>5 DEF SameTaint
<1>6. CacheInv'
  BY <1>4 DEF CacheInv
<1>7. ViewInv'
  BY <1>5 DEF ViewInv
<1>8. PodsInv'
  BY <1>1 DEF PodsInv
<1> QED  BY <1>2, <1>3, <1>6, <1>7, <1>8

\* What happens in the cluster: an informer catches up, a pod is bound within the
\* scheduler's lag of a taint, a name is used that no copy knows.
LEMMA EnvironmentDrain ==
    ASSUME SafeTiming, TypeOK, DrainInv, Environment
    PROVE  DrainInv'
<1> USE TimesAreNat DEF TypeOK, ClusterTypeOK, DrainInv, worldVars, cacheVars
<1>1. UNCHANGED <<pc, nextScan, view, viewPods, viewTime, todo>>
  BY DEF Environment, controllerVars, passVars
<1>2. ASSUME now' = now PROVE ReapInv'
  BY <1>1, <1>2 DEF ReapInv, TaintAge
<1>3. CASE SyncNodes
  <2>1. ClockInv' /\ NamesInv' /\ CacheInv'
    BY <1>1, <1>3 DEF SyncNodes, ClockInv, NamesInv, WellFormed, CacheInv, SameTaint
  <2>2. ViewInv' /\ PodsInv'
    BY <1>1, <1>3 DEF SyncNodes, ViewInv, SameTaint, PodsInv
  <2> QED  BY <1>2, <1>3, <2>1, <2>2 DEF SyncNodes
<1>4. CASE SyncPods
  <2>1. ClockInv' /\ NamesInv' /\ CacheInv'
    BY <1>1, <1>4 DEF SyncPods, ClockInv, NamesInv, WellFormed, CacheInv, SameTaint
  <2>2. ViewInv' /\ PodsInv'
    BY <1>1, <1>4 DEF SyncPods, ViewInv, SameTaint, PodsInv
  <2> QED  BY <1>2, <1>4, <2>1, <2>2 DEF SyncPods
<1>5. ASSUME NEW n \in Node, NodeEvent(n) PROVE DrainInv'
  <2>1. /\ UNCHANGED <<now, nodeCache, nodeCacheTime, podCache, podCacheTime>>
        /\ ClockInv' /\ ReapInv'
    <3>1. UNCHANGED <<now, nodeCache, nodeCacheTime, podCache, podCacheTime>>
      BY <1>5 DEF NodeEvent, BindPod, PodsDone, Launch, Register, InstanceLost, NodeCleanup,
                  Cordon, ForceTaint, Annotate, ReadyChanges
    <3> QED  BY <1>1, <1>2, <3>1 DEF ClockInv
  <2>2. CASE BindPod(n)
    <3>1. UNCHANGED <<api, booting, unused>> /\ n \in api.nodes /\ busy' = busy \cup {n}
      BY <2>2 DEF BindPod
    <3>2. n \in api.tainted => now <= api.taintTime[n] + SchedulerLag
      BY <2>2 DEF BindPod, SafeTiming
    <3>3. NamesInv' /\ CacheInv' /\ ViewInv'
      BY <1>1, <2>1, <3>1 DEF NamesInv, WellFormed, CacheInv, ViewInv, SameTaint
    <3>4. n \in api.tainted => podCacheTime <= api.taintTime[n] + SchedulerLag
                               /\ viewTime <= api.taintTime[n] + SchedulerLag
      BY <3>2 DEF ClockInv, NodeObjects
    <3>5. PodsInv'
      BY <1>1, <2>1, <3>1, <3>4 DEF PodsInv
    <3> QED  BY <2>1, <3>3, <3>5
  <2>3. CASE PodsDone(n) \/ InstanceLost(n)
    <3>1. UNCHANGED <<api, booting, unused>> /\ busy' \subseteq busy
      BY <2>3 DEF PodsDone, InstanceLost
    <3>2. NamesInv' /\ CacheInv' /\ ViewInv'
      BY <1>1, <2>1, <3>1 DEF NamesInv, WellFormed, CacheInv, ViewInv, SameTaint
    <3>3. PodsInv'
      BY <1>1, <2>1, <3>1 DEF PodsInv
    <3> QED  BY <2>1, <3>2, <3>3
  <2>4. CASE Launch(n)
    <3>1. /\ UNCHANGED <<api, busy>>
          /\ n \in unused /\ unused' = unused \ {n} /\ booting' = booting \cup {n}
      BY <2>4 DEF Launch
    <3>2. NamesInv'
      BY <1>1, <2>1, <3>1 DEF NamesInv, WellFormed
    <3>3. CacheInv' /\ ViewInv' /\ PodsInv'
      BY <1>1, <2>1, <3>1 DEF CacheInv, ViewInv, SameTaint, PodsInv
    <3> QED  BY <2>1, <3>2, <3>3
  <2>5. CASE Register(n)
    <3>1. /\ api'.nodes = api.nodes \cup {n} /\ api'.tainted = api.tainted
          /\ api'.taintTime = api.taintTime
          /\ n \in booting /\ booting' = booting \ {n} /\ UNCHANGED <<busy, unused>>
      BY <2>5 DEF Register, NodeObjects
    <3>2. n \notin nodeCache.tainted /\ n \notin view.tainted /\ n \notin unused
      BY <3>1 DEF NamesInv, WellFormed
    <3>3. NamesInv'
      BY <1>1, <2>1, <3>1, <3>2 DEF NamesInv, WellFormed
    <3>4. CacheInv'
      BY <1>1, <2>1, <3>1, <3>2 DEF CacheInv, SameTaint
    <3>5. ViewInv'
      BY <1>1, <2>1, <3>1, <3>2 DEF ViewInv, SameTaint
    <3>6. PodsInv'
      BY <1>1, <2>1, <3>1 DEF PodsInv
    <3> QED  BY <2>1, <3>3, <3>4, <3>5, <3>6
  <2>6. CASE NodeCleanup(n)
    BY <1>1, <2>1, <2>6, DeletedNode DEF NodeCleanup
  <2>7. CASE Cordon(n) \/ ForceTaint(n) \/ Annotate(n) \/ ReadyChanges(n)
    <3>1. /\ api'.nodes = api.nodes /\ api'.tainted = api.tainted
          /\ api'.taintTime = api.taintTime /\ UNCHANGED <<busy, booting, unused>>
      BY <2>7 DEF Cordon, ForceTaint, Annotate, ReadyChanges, NodeObjects
    <3>2. NamesInv' /\ CacheInv' /\ ViewInv'
      BY <1>1, <2>1, <3>1 DEF NamesInv, WellFormed, CacheInv, ViewInv, SameTaint
    <3>3. PodsInv'
      BY <1>1, <2>1, <3>1 DEF PodsInv
    <3> QED  BY <2>1, <3>2, <3>3
  <2> QED  BY <1>5, <2>2, <2>3, <2>4, <2>5, <2>6, <2>7 DEF NodeEvent
<1> QED  BY <1>3, <1>4, <1>5 DEF Environment

\* The clock: it waits for the informers and for the end of the pass, and taints age.
LEMMA ClockDrain ==
    ASSUME TypeOK, DrainInv, Clock
    PROVE  DrainInv'
<1> USE TimesAreNat DEF TypeOK, ClusterTypeOK, DrainInv, worldVars, cacheVars
<1>1. /\ now' = now + 1
      /\ UNCHANGED <<api, busy, unused, booting, nodeCache, nodeCacheTime, podCache, podCacheTime,
                     pc, nextScan, view, viewPods, viewTime, todo>>
  BY DEF Clock, Tick, controllerVars, passVars
<1>2. ClockInv'
  BY <1>1 DEF ClockInv, Clock, Tick
<1>3. NamesInv' /\ CacheInv' /\ ViewInv' /\ PodsInv'
  BY <1>1 DEF NamesInv, WellFormed, CacheInv, ViewInv, SameTaint, PodsInv
<1>4. ASSUME NEW n \in Node PROVE TaintAge(n)' = TaintAge(n) + 1
  BY <1>1 DEF TaintAge, NodeObjects
<1>5. ReapInv'
  <2> SUFFICES ASSUME pc = "reapTerminate", NEW n \in todo
               PROVE  /\ n \in view.tainted /\ TaintAge(n)' > SoftGrace
                      /\ n \notin viewPods \/ TaintAge(n)' > HardGrace
    BY <1>1 DEF ReapInv
  <2>1. TaintAge(n) \in Int
    BY DEF TaintAge, NodeObjects
  <2> QED  BY <1>4, <2>1 DEF ReapInv
<1> QED  BY <1>2, <1>3, <1>5

\* A new taint is on no copy, or the copy would not agree with the API server.
LEMMA AddTaintDrain ==
    ASSUME TypeOK, DrainInv, NEW n \in Node, AddToBeRemovedTaint(n), pc \in {"unhealthy", "taint"},
           UNCHANGED <<now, busy, unused, booting, cacheVars, pc, nextScan, view, viewPods, viewTime>>
    PROVE  DrainInv'
<1> USE TimesAreNat DEF TypeOK, ClusterTypeOK, DrainInv, cacheVars
<1>1. CASE n \in api.tainted
  <2>1. UNCHANGED api
    BY <1>1 DEF AddToBeRemovedTaint
  <2> QED  BY <2>1, MovesOn DEF ReapInv
<1>2. CASE n \notin api.tainted
  <2>1. /\ n \in api.nodes
        /\ api'.nodes = api.nodes /\ api'.tainted = api.tainted \cup {n}
        /\ api'.taintTime[n] = now
        /\ \A m \in Node \ {n} : api'.taintTime[m] = api.taintTime[m]
    BY <1>2 DEF AddToBeRemovedTaint, NodeObjects
  <2>2. ClockInv' /\ ReapInv'
    BY DEF ClockInv, ReapInv
  <2>3. NamesInv'
    BY <2>1 DEF NamesInv, WellFormed
  <2>4. CacheInv'
    <3>1. \A m \in Node : SameTaint(nodeCache, m)
      BY DEF CacheInv
    <3>2. \A m \in Node : SameTaint(nodeCache, m)'
      BY <1>2, <2>1, <3>1 DEF SameTaint
    <3> QED  BY <3>2 DEF CacheInv
  <2>5. ViewInv'
    <3>1. \A m \in Node : SameTaint(view, m)
      BY DEF ViewInv
    <3>2. \A m \in Node : SameTaint(view, m)'
      BY <1>2, <2>1, <3>1 DEF SameTaint
    <3> QED  BY <3>2 DEF ViewInv
  <2>6. PodsInv'
    <3>1. podCacheTime <= now + SchedulerLag /\ viewTime <= now + SchedulerLag
      BY DEF ClockInv
    <3> QED  BY <2>1, <3>1 DEF PodsInv
  <2> QED  BY <2>2, <2>3, <2>4, <2>5, <2>6
<1> QED  BY <1>1, <1>2

\* An untainted node makes the informer's copy wrong, and the informer will have
\* caught up by the next pass.
LEMMA UntaintDrain ==
    ASSUME SafeTiming, TypeOK, DrainInv, NEW n \in Node, UntaintNewest(n)
    PROVE  DrainInv'
<1> USE TimesAreNat DEF TypeOK, ClusterTypeOK, DrainInv, cacheVars
<1>1. /\ pc = "untaint"
      /\ UNCHANGED <<now, busy, unused, booting, nodeCache, nodeCacheTime, podCache, podCacheTime,
                     pc, nextScan, view, viewPods, viewTime>>
  BY DEF UntaintNewest, listing
<1>2. CASE UNCHANGED api
  BY <1>1, <1>2, MovesOn DEF ReapInv
<1>3. CASE DeleteToBeRemovedTaint(n)
  <2>1. /\ api'.nodes = api.nodes /\ api'.tainted = api.tainted \ {n}
        /\ \A m \in Node \ {n} : api'.taintTime[m] = api.taintTime[m]
    BY <1>3 DEF DeleteToBeRemovedTaint, NodeObjects
  <2>2. ClockInv' /\ ViewInv' /\ ReapInv'
    BY <1>1 DEF ClockInv, ViewInv, ReapInv
  <2>3. NamesInv'
    BY <1>1, <2>1 DEF NamesInv, WellFormed
  <2>4. nodeCacheTime + CacheLag < nextScan
    BY <1>1 DEF ClockInv, SafeTiming
  <2>5. CacheInv'
    BY <1>1, <2>4 DEF CacheInv
  <2>6. PodsInv'
    BY <1>1, <2>1 DEF PodsInv
  <2> QED  BY <2>2, <2>3, <2>5, <2>6
<1> QED  BY <1>2, <1>3 DEF UntaintNewest

\* A pass starts with an informer that has caught up with the pass before, and what
\* it lists is as good as the informer's copies.
LEMMA BeginDrain ==
    ASSUME TypeOK, DrainInv, Refresh \/ List
    PROVE  DrainInv'
<1> USE TimesAreNat DEF TypeOK, ClusterTypeOK, DrainInv, clusterVars, worldVars, cacheVars
<1>1. CASE Refresh
  <2>1. CacheInv'
    <3>1. ~(nodeCacheTime + CacheLag < nextScan)
      BY <1>1 DEF Refresh, RegisterNodeGroups, ClockInv
    <3> QED  BY <1>1, <3>1 DEF Refresh, RegisterNodeGroups, CacheInv, SameTaint
  <2>2. ClockInv' /\ NamesInv'
    BY <1>1 DEF Refresh, RegisterNodeGroups, ClockInv, NamesInv, WellFormed
  <2>3. ViewInv' /\ PodsInv' /\ ReapInv'
    BY <1>1 DEF Refresh, RegisterNodeGroups, ViewInv, PodsInv, ReapInv
  <2> QED  BY <2>1, <2>2, <2>3
<1>2. CASE List
  <2>1. /\ pc = "refreshed" /\ pc' = "unhealthy"
        /\ view' = nodeCache /\ viewPods' = podCache /\ viewTime' = podCacheTime
        /\ UNCHANGED <<now, api, busy, unused, booting, nodeCache, nodeCacheTime, podCache,
                       podCacheTime, nextScan>>
    BY <1>2 DEF List
  <2>2. ClockInv' /\ NamesInv'
    BY <2>1 DEF ClockInv, NamesInv, WellFormed
  <2>3. CacheInv' /\ ViewInv'
    BY <2>1 DEF CacheInv, ViewInv, SameTaint
  <2>4. PodsInv' /\ ReapInv'
    BY <2>1 DEF PodsInv, ReapInv
  <2> QED  BY <2>2, <2>3, <2>4
<1> QED  BY <1>1, <1>2

\* The steps of the pass that change neither the cluster nor what was listed.
LEMMA DecisionDrain ==
    ASSUME TypeOK, DrainInv,
           \/ Judge \/ (\E healthy \in BOOLEAN : Scale(healthy)) \/ ScaleDownTaint
           \/ ReapDone \/ TaintDone \/ UntaintDone \/ IncreaseFails
    PROVE  DrainInv'
<1> USE DEF clusterVars, worldVars
<1>1. UNCHANGED <<now, api, busy, unused, booting, cacheVars, nextScan>>
  BY DEF Judge, NothingToDo, RefuseTooFewNodes, ScaleUpToMin, WaitForScale, Decide, Scale,
         ScaleDownTaint, ReapDone, TaintDone, UntaintDone, IncreaseFails
<1>2. CASE EndPass
  BY <1>1, <1>2, EndPassDrain
<1>3. ASSUME NEW demand \in Demands, ScaleUpToMin(demand) PROVE DrainInv'
  BY <1>1, <1>3, MovesOn DEF ScaleUpToMin, BeginScaleUp, Judging, listing, ReapInv
<1>4. ASSUME NEW demand \in Demands, NEW starved \in BOOLEAN, Decide(demand, starved)
      PROVE DrainInv'
  <2>1. /\ pc = "unhealthy" /\ pc' \in {"forceTerminate", "scale"}
        /\ UNCHANGED <<view, viewPods, viewTime>>
    BY <1>4 DEF Decide, TryDeleteNodes, Judging, listing
  <2> QED  BY <1>1, <2>1, MovesOn DEF ReapInv
<1>5. ASSUME NEW healthy \in BOOLEAN, Scale(healthy) PROVE DrainInv'
  <2>1. pc = "scale" /\ UNCHANGED <<view, viewPods, viewTime>>
    BY <1>5 DEF Scale, listing
  <2>2. CASE pc' = "untaint"
    BY <1>1, <2>1, <2>2, MovesOn DEF ReapInv
  <2>3. CASE pc' = "reapTerminate" /\ todo' = ReapCandidates(healthy)
    <3>1. ReapInv'
      BY <1>1, <2>1, <2>3 DEF ReapInv, ReapCandidates, TaintedNodes, NodeEmpty, TaintAge
    <3> QED  BY <1>1, <2>1, <2>3, <3>1, MovesOn
  <2>4. CASE pc' = "shrink"
    BY <1>1, <2>1, <2>4, MovesOn DEF ReapInv
  <2> QED  BY <1>5, <2>2, <2>3, <2>4 DEF Scale, BeginScaleUp, TryDeleteNodes
<1>6. CASE ScaleDownTaint
  BY <1>1, <1>6, MovesOn DEF ScaleDownTaint, listing, ReapInv
<1>7. CASE UntaintDone
  BY <1>1, <1>2, <1>7, MovesOn DEF UntaintDone, listing, ReapInv
<1> QED  BY <1>2, <1>3, <1>4, <1>5, <1>6, <1>7
         DEF Judge, NothingToDo, RefuseTooFewNodes, WaitForScale, ReapDone, TaintDone, IncreaseFails

\* The steps that call the API server or the cloud for one node.
LEMMA NodeStepDrain ==
    ASSUME SafeTiming, TypeOK, DrainInv, NEW n \in Node, NodeStep(n)
    PROVE  DrainInv'
<1> USE DEF listing
<1>1. CASE TaintUnhealthy(n)
  <2>1. /\ pc = "unhealthy"
        /\ UNCHANGED <<now, busy, unused, booting, cacheVars, pc, nextScan, view, viewPods, viewTime>>
    BY <1>1 DEF TaintUnhealthy
  <2>2. CASE AddToBeRemovedTaint(n)
    BY <2>1, <2>2, AddTaintDrain
  <2>3. CASE UNCHANGED api
    BY <2>1, <2>3, MovesOn DEF ReapInv
  <2> QED  BY <1>1, <2>2, <2>3 DEF TaintUnhealthy
<1>2. CASE TaintOldest(n)
  <2>1. /\ pc = "taint"
        /\ UNCHANGED <<now, busy, unused, booting, cacheVars, pc, nextScan, view, viewPods, viewTime>>
    BY <1>2 DEF TaintOldest
  <2>2. CASE AddToBeRemovedTaint(n)
    BY <2>1, <2>2, AddTaintDrain
  <2>3. CASE UNCHANGED api
    BY <2>1, <2>3, MovesOn DEF ReapInv
  <2> QED  BY <1>2, <2>2, <2>3 DEF TaintOldest
<1>3. CASE TerminateNode(n)
  <2>1. /\ UNCHANGED <<now, api, unused, booting, cacheVars, nextScan, view, viewPods, viewTime>>
        /\ busy' = busy \ {n}
    BY <1>3 DEF TerminateNode, TerminateInstance
  <2>2. /\ pc \in {"forceTerminate", "reapTerminate"}
        /\ \/ pc' \in {"forceDelete", "reapDelete"}
           \/ pc' = pc /\ todo' \subseteq todo
    BY <1>3 DEF TerminateNode
  <2> USE DEF TypeOK, ClusterTypeOK, DrainInv, cacheVars
  <2>3. ClockInv' /\ NamesInv'
    BY <2>1, <2>2 DEF ClockInv, NamesInv, WellFormed
  <2>4. CacheInv' /\ ViewInv'
    BY <2>1, <2>2 DEF CacheInv, ViewInv, SameTaint
  <2>5. PodsInv'
    BY <2>1, <2>2 DEF PodsInv
  <2>6. ReapInv'
    BY <2>1, <2>2 DEF ReapInv, TaintAge
  <2> QED  BY <2>3, <2>4, <2>5, <2>6
<1>4. CASE TerminateFails(n) \/ DeleteFails(n)
  <2>1. /\ UNCHANGED <<now, api, busy, unused, booting, cacheVars, nextScan, view, viewPods, viewTime>>
        /\ pc \in {"forceTerminate", "reapTerminate", "forceDelete", "reapDelete"}
        /\ pc' \in {"scale", "shrink"}
    BY <1>4 DEF TerminateFails, DeleteFails, AfterRemoval, clusterVars, worldVars
  <2> QED  BY <2>1, MovesOn DEF ReapInv
<1>5. CASE DeleteFromKubernetes(n)
  <2>1. /\ UNCHANGED <<now, unused, booting, cacheVars, nextScan, view, viewPods, viewTime>>
        /\ DeleteNode(n)
        /\ pc \in {"forceDelete", "reapDelete"} /\ (pc' = pc \/ pc' \in {"scale", "shrink"})
    BY <1>5 DEF DeleteFromKubernetes, AfterRemoval
  <2> QED  BY <2>1, DeletedNode DEF ReapInv
<1>6. CASE UntaintNewest(n)
  BY <1>6, UntaintDrain
<1> QED  BY <1>1, <1>2, <1>3, <1>4, <1>5, <1>6, NodeStep(n) DEF NodeStep

\* A request for nodes ends the pass; a restart starts from fresh informers.
LEMMA EndingDrain ==
    ASSUME TypeOK, DrainInv, IncreaseSize \/ Restart
    PROVE  DrainInv'
<1>1. CASE IncreaseSize
  BY <1>1, EndPassDrain DEF IncreaseSize, SetDesiredCapacity
<1>2. CASE Restart
  <2> USE TimesAreNat DEF TypeOK, ClusterTypeOK, DrainInv, EndPass, worldVars
  <2>1. ClockInv' /\ NamesInv'
    BY <1>2 DEF Restart, ClockInv, NamesInv, WellFormed, NoNodes
  <2>2. CacheInv' /\ ViewInv' /\ PodsInv' /\ ReapInv'
    BY <1>2 DEF Restart, CacheInv, SameTaint, ViewInv, PodsInv, ReapInv
  <2> QED  BY <2>1, <2>2
<1> QED  BY <1>1, <1>2

\* The inductive invariant behind the reaper: an informer's copy of a taint agrees with
\* the API server whenever a pass may use it, and a pod that a list of pods misses is
\* too young for the taint to have expired.
THEOREM DrainInvariant ==
    ASSUME SafeTiming
    PROVE  Spec => []DrainInv
<1>1. TypeOK /\ DrainInv /\ [Next]_vars => DrainInv'
  <2> SUFFICES ASSUME TypeOK, DrainInv, [Next]_vars PROVE DrainInv'
    OBVIOUS
  <2>1. CASE PassStep
    BY <2>1, BeginDrain, DecisionDrain, NodeStepDrain, EndingDrain DEF PassStep
  <2>2. CASE UNCHANGED vars
    <3>1. UNCHANGED <<now, api, busy, unused, booting, nodeCache, nodeCacheTime, podCache,
                      podCacheTime, pc, nextScan, view, viewPods, viewTime, todo>>
      BY <2>2 DEF vars, clusterVars, worldVars, cacheVars, controllerVars, passVars
    <3> QED  BY <3>1 DEF DrainInv, ClockInv, NamesInv, WellFormed, CacheInv, ViewInv, SameTaint,
                         PodsInv, ReapInv, TaintAge
  <2> QED  BY <2>1, <2>2, EnvironmentDrain, ClockDrain, BeginDrain, EndingDrain DEF Next
<1> QED  BY <1>1, InitDrain, TypeCorrect, PTL DEF Spec

\* While nodes are being reaped, only TerminateNode takes an instance and lowers the
\* desired size.
LEMMA OnlyTerminateNode ==
    ASSUME TypeOK, [Next]_vars, NEW n \in Node, Terminated(n), pc = "reapTerminate"
    PROVE  TerminateNode(n)
<1> USE DEF TypeOK, ClusterTypeOK
<1>1. asg' # asg /\ asg'.desired # asg.desired
  BY DEF Terminated
<1>2. ~UNCHANGED vars /\ ~Clock /\ ~Restart
  BY <1>1 DEF vars, clusterVars, worldVars, Clock, Tick, Restart
<1>3. ~Environment
  <2>1. ASSUME NEW m \in Node, NodeEvent(m) PROVE asg'.desired = asg.desired
    BY <2>1 DEF NodeEvent, BindPod, PodsDone, Launch, Register, InstanceLost, NodeCleanup,
                Cordon, ForceTaint, Annotate, ReadyChanges
  <2>2. SyncNodes \/ SyncPods => asg' = asg
    BY DEF SyncNodes, SyncPods, worldVars
  <2> QED  BY <1>1, <2>1, <2>2 DEF Environment
<1>4. PassStep
  BY <1>2, <1>3 DEF Next, Refresh
<1>5. PICK m \in Node : NodeStep(m)
  BY <1>4 DEF PassStep, List, Judge, NothingToDo, RefuseTooFewNodes, ScaleUpToMin, WaitForScale,
              Decide, Judging, Scale, ScaleDownTaint, ReapDone, TaintDone, UntaintDone,
              IncreaseSize, IncreaseFails
<1>6. TerminateNode(m)
  BY <1>1, <1>5 DEF NodeStep, TaintUnhealthy, TerminateFails, DeleteFromKubernetes, DeleteFails,
                    TaintOldest, UntaintNewest, clusterVars, worldVars
<1>7. n = m
  BY <1>6 DEF TerminateNode, TerminateInstance, Terminated
<1> QED  BY <1>6, <1>7

\* A node that the reaper comes to, and that is still there, has its taint in the API
\* server, older than the soft grace period, and no pod on it before the hard one is over.
LEMMA ReapedNodeIsDrained ==
    ASSUME SafeTiming, TypeOK, DrainInv, pc = "reapTerminate", NEW n \in todo, n \in api.nodes
    PROVE  /\ n \in api.tainted /\ now - api.taintTime[n] > SoftGrace
           /\ n \in busy => now - api.taintTime[n] > HardGrace
<1>1. /\ n \in view.tainted /\ TaintAge(n) > SoftGrace
      /\ n \notin viewPods \/ TaintAge(n) > HardGrace
  BY DEF DrainInv, ReapInv
<1>2. n \in api.tainted /\ api.taintTime[n] = view.taintTime[n]
  BY <1>1 DEF DrainInv, ViewInv, SameTaint, TypeOK
<1>3. ASSUME n \in busy, n \notin viewPods PROVE FALSE
  <2>1. viewTime <= api.taintTime[n] + SchedulerLag
    BY <1>2, <1>3 DEF DrainInv, PodsInv
  <2>2. now <= viewTime + CacheLag + PassDuration
    BY TimesAreNat DEF DrainInv, ClockInv, TypeOK, ClusterTypeOK
  <2>3. api.taintTime[n] \in Nat /\ now \in Nat /\ viewTime \in Nat
    BY DEF TypeOK, ClusterTypeOK, NodeObjects
  <2>4. now - api.taintTime[n] > SchedulerLag + CacheLag + PassDuration
    BY <1>1, <1>2, <2>3, TimesAreNat DEF TaintAge, SafeTiming
  <2> QED  BY <2>1, <2>2, <2>3, <2>4, TimesAreNat
<1> QED  BY <1>1, <1>2, <1>3 DEF TaintAge

\* TryRemoveTaintedNodes never terminates a node that is back in service, for any number
\* of nodes and any options of the node group that SafeTiming admits.
THEOREM ReaperRespectsGracePeriod ==
    ASSUME SafeTiming
    PROVE  Spec => TerminateOnlyExpired
<1>1. TypeOK /\ DrainInv /\ [Next]_vars =>
        [\A n \in Node : Terminated(n) /\ pc = "reapTerminate" /\ n \in api.nodes =>
           n \in api.tainted /\ now - api.taintTime[n] > SoftGrace]_vars
  <2> SUFFICES ASSUME TypeOK, DrainInv, [Next]_vars,
                      NEW n \in Node, Terminated(n), pc = "reapTerminate", n \in api.nodes
               PROVE  n \in api.tainted /\ now - api.taintTime[n] > SoftGrace
    OBVIOUS
  <2>1. n \in todo
    BY OnlyTerminateNode DEF TerminateNode
  <2> QED  BY <2>1, ReapedNodeIsDrained
<1> QED  BY <1>1, TypeCorrect, DrainInvariant, PTL DEF TerminateOnlyExpired, Spec

\* A node with a pod on it is terminated by TryRemoveTaintedNodes only after the hard
\* grace period: a pod its list of pods has missed was bound before the scheduler knew
\* of the taint, and the soft grace period outlasts the age of such a list.
THEOREM ReaperKillsNoPod ==
    ASSUME SafeTiming
    PROVE  Spec => TerminateOnlyDrained
<1>1. TypeOK /\ DrainInv /\ [Next]_vars =>
        [\A n \in Node : Terminated(n) /\ pc = "reapTerminate" /\ n \in busy =>
           n \in api.tainted /\ now - api.taintTime[n] > HardGrace]_vars
  <2> SUFFICES ASSUME TypeOK, DrainInv, [Next]_vars,
                      NEW n \in Node, Terminated(n), pc = "reapTerminate", n \in busy
               PROVE  n \in api.tainted /\ now - api.taintTime[n] > HardGrace
    OBVIOUS
  <2>1. n \in todo /\ n \in api.nodes
    BY OnlyTerminateNode DEF TerminateNode, DrainInv, NamesInv
  <2> QED  BY <2>1, ReapedNodeIsDrained
<1> QED  BY <1>1, TypeCorrect, DrainInvariant, PTL DEF TerminateOnlyDrained, Spec
================================================================================
