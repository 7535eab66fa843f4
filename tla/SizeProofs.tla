------------------------------- MODULE SizeProofs ------------------------------
(***************************************************************************)
(* What NodeGroupController promises of the sizes of a group, for every    *)
(* number of nodes: the limits of the auto scaling group while no node is  *)
(* force tainted, min_nodes at scale down, and no more nodes than are      *)
(* needed while the scale lock covers those on their way.                  *)
(***************************************************************************)
EXTENDS LifecycleProofs

\* Only operators force taint and cordon; copies of the Node objects are copies.
LEMMA MarksAndCopies ==
    ASSUME TypeOK, [Next]_vars
    PROVE  /\ "force" \notin Operations => api'.force \subseteq api.force
           /\ "cordon" \notin Operations => api'.cordoned \subseteq api.cordoned
           /\ nodeCache' \in {nodeCache, api}
           /\ view' \in {view, nodeCache, NoNodes}
<1> USE DEF TypeOK, ClusterTypeOK, clusterVars, worldVars, cacheVars, listing
<1>1. CASE Environment
  <2>1. view' = view
    BY <1>1 DEF Environment, controllerVars, passVars
  <2>2. CASE SyncNodes \/ SyncPods
    BY <2>1, <2>2 DEF SyncNodes, SyncPods
  <2>3. ASSUME NEW n \in Node, NodeEvent(n)
        PROVE  /\ "force" \notin Operations => api'.force \subseteq api.force
               /\ "cordon" \notin Operations => api'.cordoned \subseteq api.cordoned
               /\ nodeCache' = nodeCache
    <3>1. nodeCache' = nodeCache
      BY <2>3 DEF NodeEvent, BindPod, PodsDone, Launch, Register, InstanceLost, NodeCleanup,
                  Cordon, ForceTaint, Annotate, ReadyChanges
    <3>2. CASE BindPod(n) \/ PodsDone(n) \/ Launch(n) \/ InstanceLost(n)
      BY <3>1, <3>2 DEF BindPod, PodsDone, Launch, InstanceLost
    <3>3. CASE Register(n) \/ Annotate(n) \/ ReadyChanges(n) \/ NodeCleanup(n)
      BY <3>1, <3>3 DEF Register, Annotate, ReadyChanges, NodeCleanup, DeleteNode, Without, NodeObjects
    <3>4. CASE Cordon(n)
      BY <3>1, <3>4 DEF Cordon, Upset, NodeObjects
    <3>5. CASE ForceTaint(n)
      BY <3>1, <3>5 DEF ForceTaint, Upset, NodeObjects
    <3> QED  BY <2>3, <3>2, <3>3, <3>4, <3>5 DEF NodeEvent
  <2> QED  BY <1>1, <2>1, <2>2, <2>3 DEF Environment
<1>2. CASE Clock \/ Refresh \/ Restart \/ UNCHANGED vars
  BY <1>2 DEF Clock, Tick, Refresh, Restart, EndPass, vars, controllerVars, passVars
<1>3. CASE \/ List \/ Judge \/ (\E healthy \in BOOLEAN : Scale(healthy)) \/ ScaleDownTaint
           \/ ReapDone \/ TaintDone \/ UntaintDone \/ IncreaseSize \/ IncreaseFails
  <2>1. UNCHANGED <<api, nodeCache>>
    BY <1>3 DEF List, Judge, NothingToDo, RefuseTooFewNodes, ScaleUpToMin, WaitForScale, Decide,
                Scale, ScaleDownTaint, ReapDone, TaintDone, UntaintDone, IncreaseSize, IncreaseFails
  <2>2. view' \in {view, nodeCache, NoNodes}
    BY <1>3 DEF List, Judge, NothingToDo, RefuseTooFewNodes, ScaleUpToMin, WaitForScale, Decide,
                Scale, ScaleDownTaint, ReapDone, TaintDone, UntaintDone, IncreaseSize, IncreaseFails,
                EndPass
  <2> QED  BY <2>1, <2>2
<1>4. ASSUME NEW n \in Node, NodeStep(n)
      PROVE  /\ api'.force \subseteq api.force /\ api'.cordoned \subseteq api.cordoned
             /\ nodeCache' = nodeCache /\ view' = view
  <2>1. CASE TaintUnhealthy(n) \/ TaintOldest(n) \/ UntaintNewest(n)
    BY <2>1 DEF TaintUnhealthy, TaintOldest, UntaintNewest, AddToBeRemovedTaint,
                DeleteToBeRemovedTaint, NodeObjects
  <2>2. CASE TerminateNode(n) \/ TerminateFails(n) \/ DeleteFails(n)
    BY <2>2 DEF TerminateNode, TerminateFails, DeleteFails
  <2>3. CASE DeleteFromKubernetes(n)
    BY <2>3 DEF DeleteFromKubernetes, DeleteNode, Without
  <2> QED  BY <1>4, <2>1, <2>2, <2>3 DEF NodeStep
<1> QED  BY <1>1, <1>2, <1>3, <1>4 DEF Next, PassStep

(***************************************************************************)
(* The limits of the auto scaling group.                                   *)
(***************************************************************************)

\* Without force taints a pass removes nodes at most once, so what it has left to terminate
\* fits between the present size and the minimum; until then the copy of the size is right.
SizeInv ==
    /\ api.force = {} /\ nodeCache.force = {} /\ view.force = {}
    /\ pc \notin {"forceTerminate", "forceDelete"}
    /\ pc \in {"refreshed", "unhealthy", "scale", "untaint", "increase"} =>
         asg.desired = asgView.desired
    /\ pc = "reapTerminate" => asg.desired >= AsgMin + Cardinality(todo)
    /\ DesiredWithinLimits

\* The first state.
LEMMA InitSize == Init => SizeInv
<1> SUFFICES ASSUME Init PROVE SizeInv
  OBVIOUS
<1>1. api.force = {} /\ nodeCache.force = {} /\ view.force = {} /\ pc = "idle"
  BY DEF Init, ClusterInit, NoNodes
<1>2. asg.desired \in AsgMin..AsgMax
  BY OptionsAssumption DEF Init, ClusterInit
<1> QED  BY <1>1, <1>2 DEF SizeInv, DesiredWithinLimits

\* A step that leaves the desired size alone.
LEMMA SameSize ==
    ASSUME TypeOK, SizeInv, [Next]_vars, ~IncreaseSize, \A n \in Node : ~TerminateNode(n)
    PROVE  /\ asg'.desired = asg.desired
           /\ pc' \notin {"forceTerminate", "forceDelete"}
           /\ pc' \in {"refreshed", "unhealthy", "scale", "untaint", "increase"} =>
                asg'.desired = asgView'.desired
           /\ pc' = "reapTerminate" => asg'.desired >= AsgMin + Cardinality(todo')
<1> USE DEF SizeInv, clusterVars, worldVars, listing
<1>1. CASE Environment
  <2>1. UNCHANGED <<pc, todo, asgView>>
    BY <1>1 DEF Environment, controllerVars, passVars
  <2>2. SyncNodes \/ SyncPods => asg'.desired = asg.desired
    BY DEF SyncNodes, SyncPods
  <2>3. ASSUME NEW n \in Node, NodeEvent(n) PROVE asg'.desired = asg.desired
    BY <2>3 DEF NodeEvent, BindPod, PodsDone, Launch, Register, InstanceLost, NodeCleanup,
                Cordon, ForceTaint, Annotate, ReadyChanges, TypeOK, ClusterTypeOK
  <2>4. asg'.desired = asg.desired
    BY <1>1, <2>2, <2>3 DEF Environment
  <2> QED  BY <2>1, <2>4
<1>2. CASE Clock \/ UNCHANGED vars
  <2>1. UNCHANGED <<asg, pc, todo, asgView>>
    BY <1>2 DEF Clock, Tick, vars, controllerVars, passVars
  <2> QED  BY <2>1
<1>3. CASE Restart
  BY <1>3 DEF Restart, EndPass
<1>4. CASE Refresh
  BY <1>4 DEF Refresh, RegisterNodeGroups
<1>5. CASE List
  BY <1>5 DEF List
<1>6. ASSUME NEW demand \in Demands,
             NothingToDo(demand) \/ RefuseTooFewNodes(demand) \/ WaitForScale(demand)
      PROVE  asg' = asg /\ pc' = "idle"
  BY <1>6 DEF NothingToDo, RefuseTooFewNodes, WaitForScale, EndPass
<1>7. ASSUME NEW demand \in Demands, ScaleUpToMin(demand)
      PROVE  asg' = asg /\ pc' = "untaint" /\ asgView' = asgView /\ asg.desired = asgView.desired
  BY <1>7 DEF ScaleUpToMin, BeginScaleUp, Judging
<1>8. ASSUME NEW demand \in Demands, NEW starved \in BOOLEAN, Decide(demand, starved)
      PROVE  asg' = asg /\ pc' = "scale" /\ asgView' = asgView /\ asg.desired = asgView.desired
  <2>1. ForceCandidates = {}
    BY DEF ForceCandidates, ForceTaintedNodes
  <2> QED  BY <1>8, <2>1 DEF Decide, TryDeleteNodes, Judging
<1>9. ASSUME NEW healthy \in BOOLEAN, Scale(healthy)
      PROVE  /\ asg' = asg /\ asgView' = asgView /\ asg.desired = asgView.desired
             /\ pc' \in {"untaint", "shrink", "reapTerminate"}
             /\ pc' = "reapTerminate" => asg.desired >= AsgMin + Cardinality(todo')
  <2>1. asg' = asg /\ asgView' = asgView /\ asg.desired = asgView.desired
    BY <1>9 DEF Scale
  <2>2. CASE pc' \in {"untaint", "shrink"}
    BY <2>1, <2>2
  <2>3. CASE /\ pc' = "reapTerminate" /\ todo' = ReapCandidates(healthy)
             /\ SizeAllows(ReapCandidates(healthy))
    <3>1. Cardinality(todo') \in Nat
      BY <2>3, FilteredNodes, NodeCount DEF TypeOK
    <3>2. asgView.desired \in Int /\ AsgMin \in Nat
      BY OptionsAssumption DEF TypeOK
    <3>3. asgView.desired - Cardinality(todo') >= AsgMin
      BY <2>3 DEF SizeAllows
    <3> QED  BY <2>1, <2>3, <3>1, <3>2, <3>3
  <2> QED  BY <1>9, <2>2, <2>3 DEF Scale, BeginScaleUp, TryDeleteNodes
<1>10. CASE ScaleDownTaint \/ ReapDone \/ TaintDone \/ IncreaseFails
  BY <1>10 DEF ScaleDownTaint, ReapDone, TaintDone, IncreaseFails, EndPass
<1>11. CASE UntaintDone
  BY <1>11 DEF UntaintDone, EndPass
<1>12. ASSUME NEW n \in Node, NodeStep(n)
       PROVE  /\ asg' = asg /\ asgView' = asgView /\ (pc' = pc \/ pc' = "shrink")
              /\ pc' = "reapTerminate" => todo' = todo
  BY <1>12 DEF NodeStep, TaintUnhealthy, TaintOldest, UntaintNewest, TerminateFails,
               DeleteFromKubernetes, DeleteFails, AfterRemoval
<1>13. CASE PassStep
  BY <1>5, <1>6, <1>7, <1>8, <1>9, <1>10, <1>11, <1>12, <1>13 DEF PassStep, Judge
<1> QED  BY <1>1, <1>2, <1>3, <1>4, <1>13 DEF Next

\* Every step.
LEMMA NextSize ==
    ASSUME "force" \notin Operations, TypeOK, SizeInv, [Next]_vars
    PROVE  SizeInv'
<1>1. api'.force = {} /\ nodeCache'.force = {} /\ view'.force = {}
  <2>1. NoNodes.force = {}
    BY DEF NoNodes
  <2> QED  BY <2>1, MarksAndCopies DEF SizeInv
<1>2. AsgMin \in Nat /\ AsgMax \in Nat /\ asg.desired \in Int /\ asg.desired \in AsgMin..AsgMax
      /\ asgView.desired \in Int /\ delta \in Int
  BY OptionsAssumption DEF TypeOK, ClusterTypeOK, SizeInv, DesiredWithinLimits
<1>3. CASE ~IncreaseSize /\ \A n \in Node : ~TerminateNode(n)
  BY <1>1, <1>3, SameSize DEF SizeInv, DesiredWithinLimits
<1>4. CASE IncreaseSize
  <2>1. /\ pc = "increase" /\ NodesToAdd > 0 /\ asg'.desired = asgView.desired + NodesToAdd
        /\ pc' = "idle"
    BY <1>4 DEF IncreaseSize, SetDesiredCapacity, EndPass, TypeOK, ClusterTypeOK
  <2>2. NodesToAdd \in Int /\ NodesToAdd <= AsgMax - asgView.desired
    <3>1. AsgMax - asgView.desired \in Int
      BY <1>2
    <3> QED  BY <1>2, <3>1, MinOfTwo DEF NodesToAdd
  <2>3. asg.desired = asgView.desired
    BY <2>1 DEF SizeInv
  <2>4. asg'.desired \in AsgMin..AsgMax
    BY <1>2, <2>1, <2>2, <2>3
  <2> QED  BY <1>1, <2>1, <2>4 DEF SizeInv, DesiredWithinLimits
<1>5. ASSUME NEW n \in Node, TerminateNode(n) PROVE SizeInv'
  <2>1. /\ pc = "reapTerminate" /\ n \in todo /\ asg'.desired = asg.desired - 1
        /\ IF todo = {n} THEN pc' = "reapDelete" ELSE pc' = pc /\ todo' = todo \ {n}
    BY <1>5 DEF TerminateNode, TerminateInstance, SizeInv
  <2>2. asg.desired >= AsgMin + Cardinality(todo)
    BY <2>1 DEF SizeInv
  <2>3. /\ Cardinality(todo) \in Nat /\ Cardinality(todo \ {n}) \in Nat
        /\ Cardinality(todo \ {n}) = Cardinality(todo) - 1
    <3>1. IsFiniteSet(todo) /\ Cardinality(todo) \in Nat /\ Cardinality(todo \ {n}) \in Nat
      BY NodeCount DEF TypeOK
    <3> QED  BY <2>1, <3>1, FS_RemoveElement
  <2>4. asg'.desired >= AsgMin + Cardinality(todo \ {n}) /\ asg'.desired \in AsgMin..AsgMax
    BY <1>2, <2>1, <2>2, <2>3
  <2> QED  BY <1>1, <2>1, <2>4 DEF SizeInv, DesiredWithinLimits
<1> QED  BY <1>3, <1>4, <1>5

\* The desired size stays within the limits of the auto scaling group, for any number of
\* nodes, any failures and restarts, although DeleteNodes and IncreaseSize use the size
\* that Refresh read.  With force taints a pass removes nodes twice and checks both
\* removals against that size; AWS has to refuse then.
THEOREM SizeStaysWithinLimits ==
    ASSUME "force" \notin Operations
    PROVE  Spec => []DesiredWithinLimits
<1>1. SizeInv => DesiredWithinLimits
  BY DEF SizeInv
<1> QED  BY <1>1, InitSize, NextSize, TypeCorrect, PTL DEF Spec

(***************************************************************************)
(* min_nodes at scale down.                                                *)
(***************************************************************************)

\* When nothing but Escalator takes untainted nodes away: no cordons, no force taints, no
\* node controller that deletes Node objects, and no tainting of unhealthy nodes, which
\* a pass does after it has listed the nodes (the run unhealthy_min).
OnlyEscalatorDrains ==
    /\ {"force", "cordon", "cleanup"} \cap Operations = {}
    /\ UnhealthyGrace = 0

\* What an informer or a pass sees untainted is untainted in the API server until the pass
\* taints; after that an informer catches up before the next pass.  What is left to taint
\* leaves min_nodes untainted.
MinInv ==
    /\ api.cordoned = {} /\ nodeCache.cordoned = {} /\ view.cordoned = {}
    /\ pc = "unhealthy" => todo = {}
    /\ \/ UntaintedNodes(nodeCache) \subseteq UntaintedNodes(api)
       \/ pc \in {"idle", "taint"} /\ nodeCacheTime + CacheLag < nextScan
    /\ pc \notin {"idle", "refreshed", "taint"} => UntaintedNodes(view) \subseteq UntaintedNodes(api)
    /\ pc \in {"reapTerminate", "reapDelete"} => batch \subseteq view.tainted
    /\ pc = "taint" /\ delta < 0 => Cardinality(UntaintedNodes(api)) + delta >= MinNodes

\* The first state.
LEMMA InitMin == Init => MinInv
<1> SUFFICES ASSUME Init PROVE MinInv
  OBVIOUS
<1>1. api.cordoned = {} /\ nodeCache = api /\ view.cordoned = {} /\ pc = "idle"
  BY DEF Init, ClusterInit, NoNodes
<1> QED  BY <1>1 DEF MinInv

\* Nobody but taintOldestN takes an untainted node away.
LEMMA UntaintedStay ==
    ASSUME OnlyEscalatorDrains, TypeOK, DrainInv, LifeInv, SizeInv, MinInv, [Next]_vars,
           \A n \in Node : ~TaintOldest(n)
    PROVE  UntaintedNodes(api) \subseteq UntaintedNodes(api')
<1> USE DEF TypeOK, ClusterTypeOK, clusterVars, worldVars, UntaintedNodes
<1>1. ASSUME api' = api PROVE UntaintedNodes(api) \subseteq UntaintedNodes(api')
  BY <1>1
<1>2. CASE Environment
  <2>1. SyncNodes \/ SyncPods => api' = api
    BY DEF SyncNodes, SyncPods
  <2>2. ASSUME NEW n \in Node, NodeEvent(n) PROVE UntaintedNodes(api) \subseteq UntaintedNodes(api')
    <3>1. ~ForceTaint(n) /\ ~Cordon(n) /\ ~NodeCleanup(n)
      BY DEF ForceTaint, Cordon, NodeCleanup, Upset, OnlyEscalatorDrains
    <3>2. CASE BindPod(n) \/ PodsDone(n) \/ Launch(n) \/ InstanceLost(n)
      BY <1>1, <3>2 DEF BindPod, PodsDone, Launch, InstanceLost
    <3>3. CASE Register(n) \/ Annotate(n) \/ ReadyChanges(n)
      BY <3>3 DEF Register, Annotate, ReadyChanges, NodeObjects
    <3> QED  BY <2>2, <3>1, <3>2, <3>3 DEF NodeEvent
  <2> QED  BY <1>1, <1>2, <2>1, <2>2 DEF Environment
<1>3. CASE \/ Clock \/ Refresh \/ Restart \/ List \/ Judge \/ (\E healthy \in BOOLEAN : Scale(healthy))
           \/ ScaleDownTaint \/ ReapDone \/ TaintDone \/ UntaintDone \/ IncreaseSize
           \/ IncreaseFails \/ UNCHANGED vars
  <2>1. api' = api
    BY <1>3 DEF Clock, Tick, Refresh, Restart, List, Judge, NothingToDo, RefuseTooFewNodes,
                ScaleUpToMin, WaitForScale, Decide, Scale, ScaleDownTaint, ReapDone, TaintDone,
                UntaintDone, IncreaseSize, IncreaseFails, vars
  <2> QED  BY <1>1, <2>1
<1>4. ASSUME NEW n \in Node, NodeStep(n) PROVE UntaintedNodes(api) \subseteq UntaintedNodes(api')
  <2>1. ~TaintUnhealthy(n)
    BY DEF TaintUnhealthy, MinInv
  <2>2. CASE TerminateNode(n) \/ TerminateFails(n) \/ DeleteFails(n)
    BY <1>1, <2>2 DEF TerminateNode, TerminateFails, DeleteFails
  <2>3. CASE UntaintNewest(n)
    <3>1. /\ api'.nodes = api.nodes /\ api'.tainted \subseteq api.tainted
          /\ api'.force = api.force /\ api'.cordoned = api.cordoned
      <4>1. UNCHANGED api \/ DeleteToBeRemovedTaint(n)
        BY <2>3 DEF UntaintNewest
      <4>2. CASE DeleteToBeRemovedTaint(n)
        BY <4>2 DEF DeleteToBeRemovedTaint, NodeObjects
      <4>3. CASE UNCHANGED api
        BY <4>3
      <4> QED  BY <4>1, <4>2, <4>3
    <3> QED  BY <3>1
  <2>4. CASE DeleteFromKubernetes(n)
    <3>1. /\ n \in todo /\ n \in api.nodes /\ pc = "reapDelete" /\ api' = Without(api, n)
      BY <2>4 DEF DeleteFromKubernetes, DeleteNode, SizeInv
    <3>2. n \in view.tainted
      BY <3>1 DEF MinInv, LifeInv, RemovalInv
    <3>3. n \in api.tainted
      BY <3>1, <3>2 DEF DrainInv, ViewInv, SameTaint
    <3> QED  BY <3>1, <3>3 DEF Without
  <2> QED  BY <1>4, <2>1, <2>2, <2>3, <2>4 DEF NodeStep
<1> QED  BY <1>2, <1>3, <1>4 DEF Next, PassStep

\* A larger set of nodes is no smaller.
LEMMA MoreNodes ==
    ASSUME NEW S \in SUBSET Node, NEW T \in SUBSET Node, S \subseteq T
    PROVE  Cardinality(S) \in Nat /\ Cardinality(T) \in Nat /\ Cardinality(S) <= Cardinality(T)
BY NodeCount, FS_Subset

\* scaleDownTaint leaves min_nodes of the nodes it has listed as untainted.
LEMMA TaintsLeaveMin ==
    ASSUME TypeOK, NodesToTaint > 0
    PROVE  NodesToTaint \in Int /\ Cardinality(UntaintedNodes(view)) - NodesToTaint >= MinNodes
<1> DEFINE count == Cardinality(UntaintedNodes(view))
           wanted == IF count + delta < MinNodes THEN count - MinNodes ELSE -delta
           deletable == asgView.desired - AsgMin
<1>1. count \in Nat /\ delta \in Int /\ asgView.desired \in Int /\ MinNodes \in Nat /\ AsgMin \in Nat
  BY FilteredNodes, NodeCount, OptionsAssumption DEF TypeOK
<1>2. wanted \in Int /\ deletable \in Int /\ count - wanted >= MinNodes
  BY <1>1
<1>3. NodesToTaint = CASE wanted < 0 -> 0
                       [] wanted >= 0 /\ wanted > deletable /\ deletable >= 0 -> deletable
                       [] OTHER -> wanted
  BY DEF NodesToTaint
<1> HIDE DEF count, wanted, deletable
<1>4. NodesToTaint \in Int /\ NodesToTaint <= wanted
  BY <1>2, <1>3
<1>5. count - NodesToTaint >= MinNodes
  BY <1>1, <1>2, <1>4
<1> QED  BY <1>4, <1>5 DEF count

\* taintOldestN: one untainted node less, and one less to taint.
LEMMA TaintOldestMin ==
    ASSUME SafeTiming, TypeOK, DrainInv, MinInv, NEW n \in Node, TaintOldest(n),
           api'.cordoned = {}
    PROVE  MinInv' /\ (api'.tainted # api.tainted => Cardinality(UntaintedNodes(api')) >= MinNodes)
<1>1. /\ pc = "taint" /\ delta < 0
      /\ UNCHANGED <<now, pc, nextScan, view, batch, nodeCache, nodeCacheTime>>
      /\ \/ AddToBeRemovedTaint(n) /\ delta' = delta + 1
         \/ UNCHANGED <<api, delta>>
  BY DEF TaintOldest, listing, cacheVars
<1>2. Cardinality(UntaintedNodes(api)) + delta >= MinNodes
  BY <1>1 DEF MinInv
<1>3. nodeCacheTime + CacheLag < nextScan
  BY <1>1, TimesAreNat DEF DrainInv, ClockInv, SafeTiming, TypeOK, ClusterTypeOK
<1>4. delta \in Int /\ MinNodes \in Nat
  BY OptionsAssumption DEF TypeOK
<1>5. UntaintedNodes(api) \in SUBSET Node /\ UntaintedNodes(api) \ {n} \in SUBSET Node
  BY DEF UntaintedNodes, NodeObjects, TypeOK, ClusterTypeOK
<1>6. /\ Cardinality(UntaintedNodes(api)) \in Nat /\ Cardinality(UntaintedNodes(api) \ {n}) \in Nat
      /\ Cardinality(UntaintedNodes(api) \ {n}) >= Cardinality(UntaintedNodes(api)) - 1
  <2>1. IsFiniteSet(UntaintedNodes(api)) /\ Cardinality(UntaintedNodes(api)) \in Nat
        /\ Cardinality(UntaintedNodes(api) \ {n}) \in Nat
    BY <1>5, NodeCount
  <2>2. n \notin UntaintedNodes(api) => UntaintedNodes(api) \ {n} = UntaintedNodes(api)
    OBVIOUS
  <2> QED  BY <2>1, <2>2, FS_RemoveElement
<1>7. /\ Cardinality(UntaintedNodes(api')) + delta' >= MinNodes
      /\ api'.tainted # api.tainted => delta' = delta + 1
  <2>1. CASE AddToBeRemovedTaint(n) /\ delta' = delta + 1
    <3>1. UntaintedNodes(api') = UntaintedNodes(api) \/ UntaintedNodes(api') = UntaintedNodes(api) \ {n}
      BY <2>1 DEF AddToBeRemovedTaint, UntaintedNodes, TypeOK, ClusterTypeOK, NodeObjects
    <3>2. /\ Cardinality(UntaintedNodes(api')) \in Nat
          /\ Cardinality(UntaintedNodes(api')) >= Cardinality(UntaintedNodes(api)) - 1
      BY <1>6, <3>1
    <3> QED  BY <1>2, <1>4, <1>6, <2>1, <3>2
  <2>2. CASE UNCHANGED <<api, delta>>
    BY <1>2, <2>2
  <2> QED  BY <1>1, <2>1, <2>2
<1>8. UntaintedNodes(api') \in SUBSET Node
  BY <1>1 DEF AddToBeRemovedTaint, UntaintedNodes, TypeOK, ClusterTypeOK, NodeObjects
<1>9. api'.tainted # api.tainted => Cardinality(UntaintedNodes(api')) >= MinNodes
  <2>1. Cardinality(UntaintedNodes(api')) \in Nat
    BY <1>8, NodeCount
  <2> QED  BY <1>1, <1>4, <1>7, <2>1
<1> QED  BY <1>1, <1>3, <1>7, <1>9 DEF MinInv, UntaintedNodes

\* The parts of MinInv that speak of the pass: which lists and counts it goes on with.
LEMMA PassMin ==
    ASSUME OnlyEscalatorDrains, TypeOK, DrainInv, LifeInv, SizeInv, MinInv, [Next]_vars,
           UntaintedNodes(api) \subseteq UntaintedNodes(api')
    PROVE  /\ pc' = "unhealthy" => todo' = {}
           /\ pc' \notin {"idle", "refreshed", "taint"} => UntaintedNodes(view') \subseteq UntaintedNodes(api')
           /\ pc' \in {"reapTerminate", "reapDelete"} => batch' \subseteq view'.tainted
           /\ pc' = "taint" => (pc = "taint" /\ delta' = delta) \/ ScaleDownTaint \/ \E n \in Node : TaintOldest(n)
<1> USE DEF clusterVars, worldVars, cacheVars, listing, MinInv
<1>1. CASE Environment \/ Clock \/ UNCHANGED vars
  <2>1. UNCHANGED <<pc, view, todo, batch, delta>>
    BY <1>1 DEF Environment, Clock, vars, controllerVars, passVars
  <2> QED  BY <2>1
<1>2. CASE Refresh \/ Restart \/ ReapDone \/ TaintDone \/ IncreaseSize \/ IncreaseFails
  <2>1. pc' \in {"idle", "refreshed"}
    BY <1>2 DEF Refresh, Restart, ReapDone, TaintDone, IncreaseSize, IncreaseFails, EndPass
  <2> QED  BY <2>1
<1>3. CASE List
  <2>1. /\ pc = "refreshed" /\ pc' = "unhealthy" /\ view' = nodeCache /\ api' = api /\ todo' = {}
    BY <1>3 DEF List, OnlyEscalatorDrains
  <2> QED  BY <2>1
<1>4. CASE Judge
  <2>1. pc = "unhealthy" /\ (pc' = "idle" \/ (pc' \in {"untaint", "scale"} /\ view' = view))
    <3>1. ForceCandidates = {}
      BY DEF ForceCandidates, ForceTaintedNodes, SizeInv
    <3> QED  BY <1>4, <3>1 DEF Judge, NothingToDo, RefuseTooFewNodes, ScaleUpToMin, WaitForScale,
                               Decide, Judging, BeginScaleUp, TryDeleteNodes, EndPass
  <2> QED  BY <2>1
<1>5. ASSUME NEW healthy \in BOOLEAN, Scale(healthy)
      PROVE  /\ pc = "scale" /\ view' = view /\ pc' \in {"untaint", "shrink", "reapTerminate"}
             /\ pc' = "reapTerminate" => batch' \subseteq view.tainted
  BY <1>5 DEF Scale, BeginScaleUp, TryDeleteNodes, ReapCandidates, TaintedNodes
<1>6. CASE ScaleDownTaint
  BY <1>6 DEF ScaleDownTaint
<1>7. CASE UntaintDone
  <2>1. pc = "untaint" /\ (pc' = "idle" \/ (pc' = "increase" /\ view' = view))
    BY <1>7 DEF UntaintDone, EndPass
  <2> QED  BY <2>1
<1>8. ASSUME NEW n \in Node, NodeStep(n)
      PROVE  /\ pc \notin {"idle", "refreshed"} /\ view' = view
             /\ pc' = "unhealthy" => FALSE
             /\ pc' \in {"reapTerminate", "reapDelete"} => pc \in {"reapTerminate", "reapDelete"} /\ batch' = batch
             /\ pc' = "taint" => TaintOldest(n)
             /\ pc = "taint" => pc' = "taint"
  <2>1. ~TaintUnhealthy(n)
    BY DEF TaintUnhealthy
  <2> QED  BY <1>8, <2>1 DEF NodeStep, TerminateNode, TerminateFails, DeleteFromKubernetes,
                             DeleteFails, TaintOldest, UntaintNewest, AfterRemoval, SizeInv
<1>9. CASE \E n \in Node : NodeStep(n)
  BY <1>8, <1>9
<1>10. CASE \E healthy \in BOOLEAN : Scale(healthy)
  BY <1>5, <1>10
<1> QED  BY <1>1, <1>2, <1>3, <1>4, <1>6, <1>7, <1>9, <1>10 DEF Next, PassStep

\* The informer's copy, which after a pass that tainted is right again by the next pass.
LEMMA CacheMin ==
    ASSUME TypeOK, DrainInv, MinInv, [Next]_vars, \A n \in Node : ~TaintOldest(n),
           UntaintedNodes(api) \subseteq UntaintedNodes(api')
    PROVE  \/ UntaintedNodes(nodeCache') \subseteq UntaintedNodes(api')
           \/ pc' \in {"idle", "taint"} /\ nodeCacheTime' + CacheLag < nextScan'
<1> USE DEF clusterVars, worldVars, cacheVars
<1>1. CASE SyncNodes \/ Restart
  BY <1>1 DEF SyncNodes, Restart
<1>2. CASE Refresh
  <2>1. now >= nextScan /\ nodeCache' = nodeCache
    BY <1>2 DEF Refresh
  <2>2. ~(nodeCacheTime + CacheLag < nextScan)
    BY <2>1, TimesAreNat DEF DrainInv, ClockInv, TypeOK, ClusterTypeOK
  <2> QED  BY <2>1, <2>2 DEF MinInv
<1>3. CASE ~SyncNodes /\ ~Restart /\ ~Refresh
  <2>1. /\ UNCHANGED <<nodeCache, nodeCacheTime, nextScan>>
        /\ pc \in {"idle", "taint"} => pc' \in {"idle", "taint"}
    <3>1. CASE Environment \/ Clock \/ UNCHANGED vars
      <4>1. UNCHANGED <<pc, nextScan>>
        BY <3>1 DEF Environment, Clock, vars, controllerVars, passVars
      <4>2. UNCHANGED <<nodeCache, nodeCacheTime>>
        BY <1>3, <3>1 DEF Environment, Clock, Tick, vars, SyncPods, NodeEvent, BindPod, PodsDone,
                          Launch, Register, InstanceLost, NodeCleanup, Cordon, ForceTaint, Annotate,
                          ReadyChanges
      <4> QED  BY <4>1, <4>2
    <3>2. CASE \/ List \/ Judge \/ (\E healthy \in BOOLEAN : Scale(healthy)) \/ ScaleDownTaint
               \/ ReapDone \/ TaintDone \/ UntaintDone \/ IncreaseSize \/ IncreaseFails
      BY <3>2 DEF List, Judge, Judging, NothingToDo, RefuseTooFewNodes, ScaleUpToMin, WaitForScale,
                  Decide, Scale, ScaleDownTaint, ReapDone, TaintDone, UntaintDone, IncreaseSize,
                  IncreaseFails, EndPass
    <3>3. ASSUME NEW n \in Node, NodeStep(n)
          PROVE  UNCHANGED <<nodeCache, nodeCacheTime, nextScan>> /\ pc \notin {"idle", "taint"}
      BY <3>3 DEF NodeStep, TaintUnhealthy, TerminateNode, TerminateFails, DeleteFromKubernetes,
                  DeleteFails, UntaintNewest
    <3> QED  BY <1>3, <3>1, <3>2, <3>3 DEF Next, PassStep
  <2> QED  BY <2>1 DEF MinInv
<1> QED  BY <1>1, <1>2, <1>3

\* Every step.
LEMMA NextMin ==
    ASSUME SafeTiming, OnlyEscalatorDrains, TypeOK, DrainInv, LifeInv, SizeInv, MinInv, [Next]_vars
    PROVE  MinInv'
<1>1. api'.cordoned = {} /\ nodeCache'.cordoned = {} /\ view'.cordoned = {}
  <2>1. NoNodes.cordoned = {}
    BY DEF NoNodes
  <2> QED  BY <2>1, MarksAndCopies DEF MinInv, OnlyEscalatorDrains
<1>2. CASE \E n \in Node : TaintOldest(n)
  BY <1>1, <1>2, TaintOldestMin
<1>3. CASE \A n \in Node : ~TaintOldest(n)
  <2>1. UntaintedNodes(api) \subseteq UntaintedNodes(api')
    BY <1>3, UntaintedStay
  <2>2. pc' = "taint" /\ delta' < 0 => Cardinality(UntaintedNodes(api')) + delta' >= MinNodes
    <3> SUFFICES ASSUME pc' = "taint", delta' < 0
                 PROVE  Cardinality(UntaintedNodes(api')) + delta' >= MinNodes
      OBVIOUS
    <3>1. /\ UntaintedNodes(api) \in SUBSET Node /\ UntaintedNodes(api') \in SUBSET Node
          /\ UntaintedNodes(view) \in SUBSET Node
      <4>1. TypeOK'
        BY StepType
      <4> QED  BY <4>1 DEF UntaintedNodes, NodeObjects, TypeOK, ClusterTypeOK
    <3>2. /\ Cardinality(UntaintedNodes(api)) \in Nat /\ Cardinality(UntaintedNodes(api')) \in Nat
          /\ Cardinality(UntaintedNodes(api)) <= Cardinality(UntaintedNodes(api'))
      BY <2>1, <3>1, MoreNodes
    <3>3. MinNodes \in Nat /\ delta \in Int
      BY OptionsAssumption DEF TypeOK
    <3>4. CASE pc = "taint" /\ delta' = delta
      BY <3>2, <3>3, <3>4 DEF MinInv
    <3>5. CASE ScaleDownTaint
      <4>1. pc = "shrink" /\ delta' = -NodesToTaint /\ api' = api
        BY <3>5 DEF ScaleDownTaint, clusterVars, worldVars
      <4>2. NodesToTaint \in Int
        BY <3>1, <3>3, NodeCount, OptionsAssumption DEF NodesToTaint, TypeOK
      <4>3. Cardinality(UntaintedNodes(view)) - NodesToTaint >= MinNodes
        BY <4>1, <4>2, TaintsLeaveMin
      <4>4. /\ Cardinality(UntaintedNodes(view)) \in Nat
            /\ Cardinality(UntaintedNodes(view)) <= Cardinality(UntaintedNodes(api))
        BY <3>1, <4>1, MoreNodes DEF MinInv
      <4> QED  BY <3>2, <3>3, <4>1, <4>2, <4>3, <4>4
    <3> QED  BY <1>3, <2>1, <3>4, <3>5, PassMin
  <2> QED  BY <1>1, <1>3, <2>1, <2>2, PassMin, CacheMin DEF MinInv
<1> QED  BY <1>2, <1>3

\* Only taintOldestN taints while it runs.
LEMMA OnlyTaintOldest ==
    ASSUME TypeOK, [Next]_vars, pc = "taint", api'.tainted # api.tainted, OnlyEscalatorDrains
    PROVE  \E n \in Node : TaintOldest(n)
<1> USE DEF clusterVars, worldVars, TypeOK, ClusterTypeOK
<1>1. api' # api
  OBVIOUS
<1>2. ~Environment
  <2>1. ASSUME NEW n \in Node, NodeEvent(n) PROVE api'.tainted = api.tainted
    BY <2>1 DEF NodeEvent, BindPod, PodsDone, Launch, Register, InstanceLost, NodeCleanup, Cordon,
                ForceTaint, Annotate, ReadyChanges, OnlyEscalatorDrains, NodeObjects
  <2>2. SyncNodes \/ SyncPods => api' = api
    BY DEF SyncNodes, SyncPods
  <2> QED  BY <1>1, <2>1, <2>2 DEF Environment
<1>3. PassStep
  BY <1>1, <1>2 DEF Next, Clock, Tick, Refresh, Restart, vars
<1>4. PICK n \in Node : NodeStep(n)
  BY <1>1, <1>3 DEF PassStep, List, Judge, NothingToDo, RefuseTooFewNodes, ScaleUpToMin, WaitForScale,
                    Decide, Judging, Scale, ScaleDownTaint, ReapDone, TaintDone, UntaintDone,
                    IncreaseSize, IncreaseFails
<1> QED  BY <1>4 DEF NodeStep, TaintUnhealthy, TerminateNode, TerminateFails, DeleteFromKubernetes,
                     DeleteFails, UntaintNewest

\* Scale down leaves min_nodes untainted nodes in the API server, for any number of nodes,
\* failed calls and restarts, when nothing but Escalator takes untainted nodes away.
THEOREM ScaleDownLeavesMinNodes ==
    ASSUME SafeTiming, OnlyEscalatorDrains
    PROVE  Spec => ScaleDownKeepsMinNodes
<1>1. "force" \notin Operations
  BY DEF OnlyEscalatorDrains
<1>2. Spec => []LifeInv
  BY InitLife, NextLife, TypeCorrect, DrainInvariant, PTL DEF Spec
<1>3. Spec => []SizeInv
  BY <1>1, InitSize, NextSize, TypeCorrect, PTL DEF Spec
<1>4. Spec => []MinInv
  BY <1>2, <1>3, InitMin, NextMin, TypeCorrect, DrainInvariant, PTL DEF Spec
<1>5. TypeOK /\ DrainInv /\ MinInv /\ [Next]_vars =>
        [pc = "taint" /\ api'.tainted # api.tainted =>
           Cardinality(UntaintedNodes(api')) >= MinNodes]_vars
  <2> SUFFICES ASSUME TypeOK, DrainInv, MinInv, [Next]_vars, pc = "taint", api'.tainted # api.tainted
               PROVE  Cardinality(UntaintedNodes(api')) >= MinNodes
    OBVIOUS
  <2>1. PICK n \in Node : TaintOldest(n)
    BY OnlyTaintOldest
  <2>2. api'.cordoned = {}
    BY MarksAndCopies DEF MinInv, OnlyEscalatorDrains
  <2> QED  BY <2>1, <2>2, TaintOldestMin
<1> QED  BY <1>4, <1>5, TypeCorrect, DrainInvariant, PTL DEF Spec, ScaleDownKeepsMinNodes

(***************************************************************************)
(* The scale lock.                                                         *)
(***************************************************************************)

\* When the scale lock covers what is on its way: the cool-down outlasts boot time, the
\* informer's lag and a pass; nothing takes nodes away that the auto scaling group then
\* replaces, or the lock of a pass; calls to untaint succeed; and only the usage asks for
\* nodes, not scale_on_starve, max_node_age or min_nodes.
LockCovers ==
    /\ CoolDown > BootTime + CacheLag + PassDuration
    /\ {"force", "cordon", "cleanup", "lost", "crash", "apifail"} \cap Operations = {}
    /\ UnhealthyGrace = 0 /\ MaxNodeAge = 0 /\ ScaleOnStarve = FALSE
    /\ MinNodes <= Cardinality(InitialNodes)

\* Every copy of the Node objects has min_nodes untainted nodes.
KeepsMin ==
    /\ Cardinality(UntaintedNodes(api)) >= MinNodes
    /\ Cardinality(UntaintedNodes(nodeCache)) >= MinNodes
    /\ pc \notin {"idle", "refreshed"} => Cardinality(UntaintedNodes(view)) >= MinNodes

\* The auto scaling group has reached its desired size.
Settled == booting = {} /\ Cardinality(asg.instances) >= asg.desired

\* There is or was a reason for a group of this size.
Needed(size) == \E need \in Needs : size <= need

\* When the pass under way began.
PassBegan == nextScan - ScanInterval

\* Instances boot only within boot time of the last scale up.
BootInv == Settled \/ (now <= bootBy /\ bootBy <= lockTime + BootTime)

\* After that an informer knows all of them, and so does a pass that begins when the
\* informer has caught up, as every pass does that gets past the lock.
SeenInv ==
    /\ nodeCacheTime > lockTime + BootTime => asg.instances \subseteq nodeCache.nodes
    /\ pc \notin {"idle", "refreshed"} =>
         asg.instances \subseteq view.nodes \/ PassBegan <= lockTime + BootTime + CacheLag
    /\ pc \notin {"idle", "refreshed", "unhealthy"} =>
         PassBegan > lockTime + BootTime + CacheLag

\* So what a pass adds, on top of what it untaints, is what the pods need.
NeedInv ==
    /\ pc = "scale" /\ delta > 0 => Needed(Cardinality(UntaintedNodes(view)) + delta)
    /\ pc = "untaint" => Needed(asg.desired + delta - Cardinality(todo \cap asg.instances))
    /\ pc = "increase" => Needed(asg.desired + delta)
    /\ NeverOverProvisioned

\* As long as the model has names for new instances.
ProvisionInv == unused # {} => BootInv /\ SeenInv /\ NeedInv

\* A lock that covers what is on its way leaves the draining to Escalator.
LEMMA LockNeedsNoDrains == LockCovers => OnlyEscalatorDrains
BY DEF LockCovers, OnlyEscalatorDrains

\* The steps that change the group, its names or the lock, and those that change the clock
\* or the informer's copy.
LEMMA GroupSteps ==
    ASSUME LockCovers, TypeOK, [Next]_vars
    PROVE  /\ \/ \E n \in Node : (Launch(n) \/ Register(n)) /\ UNCHANGED controllerVars
              \/ \E n \in Node : TerminateNode(n)
              \/ IncreaseSize
              \/ UNCHANGED <<asg, unused, booting, bootBy, lockTime>>
           /\ Clock \/ now' = now
           /\ SyncNodes \/ UNCHANGED <<nodeCache, nodeCacheTime>>
<1> USE DEF clusterVars, worldVars, cacheVars, controllerVars
<1>1. CASE Environment
  <2>1. CASE SyncNodes \/ SyncPods
    BY <1>1, <2>1 DEF Environment, SyncNodes, SyncPods
  <2>2. ASSUME NEW n \in Node, NodeEvent(n)
        PROVE  /\ Launch(n) \/ Register(n) \/ UNCHANGED <<asg, unused, booting, bootBy>>
               /\ UNCHANGED <<now, nodeCache, nodeCacheTime>>
    <3>1. ~InstanceLost(n)
      BY DEF InstanceLost, Upset, LockCovers
    <3> QED  BY <2>2, <3>1 DEF NodeEvent, BindPod, PodsDone, Launch, Register, NodeCleanup, Cordon,
                               ForceTaint, Annotate, ReadyChanges
  <2> QED  BY <1>1, <2>1, <2>2 DEF Environment
<1>2. CASE Clock \/ UNCHANGED vars
  BY <1>2 DEF Clock, Tick, vars
<1>3. CASE Refresh
  BY <1>3 DEF Refresh
<1>4. ~Restart
  BY DEF Restart, LockCovers
<1>5. CASE \/ List \/ Judge \/ (\E healthy \in BOOLEAN : Scale(healthy)) \/ ScaleDownTaint
           \/ ReapDone \/ TaintDone \/ UntaintDone \/ IncreaseFails
  BY <1>5 DEF List, Judge, NothingToDo, RefuseTooFewNodes, ScaleUpToMin, WaitForScale, Decide,
              Scale, ScaleDownTaint, ReapDone, TaintDone, UntaintDone, IncreaseFails
<1>6. CASE IncreaseSize
  BY <1>6 DEF IncreaseSize
<1>7. ASSUME NEW n \in Node, NodeStep(n)
      PROVE  /\ TerminateNode(n) \/ UNCHANGED <<asg, unused, booting, bootBy, lockTime>>
             /\ UNCHANGED <<now, nodeCache, nodeCacheTime>>
  BY <1>7 DEF NodeStep, TaintUnhealthy, TerminateNode, TerminateFails, DeleteFromKubernetes,
              DeleteFails, TaintOldest, UntaintNewest
<1> QED  BY <1>1, <1>2, <1>3, <1>4, <1>5, <1>6, <1>7 DEF Next, PassStep

\* A pass goes on with the nodes it has listed, and does not touch ticker or lock until
\* it ends.
LEMMA PassGoesOn ==
    ASSUME [Next]_vars, pc' \notin {"idle", "refreshed"}
    PROVE  /\ UNCHANGED <<nextScan, lockTime>>
           /\ List \/ (pc \notin {"idle", "refreshed"} /\ view' = view)
<1> USE DEF clusterVars, worldVars, cacheVars, controllerVars, passVars, listing
<1>1. CASE Environment \/ Clock \/ UNCHANGED vars
  BY <1>1 DEF Environment, Clock, vars
<1>2. ~Refresh /\ ~Restart /\ ~ReapDone /\ ~TaintDone /\ ~IncreaseSize /\ ~IncreaseFails
  BY DEF Refresh, Restart, ReapDone, TaintDone, IncreaseSize, IncreaseFails, EndPass
<1>3. CASE List
  BY <1>3 DEF List
<1>4. CASE Judge
  BY <1>4 DEF Judge, Judging, NothingToDo, RefuseTooFewNodes, ScaleUpToMin, WaitForScale, Decide, EndPass
<1>5. CASE (\E healthy \in BOOLEAN : Scale(healthy)) \/ ScaleDownTaint
  BY <1>5 DEF Scale, ScaleDownTaint
<1>6. CASE UntaintDone
  BY <1>6 DEF UntaintDone, EndPass
<1>7. ASSUME NEW n \in Node, NodeStep(n)
      PROVE  UNCHANGED <<nextScan, lockTime>> /\ pc \notin {"idle", "refreshed"} /\ view' = view
  BY <1>7 DEF NodeStep, TaintUnhealthy, TerminateNode, TerminateFails, DeleteFromKubernetes,
              DeleteFails, TaintOldest, UntaintNewest
<1> QED  BY <1>1, <1>2, <1>3, <1>4, <1>5, <1>6, <1>7 DEF Next, PassStep

\* min_nodes untainted nodes at the start.
LEMMA InitKeepsMin == LockCovers /\ Init => KeepsMin
<1> SUFFICES ASSUME LockCovers, Init PROVE KeepsMin
  OBVIOUS
<1>1. nodeCache = api /\ pc = "idle"
  BY DEF Init, ClusterInit
<1>2. UntaintedNodes(api) = InitialNodes
  BY DEF Init, ClusterInit, NoNodes, UntaintedNodes
<1>3. Cardinality(InitialNodes) \in Nat /\ MinNodes \in Nat /\ MinNodes <= Cardinality(InitialNodes)
  BY ClusterAssumption, OptionsAssumption, NodeCount DEF LockCovers
<1> QED  BY <1>1, <1>2, <1>3 DEF KeepsMin

\* And ever after: an untainted node is taken away only by scale down, which keeps to it.
LEMMA NextKeepsMin ==
    ASSUME SafeTiming, LockCovers, TypeOK, DrainInv, LifeInv, SizeInv, MinInv, KeepsMin, [Next]_vars
    PROVE  KeepsMin'
<1>1. OnlyEscalatorDrains
  BY LockNeedsNoDrains
<1>2. Cardinality(UntaintedNodes(api')) >= MinNodes
  <2>1. CASE \A n \in Node : ~TaintOldest(n)
    <3>1. UntaintedNodes(api) \in SUBSET Node /\ UntaintedNodes(api') \in SUBSET Node
      <4>1. TypeOK'
        BY StepType
      <4> QED  BY <4>1 DEF UntaintedNodes, NodeObjects, TypeOK, ClusterTypeOK
    <3>2. /\ Cardinality(UntaintedNodes(api)) \in Nat /\ Cardinality(UntaintedNodes(api')) \in Nat
          /\ Cardinality(UntaintedNodes(api)) <= Cardinality(UntaintedNodes(api'))
      BY <1>1, <2>1, <3>1, UntaintedStay, MoreNodes
    <3> QED  BY <3>2, OptionsAssumption DEF KeepsMin
  <2>2. ASSUME NEW n \in Node, TaintOldest(n) PROVE Cardinality(UntaintedNodes(api')) >= MinNodes
    <3>1. api'.cordoned = {}
      BY <1>1, MarksAndCopies DEF MinInv, OnlyEscalatorDrains
    <3>2. api'.tainted = api.tainted => api' = api
      <4>1. CASE UNCHANGED api
        BY <4>1
      <4>2. CASE AddToBeRemovedTaint(n)
        <5>1. n \notin api.tainted => n \in api'.tainted
          BY <4>2 DEF AddToBeRemovedTaint, TypeOK, ClusterTypeOK, NodeObjects
        <5> QED  BY <4>2, <5>1 DEF AddToBeRemovedTaint
      <4> QED  BY <2>2, <4>1, <4>2 DEF TaintOldest
    <3> QED  BY <2>2, <3>1, <3>2, TaintOldestMin DEF KeepsMin
  <2> QED  BY <2>1, <2>2
<1>3. Cardinality(UntaintedNodes(nodeCache')) >= MinNodes
  BY MarksAndCopies DEF KeepsMin
<1>4. pc' \notin {"idle", "refreshed"} => Cardinality(UntaintedNodes(view')) >= MinNodes
  BY PassGoesOn DEF KeepsMin, List
<1> QED  BY <1>2, <1>3, <1>4 DEF KeepsMin

\* A group that the pods fill with one node less has no more nodes than are enough.
LEMMA EnoughIsEnough ==
    ASSUME NEW demand \in Demands
    PROVE  /\ EnoughNodes(demand) \in Int
           /\ \A size \in Int, r \in Resources :
                Fills(demand, NodeCapacity, size - 1, r) => size <= EnoughNodes(demand)
<1> DEFINE part(r) == (100 * demand[r]) \div (NodeCapacity[r] * ScaleUpThreshold)
<1>1. \A r \in Resources : demand[r] \in Nat /\ NodeCapacity[r] \in Nat \ {0}
  BY OptionsAssumption
<1>2. ASSUME NEW r \in Resources
      PROVE  /\ part(r) \in Int
             /\ \A size \in Int : Fills(demand, NodeCapacity, size - 1, r) => size - 1 <= part(r)
  <2> DEFINE a == 100 * demand[r]
             b == NodeCapacity[r] * ScaleUpThreshold
             c == NodeCapacity[r]
             t == ScaleUpThreshold
  <2>1. a \in Nat /\ c \in Nat \ {0} /\ t \in Nat \ {0}
    BY <1>1, <1>2, Thresholds
  <2>2. b \in Nat \ {0}
    BY <2>1
  <2>3. part(r) \in Int /\ a < b * (part(r) + 1)
    <3> HIDE DEF a, b
    <3>1. part(r) = a \div b
      BY DEF a, b
    <3>2. a \div b \in Int /\ a = b * (a \div b) + (a % b) /\ a % b \in 0..(b - 1)
      BY <2>1, <2>2
    <3>3. b * ((a \div b) + 1) = b * (a \div b) + b
      BY <2>2, <3>2
    <3>4. b * (a \div b) \in Int
      BY <2>2, <3>2
    <3> QED  BY <2>1, <2>2, <3>1, <3>2, <3>3, <3>4
  <2>4. ASSUME NEW size \in Int, Fills(demand, NodeCapacity, size - 1, r)
        PROVE  size - 1 <= part(r)
    <3>1. t * ((size - 1) * c) = b * (size - 1)
      BY <2>1
    <3>2. a >= b * (size - 1)
      BY <2>4, <3>1 DEF Fills
    <3> HIDE DEF a, b, c, t, part
    <3>3. b * (size - 1) \in Int /\ b * (part(r) + 1) \in Int
      BY <2>2, <2>3
    <3>4. ~(b * (part(r) + 1) <= b * (size - 1))
      BY <2>1, <2>3, <3>2, <3>3
    <3>5. ~(part(r) + 1 <= size - 1)
      BY <2>2, <2>3, <3>4, Cancel
    <3> QED  BY <2>3, <3>5
  <2> QED  BY <2>3, <2>4
<1>3. {part(r) : r \in Resources} = {part("cpu"), part("mem")}
  BY DEF Resources
<1>4. EnoughNodes(demand) = Max({part("cpu"), part("mem")}) + 1
  BY <1>3 DEF EnoughNodes
<1> HIDE DEF part
<1>5. /\ part("cpu") \in Int /\ part("mem") \in Int
      /\ \A size \in Int, r \in Resources :
           Fills(demand, NodeCapacity, size - 1, r) => size - 1 <= part(r)
  BY <1>2 DEF Resources
<1>6. /\ Max({part("cpu"), part("mem")}) \in Int
      /\ \A r \in Resources : part(r) \in Int /\ part(r) <= Max({part("cpu"), part("mem")})
  BY <1>5, MaxOfTwo DEF Resources
<1> QED  BY <1>4, <1>5, <1>6

\* What the group may be as large as are integers; a smaller size is needed as well.
LEMMA NeedsLess ==
    ASSUME NEW a \in Int, NEW b \in Int, a <= b, Needed(b)
    PROVE  Needed(a)
<1>1. Needs \subseteq Int
  <2>1. Cardinality(InitialNodes) \in Nat /\ MinNodes \in Nat
    BY ClusterAssumption, OptionsAssumption, NodeCount
  <2>2. ASSUME NEW demand \in Demands PROVE EnoughNodes(demand) \in Int
    BY <2>2, EnoughIsEnough
  <2> QED  BY <2>1, <2>2 DEF Needs
<1>2. PICK need \in Needs : b <= need
  BY DEF Needed
<1>3. need \in Int
  BY <1>1
<1> QED  BY <1>2, <1>3 DEF Needed

\* A positive delta takes the untainted nodes to no more than the pods need.
LEMMA DeltaIsNeeded ==
    ASSUME LockCovers, NEW demand \in Demands, NEW starved \in BOOLEAN, view \in NodeObjects,
           NEW d \in NodesDelta(demand, starved), d > 0
    PROVE  Cardinality(UntaintedNodes(view)) + d <= EnoughNodes(demand)
<1> DEFINE count == Cardinality(UntaintedNodes(view))
           cached == IF known THEN NodeCapacity ELSE Zero
<1>1. count \in Nat /\ MaxNodes \in Nat /\ d \in Int
  BY FilteredNodes, NodeCount, OptionsAssumption, DeltaIsInt
<1>2. SizesOK(demand, NodeCapacity)
  BY OptionsAssumption DEF SizesOK
<1>3. PICK e \in ThresholdDelta(count, UsageOf(demand, NodeCapacity, count), demand, cached) :
        d = IF count > MaxNodes THEN Min({e, MaxNodes - count}) ELSE e
  <2>1. ~IsScaleOnStarve(starved) /\ ~ScaleOnMaxNodeAge
    BY DEF LockCovers, IsScaleOnStarve, ScaleOnMaxNodeAge
  <2> QED  BY <2>1 DEF NodesDelta, UsageOf
<1>4. cached \in {NodeCapacity, Zero}
  OBVIOUS
<1> HIDE DEF count, cached
<1>5. /\ e \in Int
      /\ e > 0 => \E r \in Resources : Fills(demand, NodeCapacity, count + e - 1, r)
  BY <1>1, <1>2, <1>4, Decision
<1>6. d <= e
  <2>1. MaxNodes - count \in Int
    BY <1>1
  <2> QED  BY <1>1, <1>3, <1>5, <2>1, MinOfTwo
<1>7. PICK r \in Resources : Fills(demand, NodeCapacity, count + e - 1, r)
  BY <1>1, <1>5, <1>6
<1>8. EnoughNodes(demand) \in Int /\ count + e <= EnoughNodes(demand)
  BY <1>1, <1>5, <1>7, EnoughIsEnough
<1> QED  BY <1>1, <1>5, <1>6, <1>8 DEF count

\* The first state: settled, and as large as it is.
LEMMA InitProvision == Init => ProvisionInv
<1> SUFFICES ASSUME Init PROVE ProvisionInv
  OBVIOUS
<1>1. /\ booting = {} /\ pc = "idle" /\ asg.desired = Cardinality(InitialNodes)
      /\ asg.instances = InitialNodes /\ nodeCache.nodes = InitialNodes
  BY DEF Init, ClusterInit, NoNodes
<1>2. Cardinality(InitialNodes) \in Nat
  BY ClusterAssumption, NodeCount
<1>3. BootInv
  BY <1>1, <1>2 DEF BootInv, Settled
<1>4. SeenInv
  BY <1>1 DEF SeenInv
<1>5. Cardinality(InitialNodes) \in Needs
  BY DEF Needs
<1>6. NeedInv
  BY <1>1, <1>2, <1>5 DEF NeedInv, NeverOverProvisioned
<1> QED  BY <1>3, <1>4, <1>6 DEF ProvisionInv

\* The periods and the times are integers.
LEMMA LockTimes ==
    ASSUME TypeOK
    PROVE  /\ {BootTime, CacheLag, ScanInterval, PassDuration, CoolDown} \subseteq Nat
           /\ {now, nextScan, bootBy, nodeCacheTime} \subseteq Nat /\ lockTime \in Int
           /\ asg.desired \in Int /\ asgView.desired \in Int /\ delta \in Int
BY ClusterAssumption, OptionsAssumption DEF TypeOK, ClusterTypeOK

\* The group is below its desired size only for boot time after a scale up.
LEMMA NextBoot ==
    ASSUME LockCovers, TypeOK, BootInv, unused # {}, [Next]_vars
    PROVE  BootInv'
<1>1. CASE \E n \in Node : (Launch(n) \/ Register(n)) /\ UNCHANGED controllerVars
  <2>1. UNCHANGED <<now, bootBy, lockTime>>
    BY <1>1 DEF Launch, Register, controllerVars
  <2>2. ~Settled
    <3>1. Cardinality(asg.instances) \in Nat
      BY NodeCount DEF TypeOK, ClusterTypeOK
    <3>2. \A a \in Nat, b \in Int : a < b => ~(a >= b)
      OBVIOUS
    <3> QED  BY <1>1, <3>1, <3>2, LockTimes DEF Launch, Register, Settled
  <2> QED  BY <2>1, <2>2 DEF BootInv
<1>2. ASSUME NEW n \in Node, TerminateNode(n) PROVE BootInv'
  <2>1. /\ UNCHANGED <<now, booting, bootBy, lockTime>> /\ n \in asg.instances
        /\ asg'.desired = asg.desired - 1 /\ asg'.instances = asg.instances \ {n}
    BY <1>2 DEF TerminateNode, TerminateInstance
  <2>2. /\ Cardinality(asg.instances) \in Nat
        /\ Cardinality(asg.instances \ {n}) = Cardinality(asg.instances) - 1
    <3>1. IsFiniteSet(asg.instances) /\ Cardinality(asg.instances) \in Nat
      BY NodeCount DEF TypeOK, ClusterTypeOK
    <3> QED  BY <2>1, <3>1, FS_RemoveElement
  <2>3. \A a \in Nat, b \in Int : a >= b => a - 1 >= b - 1
    OBVIOUS
  <2>4. Settled => Settled'
    BY <2>1, <2>2, <2>3, LockTimes DEF Settled
  <2> QED  BY <2>1, <2>4 DEF BootInv
<1>3. CASE IncreaseSize
  <2>1. now' = now /\ bootBy' = now + BootTime /\ lockTime' = now
    BY <1>3 DEF IncreaseSize, SetDesiredCapacity
  <2>2. \A a \in Nat, b \in Nat : a <= a + b /\ a + b <= a + b
    OBVIOUS
  <2> QED  BY <2>1, <2>2, LockTimes DEF BootInv
<1>4. CASE UNCHANGED <<asg, unused, booting, bootBy, lockTime>>
  <2>1. CASE Settled
    BY <1>4, <2>1 DEF BootInv, Settled
  <2>2. CASE ~Settled /\ now' = now
    BY <1>4, <2>2 DEF BootInv
  <2>3. CASE ~Settled /\ Clock
    <3>1. Cardinality(asg.instances) \in Nat
      BY NodeCount DEF TypeOK, ClusterTypeOK
    <3>2. Provisioning
      BY <2>3, <3>1, LockTimes DEF Settled, Provisioning
    <3>3. now < bootBy /\ now' = now + 1
      BY <2>3, <3>2 DEF Clock, Tick
    <3>4. \A a \in Nat, b \in Nat : a < b => a + 1 <= b
      OBVIOUS
    <3> QED  BY <1>4, <2>3, <3>3, <3>4, LockTimes DEF BootInv
  <2> QED  BY <2>1, <2>2, <2>3, GroupSteps
<1> QED  BY <1>1, <1>2, <1>3, <1>4, GroupSteps

\* Past boot time every instance has its Node object.
LEMMA AllRegistered ==
    ASSUME TypeOK, LifeInv, BootInv, now > lockTime + BootTime
    PROVE  Settled /\ asg.instances \subseteq api.nodes
<1>1. Settled
  BY LockTimes DEF BootInv
<1> QED  BY <1>1 DEF Settled, LifeInv, InstancesInv

\* New instances come up only within boot time of the lock.
LEMMA LaunchIsEarly ==
    ASSUME TypeOK, BootInv, NEW n \in Node, Launch(n)
    PROVE  now <= lockTime + BootTime
<1>1. Cardinality(asg.instances) \in Nat
  BY NodeCount DEF TypeOK, ClusterTypeOK
<1>2. ~Settled
  BY <1>1, LockTimes DEF Launch, Settled
<1> QED  BY <1>2, LockTimes DEF BootInv

\* The informer's copy of the instances that the lock covers.
LEMMA NextSeenByInformer ==
    ASSUME LockCovers, TypeOK, DrainInv, LifeInv, BootInv, SeenInv, [Next]_vars
    PROVE  nodeCacheTime' > lockTime' + BootTime => asg'.instances \subseteq nodeCache'.nodes
<1> SUFFICES ASSUME nodeCacheTime' > lockTime' + BootTime
             PROVE  asg'.instances \subseteq nodeCache'.nodes
  OBVIOUS
<1> USE DEF SeenInv
<1>1. nodeCacheTime <= now
  BY DEF DrainInv, ClockInv
<1>2. CASE SyncNodes
  <2>1. UNCHANGED <<now, asg>> /\ nodeCache' = api /\ nodeCacheTime' = now
    BY <1>2 DEF SyncNodes, worldVars
  <2>2. CASE lockTime' = lockTime
    BY <2>1, <2>2, AllRegistered
  <2>3. CASE IncreaseSize
    <3>1. lockTime' = now
      BY <2>3 DEF IncreaseSize
    <3> QED  BY <2>1, <3>1, LockTimes
  <2>4. ASSUME NEW n \in Node, TerminateNode(n) PROVE lockTime' = lockTime
    BY <2>4 DEF TerminateNode
  <2> QED  BY <2>2, <2>3, <2>4, GroupSteps DEF controllerVars
<1>3. CASE UNCHANGED <<nodeCache, nodeCacheTime>>
  <2>1. ASSUME NEW n \in Node, Launch(n) \/ Register(n), UNCHANGED controllerVars
        PROVE  asg'.instances \subseteq nodeCache'.nodes
    <3>1. lockTime' = lockTime
      BY <2>1 DEF controllerVars
    <3>2. ~Launch(n)
      BY <1>1, <1>3, <3>1, LaunchIsEarly, LockTimes
    <3>3. asg' = asg
      BY <2>1, <3>2 DEF Register
    <3> QED  BY <1>3, <3>1, <3>3
  <2>2. ASSUME NEW n \in Node, TerminateNode(n) PROVE asg'.instances \subseteq nodeCache'.nodes
    <3>1. lockTime' = lockTime /\ asg'.instances \subseteq asg.instances
      BY <2>2 DEF TerminateNode, TerminateInstance
    <3> QED  BY <1>3, <3>1
  <2>3. ~IncreaseSize
    <3>1. IncreaseSize => lockTime' = now
      BY DEF IncreaseSize
    <3> QED  BY <1>1, <1>3, <3>1, LockTimes
  <2>4. CASE UNCHANGED <<asg, lockTime>>
    BY <1>3, <2>4
  <2> QED  BY <2>1, <2>2, <2>3, <2>4, GroupSteps
<1> QED  BY <1>2, <1>3, GroupSteps

\* A pass goes beyond its look at the nodes to reach min_nodes, or when the lock is free.
LEMMA LeavesUnhealthy ==
    ASSUME [Next]_vars, pc = "unhealthy", pc' \notin {"idle", "refreshed", "unhealthy"}
    PROVE  TooFewUntainted \/ ~Locked
<1>1. ~Environment /\ ~Clock /\ ~UNCHANGED vars /\ ~Refresh /\ ~Restart
  BY DEF Environment, Clock, vars, controllerVars, Refresh, Restart, EndPass
<1>2. Judge \/ \E n \in Node : NodeStep(n)
  BY <1>1 DEF Next, PassStep, List, Scale, ScaleDownTaint, ReapDone, TaintDone, UntaintDone,
              IncreaseSize, IncreaseFails
<1>3. \A n \in Node : ~NodeStep(n)
  BY DEF NodeStep, TaintUnhealthy, TerminateNode, TerminateFails, DeleteFromKubernetes, DeleteFails,
         TaintOldest, UntaintNewest
<1> QED  BY <1>2, <1>3 DEF Judge, NothingToDo, RefuseTooFewNodes, ScaleUpToMin, WaitForScale, Decide,
                           EndPass

\* The nodes a pass lists, and the pass that gets past the lock.
LEMMA NextSeen ==
    ASSUME LockCovers, TypeOK, DrainInv, LifeInv, KeepsMin, BootInv, SeenInv, [Next]_vars
    PROVE  SeenInv'
<1> USE DEF SeenInv
<1>1. pc # "idle" => PassBegan <= now /\ now <= PassBegan + PassDuration
  BY LockTimes DEF DrainInv, ClockInv, PassBegan
<1>2. PassBegan \in Int
  BY LockTimes DEF PassBegan
<1>3. ASSUME pc' \notin {"idle", "refreshed"}
      PROVE  asg'.instances \subseteq view'.nodes \/ PassBegan' <= lockTime' + BootTime + CacheLag
  <2>1. PassBegan' = PassBegan /\ lockTime' = lockTime
    BY <1>3, PassGoesOn DEF PassBegan
  <2>2. CASE List
    <3>1. /\ pc = "refreshed" /\ asg' = asg /\ view' = nodeCache
      BY <2>2 DEF List, clusterVars, worldVars
    <3>2. now <= nodeCacheTime + CacheLag
      BY DEF DrainInv, ClockInv
    <3>3. nodeCacheTime > lockTime + BootTime \/ PassBegan <= lockTime + BootTime + CacheLag
      BY <1>1, <1>2, <3>1, <3>2, LockTimes
    <3> QED  BY <2>1, <3>1, <3>3
  <2>3. CASE pc \notin {"idle", "refreshed"} /\ view' = view
    <3>1. asg.instances \subseteq view.nodes \/ PassBegan <= lockTime + BootTime + CacheLag
      BY <2>3
    <3>2. ASSUME NEW n \in Node, Launch(n) PROVE PassBegan <= lockTime + BootTime + CacheLag
      BY <1>1, <1>2, <2>3, <3>2, LaunchIsEarly, LockTimes
    <3>3. ASSUME NEW n \in Node, TerminateNode(n) PROVE asg'.instances \subseteq asg.instances
      BY <3>3 DEF TerminateNode, TerminateInstance
    <3>4. ~IncreaseSize
      BY <1>3 DEF IncreaseSize, EndPass
    <3>5. ASSUME NEW n \in Node, Register(n) PROVE asg' = asg
      BY <3>5 DEF Register
    <3> QED  BY <2>1, <2>3, <3>1, <3>2, <3>3, <3>4, <3>5, GroupSteps
  <2> QED  BY <1>3, <2>2, <2>3, PassGoesOn
<1>4. ASSUME pc' \notin {"idle", "refreshed", "unhealthy"}
      PROVE  PassBegan' > lockTime' + BootTime + CacheLag
  <2>1. /\ PassBegan' = PassBegan /\ lockTime' = lockTime
        /\ List \/ pc \notin {"idle", "refreshed"}
    BY <1>4, PassGoesOn DEF PassBegan
  <2>2. ~List
    BY <1>4 DEF List
  <2>3. CASE pc # "unhealthy"
    BY <2>1, <2>2, <2>3
  <2>4. CASE pc = "unhealthy"
    <3>1. ~TooFewUntainted
      <4>1. Cardinality(UntaintedNodes(view)) \in Nat /\ MinNodes \in Nat
        BY FilteredNodes, NodeCount, OptionsAssumption DEF TypeOK
      <4> QED  BY <2>4, <4>1 DEF KeepsMin, TooFewUntainted
    <3>2. ~Locked
      BY <1>4, <2>4, <3>1, LeavesUnhealthy
    <3> QED  BY <1>1, <1>2, <2>1, <2>4, <3>2, LockTimes DEF Locked, LockCovers
  <2> QED  BY <2>3, <2>4
<1> QED  BY <1>3, <1>4, NextSeenByInformer

\* A pass past the lock has the whole group before it, as it is.
LEMMA PassSeesGroup ==
    ASSUME TypeOK, DrainInv, LifeInv, BootInv, SeenInv, pc \notin {"idle", "refreshed", "unhealthy"}
    PROVE  /\ Settled /\ asg.instances \subseteq api.nodes /\ asg.instances \subseteq view.nodes
           /\ \A n \in Node : ~Launch(n)
<1>1. PassBegan > lockTime + BootTime + CacheLag /\ PassBegan <= now
  BY LockTimes DEF SeenInv, DrainInv, ClockInv, PassBegan
<1>2. PassBegan \in Int
  BY LockTimes DEF PassBegan
<1>3. now > lockTime + BootTime /\ ~(PassBegan <= lockTime + BootTime + CacheLag)
  BY <1>1, <1>2, LockTimes
<1>4. \A n \in Node : ~Launch(n)
  BY <1>3, LaunchIsEarly, LockTimes
<1> QED  BY <1>3, <1>4, AllRegistered DEF SeenInv

\* What is listed as tainted may come back; the rest of the group is untainted.
LEMMA GroupIsListed ==
    ASSUME TypeOK, SizeInv, MinInv, asg.instances \subseteq view.nodes
    PROVE  Cardinality(asg.instances) <=
             Cardinality(UntaintedNodes(view)) + Cardinality(TaintedNodes(view) \cap asg.instances)
<1> DEFINE U == UntaintedNodes(view)
           T == TaintedNodes(view) \cap asg.instances
<1>1. U \in SUBSET Node /\ T \in SUBSET Node /\ U \cup T \in SUBSET Node
  BY FilteredNodes DEF TypeOK
<1>2. asg.instances \subseteq U \cup T
  BY DEF SizeInv, MinInv, UntaintedNodes, TaintedNodes
<1>3. U \cap T = {}
  BY DEF UntaintedNodes, TaintedNodes
<1> HIDE DEF U, T
<1>4. asg.instances \in SUBSET Node
  BY DEF TypeOK, ClusterTypeOK
<1>5. /\ Cardinality(asg.instances) \in Nat /\ Cardinality(U \cup T) \in Nat
      /\ Cardinality(asg.instances) <= Cardinality(U \cup T)
  BY <1>1, <1>2, <1>4, MoreNodes
<1>6. Cardinality(U \cup T) = Cardinality(U) + Cardinality(T)
  <2>1. IsFiniteSet(U) /\ IsFiniteSet(T) /\ Cardinality(U) \in Nat /\ Cardinality(T) \in Nat
    BY <1>1, NodeCount
  <2>2. Cardinality(U \cap T) = 0
    BY <1>3, FS_EmptySet
  <2>3. Cardinality(U \cup T) = Cardinality(U) + Cardinality(T) - Cardinality(U \cap T)
    BY <2>1, FS_Union
  <2> QED  BY <2>1, <2>2, <2>3
<1> QED  BY <1>5, <1>6 DEF U, T

\* untaintNewestN: a node of the group is counted when it is back, another one only lowers
\* what is left to add.
LEMMA UntaintNeed ==
    ASSUME LockCovers, TypeOK, asg.instances \subseteq api.nodes, NeedInv,
           NEW n \in Node, UntaintNewest(n)
    PROVE  Needed(asg'.desired + delta' - Cardinality(todo' \cap asg'.instances))
<1> DEFINE S == todo \cap asg.instances
<1>1. pc = "untaint" /\ n \in todo /\ todo' = todo \ {n} /\ asg' = asg
  BY DEF UntaintNewest, Newest
<1>2. delta' = delta - 1 \/ (delta' = delta /\ n \notin asg.instances)
  BY DEF UntaintNewest, ApiMayFail, LockCovers
<1>3. todo' \cap asg'.instances = S \ {n}
  BY <1>1
<1>4. /\ Cardinality(S) \in Nat /\ Cardinality(S \ {n}) \in Nat
      /\ n \in asg.instances => Cardinality(S \ {n}) = Cardinality(S) - 1
      /\ n \notin asg.instances => Cardinality(S \ {n}) = Cardinality(S)
  <2>1. S \in SUBSET Node /\ S \ {n} \in SUBSET Node
    BY DEF TypeOK
  <2>2. IsFiniteSet(S) /\ Cardinality(S) \in Nat /\ Cardinality(S \ {n}) \in Nat
    BY <2>1, NodeCount
  <2>3. n \in asg.instances => n \in S
    BY <1>1
  <2>4. n \notin asg.instances => S \ {n} = S
    OBVIOUS
  <2> HIDE DEF S
  <2> QED  BY <2>2, <2>3, <2>4, FS_RemoveElement
<1>5. Needed(asg.desired + delta - Cardinality(S))
  BY <1>1 DEF NeedInv
<1> HIDE DEF S
<1>6. /\ asg.desired + delta' - Cardinality(S \ {n}) \in Int
      /\ asg.desired + delta - Cardinality(S) \in Int
      /\ asg.desired + delta' - Cardinality(S \ {n}) <= asg.desired + delta - Cardinality(S)
  <2>1. \A a \in Int, d \in Int, k \in Nat :
          /\ a + (d - 1) - (k - 1) <= a + d - k /\ a + (d - 1) - k <= a + d - k
          /\ a + d - k \in Int /\ a + (d - 1) - (k - 1) \in Int /\ a + (d - 1) - k \in Int
    OBVIOUS
  <2>2. CASE delta' = delta /\ n \notin asg.instances
    <3>1. delta \in Int /\ asg.desired \in Int
      BY LockTimes
    <3>2. \A a \in Int : a <= a
      OBVIOUS
    <3>3. asg.desired + delta' - Cardinality(S \ {n}) = asg.desired + delta - Cardinality(S)
      BY <1>4, <2>2
    <3> QED  BY <1>4, <2>1, <3>1, <3>2, <3>3
  <2>3. CASE delta' = delta - 1 /\ n \in asg.instances
    BY <1>4, <2>1, <2>3, LockTimes
  <2>4. CASE delta' = delta - 1 /\ n \notin asg.instances
    BY <1>4, <2>1, <2>4, LockTimes
  <2> QED  BY <1>2, <2>2, <2>3, <2>4
<1>7. Needed(asg.desired + delta' - Cardinality(S \ {n}))
  BY <1>5, <1>6, NeedsLess
<1> QED  BY <1>1, <1>3, <1>7

\* The steps of a pass that scales up.
LEMMA ScaleUpSteps ==
    ASSUME LockCovers, TypeOK, SizeInv, pc = "unhealthy" => ~TooFewUntainted, [Next]_vars,
           pc' \in {"scale", "untaint", "increase"}
    PROVE  \/ /\ pc' = pc /\ UNCHANGED <<delta, todo, view>>
              /\ asg' = asg \/ \E n \in Node : Launch(n)
           \/ /\ pc' = "scale" /\ view' = view
              /\ \E demand \in Demands, starved \in BOOLEAN : delta' \in NodesDelta(demand, starved)
           \/ /\ pc = "scale" /\ delta > 0 /\ pc' = "untaint"
              /\ delta' = delta /\ todo' = TaintedNodes(view) /\ asg' = asg
           \/ pc' = "untaint" /\ \E n \in Node : UntaintNewest(n)
           \/ /\ pc = "untaint" /\ todo = {} /\ pc' = "increase" /\ delta' = delta /\ asg' = asg
<1> USE DEF clusterVars, worldVars, listing
<1>1. CASE Environment \/ Clock \/ UNCHANGED vars
  <2>1. UNCHANGED <<pc, delta, todo, view>>
    BY <1>1 DEF Environment, Clock, vars, controllerVars, passVars
  <2>2. ASSUME NEW n \in Node, NodeEvent(n) PROVE asg' = asg \/ Launch(n)
    <3>1. ~InstanceLost(n)
      BY DEF InstanceLost, Upset, LockCovers
    <3> QED  BY <2>2, <3>1 DEF NodeEvent, BindPod, PodsDone, Launch, Register, NodeCleanup, Cordon,
                               ForceTaint, Annotate, ReadyChanges
  <2>3. asg' = asg \/ \E n \in Node : Launch(n)
    BY <1>1, <2>2 DEF Environment, SyncNodes, SyncPods, Clock, Tick, vars
  <2> QED  BY <2>1, <2>3
<1>2. /\ ~Refresh /\ ~Restart /\ ~List /\ ~ScaleDownTaint /\ ~ReapDone /\ ~TaintDone
      /\ ~IncreaseSize /\ ~IncreaseFails
  BY DEF Refresh, Restart, List, ScaleDownTaint, ReapDone, TaintDone, IncreaseSize, IncreaseFails,
         EndPass
<1>3. CASE Judge
  <2>1. ForceCandidates = {}
    BY DEF ForceCandidates, ForceTaintedNodes, SizeInv
  <2>2. PICK demand \in Demands, starved \in BOOLEAN : Decide(demand, starved)
    BY <1>3 DEF Judge, Judging, NothingToDo, RefuseTooFewNodes, ScaleUpToMin, WaitForScale, EndPass
  <2> QED  BY <2>1, <2>2 DEF Decide, TryDeleteNodes
<1>4. ASSUME NEW healthy \in BOOLEAN, Scale(healthy)
      PROVE  /\ pc = "scale" /\ delta > 0 /\ pc' = "untaint"
             /\ delta' = delta /\ todo' = TaintedNodes(view) /\ asg' = asg
  BY <1>4 DEF Scale, BeginScaleUp, TryDeleteNodes
<1>5. CASE UntaintDone
  <2>1. pc = "untaint" /\ delta # 0 /\ todo = {} /\ pc' = "increase" /\ delta' = delta /\ asg' = asg
    BY <1>5 DEF UntaintDone, EndPass
  <2> QED  BY <2>1
<1>6. ASSUME NEW n \in Node, NodeStep(n) PROVE pc' = "untaint" /\ UntaintNewest(n)
  <2>1. pc \notin {"forceTerminate", "forceDelete"}
    BY DEF SizeInv
  <2> QED  BY <1>6, <2>1 DEF NodeStep, TaintUnhealthy, TerminateNode, TerminateFails,
                             DeleteFromKubernetes, DeleteFails, TaintOldest, UntaintNewest, AfterRemoval
<1> QED  BY <1>1, <1>2, <1>3, <1>4, <1>5, <1>6 DEF Next, PassStep

\* The desired size itself: a scale up adds what is needed, a termination takes one away.
LEMMA NextDesired ==
    ASSUME TypeOK, SizeInv, NeedInv, [Next]_vars
    PROVE  NeverOverProvisioned'
<1>1. Needed(asg.desired)
  BY DEF NeedInv, NeverOverProvisioned, Needed
<1>2. SUFFICES Needed(asg'.desired)
  BY DEF NeverOverProvisioned, Needed, Needs, EnoughNodes
<1>3. CASE ~IncreaseSize /\ \A n \in Node : ~TerminateNode(n)
  BY <1>1, <1>3, SameSize
<1>4. CASE IncreaseSize
  <2>1. pc = "increase" /\ asg'.desired = asgView.desired + NodesToAdd
    BY <1>4 DEF IncreaseSize, SetDesiredCapacity, TypeOK, ClusterTypeOK
  <2>2. NodesToAdd \in Int /\ NodesToAdd <= delta
    <3>1. delta \in Int /\ AsgMax - asgView.desired \in Int
      BY LockTimes, OptionsAssumption
    <3> QED  BY <3>1, MinOfTwo DEF NodesToAdd
  <2>3. asgView.desired = asg.desired /\ Needed(asg.desired + delta)
    BY <2>1 DEF SizeInv, NeedInv
  <2>4. \A a \in Int, x \in Int, y \in Int : x <= y => a + x \in Int /\ a + y \in Int /\ a + x <= a + y
    OBVIOUS
  <2>5. Needed(asg.desired + NodesToAdd)
    BY <2>2, <2>3, <2>4, LockTimes, NeedsLess
  <2> QED  BY <2>1, <2>3, <2>5
<1>5. ASSUME NEW n \in Node, TerminateNode(n) PROVE Needed(asg'.desired)
  <2>1. asg'.desired = asg.desired - 1
    BY <1>5 DEF TerminateNode, TerminateInstance
  <2>2. \A a \in Int : a - 1 \in Int /\ a - 1 <= a
    OBVIOUS
  <2> QED  BY <1>1, <2>1, <2>2, LockTimes, NeedsLess
<1> QED  BY <1>3, <1>4, <1>5

\* What a pass adds is what the pods need.
LEMMA NextNeed ==
    ASSUME LockCovers, TypeOK, DrainInv, LifeInv, SizeInv, MinInv, KeepsMin, BootInv, SeenInv, NeedInv,
           [Next]_vars
    PROVE  NeedInv'
<1>1. NeverOverProvisioned'
  BY NextDesired
<1>2. pc = "unhealthy" => ~TooFewUntainted
  <2>1. Cardinality(UntaintedNodes(view)) \in Nat /\ MinNodes \in Nat
    BY FilteredNodes, NodeCount, OptionsAssumption DEF TypeOK
  <2> QED  BY <2>1 DEF KeepsMin, TooFewUntainted
<1>3. CASE pc' \notin {"scale", "untaint", "increase"}
  BY <1>1, <1>3 DEF NeedInv
<1>4. CASE pc' = pc /\ UNCHANGED <<delta, todo, view>> /\ (asg' = asg \/ \E n \in Node : Launch(n))
  <2>1. CASE pc \notin {"scale", "untaint", "increase"}
    BY <1>1, <1>4, <2>1 DEF NeedInv
  <2>2. CASE pc \in {"scale", "untaint", "increase"}
    <3>1. asg' = asg
      BY <1>4, <2>2, PassSeesGroup
    <3> QED  BY <1>1, <1>4, <3>1 DEF NeedInv, Needed, Needs, EnoughNodes
  <2> QED  BY <2>1, <2>2
<1>5. CASE /\ pc' = "scale" /\ view' = view
           /\ \E demand \in Demands, starved \in BOOLEAN : delta' \in NodesDelta(demand, starved)
  <2>1. PICK demand \in Demands, starved \in BOOLEAN : delta' \in NodesDelta(demand, starved)
    BY <1>5
  <2>2. delta' > 0 => Cardinality(UntaintedNodes(view)) + delta' <= EnoughNodes(demand)
    BY <2>1, DeltaIsNeeded DEF TypeOK
  <2>3. EnoughNodes(demand) \in Needs
    BY DEF Needs
  <2>4. delta' > 0 => Needed(Cardinality(UntaintedNodes(view)) + delta')
    BY <2>2, <2>3 DEF Needed
  <2> QED  BY <1>1, <1>5, <2>4 DEF NeedInv, Needed, Needs, EnoughNodes
<1>6. CASE /\ pc = "scale" /\ delta > 0 /\ pc' = "untaint"
           /\ delta' = delta /\ todo' = TaintedNodes(view) /\ asg' = asg
  <2> DEFINE u == Cardinality(UntaintedNodes(view))
             k == Cardinality(TaintedNodes(view) \cap asg.instances)
  <2>1. Needed(u + delta)
    BY <1>6 DEF NeedInv
  <2>2. Cardinality(asg.instances) >= asg.desired /\ Cardinality(asg.instances) <= u + k
    BY <1>6, PassSeesGroup, GroupIsListed DEF Settled
  <2>3. u \in Nat /\ k \in Nat /\ Cardinality(asg.instances) \in Nat
    <3>1. /\ UntaintedNodes(view) \in SUBSET Node /\ TaintedNodes(view) \cap asg.instances \in SUBSET Node
          /\ asg.instances \in SUBSET Node
      BY FilteredNodes DEF TypeOK, ClusterTypeOK
    <3> QED  BY <3>1, NodeCount
  <2>4. todo' \cap asg'.instances = TaintedNodes(view) \cap asg.instances
    BY <1>6
  <2> HIDE DEF u, k
  <2>5. asg.desired + delta - k \in Int /\ u + delta \in Int /\ asg.desired + delta - k <= u + delta
    BY <2>2, <2>3, LockTimes
  <2>6. Needed(asg.desired + delta - k)
    BY <2>1, <2>5, NeedsLess
  <2>7. Needed(asg'.desired + delta' - Cardinality(todo' \cap asg'.instances))
    BY <1>6, <2>4, <2>6 DEF k
  <2> QED  BY <1>1, <1>6, <2>7 DEF NeedInv, Needed, Needs, EnoughNodes
<1>7. ASSUME pc' = "untaint", NEW n \in Node, UntaintNewest(n) PROVE NeedInv'
  <2>1. pc = "untaint"
    BY <1>7 DEF UntaintNewest
  <2>2. Needed(asg'.desired + delta' - Cardinality(todo' \cap asg'.instances))
    BY <1>7, <2>1, PassSeesGroup, UntaintNeed
  <2> QED  BY <1>1, <1>7, <2>2 DEF NeedInv, Needed, Needs, EnoughNodes
<1>8. CASE pc = "untaint" /\ todo = {} /\ pc' = "increase" /\ delta' = delta /\ asg' = asg
  <2>1. Cardinality(todo \cap asg.instances) = 0
    BY <1>8, FS_EmptySet
  <2>2. Needed(asg.desired + delta)
    <3>1. Needed(asg.desired + delta - 0)
      BY <1>8, <2>1 DEF NeedInv
    <3> QED  BY <3>1, LockTimes
  <2> QED  BY <1>1, <1>8, <2>2 DEF NeedInv, Needed, Needs, EnoughNodes
<1> QED  BY <1>2, <1>3, <1>4, <1>5, <1>6, <1>7, <1>8, ScaleUpSteps

\* Names are used up, never given back.
LEMMA NextProvision ==
    ASSUME LockCovers, TypeOK, DrainInv, LifeInv, SizeInv, MinInv, KeepsMin, ProvisionInv, [Next]_vars
    PROVE  ProvisionInv'
<1> SUFFICES ASSUME unused' # {} PROVE BootInv' /\ SeenInv' /\ NeedInv'
  BY DEF ProvisionInv
<1>1. unused # {}
  BY GroupSteps DEF Launch, Register, TerminateNode, IncreaseSize
<1>2. BootInv /\ SeenInv /\ NeedInv
  BY <1>1 DEF ProvisionInv
<1> QED  BY <1>1, <1>2, NextBoot, NextSeen, NextNeed

\* The scale lock prevents "infinite" scale up, for any number of nodes, any load and any
\* failures of the cloud: a cool-down that outlasts boot time, the informer's lag and a
\* pass keeps the group to what some load needed, as long as the model has names left for
\* the instances the group asks for.
THEOREM LockPreventsOverProvision ==
    ASSUME SafeTiming, LockCovers
    PROVE  Spec => [](unused # {} => NeverOverProvisioned)
<1>1. OnlyEscalatorDrains /\ "force" \notin Operations
  BY LockNeedsNoDrains DEF OnlyEscalatorDrains
<1>2. Spec => []LifeInv
  BY InitLife, NextLife, TypeCorrect, DrainInvariant, PTL DEF Spec
<1>3. Spec => []SizeInv
  BY <1>1, InitSize, NextSize, TypeCorrect, PTL DEF Spec
<1>4. Spec => []MinInv
  BY <1>1, <1>2, <1>3, InitMin, NextMin, TypeCorrect, DrainInvariant, PTL DEF Spec
<1>5. Spec => []KeepsMin
  BY <1>2, <1>3, <1>4, InitKeepsMin, NextKeepsMin, TypeCorrect, DrainInvariant, PTL DEF Spec
<1>6. Spec => []ProvisionInv
  BY <1>2, <1>3, <1>4, <1>5, InitProvision, NextProvision, TypeCorrect, DrainInvariant, PTL DEF Spec
<1>7. ProvisionInv => (unused # {} => NeverOverProvisioned)
  BY DEF ProvisionInv, NeedInv
<1> QED  BY <1>6, <1>7, PTL
================================================================================
