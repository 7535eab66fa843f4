---------------------------- MODULE LifecycleProofs ----------------------------
(***************************************************************************)
(* NodeGroupController implements NodeLifecycle, for every number of nodes *)
(* and every value of the options that SafeTiming admits: DrainInv and     *)
(* LifeInv are inductive, and every step of a pass, of the cluster and of  *)
(* the clock is a step of the abstract specification or changes nothing    *)
(* that it speaks of.                                                      *)
(***************************************************************************)
EXTENDS NodeGroupProofs

\* An instance that has come up has its Node object until it is terminated or lost, and
\* pods run on instances.
InstancesInv ==
    /\ booting \subseteq asg.instances /\ asg.instances \cap unused = {}
    /\ asg.instances \ booting \subseteq api.nodes
    /\ busy \subseteq asg.instances

\* A force taint stays until its node is gone, so a copy of it is never wrong.
ForceInv ==
    /\ api.force \subseteq api.nodes /\ nodeCache.force \subseteq nodeCache.nodes
    /\ view.force \subseteq view.nodes
    /\ (nodeCache.force \cup view.force) \cap api.nodes \subseteq api.force

\* What TryDeleteNodes has come past is terminated; only then is a Node object deleted.
RemovalInv ==
    /\ pc \in {"forceTerminate", "reapTerminate", "forceDelete", "reapDelete"} =>
         todo \subseteq batch /\ batch \subseteq view.nodes
    /\ pc \in {"forceTerminate", "reapTerminate"} => (batch \ todo) \cap asg.instances = {}
    /\ pc \in {"forceDelete", "reapDelete"} => todo \cap asg.instances = {}
    /\ pc = "forceTerminate" => todo \subseteq view.force

\* Since Refresh the group has only become smaller: what a pass asks for is growth.
RefreshInv == pc # "idle" => asg.desired <= asgView.desired

LifeInv == InstancesInv /\ ForceInv /\ RemovalInv /\ RefreshInv

(***************************************************************************)
(* LifeInv is inductive.                                                   *)
(***************************************************************************)

\* The first state: every node is registered and nothing is listed.
LEMMA InitLife == Init => LifeInv
<1> SUFFICES ASSUME Init PROVE LifeInv
  OBVIOUS
<1> USE ClusterAssumption DEF Init, ClusterInit
<1>1. /\ api.nodes = InitialNodes /\ api.force = {} /\ nodeCache = api
      /\ view.nodes = {} /\ view.force = {}
  BY DEF NoNodes
<1>2. asg.instances = InitialNodes
  OBVIOUS
<1> QED  BY <1>1, <1>2 DEF LifeInv, InstancesInv, ForceInv, RemovalInv, RefreshInv

\* The end of a pass.
LEMMA EndPassLife ==
    ASSUME LifeInv, EndPass, UNCHANGED <<api, busy, unused, booting, nodeCache>>,
           asg'.instances = asg.instances
    PROVE  LifeInv'
BY DEF LifeInv, InstancesInv, ForceInv, RemovalInv, RefreshInv, EndPass, NoNodes

\* A step of a pass that calls nobody.
LEMMA MovesOnLife ==
    ASSUME LifeInv, UNCHANGED <<api, busy, asg, unused, booting, nodeCache, view, asgView>>,
           pc # "idle", RemovalInv'
    PROVE  LifeInv'
BY DEF LifeInv, InstancesInv, ForceInv, RefreshInv

\* A Node object goes whose instance is gone: no list is the worse for it.
LEMMA DeletedLife ==
    ASSUME TypeOK, LifeInv, NEW n \in Node, DeleteNode(n), n \notin asg.instances,
           UNCHANGED <<asg, unused, booting, nodeCache, view, asgView>>,
           pc # "idle" \/ pc' = "idle", RemovalInv'
    PROVE  LifeInv'
<1>1. /\ api'.nodes = api.nodes \ {n} /\ api'.force = api.force \ {n} /\ busy' = busy \ {n}
  BY DEF DeleteNode, Without
<1> QED  BY <1>1 DEF LifeInv, InstancesInv, ForceInv, RefreshInv

\* What happens in the cluster.
LEMMA EnvironmentLife ==
    ASSUME TypeOK, DrainInv, LifeInv, Environment
    PROVE  LifeInv'
<1> USE DEF TypeOK, ClusterTypeOK, worldVars
<1>1. UNCHANGED <<pc, view, asgView, todo, batch>>
  BY DEF Environment, controllerVars, passVars
<1>2. view.nodes \cap (booting \cup unused) = {} /\ api.nodes \cap (booting \cup unused) = {}
      /\ nodeCache.nodes \cap (booting \cup unused) = {} /\ booting \cap unused = {}
  BY DEF DrainInv, NamesInv, WellFormed
<1>3. CASE SyncNodes \/ SyncPods
  BY <1>1, <1>3 DEF SyncNodes, SyncPods, LifeInv, InstancesInv, ForceInv, RemovalInv, RefreshInv
<1>4. ASSUME NEW n \in Node, NodeEvent(n) PROVE LifeInv'
  <2>1. nodeCache' = nodeCache /\ asg'.desired = asg.desired
    BY <1>4 DEF NodeEvent, BindPod, PodsDone, Launch, Register, InstanceLost, NodeCleanup,
                Cordon, ForceTaint, Annotate, ReadyChanges, cacheVars
  <2>2. RefreshInv'
    BY <1>1, <2>1 DEF LifeInv, RefreshInv
  <2>3. CASE BindPod(n) \/ PodsDone(n)
    <3>1. UNCHANGED <<api, asg, unused, booting>> /\ busy' \subseteq busy \cup asg.instances
      BY <2>3 DEF BindPod, PodsDone
    <3> QED  BY <1>1, <2>1, <2>2, <3>1 DEF LifeInv, InstancesInv, ForceInv, RemovalInv
  <2>4. CASE Launch(n)
    <3>1. /\ UNCHANGED <<api, busy>> /\ n \in unused
          /\ unused' = unused \ {n} /\ booting' = booting \cup {n}
          /\ asg'.instances = asg.instances \cup {n}
      BY <2>4 DEF Launch
    <3>2. n \notin view.nodes
      BY <1>2, <3>1
    <3>3. InstancesInv' /\ ForceInv'
      BY <1>1, <2>1, <3>1 DEF LifeInv, InstancesInv, ForceInv
    <3>4. RemovalInv'
      BY <1>1, <3>1, <3>2 DEF LifeInv, RemovalInv
    <3> QED  BY <2>2, <3>3, <3>4 DEF LifeInv
  <2>5. CASE Register(n)
    <3>1. /\ api'.nodes = api.nodes \cup {n} /\ api'.force = api.force
          /\ n \in booting /\ booting' = booting \ {n} /\ UNCHANGED <<busy, unused, asg>>
      BY <2>5 DEF Register, NodeObjects
    <3>2. n \notin view.nodes /\ n \notin nodeCache.nodes
      BY <1>2, <3>1
    <3>3. InstancesInv' /\ ForceInv'
      BY <1>1, <2>1, <3>1, <3>2 DEF LifeInv, InstancesInv, ForceInv
    <3>4. RemovalInv'
      BY <1>1, <3>1 DEF LifeInv, RemovalInv
    <3> QED  BY <2>2, <3>3, <3>4 DEF LifeInv
  <2>6. CASE InstanceLost(n)
    <3>1. /\ UNCHANGED <<api, unused, booting>> /\ busy' = busy \ {n} /\ n \notin booting
          /\ asg'.instances = asg.instances \ {n}
      BY <2>6 DEF InstanceLost
    <3>2. InstancesInv' /\ ForceInv'
      BY <1>1, <2>1, <3>1 DEF LifeInv, InstancesInv, ForceInv
    <3>3. RemovalInv'
      BY <1>1, <3>1 DEF LifeInv, RemovalInv
    <3> QED  BY <2>2, <3>2, <3>3 DEF LifeInv
  <2>7. CASE NodeCleanup(n)
    <3>1. UNCHANGED <<asg, unused, booting>> /\ n \notin asg.instances /\ DeleteNode(n)
      BY <2>7 DEF NodeCleanup
    <3>2. RemovalInv'
      BY <1>1, <3>1 DEF LifeInv, RemovalInv
    <3> QED  BY <1>1, <2>1, <3>1, <3>2, DeletedLife
  <2>8. CASE Cordon(n) \/ ForceTaint(n) \/ Annotate(n) \/ ReadyChanges(n)
    <3>1. /\ api'.nodes = api.nodes /\ api.force \subseteq api'.force
          /\ api'.force \subseteq api.force \cup {n} /\ n \in api.nodes
          /\ UNCHANGED <<busy, booting, unused, asg>>
      BY <2>8 DEF Cordon, ForceTaint, Annotate, ReadyChanges, NodeObjects
    <3> QED  BY <1>1, <2>1, <2>2, <3>1 DEF LifeInv, InstancesInv, ForceInv, RemovalInv
  <2> QED  BY <1>4, <2>3, <2>4, <2>5, <2>6, <2>7, <2>8 DEF NodeEvent
<1> QED  BY <1>3, <1>4 DEF Environment

\* A removal begins with a list of nodes of the group, force tainted or tainted.
LEMMA CandidatesAreListed ==
    ASSUME DrainInv, LifeInv
    PROVE  /\ ForceCandidates \subseteq view.force /\ view.force \subseteq view.nodes
           /\ \A healthy : ReapCandidates(healthy) \subseteq view.nodes
BY DEF ForceCandidates, ForceTaintedNodes, ReapCandidates, TaintedNodes, LifeInv, ForceInv,
       DrainInv, NamesInv, WellFormed

\* The steps of a pass that call nobody.
LEMMA DecisionLife ==
    ASSUME TypeOK, DrainInv, LifeInv,
           \/ Refresh \/ List \/ Judge \/ (\E healthy \in BOOLEAN : Scale(healthy)) \/ ScaleDownTaint
           \/ ReapDone \/ TaintDone \/ UntaintDone \/ IncreaseFails
    PROVE  LifeInv'
<1> USE DEF clusterVars, worldVars, cacheVars
<1>1. UNCHANGED <<api, busy, asg, unused, booting, nodeCache>>
  BY DEF Refresh, List, Judge, NothingToDo, RefuseTooFewNodes, ScaleUpToMin, WaitForScale, Decide,
         Scale, ScaleDownTaint, ReapDone, TaintDone, UntaintDone, IncreaseFails
<1>2. CASE EndPass
  BY <1>1, <1>2, EndPassLife
<1>3. CASE Refresh
  <2>1. pc' = "refreshed" /\ view' = view /\ asgView' = asg
    BY <1>3 DEF Refresh, RegisterNodeGroups
  <2> QED  BY <1>1, <2>1 DEF LifeInv, InstancesInv, ForceInv, RemovalInv, RefreshInv,
                               TypeOK, ClusterTypeOK
<1>4. CASE List
  <2>1. pc = "refreshed" /\ pc' = "unhealthy" /\ view' = nodeCache /\ asgView' = asgView
    BY <1>4 DEF List
  <2> QED  BY <1>1, <2>1 DEF LifeInv, InstancesInv, ForceInv, RemovalInv, RefreshInv
<1>5. ASSUME NEW demand \in Demands, ScaleUpToMin(demand) PROVE LifeInv'
  BY <1>1, <1>5, MovesOnLife DEF ScaleUpToMin, BeginScaleUp, Judging, listing, RemovalInv
<1>6. ASSUME NEW demand \in Demands, NEW starved \in BOOLEAN, Decide(demand, starved)
      PROVE LifeInv'
  <2>1. /\ pc = "unhealthy" /\ UNCHANGED <<view, asgView>>
        /\ \/ pc' = "forceTerminate" /\ todo' = ForceCandidates /\ batch' = ForceCandidates
           \/ pc' = "scale"
    BY <1>6 DEF Decide, TryDeleteNodes, Judging, listing
  <2>2. RemovalInv'
    BY <2>1, CandidatesAreListed DEF RemovalInv
  <2> QED  BY <1>1, <2>1, <2>2, MovesOnLife
<1>7. ASSUME NEW healthy \in BOOLEAN, Scale(healthy) PROVE LifeInv'
  <2>1. /\ pc = "scale" /\ UNCHANGED <<view, asgView>>
        /\ \/ pc' \in {"untaint", "shrink"}
           \/ /\ pc' = "reapTerminate"
              /\ todo' = ReapCandidates(healthy) /\ batch' = ReapCandidates(healthy)
    BY <1>7 DEF Scale, BeginScaleUp, TryDeleteNodes, listing
  <2>2. RemovalInv'
    BY <2>1, CandidatesAreListed DEF RemovalInv
  <2> QED  BY <1>1, <2>1, <2>2, MovesOnLife
<1>8. CASE ScaleDownTaint
  BY <1>1, <1>8, MovesOnLife DEF ScaleDownTaint, listing, RemovalInv
<1>9. CASE UntaintDone
  BY <1>1, <1>2, <1>9, MovesOnLife DEF UntaintDone, listing, RemovalInv
<1> QED  BY <1>2, <1>3, <1>4, <1>5, <1>6, <1>7, <1>8, <1>9
         DEF Judge, NothingToDo, RefuseTooFewNodes, WaitForScale, ReapDone, TaintDone, IncreaseFails

\* The steps that call the API server or the cloud for one node.
LEMMA NodeStepLife ==
    ASSUME TypeOK, DrainInv, LifeInv, NEW n \in Node, NodeStep(n)
    PROVE  LifeInv'
<1> USE DEF listing
<1>1. CASE TaintUnhealthy(n) \/ TaintOldest(n) \/ UntaintNewest(n)
  <2>1. /\ pc \in {"unhealthy", "taint", "untaint"}
        /\ UNCHANGED <<pc, busy, asg, unused, booting, nodeCache, view, asgView>>
    BY <1>1 DEF TaintUnhealthy, TaintOldest, UntaintNewest, cacheVars
  <2>2. api'.nodes = api.nodes /\ api'.force = api.force
    BY <1>1 DEF TaintUnhealthy, TaintOldest, UntaintNewest, AddToBeRemovedTaint,
                DeleteToBeRemovedTaint, TypeOK, ClusterTypeOK, NodeObjects
  <2> QED  BY <2>1, <2>2 DEF LifeInv, InstancesInv, ForceInv, RemovalInv, RefreshInv
<1>2. CASE TerminateNode(n)
  <2>1. /\ UNCHANGED <<api, unused, booting, nodeCache, view, asgView, batch>>
        /\ asg'.desired = asg.desired - 1 /\ asg'.instances = asg.instances \ {n}
        /\ busy' = busy \ {n} /\ n \in todo
    BY <1>2 DEF TerminateNode, TerminateInstance, cacheVars
  <2>2. /\ pc \in {"forceTerminate", "reapTerminate"}
        /\ \/ pc' \in {"forceDelete", "reapDelete"} /\ todo = {n} /\ todo' = batch
           \/ pc' = pc /\ todo' = todo \ {n}
    BY <1>2 DEF TerminateNode
  <2>3. n \notin booting
    BY <2>1, <2>2 DEF LifeInv, RemovalInv, DrainInv, NamesInv, WellFormed
  <2>4. InstancesInv' /\ ForceInv'
    BY <2>1, <2>3 DEF LifeInv, InstancesInv, ForceInv
  <2>5. RemovalInv'
    BY <2>1, <2>2 DEF LifeInv, RemovalInv
  <2>6. RefreshInv'
    BY <2>1, <2>2 DEF LifeInv, RefreshInv, TypeOK, ClusterTypeOK
  <2> QED  BY <2>4, <2>5, <2>6 DEF LifeInv
<1>3. CASE TerminateFails(n) \/ DeleteFails(n)
  <2>1. /\ UNCHANGED <<api, busy, asg, unused, booting, nodeCache, view, asgView>>
        /\ pc # "idle" /\ pc' \in {"scale", "shrink"}
    BY <1>3 DEF TerminateFails, DeleteFails, AfterRemoval, clusterVars, worldVars, cacheVars
  <2> QED  BY <2>1, MovesOnLife DEF RemovalInv
<1>4. CASE DeleteFromKubernetes(n)
  <2>1. /\ UNCHANGED <<asg, unused, booting, nodeCache, view, asgView>>
        /\ DeleteNode(n) /\ n \in todo /\ pc \in {"forceDelete", "reapDelete"}
        /\ pc' \in {"scale", "shrink"} \/ (pc' = pc /\ todo' = todo \ {n} /\ batch' = batch)
    BY <1>4 DEF DeleteFromKubernetes, AfterRemoval, cacheVars
  <2>2. n \notin asg.instances /\ RemovalInv'
    BY <2>1 DEF LifeInv, RemovalInv
  <2> QED  BY <2>1, <2>2, DeletedLife
<1> QED  BY <1>1, <1>2, <1>3, <1>4, NodeStep(n) DEF NodeStep

\* Every step.
LEMMA NextLife ==
    ASSUME TypeOK, DrainInv, LifeInv, [Next]_vars
    PROVE  LifeInv'
<1> USE DEF worldVars, cacheVars
<1>1. CASE IncreaseSize
  BY <1>1, EndPassLife DEF IncreaseSize, SetDesiredCapacity, TypeOK, ClusterTypeOK
<1>2. CASE Restart
  <2>1. UNCHANGED <<api, busy, unused, booting, asg>> /\ nodeCache' = api /\ EndPass
    BY <1>2 DEF Restart
  <2> QED  BY <2>1 DEF LifeInv, InstancesInv, ForceInv, RemovalInv, RefreshInv, EndPass, NoNodes
<1>3. CASE Clock \/ UNCHANGED vars
  <2>1. UNCHANGED <<api, busy, asg, unused, booting, nodeCache, view, asgView, pc, todo, batch>>
    BY <1>3 DEF Clock, Tick, vars, clusterVars, controllerVars, passVars
  <2> QED  BY <2>1 DEF LifeInv, InstancesInv, ForceInv, RemovalInv, RefreshInv
<1>4. CASE PassStep
  BY <1>1, <1>4, DecisionLife, NodeStepLife DEF PassStep
<1> QED  BY <1>2, <1>3, <1>4, EnvironmentLife, DecisionLife DEF Next

(***************************************************************************)
(* The refinement.                                                         *)
(***************************************************************************)

\* The first state of the group is the first state of its nodes' lives.
LEMMA InitRefines == Init => Lifecycle!Init
<1> SUFFICES ASSUME Init PROVE Lifecycle!Init
  OBVIOUS
<1> USE ClusterAssumption DEF Init, ClusterInit
<1>1. api.tainted = {} /\ api.force = {} /\ asg.instances = InitialNodes
  BY DEF NoNodes
<1>2. \A n \in Node : PhaseOf(n) = IF n \in InitialNodes THEN "serving" ELSE "future"
  BY <1>1 DEF PhaseOf
<1>3. Phase = [n \in Node |-> IF n \in InitialNodes THEN "serving" ELSE "future"]
  BY <1>2 DEF Phase
<1>4. DrainedSince = [n \in Node |-> 0]
  BY <1>2 DEF DrainedSince
<1>5. now = 0 /\ busy = {} /\ asg.desired = Cardinality(InitialNodes)
  OBVIOUS
<1>6. api.force \cap asg.instances = {}
  BY <1>1
<1> HIDE DEF Init, ClusterInit
<1>7. Lifecycle!Cardinality(InitialNodes) = Cardinality(InitialNodes)
  BY DEF Lifecycle!Cardinality, Cardinality
<1> QED  BY <1>3, <1>4, <1>5, <1>6, <1>7 DEF Lifecycle!Init

\* A step that leaves clock, pods, instances and taints alone leaves the nodes' lives alone.
LEMMA LifeGoesOn ==
    ASSUME UNCHANGED <<now, busy, unused, booting, asg>>,
           api'.tainted = api.tainted, api'.force = api.force, api'.taintTime = api.taintTime
    PROVE  UNCHANGED Lifecycle!vars
<1>1. \A n \in Node : PhaseOf(n)' = PhaseOf(n)
  BY DEF PhaseOf
<1> QED  BY <1>1 DEF Lifecycle!vars, Phase, DrainedSince

\* A step that changes the instance or the taint of one node only.
LEMMA OneLifeChanges ==
    ASSUME NEW n \in Node,
           \A m \in Node \ {n} :
               /\ m \in unused' \cup booting' <=> m \in unused \cup booting
               /\ m \in asg'.instances <=> m \in asg.instances
               /\ m \in api'.tainted <=> m \in api.tainted
               /\ api'.taintTime[m] = api.taintTime[m]
    PROVE  /\ Phase' = [Phase EXCEPT ![n] = PhaseOf(n)']
           /\ DrainedSince' = [DrainedSince EXCEPT ![n] =
                                 IF PhaseOf(n)' = "draining" THEN api'.taintTime[n] ELSE 0]
<1>1. \A m \in Node \ {n} : PhaseOf(m)' = PhaseOf(m)
  BY DEF PhaseOf
<1> QED  BY <1>1 DEF Phase, DrainedSince

\* A node that is not drained is as if drained since never.
LEMMA NotDrained ==
    ASSUME NEW n \in Node, PhaseOf(n) # "draining"
    PROVE  /\ Phase = [Phase EXCEPT ![n] = PhaseOf(n)]
           /\ DrainedSince = [DrainedSince EXCEPT ![n] = 0]
<1>1. Phase = [Phase EXCEPT ![n] = PhaseOf(n)]
  BY DEF Phase
<1>2. DrainedSince[n] = 0
  BY DEF DrainedSince
<1>3. DrainedSince = [DrainedSince EXCEPT ![n] = DrainedSince[n]]
  BY DEF DrainedSince
<1> QED  BY <1>1, <1>2, <1>3

\* A Node object that outlives its instance does not matter.
LEMMA DeletedRefines ==
    ASSUME TypeOK, LifeInv, NEW n \in Node, DeleteNode(n), n \notin asg.instances,
           UNCHANGED <<now, asg, unused, booting>>
    PROVE  UNCHANGED Lifecycle!vars
<1>1. /\ api'.tainted = api.tainted \ {n} /\ api'.force = api.force \ {n} /\ busy' = busy \ {n}
      /\ \A m \in Node \ {n} : api'.taintTime[m] = api.taintTime[m]
  BY DEF DeleteNode, Without, TypeOK, ClusterTypeOK, NodeObjects
<1>2. busy' = busy /\ (api.force \cap asg.instances)' = api.force \cap asg.instances
  BY <1>1 DEF LifeInv, InstancesInv
<1>3. \A m \in Node : PhaseOf(m)' = PhaseOf(m)
  BY <1>1 DEF PhaseOf
<1>4. PhaseOf(n) # "draining"
  BY DEF PhaseOf
<1>5. Phase' = Phase /\ DrainedSince' = DrainedSince
  BY <1>1, <1>3, <1>4 DEF Phase, DrainedSince
<1> QED  BY <1>2, <1>5 DEF Lifecycle!vars

\* A new taint on a node with an instance begins its drain.
LEMMA TaintRefines ==
    ASSUME TypeOK, DrainInv, NEW n \in Node, AddToBeRemovedTaint(n),
           UNCHANGED <<now, busy, unused, booting, asg>>
    PROVE  [Lifecycle!Next]_(Lifecycle!vars)
<1> USE DEF TypeOK, ClusterTypeOK
<1>1. CASE n \in api.tainted
  <2>1. api' = api
    BY <1>1 DEF AddToBeRemovedTaint
  <2> QED  BY <2>1, LifeGoesOn
<1>2. CASE n \notin api.tainted
  <2>1. /\ n \in api.nodes /\ api'.force = api.force
        /\ api'.tainted = api.tainted \cup {n} /\ api'.taintTime[n] = now
        /\ \A m \in Node \ {n} : api'.taintTime[m] = api.taintTime[m]
    BY <1>2 DEF AddToBeRemovedTaint, NodeObjects
  <2>2. n \notin unused \cup booting
    BY <2>1 DEF DrainInv, NamesInv, WellFormed
  <2>3. /\ Phase' = [Phase EXCEPT ![n] = PhaseOf(n)']
        /\ DrainedSince' = [DrainedSince EXCEPT ![n] =
                              IF PhaseOf(n)' = "draining" THEN api'.taintTime[n] ELSE 0]
    BY <2>1, OneLifeChanges
  <2>4. CASE n \in asg.instances
    <3>1. PhaseOf(n) = "serving" /\ PhaseOf(n)' = "draining"
      BY <1>2, <2>1, <2>2, <2>4 DEF PhaseOf
    <3>2. Lifecycle!Drain(n)
      BY <2>1, <2>3, <3>1 DEF Lifecycle!Drain, Phase
    <3> QED  BY <3>2 DEF Lifecycle!Next
  <2>5. CASE n \notin asg.instances
    <3>1. PhaseOf(n) = "gone" /\ PhaseOf(n)' = "gone"
      BY <2>2, <2>5 DEF PhaseOf
    <3>2. Phase' = Phase /\ DrainedSince' = DrainedSince
      BY <2>3, <3>1, NotDrained
    <3> QED  BY <2>1, <3>2 DEF Lifecycle!vars
  <2> QED  BY <2>4, <2>5
<1> QED  BY <1>1, <1>2

\* An untainted node is recalled.
LEMMA UntaintRefines ==
    ASSUME TypeOK, DrainInv, NEW n \in Node, DeleteToBeRemovedTaint(n),
           UNCHANGED <<now, busy, unused, booting, asg>>
    PROVE  [Lifecycle!Next]_(Lifecycle!vars)
<1> USE DEF TypeOK, ClusterTypeOK
<1>1. /\ n \in api.nodes /\ api'.force = api.force
      /\ api'.tainted = api.tainted \ {n}
      /\ \A m \in Node \ {n} : api'.taintTime[m] = api.taintTime[m]
  BY DEF DeleteToBeRemovedTaint, NodeObjects
<1>2. n \notin unused \cup booting
  BY <1>1 DEF DrainInv, NamesInv, WellFormed
<1>3. /\ Phase' = [Phase EXCEPT ![n] = PhaseOf(n)']
      /\ DrainedSince' = [DrainedSince EXCEPT ![n] =
                            IF PhaseOf(n)' = "draining" THEN api'.taintTime[n] ELSE 0]
  BY <1>1, OneLifeChanges
<1>4. CASE n \in asg.instances \cap api.tainted
  <2>1. PhaseOf(n) = "draining" /\ PhaseOf(n)' = "serving"
    BY <1>1, <1>2, <1>4 DEF PhaseOf
  <2>2. Lifecycle!Recall(n)
    BY <1>1, <1>3, <2>1 DEF Lifecycle!Recall, Phase
  <2> QED  BY <2>2 DEF Lifecycle!Next
<1>5. CASE n \notin asg.instances \cap api.tainted
  <2>1. PhaseOf(n)' = PhaseOf(n) /\ PhaseOf(n) # "draining"
    BY <1>1, <1>2, <1>5 DEF PhaseOf
  <2>2. Phase' = Phase /\ DrainedSince' = DrainedSince
    BY <1>3, <2>1, NotDrained
  <2> QED  BY <1>1, <2>2 DEF Lifecycle!vars
<1> QED  BY <1>4, <1>5

\* An instance that goes takes the life of its node and the pods on it.
LEMMA InstanceLeaves ==
    ASSUME TypeOK, DrainInv, LifeInv, NEW n \in Node, n \notin unused \cup booting,
           asg'.instances = asg.instances \ {n}, busy' = busy \ {n},
           UNCHANGED <<now, api, unused, booting>>
    PROVE  Lifecycle!Leave(n)
<1>1. /\ Phase' = [Phase EXCEPT ![n] = PhaseOf(n)']
      /\ DrainedSince' = [DrainedSince EXCEPT ![n] =
                            IF PhaseOf(n)' = "draining" THEN api'.taintTime[n] ELSE 0]
  BY OneLifeChanges
<1>2. PhaseOf(n)' = "gone"
  BY DEF PhaseOf
<1>3. (api.force \cap asg.instances)' = (api.force \cap asg.instances) \ {n}
  OBVIOUS
<1> QED  BY <1>1, <1>2, <1>3 DEF Lifecycle!Leave

\* A terminated node has been drained long enough, or an operator has ordered it away.
LEMMA TerminateRefines ==
    ASSUME SafeTiming, TypeOK, DrainInv, LifeInv, NEW n \in Node, TerminateNode(n)
    PROVE  Lifecycle!Next
<1>1. /\ UNCHANGED <<now, api, unused, booting>> /\ n \in todo /\ n \in asg.instances
      /\ asg'.desired = asg.desired - 1 /\ asg'.instances = asg.instances \ {n}
      /\ busy' = busy \ {n} /\ pc \in {"forceTerminate", "reapTerminate"}
  BY DEF TerminateNode, TerminateInstance
<1>2. n \notin unused \cup booting
  BY <1>1 DEF LifeInv, RemovalInv, DrainInv, NamesInv, WellFormed
<1>3. n \in api.nodes
  BY <1>1, <1>2 DEF LifeInv, InstancesInv
<1>4. Lifecycle!Leave(n)
  BY <1>1, <1>2, InstanceLeaves
<1>5. CASE pc = "reapTerminate"
  <2>1. /\ n \in api.tainted /\ now - api.taintTime[n] > SoftGrace
        /\ n \in busy => now - api.taintTime[n] > HardGrace
    BY <1>1, <1>3, <1>5, ReapedNodeIsDrained
  <2>2. Phase[n] = "draining" /\ DrainedSince[n] = api.taintTime[n]
    BY <1>1, <1>2, <2>1 DEF Phase, DrainedSince, PhaseOf
  <2>3. Lifecycle!Retire(n)
    BY <1>1, <1>4, <2>1, <2>2 DEF Lifecycle!Retire
  <2> QED  BY <2>3 DEF Lifecycle!Next
<1>6. CASE pc = "forceTerminate"
  <2>1. n \in api.force \cap asg.instances
    BY <1>1, <1>3, <1>6 DEF LifeInv, RemovalInv, ForceInv
  <2>2. Lifecycle!Dismiss(n)
    BY <1>1, <1>4, <2>1 DEF Lifecycle!Dismiss
  <2> QED  BY <2>2 DEF Lifecycle!Next
<1> QED  BY <1>1, <1>5, <1>6

\* What happens in the cluster happens to nodes.
LEMMA EnvironmentRefines ==
    ASSUME SafeTiming, TypeOK, DrainInv, LifeInv, Environment
    PROVE  [Lifecycle!Next]_(Lifecycle!vars)
<1> USE DEF TypeOK, ClusterTypeOK, worldVars
<1>1. CASE SyncNodes \/ SyncPods
  BY <1>1, LifeGoesOn DEF SyncNodes, SyncPods
<1>2. ASSUME NEW n \in Node, NodeEvent(n) PROVE [Lifecycle!Next]_(Lifecycle!vars)
  <2>1. CASE BindPod(n)
    <3>1. /\ UNCHANGED <<now, api, asg, unused, booting>> /\ busy' = busy \cup {n}
          /\ n \in api.nodes \cap asg.instances
          /\ n \in api.tainted => now <= api.taintTime[n] + SchedulerLag
      BY <2>1 DEF BindPod, SafeTiming
    <3>2. n \notin unused \cup booting
      BY <3>1 DEF DrainInv, NamesInv, WellFormed
    <3>3. /\ n \in api.tainted => Phase[n] = "draining" /\ DrainedSince[n] = api.taintTime[n]
          /\ n \notin api.tainted => Phase[n] = "serving"
      BY <3>1, <3>2 DEF Phase, DrainedSince, PhaseOf
    <3>4. Phase' = Phase /\ DrainedSince' = DrainedSince
      BY <3>1 DEF Phase, DrainedSince, PhaseOf
    <3>5. Lifecycle!PodComes(n)
      BY <3>1, <3>3, <3>4 DEF Lifecycle!PodComes
    <3> QED  BY <3>5 DEF Lifecycle!Next
  <2>2. CASE PodsDone(n)
    <3>1. UNCHANGED <<now, api, asg, unused, booting>> /\ busy' = busy \ {n}
      BY <2>2 DEF PodsDone
    <3>2. Phase' = Phase /\ DrainedSince' = DrainedSince
      BY <3>1 DEF Phase, DrainedSince, PhaseOf
    <3>3. Lifecycle!PodsLeave(n)
      BY <3>1, <3>2 DEF Lifecycle!PodsLeave
    <3> QED  BY <3>3 DEF Lifecycle!Next
  <2>3. CASE Launch(n)
    <3>1. /\ UNCHANGED <<now, api, busy>> /\ n \in unused
          /\ unused' = unused \ {n} /\ booting' = booting \cup {n}
          /\ asg'.instances = asg.instances \cup {n} /\ asg'.desired = asg.desired
      BY <2>3 DEF Launch
    <3>2. n \notin api.force
      BY <3>1 DEF LifeInv, ForceInv, DrainInv, NamesInv, WellFormed
    <3>3. \A m \in Node : PhaseOf(m)' = PhaseOf(m)
      BY <3>1 DEF PhaseOf
    <3>4. Phase' = Phase /\ DrainedSince' = DrainedSince
      BY <3>1, <3>3 DEF Phase, DrainedSince
    <3>5. (api.force \cap asg.instances)' = api.force \cap asg.instances
      BY <3>1, <3>2
    <3> QED  BY <3>1, <3>4, <3>5 DEF Lifecycle!vars
  <2>4. CASE Register(n)
    <3>1. /\ UNCHANGED <<now, busy, unused, asg>> /\ n \in booting /\ booting' = booting \ {n}
          /\ api'.tainted = api.tainted /\ api'.force = api.force /\ api'.taintTime = api.taintTime
      BY <2>4 DEF Register
    <3>2. n \notin unused /\ n \in asg.instances /\ n \notin api.tainted
      BY <3>1 DEF LifeInv, InstancesInv, DrainInv, NamesInv, WellFormed
    <3>3. PhaseOf(n) = "future" /\ PhaseOf(n)' = "serving"
      BY <3>1, <3>2 DEF PhaseOf
    <3>4. /\ Phase' = [Phase EXCEPT ![n] = "serving"]
          /\ DrainedSince' = [DrainedSince EXCEPT ![n] = 0]
      BY <3>1, <3>3, OneLifeChanges
    <3>5. Lifecycle!Join(n)
      BY <3>1, <3>3, <3>4, NotDrained DEF Lifecycle!Join, Phase
    <3> QED  BY <3>5 DEF Lifecycle!Next
  <2>5. CASE InstanceLost(n)
    <3>1. /\ UNCHANGED <<now, api, unused, booting>> /\ busy' = busy \ {n}
          /\ n \in asg.instances \ booting
          /\ asg'.instances = asg.instances \ {n} /\ asg'.desired = asg.desired
      BY <2>5 DEF InstanceLost
    <3>2. n \notin unused \cup booting
      BY <3>1 DEF LifeInv, InstancesInv
    <3>3. Phase[n] \in {"serving", "draining"}
      BY <3>1, <3>2 DEF Phase, PhaseOf
    <3>4. Lifecycle!Leave(n)
      BY <3>1, <3>2, InstanceLeaves
    <3>5. Lifecycle!Lose(n)
      BY <3>1, <3>3, <3>4 DEF Lifecycle!Lose
    <3> QED  BY <3>5 DEF Lifecycle!Next
  <2>6. CASE NodeCleanup(n)
    BY <2>6, DeletedRefines DEF NodeCleanup
  <2>7. CASE ForceTaint(n)
    <3>1. /\ UNCHANGED <<now, busy, unused, booting, asg>> /\ n \in api.nodes
          /\ api'.tainted = api.tainted /\ api'.taintTime = api.taintTime
          /\ api'.force = api.force \cup {n}
      BY <2>7 DEF ForceTaint
    <3>2. n \notin unused \cup booting
      BY <3>1 DEF DrainInv, NamesInv, WellFormed
    <3>3. Phase' = Phase /\ DrainedSince' = DrainedSince
      BY <3>1 DEF Phase, DrainedSince, PhaseOf
    <3>4. CASE n \in asg.instances
      <4>1. Phase[n] \in {"serving", "draining"}
        BY <3>2, <3>4 DEF Phase, PhaseOf
      <4>2. (api.force \cap asg.instances)' = (api.force \cap asg.instances) \cup {n}
        BY <3>1, <3>4
      <4>3. Lifecycle!Order(n)
        BY <3>1, <3>3, <4>1, <4>2 DEF Lifecycle!Order
      <4> QED  BY <4>3 DEF Lifecycle!Next
    <3>5. CASE n \notin asg.instances
      <4>1. (api.force \cap asg.instances)' = api.force \cap asg.instances
        BY <3>1, <3>5
      <4> QED  BY <3>1, <3>3, <4>1 DEF Lifecycle!vars
    <3> QED  BY <3>4, <3>5
  <2>8. CASE Cordon(n) \/ Annotate(n) \/ ReadyChanges(n)
    <3>1. /\ UNCHANGED <<now, busy, unused, booting, asg>> /\ api'.tainted = api.tainted
          /\ api'.force = api.force /\ api'.taintTime = api.taintTime
      BY <2>8 DEF Cordon, Annotate, ReadyChanges, NodeObjects
    <3> QED  BY <3>1, LifeGoesOn
  <2> QED  BY <1>2, <2>1, <2>2, <2>3, <2>4, <2>5, <2>6, <2>7, <2>8 DEF NodeEvent
<1> QED  BY <1>1, <1>2 DEF Environment

\* A request for nodes makes the group larger than it is, although it is computed from the
\* size that Refresh read, and not larger than its maximum.
LEMMA IncreaseRefines ==
    ASSUME TypeOK, LifeInv, IncreaseSize
    PROVE  Lifecycle!Next
<1>1. /\ pc = "increase" /\ NodesToAdd > 0 /\ asg'.desired = asgView.desired + NodesToAdd
      /\ asg'.instances = asg.instances /\ UNCHANGED <<now, api, busy, unused, booting>>
  BY DEF IncreaseSize, SetDesiredCapacity, TypeOK, ClusterTypeOK
<1>2. asg.desired \in Int /\ asgView.desired \in Int /\ delta \in Int /\ AsgMax \in Int
  BY OptionsAssumption DEF TypeOK, ClusterTypeOK
<1>3. NodesToAdd \in Int /\ NodesToAdd <= AsgMax - asgView.desired
  <2>1. AsgMax - asgView.desired \in Int
    BY <1>2
  <2> QED  BY <1>2, <2>1, MinOfTwo DEF NodesToAdd
<1>4. asg.desired <= asgView.desired
  BY <1>1 DEF LifeInv, RefreshInv
<1>5. asg'.desired \in asg.desired + 1..AsgMax
  BY <1>1, <1>2, <1>3, <1>4
<1>6. Phase' = Phase /\ DrainedSince' = DrainedSince
  BY <1>1 DEF Phase, DrainedSince, PhaseOf
<1>7. Lifecycle!Grow
  BY <1>1, <1>5, <1>6 DEF Lifecycle!Grow
<1> QED  BY <1>7 DEF Lifecycle!Next

\* Every step of the pass.
LEMMA PassRefines ==
    ASSUME SafeTiming, TypeOK, DrainInv, LifeInv, PassStep
    PROVE  [Lifecycle!Next]_(Lifecycle!vars)
<1> USE DEF clusterVars, worldVars
<1>1. CASE \/ List \/ Judge \/ (\E healthy \in BOOLEAN : Scale(healthy)) \/ ScaleDownTaint
           \/ ReapDone \/ TaintDone \/ UntaintDone \/ IncreaseFails
  <2>1. UNCHANGED <<now, api, busy, asg, unused, booting>>
    BY <1>1 DEF List, Judge, NothingToDo, RefuseTooFewNodes, ScaleUpToMin, WaitForScale, Decide,
                Scale, ScaleDownTaint, ReapDone, TaintDone, UntaintDone, IncreaseFails
  <2> QED  BY <2>1, LifeGoesOn
<1>2. CASE IncreaseSize
  BY <1>2, IncreaseRefines
<1>3. ASSUME NEW n \in Node, NodeStep(n) PROVE [Lifecycle!Next]_(Lifecycle!vars)
  <2>1. CASE TaintUnhealthy(n) \/ TaintOldest(n) \/ UntaintNewest(n)
    <3>1. UNCHANGED <<now, busy, asg, unused, booting>>
      BY <2>1 DEF TaintUnhealthy, TaintOldest, UntaintNewest
    <3>2. UNCHANGED api \/ AddToBeRemovedTaint(n) \/ DeleteToBeRemovedTaint(n)
      BY <2>1 DEF TaintUnhealthy, TaintOldest, UntaintNewest
    <3> QED  BY <3>1, <3>2, LifeGoesOn, TaintRefines, UntaintRefines
  <2>2. CASE TerminateNode(n)
    BY <2>2, TerminateRefines
  <2>3. CASE TerminateFails(n) \/ DeleteFails(n)
    BY <2>3, LifeGoesOn DEF TerminateFails, DeleteFails
  <2>4. CASE DeleteFromKubernetes(n)
    <3>1. /\ UNCHANGED <<now, asg, unused, booting>> /\ DeleteNode(n)
          /\ n \in todo /\ pc \in {"forceDelete", "reapDelete"}
      BY <2>4 DEF DeleteFromKubernetes
    <3>2. n \notin asg.instances
      BY <3>1 DEF LifeInv, RemovalInv
    <3> QED  BY <3>1, <3>2, DeletedRefines
  <2> QED  BY <1>3, <2>1, <2>2, <2>3, <2>4 DEF NodeStep
<1> QED  BY <1>1, <1>2, <1>3 DEF PassStep

\* Every step.
LEMMA NextRefines ==
    ASSUME SafeTiming, TypeOK, DrainInv, LifeInv, [Next]_vars
    PROVE  [Lifecycle!Next]_(Lifecycle!vars)
<1> USE DEF clusterVars, worldVars
<1>1. CASE Clock
  <2>1. now' = now + 1 /\ UNCHANGED <<api, busy, asg, unused, booting>>
    BY <1>1 DEF Clock, Tick
  <2>2. Phase' = Phase /\ DrainedSince' = DrainedSince
    BY <2>1 DEF Phase, DrainedSince, PhaseOf
  <2>3. Lifecycle!Pass
    BY <2>1, <2>2 DEF Lifecycle!Pass
  <2> QED  BY <2>3 DEF Lifecycle!Next
<1>2. CASE Refresh \/ Restart \/ UNCHANGED vars
  BY <1>2, LifeGoesOn DEF Refresh, Restart, vars
<1> QED  BY <1>1, <1>2, EnvironmentRefines, PassRefines DEF Next

\* A pass works on lists and copies that are out of date, fails half way or dies with its
\* process; for any number of nodes and any options that SafeTiming admits, the lives of
\* the nodes are those that NodeLifecycle allows.
THEOREM ControllerImplementsLifecycle ==
    ASSUME SafeTiming
    PROVE  Spec => ImplementsLifecycle
<1>1. Spec => []LifeInv
  BY InitLife, NextLife, TypeCorrect, DrainInvariant, PTL DEF Spec
<1> QED  BY <1>1, InitRefines, NextRefines, TypeCorrect, DrainInvariant, PTL
         DEF Spec, ImplementsLifecycle, Lifecycle!Spec
================================================================================
