-------------------------- MODULE NodeGroupController --------------------------
(***************************************************************************)
(* One node group under Escalator's main loop (pkg/controller): a pass of  *)
(* RunOnce and scaleNodeGroup, cut at every call to the API server and to  *)
(* the cloud provider, because the world moves between two calls.  What a  *)
(* pass has listed (view, viewPods, asgView) stays as it was listed.       *)
(*                                                                         *)
(*   idle -> refreshed -> unhealthy -> forceTerminate -> forceDelete       *)
(*        -> scale -> reapTerminate -> reapDelete -> shrink -> taint       *)
(*                 -> untaint -> increase                                  *)
(*                                                                         *)
(* The group is not in dry mode.  Metrics, logs, scaleDelta and            *)
(* lastScaleOut, which nothing reads back, are left out.                   *)
(***************************************************************************)
EXTENDS Cluster, Utilisation

CONSTANTS
    MinNodes, MaxNodes,        \* min_nodes, max_nodes
    AsgMin, AsgMax,            \* MinSize and MaxSize of the auto scaling group
    SoftGrace, HardGrace,      \* soft_delete_grace_period, hard_delete_grace_period
    CoolDown,                  \* scale_up_cool_down_period
    UnhealthyGrace,            \* unhealthy_node_grace_period, 0 when not set
    NewestPercent,             \* health_check_newest_nodes_percent
    MaxUnhealthyPercent,       \* max_unhealthy_nodes_percent
    MaxNodeAge,                \* max_node_age, 0 when not set
    ScaleOnStarve,             \* scale_on_starve
    ScanInterval,              \* --scaninterval
    PassDuration,              \* how long a pass may take
    NodeCapacity,              \* allocatable resources of one node of the group
    Demands                    \* what the group's pods may request in total

\* What ValidateNodeGroup demands of limits, periods and percentages.  Without min_nodes
\* and max_nodes (autoDiscoverMinMaxNodeOptions) the limits are those of the group.
ValidateNodeGroup ==
    /\ MinNodes < MaxNodes \/ (MinNodes = AsgMin /\ MaxNodes = AsgMax)
    /\ 0 < SoftGrace /\ SoftGrace < HardGrace
    /\ CoolDown > 0
    /\ UnhealthyGrace > 0 => NewestPercent \in 1..100 /\ MaxUnhealthyPercent \in 0..99

\* A validated node group, and an auto scaling group that starts within its limits.
ASSUME OptionsAssumption ==
    /\ ValidateNodeGroup
    /\ {MinNodes, MaxNodes, AsgMin, AsgMax} \subseteq Nat /\ AsgMin <= AsgMax
    /\ Cardinality(InitialNodes) \in AsgMin..AsgMax
    /\ {SoftGrace, HardGrace, CoolDown, UnhealthyGrace, MaxNodeAge} \subseteq Nat
    /\ {NewestPercent, MaxUnhealthyPercent} \subseteq Nat
    /\ ScaleOnStarve \in BOOLEAN
    /\ {ScanInterval, PassDuration} \subseteq Nat
    /\ NodeCapacity \in [Resources -> Nat \ {0}]
    /\ Demands \subseteq [Resources -> Nat]

VARIABLES
    pc,         \* where the pass is
    nextScan,   \* the next tick of RunForever
    view,       \* the nodes listed in this pass
    viewPods,   \* the listed nodes with a pod on them, by the pods listed in this pass
    viewTime,   \* the age of that list of pods
    asgView,    \* the auto scaling group as Refresh read it
    delta,      \* nodesDelta, counted towards 0 by the taint and untaint loops
    todo,       \* the nodes the current loop has not come to
    batch,      \* the nodes given to TryDeleteNodes
    lockTime,   \* scaleUpLock.lockTime
    known       \* cpuCapacity and memCapacity have been stored

passVars == <<view, viewPods, viewTime, asgView, delta, todo, batch>>
controllerVars == <<pc, nextScan, passVars, lockTime, known>>
vars == <<clusterVars, controllerVars>>

NoGroup == [desired |-> 0, instances |-> {}]

PassStates == {"refreshed", "unhealthy", "forceTerminate", "forceDelete", "scale",
               "reapTerminate", "reapDelete", "shrink", "taint", "untaint", "increase"}

TypeOK ==
    /\ ClusterTypeOK
    /\ pc \in PassStates \cup {"idle"}
    /\ nextScan \in Nat
    /\ view \in NodeObjects
    /\ viewPods \in SUBSET Node /\ viewTime \in Nat
    /\ asgView \in [desired: Int, instances: SUBSET Node]
    /\ delta \in Int
    /\ todo \in SUBSET Node /\ batch \in SUBSET Node
    /\ lockTime \in Int
    /\ known \in BOOLEAN

\* The scale lock of a new controller has a zero lockTime, long past any cool-down.
NeverLocked == -CoolDown

Init ==
    /\ ClusterInit
    /\ pc = "idle" /\ nextScan = 0
    /\ view = NoNodes /\ viewPods = {} /\ viewTime = 0 /\ asgView = NoGroup
    /\ delta = 0 /\ todo = {} /\ batch = {}
    /\ lockTime = NeverLocked /\ known = FALSE

EndPass ==
    /\ pc' = "idle"
    /\ view' = NoNodes /\ viewPods' = {} /\ viewTime' = 0 /\ asgView' = NoGroup
    /\ delta' = 0 /\ todo' = {} /\ batch' = {}

listing == <<view, viewPods, viewTime, asgView>>

--------------------------------------------------------------------------------
(* filterNodes, on the nodes as they were listed.                          *)

TaintedNodes(objects) == objects.tainted \ (objects.force \cup objects.cordoned)

ForceTaintedNodes(objects) == objects.force \ objects.cordoned

UntaintedNodes(objects) ==
    objects.nodes \ (objects.tainted \cup objects.force \cup objects.cordoned)

--------------------------------------------------------------------------------
(* Health of nodes and of the group.                                       *)

IsNodeUnhealthy(objects, n) ==
    /\ n \in objects.notReady \ objects.cordoned
    /\ created[n] + UnhealthyGrace <= now

\* filterOutNodesTooNew
OldEnough == {n \in view.nodes : created[n] + UnhealthyGrace < now}

\* The groups getMostRecentNodes may test: nodes of one age come in any order.
NodesForTest ==
    {T \in SUBSET OldEnough :
       /\ \E k \in FloatCeilDiv(NewestPercent * Cardinality(OldEnough), 100) :
             Cardinality(T) = Min({k, Cardinality(OldEnough)})
       /\ \A n \in T, m \in OldEnough \ T : created[n] >= created[m]}

IsNodegroupHealthy(T) ==
    \/ T = {}
    \/ (100 * Cardinality({n \in T : IsNodeUnhealthy(view, n)})) \div Cardinality(T)
         <= MaxUnhealthyPercent

Verdicts == IF UnhealthyGrace > 0 THEN {IsNodegroupHealthy(T) : T \in NodesForTest} ELSE {TRUE}

--------------------------------------------------------------------------------
(* The delta a pass aims for.                                              *)

Locked == now - lockTime < CoolDown

ScaleOnMaxNodeAge ==
    /\ MaxNodeAge > 0
    /\ Cardinality(UntaintedNodes(view)) = MinNodes /\ MinNodes > 0
    /\ TaintedNodes(view) = {}
    /\ \E n \in UntaintedNodes(view) : now - created[n] > MaxNodeAge

\* starved: the largest pending pod fits on no untainted node.
IsScaleOnStarve(starved) ==
    /\ ScaleOnStarve /\ starved
    /\ Cardinality(UntaintedNodes(view)) < MaxNodes

\* The deltas of the pass when the pods request demand in total.
NodesDelta(demand, starved) ==
    LET count == Cardinality(UntaintedNodes(view))
        percent == CalcPercentUsage(demand, NodesCapacity(count, NodeCapacity), count)
        cached == IF known THEN NodeCapacity ELSE Zero
        atLeastOne(d) == IF IsScaleOnStarve(starved) \/ ScaleOnMaxNodeAge
                         THEN Max({d, 1}) ELSE d
        atMostMax(d) == IF count > MaxNodes THEN Min({d, MaxNodes - count}) ELSE d
    IN  {atMostMax(atLeastOne(d)) : d \in ThresholdDelta(count, percent, demand, cached)}

--------------------------------------------------------------------------------
(* Removal of nodes: candidates and the size check of aws.DeleteNodes.     *)

\* By the pods that were listed; CreateNodeNameToInfoMap has put them on their nodes.
NodeEmpty(n) == n \notin viewPods

ForceCandidates == {n \in ForceTaintedNodes(view) : NodeEmpty(n)}

TaintAge(n) == now - view.taintTime[n]

\* Mutant: the soft grace period is not waited for.
ReapCandidates_NoSoftGrace(healthyNodesAllowed) ==
    {n \in TaintedNodes(view) \ view.noDelete :
       /\ UnhealthyGrace > 0 /\ ~healthyNodesAllowed => IsNodeUnhealthy(view, n)
       /\ NodeEmpty(n) \/ TaintAge(n) > HardGrace}

\* Mutant: a node with pods is reaped after the soft grace period.
ReapCandidates_NotEmpty(healthyNodesAllowed) ==
    {n \in TaintedNodes(view) \ view.noDelete :
       /\ UnhealthyGrace > 0 /\ ~healthyNodesAllowed => IsNodeUnhealthy(view, n)
       /\ TaintAge(n) > SoftGrace}

ReapCandidates(healthyNodesAllowed) ==
    {n \in TaintedNodes(view) \ view.noDelete :
       /\ UnhealthyGrace > 0 /\ ~healthyNodesAllowed => IsNodeUnhealthy(view, n)
       /\ TaintAge(n) > SoftGrace
       /\ NodeEmpty(n) \/ TaintAge(n) > HardGrace}

\* Mutant: only one node is counted.
SizeAllows_OneNode(nodes) == asgView.desired > AsgMin

SizeAllows(nodes) ==
    /\ asgView.desired > AsgMin
    /\ asgView.desired - Cardinality(nodes) >= AsgMin

\* TryDeleteNodes up to its first call: refused or nothing to do, the pass goes on.
TryDeleteNodes(nodes, terminating, after) ==
    IF nodes # {} /\ SizeAllows(nodes)
    THEN pc' = terminating /\ todo' = nodes /\ batch' = nodes
    ELSE pc' = after /\ todo' = {} /\ batch' = {}

--------------------------------------------------------------------------------
(* The steps of a pass.                                                    *)

\* The provider's copy of the group: desired size and instances, until the next Refresh.
RegisterNodeGroups == asgView' = asg

\* Mutant: the ticker counts back.
Refresh_TicksBack ==
    /\ pc = "idle" /\ now >= nextScan
    /\ pc' = "refreshed"
    /\ RegisterNodeGroups
    /\ nextScan' = now - ScanInterval
    /\ UNCHANGED <<clusterVars, view, viewPods, viewTime, delta, todo, batch, lockTime, known>>

\* Mutant: one pass follows the other without a tick.
Refresh_NoTicker ==
    /\ pc = "idle"
    /\ pc' = "refreshed"
    /\ RegisterNodeGroups
    /\ nextScan' = now + ScanInterval
    /\ UNCHANGED <<clusterVars, view, viewPods, viewTime, delta, todo, batch, lockTime, known>>

\* RunOnce: Refresh, rebuilding the provider if it must, leaves fresh data or
\* ends the process.
Refresh ==
    /\ pc = "idle" /\ now >= nextScan
    /\ pc' = "refreshed"
    /\ RegisterNodeGroups
    /\ nextScan' = now + ScanInterval
    /\ UNCHANGED <<clusterVars, view, viewPods, viewTime, delta, todo, batch, lockTime, known>>

\* scaleNodeGroup lists pods and nodes and picks the unhealthy nodes.
List ==
    /\ pc = "refreshed"
    /\ pc' = "unhealthy"
    /\ view' = nodeCache /\ viewPods' = podCache /\ viewTime' = podCacheTime
    /\ known' = (known \/ nodeCache.nodes # {})
    /\ todo' = IF UnhealthyGrace > 0
               THEN {n \in nodeCache.nodes : IsNodeUnhealthy(nodeCache, n)} ELSE {}
    /\ UNCHANGED <<clusterVars, nextScan, asgView, delta, batch, lockTime>>

\* taintUnhealthyInstances
TaintUnhealthy(n) ==
    /\ pc = "unhealthy" /\ n \in todo
    /\ todo' = todo \ {n}
    /\ \/ AddToBeRemovedTaint(n)
       \/ ApiMayFail(n) /\ UNCHANGED api
    /\ UNCHANGED <<now, created, busy, asg, unused, booting, bootBy, upsets, cacheVars,
                   pc, nextScan, listing, delta, batch, lockTime, known>>

\* The unhealthy nodes are done with: what scaleNodeGroup sees next.  Every pod requests
\* something: a demand of zero is a list of no pods.
Judging(demand) ==
    /\ pc = "unhealthy" /\ todo = {}
    /\ demand = Zero => viewPods = {}

NothingThere(demand) == view.nodes = {} /\ demand = Zero

TooFewNodes(demand) == ~NothingThere(demand) /\ Cardinality(view.nodes) < MinNodes

TooFewUntainted == Cardinality(UntaintedNodes(view)) < MinNodes

NothingToDo(demand) ==
    /\ Judging(demand) /\ NothingThere(demand)
    /\ EndPass
    /\ UNCHANGED <<clusterVars, nextScan, lockTime, known>>

RefuseTooFewNodes(demand) ==
    /\ Judging(demand) /\ TooFewNodes(demand)
    /\ EndPass
    /\ UNCHANGED <<clusterVars, nextScan, lockTime, known>>

\* ScaleUp(nodes) starts by untainting the listed tainted nodes.
BeginScaleUp(nodes) ==
    /\ pc' = "untaint" /\ delta' = nodes /\ todo' = TaintedNodes(view)
    /\ UNCHANGED batch

\* Less untainted nodes than the minimum: scale up at once, whatever the scale lock says.
ScaleUpToMin(demand) ==
    /\ Judging(demand) /\ ~NothingThere(demand) /\ ~TooFewNodes(demand) /\ TooFewUntainted
    /\ BeginScaleUp(MinNodes - Cardinality(UntaintedNodes(view)))
    /\ UNCHANGED <<clusterVars, nextScan, listing, lockTime, known>>

WaitForScale(demand) ==
    /\ Judging(demand) /\ ~NothingThere(demand) /\ ~TooFewNodes(demand) /\ ~TooFewUntainted
    /\ Locked
    /\ EndPass
    /\ UNCHANGED <<clusterVars, nextScan, lockTime, known>>

\* The delta is chosen and TryRemoveForceTaintedNodes begins.
Decide(demand, starved) ==
    /\ Judging(demand) /\ ~NothingThere(demand) /\ ~TooFewNodes(demand) /\ ~TooFewUntainted
    /\ ~Locked
    /\ delta' \in NodesDelta(demand, starved)
    /\ TryDeleteNodes(ForceCandidates, "forceTerminate", "scale")
    /\ UNCHANGED <<clusterVars, nextScan, listing, lockTime, known>>

AfterRemoval == IF pc \in {"forceTerminate", "forceDelete"} THEN "scale" ELSE "shrink"

\* aws.DeleteNodes: one listed node after the other, in the order of the list.
TerminateNode(n) ==
    /\ pc \in {"forceTerminate", "reapTerminate"} /\ n \in todo
    /\ n \in asgView.instances
    /\ TerminateInstance(n)
    /\ IF todo = {n}
       THEN /\ pc' = IF pc = "forceTerminate" THEN "forceDelete" ELSE "reapDelete"
            /\ todo' = batch
       ELSE pc' = pc /\ todo' = todo \ {n}
    /\ UNCHANGED <<now, api, created, unused, booting, bootBy, upsets, cacheVars,
                   nextScan, listing, delta, batch, lockTime, known>>

\* Mutant: NodeNotInNodeGroup is not handled.
TerminateFails_CloudOnly(n) ==
    /\ pc \in {"forceTerminate", "reapTerminate"} /\ n \in todo
    /\ "cloudfail" \in Operations
    /\ pc' = AfterRemoval /\ todo' = {} /\ batch' = {}
    /\ UNCHANGED <<clusterVars, nextScan, listing, delta, lockTime, known>>

\* A node that is not in the group, or an error of the cloud, ends the whole removal.
TerminateFails(n) ==
    /\ pc \in {"forceTerminate", "reapTerminate"} /\ n \in todo
    /\ n \notin asgView.instances \/ n \notin asg.instances \/ "cloudfail" \in Operations
    /\ pc' = AfterRemoval /\ todo' = {} /\ batch' = {}
    /\ UNCHANGED <<clusterVars, nextScan, listing, delta, lockTime, known>>

\* k8s.DeleteNodes, once all of the batch is terminated.
DeleteFromKubernetes(n) ==
    /\ pc \in {"forceDelete", "reapDelete"} /\ n \in todo
    /\ DeleteNode(n)
    /\ IF todo = {n}
       THEN pc' = AfterRemoval /\ todo' = {} /\ batch' = {}
       ELSE pc' = pc /\ todo' = todo \ {n} /\ batch' = batch
    /\ UNCHANGED <<now, created, asg, unused, booting, bootBy, upsets, cacheVars,
                   nextScan, listing, delta, lockTime, known>>

DeleteFails(n) ==
    /\ pc \in {"forceDelete", "reapDelete"} /\ n \in todo
    /\ ApiMayFail(n)
    /\ pc' = AfterRemoval /\ todo' = {} /\ batch' = {}
    /\ UNCHANGED <<clusterVars, nextScan, listing, delta, lockTime, known>>

\* The health check may override the delta, then scale up, scale down or only reap.
Scale(healthy) ==
    /\ pc = "scale" /\ healthy \in Verdicts
    /\ IF healthy /\ delta > 0
       THEN BeginScaleUp(delta)
       ELSE /\ delta' = IF healthy THEN delta ELSE 0
            /\ TryDeleteNodes(ReapCandidates(healthy), "reapTerminate", "shrink")
    /\ UNCHANGED <<clusterVars, nextScan, listing, lockTime, known>>

\* Mutant: the clamp to min_nodes is missing.
NodesToTaint_NoMin ==
    LET deletable == asgView.desired - AsgMin
    IN  IF -delta > deletable /\ deletable >= 0 THEN deletable ELSE -delta

\* scaleDownTaint: how many nodes to taint of the nodesDelta asked for.
NodesToTaint ==
    LET count == Cardinality(UntaintedNodes(view))
        wanted == IF count + delta < MinNodes THEN count - MinNodes ELSE -delta
        deletable == asgView.desired - AsgMin
    IN  CASE wanted < 0 -> 0
          [] wanted >= 0 /\ wanted > deletable /\ deletable >= 0 -> deletable
          [] OTHER -> wanted

ScaleDownTaint ==
    /\ pc = "shrink" /\ delta < 0
    /\ pc' = "taint" /\ delta' = -NodesToTaint /\ todo' = UntaintedNodes(view)
    /\ UNCHANGED <<clusterVars, nextScan, listing, batch, lockTime, known>>

ReapDone ==
    /\ pc = "shrink" /\ delta = 0
    /\ EndPass
    /\ UNCHANGED <<clusterVars, nextScan, lockTime, known>>

Oldest(nodes) == {n \in nodes : \A m \in nodes : created[n] <= created[m]}

Newest(nodes) == {n \in nodes : \A m \in nodes : created[n] >= created[m]}

\* taintOldestN: a failure is skipped and not counted.
TaintOldest(n) ==
    /\ pc = "taint" /\ delta < 0 /\ n \in Oldest(todo)
    /\ todo' = todo \ {n}
    /\ \/ AddToBeRemovedTaint(n) /\ delta' = delta + 1
       \/ ApiMayFail(n) /\ UNCHANGED <<api, delta>>
    /\ UNCHANGED <<now, created, busy, asg, unused, booting, bootBy, upsets, cacheVars,
                   pc, nextScan, listing, batch, lockTime, known>>

TaintDone ==
    /\ pc = "taint" /\ (delta = 0 \/ todo = {})
    /\ EndPass
    /\ UNCHANGED <<clusterVars, nextScan, lockTime, known>>

\* untaintNewestN: an unhealthy node is passed over, a failure is not counted.
UntaintNewest(n) ==
    /\ pc = "untaint" /\ delta > 0 /\ n \in Newest(todo)
    /\ todo' = todo \ {n}
    /\ IF UnhealthyGrace > 0 /\ IsNodeUnhealthy(view, n)
       THEN UNCHANGED <<api, delta>>
       ELSE \/ DeleteToBeRemovedTaint(n) /\ delta' = delta - 1
            \/ ApiMayFail(n) /\ UNCHANGED <<api, delta>>
    /\ UNCHANGED <<now, created, busy, asg, unused, booting, bootBy, upsets, cacheVars,
                   pc, nextScan, listing, batch, lockTime, known>>

UntaintDone ==
    /\ pc = "untaint" /\ (delta = 0 \/ todo = {})
    /\ IF delta = 0 THEN EndPass ELSE pc' = "increase" /\ todo' = {} /\ UNCHANGED <<listing, delta, batch>>
    /\ UNCHANGED <<clusterVars, nextScan, lockTime, known>>

\* calculateNodesToAdd clamps to the maximum of the auto scaling group.
NodesToAdd == Min({delta, AsgMax - asgView.desired})

\* Mutant: the scale lock is not set.
IncreaseSize_NoLock ==
    /\ pc = "increase" /\ NodesToAdd > 0
    /\ SetDesiredCapacity(asgView.desired + NodesToAdd)
    /\ EndPass
    /\ UNCHANGED <<now, api, created, busy, unused, booting, upsets, cacheVars, nextScan,
                   lockTime, known>>

\* IncreaseSize with the SetDesiredCapacity strategy, then the scale lock.
IncreaseSize ==
    /\ pc = "increase" /\ NodesToAdd > 0
    /\ SetDesiredCapacity(asgView.desired + NodesToAdd)
    /\ lockTime' = now
    /\ EndPass
    /\ UNCHANGED <<now, api, created, busy, unused, booting, upsets, cacheVars, nextScan, known>>

IncreaseFails ==
    /\ pc = "increase" /\ (NodesToAdd <= 0 \/ "cloudfail" \in Operations)
    /\ EndPass
    /\ UNCHANGED <<clusterVars, nextScan, lockTime, known>>

\* The process dies, or loses its leadership, and another takes over: it syncs
\* its informers, forgets the scale lock and scans at once.
Restart ==
    /\ "crash" \in Operations
    /\ EndPass
    /\ nextScan' = now
    /\ lockTime' = NeverLocked /\ known' = FALSE
    /\ nodeCache' = api /\ nodeCacheTime' = now
    /\ podCache' = busy /\ podCacheTime' = now
    /\ UNCHANGED <<now, worldVars>>

--------------------------------------------------------------------------------
\* A pass ends within PassDuration of its start.
Clock ==
    /\ pc # "idle" => now < nextScan - ScanInterval + PassDuration
    /\ Tick
    /\ UNCHANGED controllerVars

Environment ==
    /\ SyncNodes \/ SyncPods \/ \E n \in Node : NodeEvent(n)
    /\ UNCHANGED controllerVars

\* What the listed pods request, the ones on nodes and the pending ones, may be anything.
Judge ==
    \E demand \in Demands :
        \/ NothingToDo(demand) \/ RefuseTooFewNodes(demand) \/ ScaleUpToMin(demand)
        \/ WaitForScale(demand) \/ \E starved \in BOOLEAN : Decide(demand, starved)

NodeStep(n) ==
    \/ TaintUnhealthy(n) \/ TerminateNode(n) \/ TerminateFails(n)
    \/ DeleteFromKubernetes(n) \/ DeleteFails(n) \/ TaintOldest(n) \/ UntaintNewest(n)

\* What the pass in progress may do next.
PassStep ==
    \/ List \/ Judge \/ (\E n \in Node : NodeStep(n))
    \/ (\E healthy \in BOOLEAN : Scale(healthy)) \/ ScaleDownTaint \/ ReapDone
    \/ TaintDone \/ UntaintDone \/ IncreaseSize \/ IncreaseFails

Next == Clock \/ Environment \/ Refresh \/ PassStep \/ Restart

Spec == Init /\ [][Next]_vars

\* The main loop keeps running: a pass that has begun takes its steps.
FairSpec == Spec /\ WF_vars(PassStep)

--------------------------------------------------------------------------------
(* Why the reaper is safe: an inductive invariant.                         *)

\* What the grace period, the scan interval and the taint must be for it.  A pod bound
\* before the scheduler knew of the taint must have reached a list that is still used
\* when the soft grace period ends; an informer must know of one pass's changes by the
\* next pass.
SafeTiming ==
    /\ TaintEffect # "PreferNoSchedule"
    /\ SoftGrace >= SchedulerLag + CacheLag + PassDuration
    /\ ScanInterval > CacheLag + PassDuration

\* The taint of n in a copy of the Node objects is the one the API server has, if
\* the node is still there.
SameTaint(objects, n) ==
    n \in objects.tainted /\ n \in api.nodes =>
        n \in api.tainted /\ api.taintTime[n] = objects.taintTime[n]

\* A taint belongs to a node, and a node's name has been in use.
WellFormed(objects) ==
    /\ objects.tainted \subseteq objects.nodes
    /\ objects.nodes \cap (booting \cup unused) = {}

ClockInv ==
    /\ nodeCacheTime <= now /\ now <= nodeCacheTime + CacheLag
    /\ podCacheTime <= now /\ now <= podCacheTime + CacheLag
    /\ viewTime <= now
    /\ pc # "idle" => /\ nextScan <= now + ScanInterval
                      /\ now <= nextScan - ScanInterval + PassDuration
    /\ pc \notin {"idle", "refreshed"} => nextScan - ScanInterval <= viewTime + CacheLag

NamesInv ==
    /\ WellFormed(api) /\ WellFormed(nodeCache) /\ WellFormed(view)
    /\ booting \cap unused = {}
    /\ busy \subseteq api.nodes

\* Untainting makes the informer's copy wrong, for less than a scan interval.
CacheInv ==
    \/ \A n \in Node : SameTaint(nodeCache, n)
    \/ pc \in {"idle", "untaint", "increase"} /\ nodeCacheTime + CacheLag < nextScan

ViewInv ==
    pc \notin {"idle", "refreshed", "untaint", "increase"} => \A n \in Node : SameTaint(view, n)

\* No pod is bound once the scheduler knows of a taint, so a list that misses a pod on
\* a tainted node is older than that.
PodsInv ==
    \A n \in api.tainted \cap busy :
        /\ n \notin podCache => podCacheTime <= api.taintTime[n] + SchedulerLag
        /\ pc \notin {"idle", "refreshed"} /\ n \notin viewPods =>
             viewTime <= api.taintTime[n] + SchedulerLag

ReapInv ==
    pc = "reapTerminate" =>
        \A n \in todo :
            /\ n \in view.tainted /\ TaintAge(n) > SoftGrace
            /\ n \notin viewPods \/ TaintAge(n) > HardGrace

DrainInv == ClockInv /\ NamesInv /\ CacheInv /\ ViewInv /\ PodsInv /\ ReapInv

--------------------------------------------------------------------------------
(* Properties.                                                             *)

\* Escalator terminates the instance of n; an instance that is lost leaves the desired
\* size alone.
Terminated(n) ==
    /\ n \in asg.instances \ asg'.instances
    /\ asg'.desired < asg.desired

\* What a node of the group is in its life, for one who sees all of the present.
PhaseOf(n) ==
    CASE n \in unused \cup booting -> "future"
      [] n \notin unused \cup booting \cup asg.instances -> "gone"
      [] OTHER -> IF n \in api.tainted THEN "draining" ELSE "serving"

Phase == [n \in Node |-> PhaseOf(n)]

DrainedSince == [n \in Node |-> IF PhaseOf(n) = "draining" THEN api.taintTime[n] ELSE 0]

Lifecycle ==
    INSTANCE NodeLifecycle WITH
        MaxSize <- AsgMax,
        clock   <- now,
        phase   <- Phase,
        since   <- DrainedSince,
        loaded  <- busy,
        ordered <- api.force \cap asg.instances,
        size    <- asg.desired

\* A pass works on lists and copies that are out of date, fails half way, or dies with
\* its process; what becomes of the nodes is nevertheless what NodeLifecycle promises of
\* nodes seen as they are: drained, recalled, and retired only after the grace periods
\* unless an operator ordered it, in a group that never grows past its maximum.
ImplementsLifecycle == Lifecycle!Spec

\* The reaper never terminates a node that is back in service: at the moment of the
\* call the node still has its taint, older than the soft grace period, although
\* TryRemoveTaintedNodes judged it by an informer's copy and earlier in the pass.
TerminateOnlyExpired ==
    [][\A n \in Node : Terminated(n) /\ pc = "reapTerminate" /\ n \in api.nodes =>
         n \in api.tainted /\ now - api.taintTime[n] > SoftGrace]_vars

\* "Escalator will ensure pods have been completed on nodes before terminating them":
\* a node with a pod on it at the moment of the call is terminated by the reaper only
\* after the hard grace period, although NodeEmpty saw an informer's older list of pods.
TerminateOnlyDrained ==
    [][\A n \in Node : Terminated(n) /\ pc = "reapTerminate" /\ n \in busy =>
         n \in api.tainted /\ now - api.taintTime[n] > HardGrace]_vars

\* The desired size stays within the limits of the auto scaling group although
\* DeleteNodes and IncreaseSize check and set it from the copy Refresh made.
DesiredWithinLimits == asg.desired \in AsgMin..AsgMax

\* Scale down leaves min_nodes untainted nodes: after taintOldestN has tainted a node,
\* the API server still has that many, although the clamp counted the listed nodes.
ScaleDownKeepsMinNodes ==
    [][pc = "taint" /\ api'.tainted # api.tainted =>
         Cardinality(UntaintedNodes(api')) >= MinNodes]_vars

\* The scale lock guards every request for more nodes.
LockGuardsIncrease == [][asg'.desired > asg.desired => ~Locked]_vars

\* The number of nodes that brings the group to its scale up threshold, or one
\* more where that is a whole number (see FloatCeilDiv).
EnoughNodes(demand) ==
    Max({(100 * demand[r]) \div (NodeCapacity[r] * ScaleUpThreshold) : r \in Resources}) + 1

\* What a group has a reason to be as large as.
Needs == {Cardinality(InitialNodes), MinNodes} \cup {EnoughNodes(demand) : demand \in Demands}

\* No "infinite" scale up: while instances boot, are registered and reach the informer,
\* the scale lock keeps a pass from asking again for what is on its way, so the group
\* never grows past what the pods need.
NeverOverProvisioned == \E need \in Needs : asg.desired <= need

\* A pass that has begun ends: no call it makes, failed or not, leaves it nowhere to go.
PassEnds == pc # "idle" ~> pc = "idle"
================================================================================
