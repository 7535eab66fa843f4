-------------------------------- MODULE Cluster --------------------------------
(***************************************************************************)
(* The world one node group of Escalator lives in: the Kubernetes API, the *)
(* pods on its nodes, the AWS auto scaling group behind it, the two        *)
(* informers Escalator reads through, and the clock.                       *)
(*                                                                         *)
(* Everything here is external to Escalator except the three API calls of  *)
(* pkg/k8s (AddToBeRemovedTaint, DeleteToBeRemovedTaint, DeleteNode) and   *)
(* the informer caches of pkg/k8s/cache.go, which the controller's module  *)
(* uses.  A node name stands for the Node object and for the instance      *)
(* behind it; a name is used once.                                         *)
(***************************************************************************)
EXTENDS Integers, FiniteSets

CONSTANTS
    Node,           \* names of nodes and instances, in use or to come
    InitialNodes,   \* the nodes registered at the start
    Operations,     \* what operators, hardware and the network may do here
    TaintEffect,    \* taint_effect
    SchedulerLag,   \* how long the scheduler may miss a new taint
    CacheLag,       \* how far an informer may be behind the API server
    BootTime,       \* how long the auto scaling group takes to reach its desired size
    MaxTime,        \* bound on the clock
    MaxUpsets       \* bound on what operators and hardware do

AllOperations == {"pods", "cordon", "force", "annotate", "notready", "lost",
                  "cleanup", "apifail", "cloudfail", "crash"}

ASSUME ClusterAssumption ==
    /\ IsFiniteSet(Node) /\ InitialNodes \subseteq Node
    /\ Operations \subseteq AllOperations
    /\ TaintEffect \in {"NoSchedule", "NoExecute", "PreferNoSchedule"}
    /\ SchedulerLag \in Nat /\ CacheLag \in Nat \ {0} /\ BootTime \in Nat
    /\ MaxTime \in Nat /\ MaxUpsets \in Nat

VARIABLES
    now,            \* the clock
    api,            \* the Node objects of the group in the API server
    created,        \* their creation timestamps
    busy,           \* nodes that run a pod other than a daemonset's
    asg,            \* the auto scaling group: desired size and instances
    unused,         \* names that no instance has had
    booting,        \* instances whose Node object is not registered yet
    bootBy,         \* when the group will have reached its desired size
    upsets,         \* how often operators and hardware have interfered
    nodeCache, nodeCacheTime,   \* the node informer's store, and its age
    podCache, podCacheTime      \* the pod informer's store, and its age

worldVars == <<api, created, busy, asg, unused, booting, bootBy, upsets>>
cacheVars == <<nodeCache, nodeCacheTime, podCache, podCacheTime>>
clusterVars == <<now, worldVars, cacheVars>>

\* The Node objects as one revision of the API server has them.
NodeObjects ==
    [nodes: SUBSET Node, tainted: SUBSET Node, force: SUBSET Node, cordoned: SUBSET Node,
     noDelete: SUBSET Node, notReady: SUBSET Node, taintTime: [Node -> Nat]]

NoNodes ==
    [nodes |-> {}, tainted |-> {}, force |-> {}, cordoned |-> {}, noDelete |-> {},
     notReady |-> {}, taintTime |-> [n \in Node |-> 0]]

Without(objects, n) ==
    [nodes |-> objects.nodes \ {n}, tainted |-> objects.tainted \ {n},
     force |-> objects.force \ {n}, cordoned |-> objects.cordoned \ {n},
     noDelete |-> objects.noDelete \ {n}, notReady |-> objects.notReady \ {n},
     taintTime |-> [objects.taintTime EXCEPT ![n] = 0]]

ClusterTypeOK ==
    /\ now \in Nat
    /\ api \in NodeObjects
    /\ created \in [Node -> Nat]
    /\ busy \in SUBSET Node
    /\ asg \in [desired: Int, instances: SUBSET Node]
    /\ unused \in SUBSET Node
    /\ booting \in SUBSET Node
    /\ bootBy \in Nat /\ upsets \in Nat
    /\ nodeCache \in NodeObjects /\ nodeCacheTime \in Nat
    /\ podCache \in SUBSET Node /\ podCacheTime \in Nat

ClusterInit ==
    /\ now = 0
    /\ api = [NoNodes EXCEPT !.nodes = InitialNodes]
    /\ created = [n \in Node |-> 0]
    /\ busy = {}
    /\ asg = [desired |-> Cardinality(InitialNodes), instances |-> InitialNodes]
    /\ unused = Node \ InitialNodes
    /\ booting = {}
    /\ bootBy = 0 /\ upsets = 0
    /\ nodeCache = api /\ nodeCacheTime = 0
    /\ podCache = {} /\ podCacheTime = 0

--------------------------------------------------------------------------------
(* What Escalator does to the API server.  Each call may fail; a call on a *)
(* node that is gone does.                                                 *)

\* Mutant: a taint that is there already gets a new time stamp.
AddToBeRemovedTaint_Restamps(n) ==
    /\ n \in api.nodes
    /\ api' = [api EXCEPT !.tainted = @ \cup {n}, !.taintTime[n] = now]

\* AddToBeRemovedTaint: a taint that is there already keeps its time stamp.
AddToBeRemovedTaint(n) ==
    /\ n \in api.nodes
    /\ api' = IF n \in api.tainted THEN api
              ELSE [api EXCEPT !.tainted = @ \cup {n}, !.taintTime[n] = now]

DeleteToBeRemovedTaint(n) ==
    /\ n \in api.nodes
    /\ api' = [api EXCEPT !.tainted = @ \ {n}, !.taintTime[n] = 0]

\* DeleteNode: the pods of a Node object go with it.
DeleteNode(n) ==
    /\ n \in api.nodes
    /\ api' = Without(api, n)
    /\ busy' = busy \ {n}

ApiMayFail(n) == "apifail" \in Operations \/ n \notin api.nodes

--------------------------------------------------------------------------------
(* What Escalator does to the auto scaling group.                          *)

\* TerminateInstanceInAutoScalingGroup with ShouldDecrementDesiredCapacity.
\* The group takes every decrement: keeping to its minimum is Escalator's part here.
TerminateInstance(n) ==
    /\ n \in asg.instances
    /\ asg' = [desired |-> asg.desired - 1, instances |-> asg.instances \ {n}]
    /\ busy' = busy \ {n}

\* SetDesiredCapacity, an absolute size.
SetDesiredCapacity(size) ==
    /\ asg' = [asg EXCEPT !.desired = size]
    /\ bootBy' = now + BootTime

--------------------------------------------------------------------------------
(* The informers: a store is some earlier revision of the API server, and  *)
(* the two informers are not synchronised with each other.                 *)

SyncNodes ==
    /\ nodeCache' = api /\ nodeCacheTime' = now
    /\ UNCHANGED <<now, worldVars, podCache, podCacheTime>>

SyncPods ==
    /\ podCache' = busy /\ podCacheTime' = now
    /\ UNCHANGED <<now, worldVars, nodeCache, nodeCacheTime>>

--------------------------------------------------------------------------------
(* Pods, the group's instances, operators and hardware.                    *)

Upset(operation) ==
    /\ operation \in Operations
    /\ upsets < MaxUpsets
    /\ upsets' = upsets + 1

\* The scheduler binds a pod of the group to node n.  It passes over a tainted node
\* unless the effect is advisory or the taint is too new for it to know.
BindPod(n) ==
    /\ "pods" \in Operations
    /\ n \in (api.nodes \cap asg.instances) \ (busy \cup api.cordoned \cup api.notReady \cup api.force)
    /\ n \in api.tainted =>
         TaintEffect = "PreferNoSchedule" \/ now <= api.taintTime[n] + SchedulerLag
    /\ busy' = busy \cup {n}
    /\ UNCHANGED <<now, api, created, asg, unused, booting, bootBy, upsets, cacheVars>>

PodsDone(n) ==
    /\ n \in busy
    /\ busy' = busy \ {n}
    /\ UNCHANGED <<now, api, created, asg, unused, booting, bootBy, upsets, cacheVars>>

Launch(n) ==
    /\ n \in unused
    /\ Cardinality(asg.instances) < asg.desired
    /\ asg' = [asg EXCEPT !.instances = @ \cup {n}]
    /\ unused' = unused \ {n}
    /\ booting' = booting \cup {n}
    /\ UNCHANGED <<now, api, created, busy, bootBy, upsets, cacheVars>>

Register(n) ==
    /\ n \in booting
    /\ api' = [api EXCEPT !.nodes = @ \cup {n}]
    /\ created' = [created EXCEPT ![n] = now]
    /\ booting' = booting \ {n}
    /\ UNCHANGED <<now, busy, asg, unused, bootBy, upsets, cacheVars>>

InstanceLost(n) ==
    /\ Upset("lost")
    /\ n \in asg.instances \ booting
    /\ asg' = [asg EXCEPT !.instances = @ \ {n}]
    /\ busy' = busy \ {n}
    /\ bootBy' = now + BootTime
    /\ UNCHANGED <<now, api, created, unused, booting, cacheVars>>

\* The cloud's node controller removes the Node object of an instance that is gone.
NodeCleanup(n) ==
    /\ "cleanup" \in Operations
    /\ n \notin asg.instances
    /\ DeleteNode(n)
    /\ UNCHANGED <<now, created, asg, unused, booting, bootBy, upsets, cacheVars>>

Cordon(n) ==
    /\ Upset("cordon")
    /\ n \in api.nodes
    /\ api' = [api EXCEPT !.cordoned = IF n \in @ THEN @ \ {n} ELSE @ \cup {n}]
    /\ UNCHANGED <<now, created, busy, asg, unused, booting, bootBy, cacheVars>>

ForceTaint(n) ==
    /\ Upset("force")
    /\ n \in api.nodes \ api.force
    /\ api' = [api EXCEPT !.force = @ \cup {n}]
    /\ UNCHANGED <<now, created, busy, asg, unused, booting, bootBy, cacheVars>>

Annotate(n) ==
    /\ Upset("annotate")
    /\ n \in api.nodes \ api.noDelete
    /\ api' = [api EXCEPT !.noDelete = @ \cup {n}]
    /\ UNCHANGED <<now, created, busy, asg, unused, booting, bootBy, cacheVars>>

ReadyChanges(n) ==
    /\ Upset("notready")
    /\ n \in api.nodes
    /\ api' = [api EXCEPT !.notReady = IF n \in @ THEN @ \ {n} ELSE @ \cup {n}]
    /\ UNCHANGED <<now, created, busy, asg, unused, booting, bootBy, cacheVars>>

\* The group is still below its desired size and names are left to reach it with.
Provisioning ==
    booting # {} \/ (unused # {} /\ Cardinality(asg.instances) < asg.desired)

\* The clock respects the lag of the informers and the group's provisioning time.
Tick ==
    /\ now < MaxTime
    /\ now < nodeCacheTime + CacheLag
    /\ now < podCacheTime + CacheLag
    /\ Provisioning => now < bootBy
    /\ now' = now + 1
    /\ UNCHANGED <<worldVars, cacheVars>>

NodeEvent(n) ==
    \/ BindPod(n) \/ PodsDone(n) \/ Launch(n) \/ Register(n) \/ InstanceLost(n)
    \/ NodeCleanup(n) \/ Cordon(n) \/ ForceTaint(n) \/ Annotate(n) \/ ReadyChanges(n)
================================================================================
