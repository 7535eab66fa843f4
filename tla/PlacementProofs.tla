---------------------------- MODULE PlacementProofs ----------------------------
(***************************************************************************)
(* Proofs about PodPlacement: the type of its state, and that a node is    *)
(* reaped before its hard grace period only when no pod of the group is on *)
(* it, for any pods, nodes, labels and requests.                           *)
(***************************************************************************)
EXTENDS PodPlacement, TLAPS

\* A pod has a node from its binding to its end, and only a node its labels admit.
PlacedInv ==
    \A p \in Pod : place[p] # {} => phase[p] # "none" /\ Admitted(p)

PlacementInv == PlacementTypeOK /\ PlacedInv

\* What a step of a pass may do to the nodes.
LEMMA AtMostIsPart ==
    ASSUME NEW k, NEW S, NEW T \in AtMost(k, S)
    PROVE  T \subseteq S
BY DEF AtMost

\* A scale up takes taints away and adds nodes, and moves no pod.
LEMMA ScaleUpStep ==
    ASSUME PlacementInv, ScaleUp
    PROVE  PlacementInv' /\ nodes \subseteq nodes'
<1>1. PICK delta \in Deltas : \E back \in AtMost(delta, tainted) :
         \E new \in AtMost(delta - Cardinality(back), Node \ nodes) :
            nodes' = nodes \cup new /\ tainted' = tainted \ back
  BY DEF ScaleUp
<1>2. PICK back \in AtMost(delta, tainted) :
         \E new \in AtMost(delta - Cardinality(back), Node \ nodes) :
            nodes' = nodes \cup new /\ tainted' = tainted \ back
  BY <1>1
<1>3. PICK new \in AtMost(delta - Cardinality(back), Node \ nodes) :
         nodes' = nodes \cup new /\ tainted' = tainted \ back
  BY <1>2
<1>4. new \subseteq Node \ nodes
  BY <1>3, AtMostIsPart
<1>5. nodes' \subseteq Node /\ tainted' \subseteq nodes' /\ nodes \subseteq nodes'
  BY <1>3, <1>4 DEF PlacementInv, PlacementTypeOK
<1>6. known' \in BOOLEAN
  BY Zenon DEF ScaleUp, Looking
<1>7. phase' = phase /\ place' = place
  BY DEF ScaleUp
<1> QED  BY <1>5, <1>6, <1>7 DEF PlacementInv, PlacementTypeOK, PlacedInv

\* Killed pods are gone from their nodes.
LEMMA KillStep ==
    ASSUME PlacementInv, NEW gone, KillPodsOn(gone)
    PROVE  /\ phase' \in [Pod -> {"none", "pending", "creating", "running"}]
           /\ place' \in [Pod -> {{}} \cup {{n} : n \in Node}]
           /\ PlacedInv'
<1> DEFINE killed == {p \in Pod : \E n \in gone : place[p] = {n}}
<1>1. /\ phase' = [p \in Pod |-> IF p \in killed THEN "none" ELSE phase[p]]
      /\ place' = [p \in Pod |-> IF p \in killed THEN {} ELSE place[p]]
  BY DEF KillPodsOn
<1> HIDE DEF killed
<1> QED  BY <1>1 DEF PlacementInv, PlacementTypeOK, PlacedInv

\* A scale down removes tainted nodes without listed pods, taints others, and kills the
\* pods of the nodes it removes.
LEMMA ScaleDownStep ==
    ASSUME PlacementInv, ScaleDown
    PROVE  PlacementInv' /\ \A n \in nodes \ nodes' : NodeEmpty(n)
<1>1. PICK delta \in Deltas : \E gone \in SUBSET {n \in tainted : NodeEmpty(n)} :
         \E out \in AtMost(-delta, UntaintedNodes) :
            /\ nodes' = nodes \ gone
            /\ tainted' = (tainted \ gone) \cup out
            /\ KillPodsOn(gone)
  BY DEF ScaleDown
<1>2. PICK gone \in SUBSET {n \in tainted : NodeEmpty(n)} :
         \E out \in AtMost(-delta, UntaintedNodes) :
            /\ nodes' = nodes \ gone
            /\ tainted' = (tainted \ gone) \cup out
            /\ KillPodsOn(gone)
  BY <1>1
<1>3. PICK out \in AtMost(-delta, UntaintedNodes) :
         /\ nodes' = nodes \ gone
         /\ tainted' = (tainted \ gone) \cup out
         /\ KillPodsOn(gone)
  BY <1>2
<1>4. out \subseteq nodes \ tainted
  BY <1>3, AtMostIsPart DEF UntaintedNodes
<1>5. nodes' \subseteq Node /\ tainted' \subseteq nodes'
  BY <1>3, <1>4 DEF PlacementInv, PlacementTypeOK
<1>6. known' \in BOOLEAN
  BY Zenon DEF ScaleDown, Looking
<1>7. /\ phase' \in [Pod -> {"none", "pending", "creating", "running"}]
      /\ place' \in [Pod -> {{}} \cup {{n} : n \in Node}]
      /\ PlacedInv'
  BY <1>3, KillStep
<1>8. \A n \in nodes \ nodes' : NodeEmpty(n)
  BY <1>3
<1> QED  BY <1>5, <1>6, <1>7, <1>8 DEF PlacementInv, PlacementTypeOK

\* Steps of a pod move that pod only, and leave the nodes alone.
LEMMA PodStep ==
    ASSUME PlacementInv, NEW p \in Pod, Submit(p) \/ Bind(p) \/ Run(p) \/ Finish(p)
    PROVE  PlacementInv' /\ nodes' = nodes
<1>1. CASE Submit(p)
  BY <1>1 DEF Submit, PlacementInv, PlacementTypeOK, PlacedInv
<1>2. CASE Bind(p)
  <2>1. PICK n \in Node : MayRunOn(p, n) /\ place' = [place EXCEPT ![p] = {n}]
    BY <1>2 DEF Bind
  <2>2. Admitted(p)
    BY <2>1 DEF MayRunOn, Admitted
  <2>3. phase' = [phase EXCEPT ![p] = "creating"] /\ UNCHANGED <<nodes, tainted, known>>
    BY <1>2 DEF Bind
  <2>4. PlacementTypeOK'
    BY <2>1, <2>3 DEF PlacementInv, PlacementTypeOK
  <2>5. PlacedInv'
    BY <2>1, <2>2, <2>3 DEF PlacementInv, PlacementTypeOK, PlacedInv, Admitted
  <2> QED  BY <2>3, <2>4, <2>5 DEF PlacementInv
<1>3. CASE Run(p)
  BY <1>3 DEF Run, PlacementInv, PlacementTypeOK, PlacedInv, Admitted
<1>4. CASE Finish(p)
  BY <1>4 DEF Finish, PlacementInv, PlacementTypeOK, PlacedInv, Admitted
<1> QED  BY <1>1, <1>2, <1>3, <1>4

\* The invariant holds of every reachable state.
LEMMA PlacementInvariant == Spec => []PlacementInv
<1>1. Init => PlacementInv
  BY DEF Init, PlacementInv, PlacementTypeOK, PlacedInv
<1>2. PlacementInv /\ [Next]_vars => PlacementInv'
  <2> SUFFICES ASSUME PlacementInv, [Next]_vars PROVE PlacementInv'
    OBVIOUS
  <2>1. CASE ScaleUp
    BY <2>1, ScaleUpStep
  <2>2. CASE ScaleDown
    BY <2>2, ScaleDownStep
  <2>3. CASE \E p \in Pod : Submit(p) \/ Bind(p) \/ Run(p) \/ Finish(p)
    BY <2>3, PodStep
  <2>4. CASE UNCHANGED vars
    BY <2>4 DEF vars, PlacementInv, PlacementTypeOK, PlacedInv, Admitted
  <2> QED  BY <2>1, <2>2, <2>3, <2>4 DEF Next, Pass
<1> QED  BY <1>1, <1>2, PTL DEF Spec

\* Every reachable state is of the right type: in particular only nodes of the group are
\* tainted, also after nodes were removed.
THEOREM PlacementTypeCorrect == Spec => []PlacementTypeOK
<1>1. PlacementInv => PlacementTypeOK
  BY DEF PlacementInv
<1> QED  BY <1>1, PlacementInvariant, PTL

\* NodeEmpty, which looks at the pods of the group's filter only, protects every pod but a
\* daemonset's or a static one, as long as the filter lists all pods that can get there.
THEOREM RemovalSparesPods ==
    ASSUME PodsAreListed
    PROVE  Spec => RemovedNodeIsEmpty
<1>1. PlacementInv /\ [Next]_vars =>
        [\A p \in Pod : PodSpec[p].kind = "normal" /\ phase[p] # "none" =>
           \A n \in nodes \ nodes' : place[p] # {n}]_vars
  <2> SUFFICES ASSUME PlacementInv, Next, NEW p \in Pod, PodSpec[p].kind = "normal",
                      phase[p] # "none", NEW n \in nodes \ nodes', place[p] = {n}
               PROVE  FALSE
    OBVIOUS
  <2>1. CASE ScaleUp
    BY <2>1, ScaleUpStep
  <2>2. CASE ScaleDown
    <3>1. NodeEmpty(n)
      BY <2>2, ScaleDownStep
    <3>2. Admitted(p)
      BY DEF PlacementInv, PlacedInv
    <3>3. p \in ListedPods
      BY <3>2 DEF PodsAreListed, ListedPods
    <3> QED  BY <3>1, <3>3 DEF NodeEmpty
  <2>3. CASE \E q \in Pod : Submit(q) \/ Bind(q) \/ Run(q) \/ Finish(q)
    BY <2>3, PodStep
  <2> QED  BY <2>1, <2>2, <2>3 DEF Next, Pass
<1> QED  BY <1>1, PlacementInvariant, PTL DEF Spec, RemovedNodeIsEmpty
================================================================================
