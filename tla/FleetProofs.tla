------------------------------ MODULE FleetProofs ------------------------------
(***************************************************************************)
(* Proofs about FleetScaleUp and FleetPass, for fleets and batches of      *)
(* every size.                                                             *)
(***************************************************************************)
EXTENDS FleetPass, FiniteSetTheorems, TLAPS

(***************************************************************************)
(* No orphans.                                                             *)
(***************************************************************************)

\* What IncreaseSize still has to attach or to terminate is in its list.
OrphanInv ==
    /\ state \in [Instance -> {"free", "pending", "running", "attached", "terminated"}]
    /\ left \subseteq Instance /\ sent \subseteq Instance
    /\ pc \in {"idle", "dead"} => left = {}
    /\ \A i \in Instance : state[i] \in {"pending", "running"} => i \in left \cup leaked

\* The instances that change state, and the others.
LEMMA BecomesState ==
    ASSUME OrphanInv, NEW S \in SUBSET Instance,
           NEW to \in {"free", "pending", "running", "attached", "terminated"}
    PROVE  /\ Becomes(S, to) \in [Instance -> {"free", "pending", "running", "attached", "terminated"}]
           /\ \A i \in S : Becomes(S, to)[i] = to
           /\ \A i \in Instance \ S : Becomes(S, to)[i] = state[i]
BY DEF OrphanInv, Becomes

\* The calls of IncreaseSize: an instance leaves the list attached, terminated, or named
\* in a call that failed.
LEMMA IncreaseOrphan ==
    ASSUME OrphanInv, IncreaseStep
    PROVE  OrphanInv'
<1>1. CASE AllInstancesReady \/ Deadline
  BY <1>1 DEF OrphanInv, AllInstancesReady, Deadline
<1>2. CASE SweepDone
  BY <1>2 DEF OrphanInv, SweepDone
<1>3. ASSUME NEW B \in SUBSET left, Attach(B) PROVE OrphanInv'
  <2>1. B \in SUBSET Instance
    BY DEF OrphanInv
  <2>2. /\ state' \in [Instance -> {"free", "pending", "running", "attached", "terminated"}]
        /\ \A i \in B : state'[i] = "attached"
        /\ \A i \in Instance \ B : state'[i] = state[i]
    BY <1>3, <2>1, BecomesState DEF Attach
  <2>3. /\ left' = left \ B /\ sent' = sent /\ leaked' = leaked
        /\ pc = "attach" /\ (pc' = pc \/ (pc' = "idle" /\ B = left))
    BY <1>3 DEF Attach, NextBatch
  <2> QED  BY <2>2, <2>3 DEF OrphanInv
<1>4. ASSUME NEW B \in SUBSET left, AttachFails(B) PROVE OrphanInv'
  BY <1>4 DEF OrphanInv, AttachFails, NextBatch
<1>5. ASSUME NEW B \in SUBSET left, TerminateInstances(B) PROVE OrphanInv'
  <2>1. /\ left' = left \ B /\ sent' = sent \cup B /\ pc' = pc /\ sent' \in SUBSET Instance
        /\ pc = "sweep"
    BY <1>5 DEF TerminateInstances, OrphanInv
  <2>2. CASE state' = Becomes(sent', "terminated") /\ leaked' = leaked
    <3>1. /\ state' \in [Instance -> {"free", "pending", "running", "attached", "terminated"}]
          /\ \A i \in sent' : state'[i] = "terminated"
          /\ \A i \in Instance \ sent' : state'[i] = state[i]
      BY <2>1, <2>2, BecomesState
    <3> QED  BY <2>1, <2>2, <3>1 DEF OrphanInv
  <2>3. CASE leaked' = leaked \cup sent' /\ state' = state
    BY <2>1, <2>3 DEF OrphanInv
  <2> QED  BY <1>5, <2>2, <2>3 DEF TerminateInstances
<1> QED  BY <1>1, <1>2, <1>3, <1>4, <1>5 DEF IncreaseStep

\* Every step of a fleet.
LEMMA OrphanStep ==
    ASSUME OrphanInv, [Next]_vars
    PROVE  OrphanInv'
<1>1. CASE Rebuild \/ UNCHANGED vars
  BY <1>1 DEF OrphanInv, Rebuild, vars
<1>2. CASE Restart
  BY <1>2 DEF OrphanInv, Restart
<1>3. ASSUME NEW n \in 1..AsgMax, CreateFleetFails(n) PROVE OrphanInv'
  BY <1>3 DEF OrphanInv, CreateFleetFails
<1>4. ASSUME NEW n \in 1..AsgMax, NEW S \in SUBSET Instance, CreateFleet(n, S) PROVE OrphanInv'
  <2>1. /\ state' \in [Instance -> {"free", "pending", "running", "attached", "terminated"}]
        /\ \A i \in Instance \ S : state'[i] = state[i]
    BY <1>4, BecomesState DEF CreateFleet
  <2> QED  BY <1>4, <2>1 DEF OrphanInv, CreateFleet
<1>5. ASSUME NEW i \in Instance, Boot(i) \/ Reclaim(i) PROVE OrphanInv'
  BY <1>5 DEF OrphanInv, Boot, Reclaim
<1> QED  BY <1>1, <1>2, <1>3, <1>4, <1>5, IncreaseOrphan DEF Next

\* No instance is paid for and forgotten: a fleet of any size, attached and terminated in
\* batches of any size, leaves none outside the group unless a TerminateInstances call
\* failed or the process died.
THEOREM FleetLeavesNoOrphans == Spec => []NoOrphans
<1>1. Init => OrphanInv
  BY DEF Init, OrphanInv
<1>2. OrphanInv => NoOrphans
  BY DEF OrphanInv, NoOrphans
<1> QED  BY <1>1, <1>2, OrphanStep, PTL DEF Spec

(***************************************************************************)
(* The size of the group and the result of IncreaseSize.                   *)
(***************************************************************************)

\* What IncreaseSize has attached and what is left add up to what it was asked for; once
\* it sweeps, something is missing for good.  Its tries are used up only by its death.
ExactInv ==
    /\ pc \in {"wait", "attach", "sweep"} =>
         /\ result = "none" /\ before <= desired /\ before + delta <= AsgMax
         /\ desired < before + delta
    /\ pc \in {"wait", "attach"} =>
         left # {} /\ desired + Cardinality(left) = before + delta
    /\ pc # "dead" => tries < MaxTries
    /\ IncreaseIsExact

FleetInv == OrphanInv /\ FleetTypeOK /\ ExactInv

\* Sets of instances have a size, and taking a part of one away makes it smaller by that.
LEMMA InstanceCount ==
    ASSUME NEW S \in SUBSET Instance
    PROVE  /\ IsFiniteSet(S) /\ Cardinality(S) \in Nat /\ (Cardinality(S) = 0 <=> S = {})
           /\ \A B \in SUBSET S : /\ Cardinality(B) \in Nat /\ IsFiniteSet(B)
                                  /\ Cardinality(S \ B) = Cardinality(S) - Cardinality(B)
<1>1. IsFiniteSet(S) /\ Cardinality(S) \in Nat
  BY FleetAssumption, FS_Subset, FS_CardinalityType
<1>2. ASSUME NEW B \in SUBSET S
      PROVE  /\ Cardinality(B) \in Nat /\ IsFiniteSet(B)
             /\ Cardinality(S \ B) = Cardinality(S) - Cardinality(B)
  <2>1. IsFiniteSet(B) /\ Cardinality(B) \in Nat
    BY <1>1, FS_Subset, FS_CardinalityType
  <2>2. S \cap B = B
    OBVIOUS
  <2> QED  BY <1>1, <2>1, <2>2, FS_Difference
<1> QED  BY <1>1, <1>2, FS_EmptySet

\* The group and the tries are bounded by naturals.
LEMMA FleetBounds == AsgMax \in Nat /\ MaxTries \in Nat \ {0}
BY FleetAssumption

\* The steps of IncreaseSize.
LEMMA IncreaseExact ==
    ASSUME FleetInv, IncreaseStep
    PROVE  FleetTypeOK' /\ ExactInv'
<1> USE FleetBounds DEF FleetInv, FleetTypeOK
<1>1. CASE AllInstancesReady \/ Deadline
  BY <1>1 DEF AllInstancesReady, Deadline, ExactInv, IncreaseIsExact
<1>2. CASE SweepDone
  BY <1>2 DEF SweepDone, ExactInv, IncreaseIsExact
<1>3. ASSUME NEW B \in SUBSET left, Attach(B) PROVE FleetTypeOK' /\ ExactInv'
  <2>1. /\ Cardinality(left) \in Nat /\ Cardinality(B) \in Nat
        /\ Cardinality(left \ B) = Cardinality(left) - Cardinality(B)
        /\ left \ B \in SUBSET Instance
        /\ Cardinality(left \ B) \in Nat /\ (Cardinality(left \ B) = 0 <=> left \ B = {})
    BY InstanceCount
  <2>2. /\ pc = "attach" /\ desired' = desired + Cardinality(B) /\ left' = left \ B
        /\ UNCHANGED <<before, delta, sent, leaked>>
        /\ IF B = left THEN pc' = "idle" /\ result' = "nil" /\ tries' = 0
                       ELSE UNCHANGED <<pc, result, tries>>
    BY <1>3 DEF Attach, NextBatch
  <2>3. /\ result = "none" /\ before <= desired /\ before + delta <= AsgMax
        /\ desired + Cardinality(left) = before + delta /\ tries < MaxTries
    BY <2>2 DEF ExactInv
  <2>4. state' \in [Instance -> {"free", "pending", "running", "attached", "terminated"}]
    BY <1>3, BecomesState DEF Attach
  <2>5. desired' + Cardinality(left') = before + delta
    BY <2>1, <2>2, <2>3
  <2>6. desired' \in 0..AsgMax /\ before <= desired'
    BY <2>1, <2>2, <2>3, <2>5
  <2>7. FleetTypeOK'
    BY <2>2, <2>4, <2>6
  <2>8. CASE B = left
    <3>1. Cardinality(left') = 0
      BY <2>1, <2>2, <2>8
    <3> QED  BY <2>2, <2>3, <2>5, <2>7, <2>8, <3>1 DEF ExactInv, IncreaseIsExact
  <2>9. CASE B # left
    <3>1. left' # {} /\ Cardinality(left') # 0
      BY <2>1, <2>2, <2>9
    <3>2. desired' < before + delta
      BY <2>1, <2>2, <2>5, <2>6, <3>1
    <3> QED  BY <2>2, <2>3, <2>5, <2>6, <2>7, <2>9, <3>1, <3>2 DEF ExactInv, IncreaseIsExact
  <2> QED  BY <2>8, <2>9
<1>4. ASSUME NEW B \in SUBSET left, AttachFails(B) PROVE FleetTypeOK' /\ ExactInv'
  BY <1>4 DEF AttachFails, NextBatch, ExactInv, IncreaseIsExact
<1>5. ASSUME NEW B \in SUBSET left, TerminateInstances(B) PROVE FleetTypeOK' /\ ExactInv'
  <2>1. /\ sent' \in SUBSET Instance /\ left' \in SUBSET Instance /\ pc = "sweep"
        /\ UNCHANGED <<pc, desired, before, delta, result, tries>>
        /\ leaked' \in SUBSET Instance
    BY <1>5 DEF TerminateInstances
  <2>2. state' \in [Instance -> {"free", "pending", "running", "attached", "terminated"}]
    BY <1>5, <2>1, BecomesState DEF TerminateInstances
  <2> QED  BY <2>1, <2>2 DEF ExactInv, IncreaseIsExact
<1> QED  BY <1>1, <1>2, <1>3, <1>4, <1>5 DEF IncreaseStep

\* Every step of a fleet.
LEMMA FleetStep ==
    ASSUME FleetInv, [Next]_vars
    PROVE  FleetInv'
<1> USE FleetBounds DEF FleetInv, FleetTypeOK
<1> SUFFICES FleetTypeOK' /\ ExactInv'
  BY OrphanStep
<1>1. CASE Rebuild \/ UNCHANGED vars
  BY <1>1 DEF Rebuild, vars, ExactInv, IncreaseIsExact
<1>2. CASE Restart
  BY <1>2 DEF Restart, ExactInv, IncreaseIsExact
<1>3. ASSUME NEW n \in 1..AsgMax, CreateFleetFails(n) PROVE FleetTypeOK' /\ ExactInv'
  BY <1>3 DEF CreateFleetFails, ExactInv, IncreaseIsExact
<1>4. ASSUME NEW n \in 1..AsgMax, NEW S \in SUBSET Instance, CreateFleet(n, S)
      PROVE  FleetTypeOK' /\ ExactInv'
  <2>1. S # {}
    BY <1>4, InstanceCount DEF CreateFleet
  <2>2. state' \in [Instance -> {"free", "pending", "running", "attached", "terminated"}]
    BY <1>4, BecomesState DEF CreateFleet
  <2> QED  BY <1>4, <2>1, <2>2 DEF CreateFleet, ExactInv, IncreaseIsExact
<1>5. ASSUME NEW i \in Instance, Boot(i) \/ Reclaim(i) PROVE FleetTypeOK' /\ ExactInv'
  BY <1>5 DEF Boot, Reclaim, ExactInv, IncreaseIsExact
<1> QED  BY <1>1, <1>2, <1>3, <1>4, <1>5, IncreaseExact DEF Next

\* The first state: an empty group, and nothing asked for.
LEMMA FleetStart == Init => FleetInv
<1> SUFFICES ASSUME Init PROVE FleetInv
  OBVIOUS
<1>1. OrphanInv
  BY DEF Init, OrphanInv
<1> QED  BY <1>1, FleetBounds DEF Init, FleetInv, FleetTypeOK, ExactInv, IncreaseIsExact

\* The result of IncreaseSize tells the truth about the size, for fleets and batches of
\* every size: nil means that all of delta is attached, an error that some of it is not.
THEOREM FleetIsExact == Spec => [](FleetTypeOK /\ IncreaseIsExact)
<1>1. FleetInv => FleetTypeOK /\ IncreaseIsExact
  BY DEF FleetInv, ExactInv
<1> QED  BY <1>1, FleetStart, FleetStep, PTL DEF Spec

(***************************************************************************)
(* The passes around IncreaseSize.                                         *)
(***************************************************************************)

\* The desired size counts the attached instances, and the lists hold none of them.
\* While the lock is free, every attached instance is a node that the next decision
\* counts or one that no lock was held for; so what a pass asks for fits the need.
OverInv ==
    /\ registered \subseteq Attached /\ unlocked \subseteq Attached /\ locked \in BOOLEAN
    /\ desired = Cardinality(Attached)
    /\ (left \cup sent) \cap Attached = {}
    /\ pc # "sweep" => sent = {}
    /\ pc \in {"wait", "attach", "sweep"} =>
         ~locked /\ before + delta <= Need + Cardinality(unlocked)
    /\ pc = "idle" /\ ~locked => Attached \subseteq registered \cup unlocked
    /\ OverProvisionIsBounded

\* The smaller of two numbers.
LEMMA SmallerOfTwo ==
    ASSUME NEW a \in Int, NEW b \in Int
    PROVE  Min({a, b}) \in {a, b} /\ Min({a, b}) <= a /\ Min({a, b}) <= b
<1>1. \E x \in {a, b} : \A y \in {a, b} : x =< y
  <2>1. CASE a =< b  BY <2>1
  <2>2. CASE b =< a  BY <2>2
  <2> QED  BY <2>1, <2>2
<1> QED  BY <1>1 DEF Min

\* A pass that grows the group asks for at least one node, and for no more than the group
\* needs and has room for.
LEMMA NodesToAddFits ==
    ASSUME FleetInv, OverInv, NodesToAdd > 0
    PROVE  /\ NodesToAdd \in 1..AsgMax
           /\ NodesToAdd <= Need - Cardinality(registered)
<1>1. /\ Cardinality(registered) \in Nat /\ Need \in Nat /\ desired \in Nat /\ AsgMax \in Nat
  BY InstanceCount, NeedAssumption, FleetBounds DEF OverInv, Attached, FleetInv, FleetTypeOK
<1>2. /\ NodesToAdd \in {Need - Cardinality(registered), AsgMax - desired}
      /\ NodesToAdd <= Need - Cardinality(registered) /\ NodesToAdd <= AsgMax - desired
  BY <1>1, SmallerOfTwo DEF NodesToAdd
<1> QED  BY <1>1, <1>2

\* The passes take only the steps of FleetScaleUp.
LEMMA PassIsFleet ==
    ASSUME FleetInv, OverInv, [PassNext]_<<vars, passVars>>
    PROVE  [Next]_vars
<1>1. CASE ScaleUp
  <2>1. NodesToAdd \in 1..AsgMax
    BY <1>1, NodesToAddFits DEF ScaleUp
  <2> QED  BY <1>1, <2>1 DEF ScaleUp, Next
<1>2. CASE IncreaseSize
  BY <1>2 DEF IncreaseSize, Next
<1>3. CASE RestartPass
  BY <1>3 DEF RestartPass, Next
<1>4. CASE CoolDownEnds \/ \E i \in Instance : Register(i)
  BY <1>4 DEF CoolDownEnds, Register
<1>5. CASE World
  BY <1>5 DEF World, Next
<1> QED  BY <1>1, <1>2, <1>3, <1>4, <1>5 DEF PassNext

\* A part of a set of instances is no larger than the whole.
LEMMA InstancePart ==
    ASSUME NEW S \in SUBSET Instance, NEW B \in SUBSET S
    PROVE  Cardinality(B) \in Nat /\ Cardinality(S) \in Nat /\ Cardinality(B) <= Cardinality(S)
BY InstanceCount, FS_Subset

\* How large a union is.
LEMMA InstanceUnion ==
    ASSUME NEW S \in SUBSET Instance, NEW B \in SUBSET Instance
    PROVE  /\ Cardinality(S \cup B) <= Cardinality(S) + Cardinality(B)
           /\ S \cap B = {} => Cardinality(S \cup B) = Cardinality(S) + Cardinality(B)
<1>1. IsFiniteSet(S) /\ IsFiniteSet(B)
  BY InstanceCount
<1>2. Cardinality(S \cap B) \in Nat /\ Cardinality(S) \in Nat /\ Cardinality(B) \in Nat
  BY InstanceCount
<1>3. Cardinality(S \cup B) = Cardinality(S) + Cardinality(B) - Cardinality(S \cap B)
  BY <1>1, FS_Union
<1> QED  BY <1>2, <1>3, FS_EmptySet

\* The calls of IncreaseSize, with the lock and its loss.
LEMMA IncreaseOver ==
    ASSUME FleetInv, OverInv, IncreaseSize
    PROVE  OverInv'
<1>1. /\ desired \in Nat /\ before \in Nat /\ delta \in Nat /\ Need \in Nat
      /\ Cardinality(unlocked) \in Nat /\ left \in SUBSET Instance /\ sent \in SUBSET Instance
      /\ Attached \in SUBSET Instance
  BY InstanceCount, NeedAssumption DEF OverInv, Attached, FleetInv, FleetTypeOK
<1>2. /\ pc \in {"wait", "attach", "sweep"} /\ pc \notin {"idle", "dead"} /\ result = "none"
      /\ ~locked /\ desired < before + delta /\ before + delta <= Need + Cardinality(unlocked)
  <2>1. pc \in {"wait", "attach", "sweep"} /\ pc \notin {"idle", "dead"}
    BY DEF IncreaseSize, IncreaseStep, AllInstancesReady, Deadline, SweepDone, Attach,
           AttachFails, NextBatch, TerminateInstances
  <2> QED  BY <2>1 DEF FleetInv, ExactInv, OverInv
<1>3. CASE AllInstancesReady \/ Deadline \/ \E B \in SUBSET left : AttachFails(B)
  <2>1. /\ UNCHANGED <<state, desired, before, delta, result, left, sent>>
        /\ pc # "sweep" /\ pc' \in {"attach", "sweep"} /\ result' = "none"
    BY <1>2, <1>3 DEF AllInstancesReady, Deadline, AttachFails, NextBatch
  <2>2. UNCHANGED <<registered, unlocked, locked, Attached>>
    BY <1>2, <2>1 DEF IncreaseSize, Attached, OverInv
  <2>3. locked' = FALSE
    BY <1>2, <2>1 DEF IncreaseSize
  <2> QED  BY <1>2, <2>1, <2>2, <2>3 DEF OverInv, OverProvisionIsBounded
<1>4. CASE SweepDone
  <2>1. /\ UNCHANGED <<state, desired, before, delta, left>> /\ result' = "error" /\ sent' = {}
        /\ pc' \in {"idle", "dead"}
    BY <1>4 DEF SweepDone
  <2>2. /\ UNCHANGED <<registered, locked, Attached>>
        /\ unlocked' = unlocked \cup (Attached \ registered)
    BY <1>2, <2>1 DEF IncreaseSize, Attached, OverInv
  <2>3. /\ unlocked' \in SUBSET Attached /\ Attached \subseteq registered \cup unlocked'
        /\ unlocked \in SUBSET unlocked'
    BY <2>2 DEF OverInv
  <2>4. Cardinality(unlocked') \in Nat /\ Cardinality(unlocked) <= Cardinality(unlocked')
    BY <1>1, <2>3, InstancePart
  <2>5. desired <= Need + Cardinality(unlocked')
    BY <1>1, <1>2, <2>4
  <2> QED  BY <2>1, <2>2, <2>3, <2>5 DEF OverInv, OverProvisionIsBounded
<1>5. ASSUME NEW B \in SUBSET left, Attach(B) PROVE OverInv'
  <2>1. /\ \A i \in B : state[i] = "running"
        /\ state' = Becomes(B, "attached") /\ desired' = desired + Cardinality(B)
        /\ left' = left \ B /\ UNCHANGED <<before, delta, sent>> /\ pc = "attach"
        /\ IF B = left THEN pc' = "idle" /\ result' = "nil" ELSE pc' = pc /\ result' = result
    BY <1>5 DEF Attach, NextBatch
  <2>2. B \cap Attached = {} /\ Attached' = Attached \cup B
    BY <1>1, <2>1 DEF Attached, Becomes
  <2>3. UNCHANGED <<registered, unlocked>> /\ locked' = (locked \/ result' = "nil")
    BY <1>2, <2>1 DEF IncreaseSize
  <2>4. desired' = Cardinality(Attached')
    BY <1>1, <2>1, <2>2, InstanceUnion DEF OverInv
  <2>5. desired' <= before + delta
    <3>1. desired + Cardinality(left) = before + delta
      BY <2>1 DEF FleetInv, ExactInv
    <3>2. Cardinality(B) \in Nat /\ Cardinality(left) \in Nat /\ Cardinality(B) <= Cardinality(left)
      BY <1>1, InstancePart
    <3> QED  BY <1>1, <2>1, <3>1, <3>2
  <2>6. OverProvisionIsBounded'
    BY <1>1, <1>2, <2>1, <2>3, <2>4, <2>5, FS_CardinalityType DEF OverProvisionIsBounded, OverInv
  <2>7. (left' \cup sent') \cap Attached' = {} /\ sent' = {}
    BY <2>1, <2>2 DEF OverInv
  <2>8. CASE B = left
    <3>1. pc' = "idle" /\ locked' = TRUE
      BY <2>1, <2>3, <2>8
    <3> QED  BY <2>1, <2>2, <2>3, <2>4, <2>6, <2>7, <3>1 DEF OverInv
  <2>9. CASE B # left
    <3>1. pc' = "attach" /\ locked' = FALSE
      BY <1>2, <2>1, <2>3, <2>9
    <3> QED  BY <1>2, <2>1, <2>2, <2>3, <2>4, <2>6, <2>7, <3>1 DEF OverInv
  <2> QED  BY <2>8, <2>9
<1>6. ASSUME NEW B \in SUBSET left, TerminateInstances(B) PROVE OverInv'
  <2>1. /\ left' = left \ B /\ sent' = sent \cup B /\ pc = "sweep" /\ pc' = pc
        /\ UNCHANGED <<desired, before, delta, result>>
        /\ state' = state \/ state' = Becomes(sent', "terminated")
    BY <1>6 DEF TerminateInstances
  <2>2. Attached' = Attached
    BY <1>1, <2>1 DEF Attached, Becomes, OverInv
  <2>3. UNCHANGED <<registered, unlocked, locked>>
    BY <1>2, <2>1 DEF IncreaseSize, OverInv
  <2>4. (left' \cup sent') \cap Attached' = {}
    BY <2>1, <2>2 DEF OverInv
  <2>5. locked' = FALSE
    BY <1>2, <2>1 DEF IncreaseSize
  <2> QED  BY <1>2, <2>1, <2>2, <2>3, <2>4, <2>5 DEF OverInv, OverProvisionIsBounded
<1> QED  BY <1>3, <1>4, <1>5, <1>6 DEF IncreaseSize, IncreaseStep

\* A pass asks only for what is missing, so that the need covers it.
LEMMA ScaleUpOver ==
    ASSUME FleetInv, OverInv, ScaleUp
    PROVE  OverInv'
<1> DEFINE n == NodesToAdd
<1>1. /\ desired \in Nat /\ Need \in Nat /\ registered \in SUBSET Instance
      /\ unlocked \in SUBSET Instance
      /\ Cardinality(unlocked) \in Nat /\ Cardinality(registered) \in Nat
  BY InstanceCount, NeedAssumption DEF OverInv, Attached, FleetInv, FleetTypeOK
<1>2. n \in 1..AsgMax /\ n <= Need - Cardinality(registered) /\ n \in Int
  BY NodesToAddFits, FleetBounds DEF ScaleUp
<1>3. pc = "idle" /\ ~locked /\ UNCHANGED passVars /\ sent = {}
  BY DEF ScaleUp, OverInv
<1>4. CASE CreateFleetFails(n)
  <2>1. UNCHANGED <<pc, state, desired, left, sent>>
    BY <1>4 DEF CreateFleetFails
  <2>2. UNCHANGED <<Attached, registered, locked, unlocked>>
    BY <1>3, <2>1 DEF Attached, passVars
  <2> QED  BY <1>3, <2>1, <2>2 DEF OverInv, OverProvisionIsBounded
<1>5. ASSUME NEW S \in SUBSET Instance, CreateFleet(n, S) PROVE OverInv'
  <2>1. /\ \A i \in S : state[i] = "free"
        /\ state' = Becomes(S, "pending") /\ UNCHANGED <<desired, sent>>
        /\ pc' = "wait" /\ before' = desired /\ delta' = n /\ left' = S
    BY <1>5 DEF CreateFleet
  <2>2. Attached' = Attached /\ S \cap Attached = {}
    BY <2>1 DEF Attached, Becomes
  <2>3. UNCHANGED <<registered, locked, unlocked>>
    BY <1>3 DEF passVars
  <2>4. desired <= Cardinality(registered) + Cardinality(unlocked)
    <3>1. Attached \in SUBSET (registered \cup unlocked)
      BY <1>3 DEF OverInv
    <3>2. Cardinality(Attached) <= Cardinality(registered \cup unlocked)
          /\ Cardinality(registered \cup unlocked) \in Nat
      BY <1>1, <3>1, InstancePart
    <3>3. Cardinality(registered \cup unlocked) <= Cardinality(registered) + Cardinality(unlocked)
      BY <1>1, InstanceUnion
    <3>4. desired = Cardinality(Attached)
      BY DEF OverInv
    <3> QED  BY <1>1, <3>2, <3>3, <3>4
  <2>5. before' + delta' <= Need + Cardinality(unlocked')
    BY <1>1, <1>2, <2>1, <2>3, <2>4
  <2>6. (left' \cup sent') \cap Attached' = {}
    BY <1>3, <2>1, <2>2
  <2> QED  BY <1>3, <2>1, <2>2, <2>3, <2>5, <2>6 DEF OverInv, OverProvisionIsBounded
<1> QED  BY <1>4, <1>5 DEF ScaleUp

\* The end of the process frees the lock; what had not registered counts as unlocked.
LEMMA RestartOver ==
    ASSUME FleetInv, OverInv, RestartPass
    PROVE  OverInv'
<1>1. /\ pc' = "idle" /\ left' = {} /\ sent' = {} /\ UNCHANGED <<state, desired, registered>>
      /\ locked' = FALSE /\ unlocked' = unlocked \cup (Attached \ registered)
  BY DEF RestartPass, Restart
<1>2. Attached' = Attached
  BY <1>1 DEF Attached
<1>3. /\ unlocked' \in SUBSET Attached /\ Attached \subseteq registered \cup unlocked'
      /\ unlocked \in SUBSET unlocked' /\ unlocked' \in SUBSET Instance
  BY <1>1 DEF OverInv, Attached
<1>4. /\ Cardinality(unlocked') \in Nat /\ Cardinality(unlocked) <= Cardinality(unlocked')
      /\ Cardinality(unlocked) \in Nat
  BY <1>3, InstancePart
<1>5. desired <= Need + Cardinality(unlocked')
  BY <1>4, NeedAssumption DEF OverInv, OverProvisionIsBounded, FleetInv, FleetTypeOK
<1> QED  BY <1>1, <1>2, <1>3, <1>5 DEF OverInv, OverProvisionIsBounded

\* Steps that attach nothing, while the set of nodes may grow.
LEMMA OverFrame ==
    ASSUME OverInv, locked' = locked, registered \subseteq registered', registered' \subseteq Attached,
           UNCHANGED <<pc, desired, before, delta, left, sent, unlocked, Attached>>
    PROVE  OverInv'
<1>1. locked' \in BOOLEAN /\ (locked' <=> locked)
  BY Zenon DEF OverInv
<1>2. /\ registered' \subseteq Attached' /\ unlocked' \subseteq Attached'
      /\ desired' = Cardinality(Attached') /\ (left' \cup sent') \cap Attached' = {}
      /\ pc' # "sweep" => sent' = {}
  BY DEF OverInv
<1>3. /\ pc' = "idle" /\ ~locked' => Attached' \subseteq registered' \cup unlocked'
      /\ pc' \in {"wait", "attach", "sweep"} =>
           ~locked' /\ before' + delta' <= Need + Cardinality(unlocked')
      /\ OverProvisionIsBounded'
  BY <1>1 DEF OverInv, OverProvisionIsBounded
<1> QED  BY <1>1, <1>2, <1>3 DEF OverInv

\* Every step of the passes.
LEMMA PassStep ==
    ASSUME FleetInv, OverInv, [PassNext]_<<vars, passVars>>
    PROVE  FleetInv' /\ OverInv'
<1> SUFFICES OverInv'
  BY PassIsFleet, FleetStep
<1>1. CASE UNCHANGED <<vars, passVars>>
  <2>1. /\ UNCHANGED <<pc, desired, before, delta, left, sent, unlocked, Attached>>
        /\ locked' = locked /\ registered' = registered
    BY <1>1 DEF vars, passVars, Attached
  <2>2. registered \subseteq registered' /\ registered' \subseteq Attached
    BY <2>1 DEF OverInv
  <2> QED  BY <2>1, <2>2, OverFrame
<1>2. CASE CoolDownEnds
  <2>1. /\ pc = "idle" /\ Attached \subseteq registered /\ locked' = FALSE
        /\ UNCHANGED <<pc, desired, before, delta, left, sent, registered, unlocked, Attached>>
    BY <1>2 DEF CoolDownEnds, vars, Attached
  <2>2. /\ registered' \subseteq Attached' /\ unlocked' \subseteq Attached'
        /\ desired' = Cardinality(Attached') /\ (left' \cup sent') \cap Attached' = {}
        /\ sent' = {} /\ OverProvisionIsBounded'
    BY <2>1 DEF OverInv, OverProvisionIsBounded
  <2> QED  BY <2>1, <2>2 DEF OverInv
<1>3. ASSUME NEW i \in Instance, Register(i) PROVE OverInv'
  <2>1. /\ registered' = registered \cup {i} /\ i \in Attached
        /\ UNCHANGED <<pc, desired, before, delta, left, sent, unlocked, Attached>>
        /\ locked' = locked
    BY <1>3 DEF Register, vars, Attached
  <2> QED  BY <2>1, OverFrame DEF OverInv
<1>4. CASE World
  <2>1. /\ UNCHANGED <<pc, desired, before, delta, left, sent, unlocked>>
        /\ locked' = locked /\ registered' = registered
    BY <1>4 DEF World, Rebuild, Boot, Reclaim, passVars
  <2>2. Attached' = Attached
    <3>1. CASE Rebuild
      BY <3>1 DEF Rebuild, Attached
    <3>2. ASSUME NEW i \in Instance, Boot(i) \/ Reclaim(i) PROVE Attached' = Attached
      BY <3>2 DEF Boot, Reclaim, Attached, FleetInv, FleetTypeOK
    <3> QED  BY <1>4, <3>1, <3>2 DEF World
  <2>3. registered \subseteq registered' /\ registered' \subseteq Attached
    BY <2>1 DEF OverInv
  <2> QED  BY <2>1, <2>2, <2>3, OverFrame
<1> QED  BY <1>1, <1>2, <1>3, <1>4, ScaleUpOver, IncreaseOver, RestartOver DEF PassNext

\* What holds when the group is empty and no lock is held.
LEMMA PassStart == PassInit => FleetInv /\ OverInv
<1> SUFFICES ASSUME PassInit PROVE OverInv
  BY FleetStart DEF PassInit
<1>1. Attached = {} /\ Cardinality({}) = 0
  BY FS_EmptySet DEF PassInit, Init, Attached
<1>2. desired <= Need + Cardinality(unlocked)
  BY <1>1, NeedAssumption DEF PassInit, Init
<1> QED  BY <1>1, <1>2 DEF PassInit, Init, OverInv, OverProvisionIsBounded

\* The same under the passes of the controller, with the lock and its loss: types, no
\* forgotten instance, and a result that tells the truth about the size.
THEOREM PassesAreExact == PassSpec => [](PassTypeOK /\ NoOrphans /\ IncreaseIsExact)
<1>1. FleetInv /\ OverInv => PassTypeOK /\ NoOrphans /\ IncreaseIsExact
  BY DEF FleetInv, OverInv, PassTypeOK, ExactInv, OrphanInv, NoOrphans
<1> QED  BY <1>1, PassStart, PassStep, PTL DEF PassSpec

\* A group of any size never grows past its need by more than the instances that no lock
\* was held for: those attached by an IncreaseSize that failed, or before a restart.
THEOREM LockBoundsOverProvision == PassSpec => []OverProvisionIsBounded
<1>1. OverInv => OverProvisionIsBounded
  BY DEF OverInv
<1> QED  BY <1>1, PassStart, PassStep, PTL DEF PassSpec
================================================================================
