----------------------------- MODULE ScalingProofs -----------------------------
(***************************************************************************)
(* Proofs about ScalingLoop: for validated thresholds, removal rates,      *)
(* requests, node sizes and group sizes of any magnitude, a scale up adds  *)
(* enough nodes and hardly more, and the next decision does not undo the   *)
(* last one.                                                               *)
(***************************************************************************)
EXTENDS ScalingLoop, UtilisationProofs

(***************************************************************************)
(* The loop.  Its invariant remembers why the last decision was taken:     *)
(* after a scale up one node less would fill the group up to the scale up  *)
(* threshold, before a scale down the usage was below the upper taint      *)
(* threshold.                                                              *)
(***************************************************************************)

WasNeeded == last > 0 => \E r \in Resources : Fills(request, capacity, count - 1, r)

WasIdle ==
    last < 0 => \A r \in Resources :
                  100 * request[r] < TaintUpper * ((count - last) * capacity[r])

ScalingInv ==
    /\ SizesOK(request, capacity) /\ count \in Nat /\ known \in BOOLEAN /\ last \in Int
    /\ WasNeeded /\ WasIdle

\* The usage of the loop's group.
LEMMA UsageIs ==
    ASSUME NEW n
    PROVE  Usage(n) = UsageOf(request, capacity, n)
BY DEF Usage, UsageOf

\* What one round of scaleNodeGroup does to the group.
LEMMA DecideStep ==
    ASSUME ScalingInv, Decide
    PROVE  /\ request' = request /\ capacity' = capacity
           /\ count' \in Nat /\ last' \in Int
           /\ last' >= 0 => count' = count + last'
           /\ last' < 0 => count' - last' >= count
           /\ Above(Usage(count), ScaleUpThreshold) => last' > 0
           /\ last' > 0 => /\ Above(Usage(count), ScaleUpThreshold)
                           /\ known' => \A r \in Resources : Covers(request, capacity, count', r)
                           /\ \E r \in Resources : Fills(request, capacity, count' - 1, r)
           /\ last' < 0 => Below(Usage(count), TaintUpper)
<1> DEFINE cached == IF known' THEN capacity ELSE Zero
<1>1. SizesOK(request, capacity) /\ count \in Nat
  BY DEF ScalingInv
<1>2. PICK d \in ThresholdDelta(count, Usage(count), request, cached) :
         last' = d /\ count' = Max({0, count + d})
  BY DEF Decide
<1>3. request' = request /\ capacity' = capacity
  BY DEF Decide
<1>4. cached \in {capacity, Zero} /\ (known' => cached = capacity)
  OBVIOUS
<1> HIDE DEF cached
<1>5. /\ d \in Int
      /\ Above(Usage(count), ScaleUpThreshold) => d > 0
      /\ d > 0 => /\ Above(Usage(count), ScaleUpThreshold)
                  /\ known' => \A r \in Resources : Covers(request, capacity, count + d, r)
                  /\ \E r \in Resources : Fills(request, capacity, count + d - 1, r)
      /\ d < 0 => Below(Usage(count), TaintUpper)
  <2>1. d \in ThresholdDelta(count, UsageOf(request, capacity, count), request, cached)
    BY <1>2, UsageIs
  <2> QED  BY <1>1, <1>4, <2>1, Decision, UsageIs
<1>6. /\ count' \in Nat
      /\ d >= 0 => count' = count + d
      /\ d < 0 => count' - d >= count
  <2>1. count + d \in Int /\ 0 \in Int
    BY <1>1, <1>5
  <2>2. count' \in {0, count + d} /\ count' >= 0 /\ count' >= count + d
    BY <1>2, <2>1, MaxOfTwo
  <2>3. CASE count' = 0
    BY <1>1, <1>5, <2>2, <2>3
  <2>4. CASE count' = count + d
    BY <1>1, <1>5, <2>2, <2>4
  <2> QED  BY <2>2, <2>3, <2>4
<1>7. d > 0 => /\ known' => \A r \in Resources : Covers(request, capacity, count', r)
               /\ \E r \in Resources : Fills(request, capacity, count' - 1, r)
  <2>1. SUFFICES ASSUME d > 0
                 PROVE  /\ known' => \A r \in Resources : Covers(request, capacity, count', r)
                        /\ \E r \in Resources : Fills(request, capacity, count' - 1, r)
    OBVIOUS
  <2>2. count' = count + d
    BY <1>5, <1>6, <2>1
  <2>3. \E r \in Resources : Fills(request, capacity, count' - 1, r)
    <3>1. PICK r \in Resources : Fills(request, capacity, count + d - 1, r)
      BY <1>5, <2>1
    <3>2. count' - 1 = count + d - 1
      BY <1>1, <1>5, <1>6, <2>2
    <3> QED  BY <3>1, <3>2, Zenon
  <2>4. ASSUME known' PROVE \A r \in Resources : Covers(request, capacity, count', r)
    BY <1>5, <2>1, <2>2, <2>4
  <2> QED  BY <2>3, <2>4
<1>8. last' = d
  BY <1>2
<1> QED  BY <1>3, <1>5, <1>6, <1>7, <1>8

\* The invariant holds of every reachable state.
LEMMA ScalingInvariant == Spec => []ScalingInv
<1>1. Init => ScalingInv
  <2> SUFFICES ASSUME Init PROVE ScalingInv
    OBVIOUS
  <2>1. SizesOK(request, capacity)
    BY LoopAssumption DEF Init, SizesOK
  <2>2. count \in Nat /\ known \in BOOLEAN /\ last = 0
    BY LoopAssumption DEF Init
  <2> QED  BY <2>1, <2>2 DEF ScalingInv, WasNeeded, WasIdle
<1>2. ScalingInv /\ [Decide]_vars => ScalingInv'
  <2> SUFFICES ASSUME ScalingInv, [Decide]_vars PROVE ScalingInv'
    OBVIOUS
  <2>1. CASE UNCHANGED vars
    BY <2>1 DEF ScalingInv, WasNeeded, WasIdle, SizesOK, Fills, vars
  <2>2. CASE Decide
    <3>1. SizesOK(request, capacity)' /\ count' \in Nat /\ last' \in Int
      BY <2>2, DecideStep DEF ScalingInv, SizesOK
    <3>2. known' \in BOOLEAN
      BY <2>2, Zenon DEF Decide
    <3>3. WasNeeded'
      BY <2>2, DecideStep DEF WasNeeded, Fills
    <3>4. WasIdle'
      <4> SUFFICES ASSUME last' < 0, NEW r \in Resources
                   PROVE  100 * request[r] < TaintUpper * ((count' - last') * capacity[r])
        BY <2>2, DecideStep DEF WasIdle
      <4>1. /\ Below(Usage(count), TaintUpper) /\ count' - last' >= count
            /\ count \in Nat /\ count' \in Nat /\ last' \in Int
        BY <2>2, DecideStep DEF ScalingInv
      <4>2. request[r] \in Nat /\ capacity[r] \in Nat \ {0} /\ SizesOK(request, capacity)
        BY DEF ScalingInv, SizesOK
      <4> DEFINE k == count' - last'
      <4>3. k \in Nat \ {0} /\ count <= k
        <5>1. \A a \in Nat, b \in Int : b < 0 => a - b \in Nat \ {0}
          OBVIOUS
        <5>2. k \in Nat \ {0}
          BY <4>1, <5>1
        <5> QED  BY <4>1, <5>2
      <4> HIDE DEF k
      <4>4. CASE count = 0
        <5>1. request = Zero
          BY <4>1, <4>2, <4>4, UsageOfNone, UsageIs, Thresholds
        <5>2. request[r] = 0
          BY <5>1 DEF Zero, Resources
        <5>3. k * capacity[r] \in Nat \ {0}
          BY <4>2, <4>3
        <5>4. TaintUpper * (k * capacity[r]) > 0
          BY <5>3, Thresholds
        <5> QED  BY <5>2, <5>4 DEF k
      <4>5. CASE count # 0
        <5>1. 100 * request[r] < TaintUpper * (count * capacity[r])
          BY <4>1, <4>2, <4>5, UsageCompared, UsageIs, Thresholds
        <5>2. capacity[r] * count <= capacity[r] * k
          BY <4>1, <4>2, <4>3, Monotonic
        <5>3. TaintUpper * (capacity[r] * count) <= TaintUpper * (capacity[r] * k)
          BY <4>1, <4>2, <4>3, <5>2, Monotonic, Thresholds
        <5>4. capacity[r] * count = count * capacity[r] /\ capacity[r] * k = k * capacity[r]
          BY <4>1, <4>2, <4>3
        <5>5. {TaintUpper * (count * capacity[r]), TaintUpper * (k * capacity[r])} \subseteq Int
          BY <4>1, <4>2, <4>3, Thresholds
        <5> QED  BY <4>2, <5>1, <5>3, <5>4, <5>5 DEF k
      <4> QED  BY <4>4, <4>5
    <3> QED  BY <3>1, <3>2, <3>3, <3>4 DEF ScalingInv
  <2> QED  BY <2>1, <2>2
<1> QED  BY <1>1, <1>2, PTL DEF Spec

(***************************************************************************)
(* Theorems.                                                               *)
(***************************************************************************)

\* The group never has less than no nodes, and every decision is a whole number.
THEOREM LoopTypeCorrect == Spec => []LoopTypeOK
<1>1. ScalingInv => LoopTypeOK
  BY DEF ScalingInv, LoopTypeOK, SizesOK
<1> QED  BY <1>1, ScalingInvariant, PTL

\* calcScaleUpDelta adds enough, whatever the thresholds, the requests, the size of a node
\* and the rounding of float64: the usage after a scale up is not above the threshold.
THEOREM ScaleUpIsEnough == Spec => ScaleUpSuffices
<1>1. ScalingInv /\ [Decide]_vars =>
        [last' > 0 /\ known' => ~Above(Usage(count'), ScaleUpThreshold)]_vars
  <2> SUFFICES ASSUME ScalingInv, Decide, last' > 0, known'
               PROVE  ~Above(Usage(count'), ScaleUpThreshold)
    OBVIOUS
  <2>1. \A r \in Resources : Covers(request, capacity, count', r)
    BY DecideStep
  <2>2. count' \in Nat \ {0} /\ SizesOK(request, capacity)
    BY DecideStep DEF ScalingInv
  <2>3. \A r \in Resources : 100 * request[r] <= ScaleUpThreshold * (count' * capacity[r])
    BY <2>1 DEF Covers
  <2>4. \A r \in Resources :
          {100 * request[r], ScaleUpThreshold * (count' * capacity[r])} \subseteq Int
    BY <2>2, Thresholds DEF SizesOK
  <2>5. Above(Usage(count'), ScaleUpThreshold) <=>
          \E r \in Resources : 100 * request[r] > ScaleUpThreshold * (count' * capacity[r])
    BY <2>2, UsageCompared, UsageIs, Thresholds
  <2> QED  BY <2>3, <2>4, <2>5
<1> QED  BY <1>1, ScalingInvariant, PTL DEF Spec, ScaleUpSuffices

\* It adds no more than it must: with two nodes less, one of which float64 rounding may
\* account for, the usage would be above the threshold.
THEOREM ScaleUpHasNoExcess == Spec => ScaleUpIsTight
<1>1. ScalingInv /\ [Decide]_vars =>
        [last' > 1 => Above(Usage(count' - 2), ScaleUpThreshold)]_vars
  <2> SUFFICES ASSUME ScalingInv, Decide, last' > 1
               PROVE  Above(Usage(count' - 2), ScaleUpThreshold)
    OBVIOUS
  <2> DEFINE k == count' - 2
  <2>1. /\ count \in Nat /\ last' \in Int /\ last' > 1 /\ count' = count + last'
        /\ SizesOK(request, capacity)
    BY DecideStep DEF ScalingInv
  <2>2. k \in Nat /\ count' - 1 = k + 1
    <3>1. \A c \in Nat : c >= 2 => c - 2 \in Nat /\ c - 1 = c - 2 + 1
      OBVIOUS
    <3>2. count' \in Nat
      BY DecideStep
    <3>3. count' >= 2
      <4>1. \A a \in Nat, b \in Int, c \in Nat : b > 1 /\ c = a + b => c >= 2
        OBVIOUS
      <4> QED  BY <2>1, <3>2, <4>1
    <3> QED  BY <3>1, <3>2, <3>3
  <2>3. PICK r \in Resources : Fills(request, capacity, count' - 1, r)
    BY <2>1, DecideStep
  <2> HIDE DEF k
  <2>4. request[r] \in Nat /\ capacity[r] \in Nat \ {0}
    BY <2>1 DEF SizesOK
  <2>5. 100 * request[r] >= ScaleUpThreshold * ((k + 1) * capacity[r])
    BY <2>2, <2>3 DEF Fills
  <2>6. ScaleUpThreshold * ((k + 1) * capacity[r]) > ScaleUpThreshold * (k * capacity[r])
    <3>1. /\ (k + 1) * capacity[r] \in Int /\ k * capacity[r] \in Int
          /\ (k + 1) * capacity[r] > k * capacity[r]
      BY <2>2, <2>4
    <3> QED  BY <3>1, Cancel, Thresholds
  <2>7. /\ ScaleUpThreshold * ((k + 1) * capacity[r]) \in Int
        /\ ScaleUpThreshold * (k * capacity[r]) \in Int
    BY <2>2, <2>4, Thresholds
  <2>8. 100 * request[r] > ScaleUpThreshold * (k * capacity[r])
    BY <2>4, <2>5, <2>6, <2>7
  <2>9. CASE k # 0
    BY <2>1, <2>2, <2>8, <2>9, UsageCompared, UsageIs, Thresholds DEF k
  <2>10. CASE k = 0
    <3>1. 0 * capacity[r] = 0 /\ ScaleUpThreshold * 0 = 0
      BY <2>4, Thresholds
    <3>2. 100 * request[r] > 0
      BY <2>8, <2>10, <3>1
    <3>3. request # Zero
      BY <3>2 DEF Zero, Resources
    <3> QED  BY <2>1, <2>10, <3>3, UsageOfNone, UsageIs, Thresholds DEF k
  <2> QED  BY <2>9, <2>10
<1> QED  BY <1>1, ScalingInvariant, PTL DEF Spec, ScaleUpIsTight

\* The next pass does not undo a scale up in a group so large that one node matters less
\* than the gap between the thresholds, nor a scale down that leaves enough nodes for a
\* usage at the upper taint threshold.
THEOREM DecisionsDoNotFlap == Spec => NoFlapping
<1>1. ASSUME ScalingInv, Decide, last > 0,
             count * (ScaleUpThreshold - TaintUpper) >= ScaleUpThreshold
      PROVE  last' >= 0
  <2> DEFINE t == ScaleUpThreshold
             u == TaintUpper
  <2>1. SizesOK(request, capacity) /\ count \in Nat /\ t \in Nat \ {0} /\ u \in Nat \ {0}
    BY <1>1, Thresholds DEF ScalingInv
  <2>2. PICK r \in Resources : Fills(request, capacity, count - 1, r)
    BY <1>1 DEF ScalingInv, WasNeeded
  <2>3. request[r] \in Nat /\ capacity[r] \in Nat \ {0}
    BY <2>1 DEF SizesOK
  <2>4. 100 * request[r] >= t * ((count - 1) * capacity[r])
    BY <2>2 DEF Fills
  <2>5. count * (t - u) >= t
    BY <1>1
  <2> HIDE DEF t, u
  <2>6. count # 0
    BY <2>1, <2>5
  <2>7. u * count <= t * (count - 1)
    <3>1. count * (t - u) = t * count - u * count /\ t * (count - 1) = t * count - t
      BY <2>1
    <3>2. t * count \in Int /\ u * count \in Int
      BY <2>1
    <3> QED  BY <2>1, <2>5, <3>1, <3>2
  <2>8. u * (count * capacity[r]) <= t * ((count - 1) * capacity[r])
    <3>1. u * count \in Int /\ t * (count - 1) \in Int
      BY <2>1
    <3>2. capacity[r] * (u * count) <= capacity[r] * (t * (count - 1))
      BY <2>3, <2>7, <3>1, Monotonic
    <3>3. /\ u * (count * capacity[r]) = capacity[r] * (u * count)
          /\ t * ((count - 1) * capacity[r]) = capacity[r] * (t * (count - 1))
      BY <2>1, <2>3
    <3> QED  BY <3>2, <3>3
  <2>9. /\ u * (count * capacity[r]) \in Int /\ t * ((count - 1) * capacity[r]) \in Int
        /\ 100 * request[r] \in Int
    BY <2>1, <2>3
  <2>10. ~(100 * request[r] < u * (count * capacity[r]))
    BY <2>4, <2>8, <2>9
  <2>11. ~Below(Usage(count), u)
    BY <2>1, <2>6, <2>10, UsageCompared, UsageIs
  <2> QED  BY <1>1, <2>11, DecideStep DEF u
<1>2. ASSUME ScalingInv, Decide, last < 0,
             count * ScaleUpThreshold >= (count - last) * TaintUpper
      PROVE  last' <= 0
  <2> DEFINE t == ScaleUpThreshold
             u == TaintUpper
             k == count - last
  <2>1. SizesOK(request, capacity) /\ count \in Nat /\ t \in Nat \ {0} /\ u \in Nat \ {0}
    BY <1>2, Thresholds DEF ScalingInv
  <2>2. k \in Nat \ {0}
    <3>1. last \in Int /\ last < 0 /\ count \in Nat
      BY <1>2 DEF ScalingInv
    <3> QED  BY <3>1
  <2>3. \A r \in Resources : 100 * request[r] < u * (k * capacity[r])
    BY <1>2 DEF ScalingInv, WasIdle
  <2>4. count * t >= k * u
    BY <1>2
  <2> HIDE DEF t, u, k
  <2>5. count # 0
    <3>1. k * u \in Nat \ {0} /\ 0 * t = 0
      BY <2>1, <2>2
    <3> QED  BY <2>4, <3>1
  <2>6. ASSUME NEW r \in Resources PROVE ~(100 * request[r] > t * (count * capacity[r]))
    <3>1. request[r] \in Nat /\ capacity[r] \in Nat \ {0}
      BY <2>1 DEF SizesOK
    <3>2. k * u \in Int /\ count * t \in Int
      BY <2>1, <2>2
    <3>3. capacity[r] * (k * u) <= capacity[r] * (count * t)
      BY <2>4, <3>1, <3>2, Monotonic
    <3>4. /\ capacity[r] * (k * u) = u * (k * capacity[r])
          /\ capacity[r] * (count * t) = t * (count * capacity[r])
      BY <2>1, <2>2, <3>1
    <3>5. u * (k * capacity[r]) \in Int /\ t * (count * capacity[r]) \in Int
      BY <2>1, <2>2, <3>1
    <3> QED  BY <2>3, <3>1, <3>3, <3>4, <3>5
  <2>7. ~Above(Usage(count), t)
    BY <2>1, <2>5, <2>6, UsageCompared, UsageIs
  <2>8. last' \in Int
    BY <1>2, DecideStep
  <2> QED  BY <1>2, <2>7, <2>8, DecideStep DEF t
<1>3. ScalingInv /\ [Decide]_vars =>
        [/\ last > 0 /\ count * (ScaleUpThreshold - TaintUpper) >= ScaleUpThreshold
              => last' >= 0
         /\ last < 0 /\ count * ScaleUpThreshold >= (count - last) * TaintUpper
              => last' <= 0]_vars
  BY <1>1, <1>2
<1> QED  BY <1>3, ScalingInvariant, PTL DEF Spec, NoFlapping
================================================================================
