--------------------------- MODULE UtilisationProofs ---------------------------
(***************************************************************************)
(* Facts about the arithmetic of a decision, for validated thresholds and  *)
(* removal rates, and requests, node sizes and group sizes of any          *)
(* magnitude.  The proofs of the scaling loop and of the node group rest   *)
(* on them.                                                                *)
(***************************************************************************)
EXTENDS Utilisation, TLAPS

(***************************************************************************)
(* Arithmetic.                                                             *)
(***************************************************************************)

\* Products of integers are monotonic.
LEMMA Monotonic ==
    ASSUME NEW n \in Nat, NEW x \in Int, NEW y \in Int, x <= y
    PROVE  n * x <= n * y
OBVIOUS

\* A positive factor cancels.
LEMMA Cancel ==
    ASSUME NEW n \in Nat \ {0}, NEW x \in Int, NEW y \in Int
    PROVE  n * x <= n * y <=> x <= y
OBVIOUS

\* The larger of two integers.
LEMMA MaxOfTwo ==
    ASSUME NEW a \in Int, NEW b \in Int
    PROVE  Max({a, b}) \in {a, b} /\ Max({a, b}) \in Int /\ Max({a, b}) >= a /\ Max({a, b}) >= b
<1>1. \E x \in {a, b} : \A y \in {a, b} : x >= y
  <2>1. CASE a >= b  BY <2>1
  <2>2. CASE b >= a  BY <2>2
  <2> QED  BY <2>1, <2>2
<1> QED  BY <1>1 DEF Max

\* The smaller of two integers.
LEMMA MinOfTwo ==
    ASSUME NEW a \in Int, NEW b \in Int
    PROVE  Min({a, b}) \in Int /\ Min({a, b}) <= a /\ Min({a, b}) <= b
<1>1. \E x \in {a, b} : \A y \in {a, b} : x =< y
  <2>1. CASE a =< b  BY <2>1
  <2>2. CASE b =< a  BY <2>2
  <2> QED  BY <2>1, <2>2
<1> QED  BY <1>1 DEF Min

\* What rounding up gives: enough, and one less is not too much.
LEMMA RoundedUp ==
    ASSUME NEW a \in Int, NEW b \in Int, b > 0, NEW d \in FloatCeilDiv(a, b)
    PROVE  d \in Int /\ a <= b * d /\ b * (d - 1) <= a
<1> DEFINE q == (-a) \div b
           m == (-a) % b
<1>1. q \in Int /\ -a = b * q + m /\ m \in 0 .. (b - 1)
  OBVIOUS
<1>2. CASE d = CeilDiv(a, b)
  <2>1. d = -q
    BY <1>2 DEF CeilDiv
  <2> HIDE DEF q, m
  <2>2. b * d = -(b * q) /\ b * (d - 1) = -(b * q) - b
    BY <1>1, <2>1
  <2> QED  BY <1>1, <2>1, <2>2
<1>3. CASE a % b = 0 /\ d = (a \div b) + 1
  <2> DEFINE p == a \div b
  <2>1. p \in Int /\ a = b * p + (a % b)
    OBVIOUS
  <2> HIDE DEF p
  <2>2. b * d = b * p + b /\ b * (d - 1) = b * p
    BY <1>3, <2>1 DEF p
  <2> QED  BY <1>3, <2>1, <2>2 DEF p
<1> QED  BY <1>2, <1>3 DEF FloatCeilDiv

\* The larger of two needs covers both and is one of them.
LEMMA LargerNeed ==
    ASSUME NEW S \in SUBSET Int, NEW T \in SUBSET Int, NEW d \in Larger(S, T)
    PROVE  \E s \in S, t \in T : d >= s /\ d >= t /\ d \in {s, t}
<1>1. PICK need \in S \X T : d = Max({need[1], need[2]})
  BY DEF Larger
<1>2. need[1] \in S /\ need[2] \in T /\ need[1] \in Int /\ need[2] \in Int
  OBVIOUS
<1>3. d \in {need[1], need[2]} /\ d >= need[1] /\ d >= need[2]
  BY <1>1, <1>2, MaxOfTwo
<1> QED  BY <1>2, <1>3

(***************************************************************************)
(* The usage of a group of n equal nodes.                                  *)
(***************************************************************************)

\* Requests are natural numbers, and a node offers something of every resource.
SizesOK(req, cap) ==
    /\ req \in [Resources -> Nat]
    /\ cap \in [Resources -> Nat \ {0}]

\* The usage when req is requested of n nodes of capacity cap.
UsageOf(req, cap, n) == CalcPercentUsage(req, NodesCapacity(n, cap), n)

\* A group without nodes has no usage or an infinite one.
LEMMA UsageOfNone ==
    ASSUME NEW req, NEW cap, SizesOK(req, cap), NEW t \in Nat \ {0}
    PROVE  /\ UsageOf(req, cap, 0) = IF req = Zero THEN NoUsage ELSE Infinite
           /\ Above(UsageOf(req, cap, 0), t) <=> req # Zero
           /\ Below(UsageOf(req, cap, 0), t) <=> req = Zero
<1>1. cap["cpu"] \in Nat \ {0} /\ cap["mem"] \in Nat \ {0}
  BY DEF SizesOK, Resources
<1>2. NodesCapacity(0, cap) = Zero
  BY <1>1 DEF NodesCapacity, Zero
<1>3. UsageOf(req, cap, 0) = IF req = Zero THEN NoUsage ELSE Infinite
  BY <1>2 DEF UsageOf, CalcPercentUsage, Zero
<1>4. ~Above(NoUsage, t) /\ Below(NoUsage, t)
  BY DEF Above, Below, NoUsage, Resources
<1>5. Above(Infinite, t) /\ ~Below(Infinite, t)
  BY DEF Above, Below, Infinite, Resources
<1> QED  BY <1>3, <1>4, <1>5

\* The usage of a group with nodes is the quotient of the sums.
LEMMA UsageOfSome ==
    ASSUME NEW req, NEW cap, SizesOK(req, cap), NEW n \in Nat \ {0}
    PROVE  /\ \A r \in Resources : /\ UsageOf(req, cap, n)[r].num = 100 * req[r]
                                   /\ UsageOf(req, cap, n)[r].den = n * cap[r]
           /\ UsageOf(req, cap, n) # Infinite
<1>1. /\ cap["cpu"] \in Nat \ {0} /\ cap["mem"] \in Nat \ {0}
      /\ req["cpu"] \in Nat /\ req["mem"] \in Nat
  BY DEF SizesOK, Resources
<1>2. n * cap["cpu"] \in Nat \ {0} /\ n * cap["mem"] \in Nat \ {0}
  BY <1>1
<1> DEFINE all == NodesCapacity(n, cap)
<1>3. all.cpu = n * cap["cpu"] /\ all.mem = n * cap["mem"]
  BY DEF NodesCapacity
<1>4. \A r \in Resources : all[r] = n * cap[r]
  BY <1>3 DEF Resources
<1> HIDE DEF all
<1>5. UsageOf(req, cap, n) = [r \in Resources |-> [num |-> 100 * req[r], den |-> all[r]]]
  BY <1>2, <1>3 DEF UsageOf, CalcPercentUsage, all
<1>6. UsageOf(req, cap, n)["cpu"].den = n * cap["cpu"] /\ Infinite["cpu"].den = 0
  BY <1>4, <1>5 DEF Resources, Infinite
<1> QED  BY <1>2, <1>4, <1>5, <1>6

\* Both comparisons of a usage with a threshold, without the division.
LEMMA UsageCompared ==
    ASSUME NEW req, NEW cap, SizesOK(req, cap), NEW n \in Nat \ {0}, NEW t \in Nat
    PROVE  /\ Above(UsageOf(req, cap, n), t) <=>
                \E r \in Resources : 100 * req[r] > t * (n * cap[r])
           /\ Below(UsageOf(req, cap, n), t) <=>
                \A r \in Resources : 100 * req[r] < t * (n * cap[r])
BY UsageOfSome DEF Above, Below

(***************************************************************************)
(* What calcScaleUpDelta computes.                                         *)
(***************************************************************************)

\* With total nodes a request of a resource is within the threshold.
Covers(req, cap, total, r) == 100 * req[r] <= ScaleUpThreshold * (total * cap[r])

\* With total nodes a request of a resource takes the threshold or more.
Fills(req, cap, total, r) == 100 * req[r] >= ScaleUpThreshold * (total * cap[r])

\* The thresholds are positive and ordered.
LEMMA Thresholds ==
    /\ ScaleUpThreshold \in Nat \ {0} /\ TaintUpper \in Nat \ {0} /\ TaintLower \in Nat \ {0}
    /\ TaintLower < TaintUpper /\ TaintUpper < ScaleUpThreshold
    /\ SlowRemovalRate \in Nat /\ FastRemovalRate \in Nat
BY ThresholdsAssumption DEF ValidateThresholds

\* More nodes cover what fewer cover, and fewer fill up where more do.
LEMMA CoversMore ==
    ASSUME NEW req, NEW cap, SizesOK(req, cap), NEW r \in Resources,
           NEW m \in Int, NEW n \in Int, m <= n
    PROVE  Covers(req, cap, m, r) => Covers(req, cap, n, r)
<1>1. cap[r] \in Nat /\ req[r] \in Nat
  BY DEF SizesOK
<1>2. cap[r] * m <= cap[r] * n
  BY <1>1, Monotonic
<1>3. ScaleUpThreshold * (cap[r] * m) <= ScaleUpThreshold * (cap[r] * n)
  BY <1>1, <1>2, Monotonic, Thresholds
<1>4. cap[r] * m = m * cap[r] /\ cap[r] * n = n * cap[r]
  BY <1>1
<1> QED  BY <1>1, <1>3, <1>4, Thresholds DEF Covers

\* The nodes a group of none needs for one resource.
LEMMA FromZeroNeed ==
    ASSUME NEW req, NEW cap, SizesOK(req, cap), NEW r \in Resources,
           NEW d \in FloatCeilDiv(100 * req[r], cap[r] * ScaleUpThreshold)
    PROVE  d \in Int /\ Covers(req, cap, d, r) /\ Fills(req, cap, d - 1, r)
<1> DEFINE c == cap[r]
           t == ScaleUpThreshold
<1>1. c \in Nat \ {0} /\ t \in Nat \ {0} /\ req[r] \in Nat
  BY Thresholds DEF SizesOK
<1>2. c * t \in Int /\ c * t > 0 /\ 100 * req[r] \in Int
  BY <1>1
<1>3. /\ d \in Int /\ 100 * req[r] <= (c * t) * d
      /\ (c * t) * (d - 1) <= 100 * req[r]
  BY <1>2, RoundedUp
<1> HIDE DEF c, t
<1>4. (c * t) * d = t * (d * c) /\ (c * t) * (d - 1) = t * ((d - 1) * c)
  BY <1>1, <1>3
<1> QED  BY <1>3, <1>4 DEF Covers, Fills, c, t

\* The nodes a group of n needs on top for one resource.
LEMMA ExtraNeed ==
    ASSUME NEW req, NEW cap, SizesOK(req, cap), NEW r \in Resources, NEW n \in Nat \ {0},
           NEW whole, whole = ScaleUpThreshold * (n * cap[r]),
           NEW d \in FloatCeilDiv(n * (100 * req[r] - whole), whole)
    PROVE  d \in Int /\ Covers(req, cap, n + d, r) /\ Fills(req, cap, n + d - 1, r)
<1> DEFINE c == cap[r]
           t == ScaleUpThreshold
           q == 100 * req[r]
<1>1. c \in Nat \ {0} /\ t \in Nat \ {0} /\ q \in Nat
  BY Thresholds DEF SizesOK
<1> HIDE DEF c, t, q
<1>2. n * c \in Nat \ {0}
  BY <1>1
<1>3. whole = t * (n * c) /\ whole \in Int /\ whole > 0
  BY <1>1, <1>2 DEF c, t
<1>4. n * (q - whole) \in Int
  BY <1>1, <1>3
<1>5. d \in Int /\ n * (q - whole) <= whole * d /\ whole * (d - 1) <= n * (q - whole)
  BY <1>3, <1>4, RoundedUp DEF q
<1>6. whole * d = n * (t * (d * c)) /\ whole * (d - 1) = n * (t * ((d - 1) * c))
  BY <1>1, <1>3, <1>5
<1>7. t * (d * c) \in Int /\ t * ((d - 1) * c) \in Int /\ q - whole \in Int
  BY <1>1, <1>3, <1>5
<1>8. q - whole <= t * (d * c) /\ t * ((d - 1) * c) <= q - whole
  BY <1>5, <1>6, <1>7, Cancel
<1>9. /\ t * ((n + d) * c) = whole + t * (d * c)
      /\ t * ((n + d - 1) * c) = whole + t * ((d - 1) * c)
  BY <1>1, <1>3, <1>5
<1> QED  BY <1>1, <1>3, <1>5, <1>7, <1>8, <1>9 DEF Covers, Fills, c, t, q

\* The larger need covers every resource and fills one up but for a node.
LEMMA LargerCovers ==
    ASSUME NEW req, NEW cap, SizesOK(req, cap), NEW n \in Nat,
           NEW S \in SUBSET Int, NEW T \in SUBSET Int,
           \A s \in S : Covers(req, cap, n + s, "cpu") /\ Fills(req, cap, n + s - 1, "cpu"),
           \A t \in T : Covers(req, cap, n + t, "mem") /\ Fills(req, cap, n + t - 1, "mem"),
           NEW d \in Larger(S, T)
    PROVE  /\ d \in Int /\ \A r \in Resources : Covers(req, cap, n + d, r)
           /\ \E r \in Resources : Fills(req, cap, n + d - 1, r)
<1>1. PICK s \in S, t \in T : d >= s /\ d >= t /\ d \in {s, t}
  BY LargerNeed
<1>2. s \in Int /\ t \in Int /\ d \in Int
  BY <1>1
<1>3. n + s <= n + d /\ n + t <= n + d /\ {n + s, n + t, n + d} \subseteq Int
  BY <1>1, <1>2
<1>4. Covers(req, cap, n + d, "cpu")
  <2>1. Covers(req, cap, n + s, "cpu") /\ "cpu" \in Resources
    BY <1>1 DEF Resources
  <2> QED  BY <1>3, <2>1, CoversMore
<1>5. Covers(req, cap, n + d, "mem")
  <2>1. Covers(req, cap, n + t, "mem") /\ "mem" \in Resources
    BY <1>1 DEF Resources
  <2> QED  BY <1>3, <2>1, CoversMore
<1>6. Fills(req, cap, n + d - 1, "cpu") \/ Fills(req, cap, n + d - 1, "mem")
  BY <1>1
<1> QED  BY <1>2, <1>4, <1>5, <1>6 DEF Resources

\* A scale up is by one node at least; if there is a node, or one was seen earlier, it adds
\* enough for every resource; and one node less would not be too much for some resource.
LEMMA ScaleUpDelta ==
    ASSUME NEW req, NEW cap, SizesOK(req, cap), NEW n \in Nat,
           Above(UsageOf(req, cap, n), ScaleUpThreshold), NEW cached \in {cap, Zero},
           NEW d \in CalcScaleUpDelta(n, UsageOf(req, cap, n), req, cached)
    PROVE  /\ d \in Int /\ d >= 1
           /\ n > 0 \/ cached = cap => \A r \in Resources : Covers(req, cap, n + d, r)
           /\ \E r \in Resources : Fills(req, cap, n + d - 1, r)
<1>1. /\ cap["cpu"] \in Nat \ {0} /\ cap["mem"] \in Nat \ {0}
      /\ req["cpu"] \in Nat /\ req["mem"] \in Nat
      /\ "cpu" \in Resources /\ "mem" \in Resources
  BY DEF SizesOK, Resources
<1>2. CASE cached = Zero /\ n = 0
  <2>1. n = 0 /\ cached # cap
    BY <1>1, <1>2 DEF Zero
  <2>2. UsageOf(req, cap, n) = Infinite
    BY <2>1, UsageOfNone, Thresholds
  <2>3. d = 1
    BY <1>2, <2>2 DEF CalcScaleUpDelta, Zero
  <2>4. Fills(req, cap, n + d - 1, "cpu")
    BY <1>1, <2>1, <2>3, Thresholds DEF Fills
  <2> QED  BY <1>1, <2>1, <2>3, <2>4
<1>3. CASE cached = cap /\ n = 0
  <2>1. UsageOf(req, cap, n) = Infinite /\ req # Zero
    BY <1>3, UsageOfNone, Thresholds
  <2> DEFINE need(r) == FloatCeilDiv(100 * req[r], cap[r] * ScaleUpThreshold)
  <2>2. d \in Larger(need("cpu"), need("mem"))
    BY <1>1, <1>3, <2>1 DEF CalcScaleUpDelta
  <2>3. \A r \in Resources : \A s \in need(r) :
           s \in Int /\ Covers(req, cap, s, r) /\ Fills(req, cap, s - 1, r)
    BY FromZeroNeed
  <2>4. \A r \in Resources : \A s \in need(r) : s \in Int /\ n + s = s
    BY <1>3, <2>3
  <2> HIDE DEF need
  <2>5. /\ need("cpu") \in SUBSET Int /\ need("mem") \in SUBSET Int
        /\ \A s \in need("cpu") :
             Covers(req, cap, n + s, "cpu") /\ Fills(req, cap, n + s - 1, "cpu")
        /\ \A s \in need("mem") :
             Covers(req, cap, n + s, "mem") /\ Fills(req, cap, n + s - 1, "mem")
    BY <1>1, <2>3, <2>4
  <2>6. /\ d \in Int /\ \A r \in Resources : Covers(req, cap, n + d, r)
        /\ \E r \in Resources : Fills(req, cap, n + d - 1, r)
    BY <2>2, <2>5, LargerCovers
  <2>7. d >= 1
    <3>1. SUFFICES ASSUME n + d <= 0 PROVE FALSE
      BY <1>3, <2>6
    <3>2. Covers(req, cap, 0, "cpu") /\ Covers(req, cap, 0, "mem")
      BY <1>1, <2>6, <3>1, CoversMore
    <3>3. req["cpu"] = 0 /\ req["mem"] = 0
      <4>1. \A r \in Resources : 0 * cap[r] = 0 /\ ScaleUpThreshold * 0 = 0
        BY Thresholds DEF SizesOK
      <4> QED  BY <1>1, <3>2, <4>1 DEF Covers
    <3>4. req = [r \in Resources |-> req[r]] /\ Zero = [r \in Resources |-> 0]
      BY DEF SizesOK, Zero, Resources
    <3> QED  BY <2>1, <3>3, <3>4 DEF Resources
  <2> QED  BY <2>6, <2>7
<1>4. CASE n # 0
  <2>1. UsageOf(req, cap, n) # Infinite
    BY <1>4, UsageOfSome
  <2> DEFINE whole(r) == ScaleUpThreshold * (n * cap[r])
             need(r) == FloatCeilDiv(n * (100 * req[r] - whole(r)), whole(r))
  <2>2. d \in Larger(need("cpu"), need("mem"))
    <3>1. /\ UsageOf(req, cap, n)["cpu"].num = 100 * req["cpu"]
          /\ UsageOf(req, cap, n)["cpu"].den = n * cap["cpu"]
          /\ UsageOf(req, cap, n)["mem"].num = 100 * req["mem"]
          /\ UsageOf(req, cap, n)["mem"].den = n * cap["mem"]
      BY <1>1, <1>4, UsageOfSome
    <3> QED  BY <2>1, <3>1 DEF CalcScaleUpDelta
  <2>3. \A r \in Resources : \A s \in need(r) :
           s \in Int /\ Covers(req, cap, n + s, r) /\ Fills(req, cap, n + s - 1, r)
    BY <1>4, ExtraNeed
  <2> HIDE DEF need
  <2>4. /\ need("cpu") \in SUBSET Int /\ need("mem") \in SUBSET Int
        /\ \A s \in need("cpu") :
             Covers(req, cap, n + s, "cpu") /\ Fills(req, cap, n + s - 1, "cpu")
        /\ \A s \in need("mem") :
             Covers(req, cap, n + s, "mem") /\ Fills(req, cap, n + s - 1, "mem")
    BY <1>1, <2>3
  <2>5. /\ d \in Int /\ \A r \in Resources : Covers(req, cap, n + d, r)
        /\ \E r \in Resources : Fills(req, cap, n + d - 1, r)
    BY <2>2, <2>4, LargerCovers
  <2>6. d >= 1
    <3>1. SUFFICES ASSUME n + d <= n PROVE FALSE
      BY <2>5
    <3>2. PICK r \in Resources : 100 * req[r] > ScaleUpThreshold * (n * cap[r])
      BY <1>4, UsageCompared, Thresholds
    <3>3. Covers(req, cap, n, r)
      BY <2>5, <3>1, CoversMore
    <3>4. req[r] \in Nat /\ cap[r] \in Nat
      BY DEF SizesOK
    <3> QED  BY <3>2, <3>3, <3>4, Thresholds DEF Covers
  <2> QED  BY <2>5, <2>6
<1> QED  BY <1>2, <1>3, <1>4

\* A decision is a whole number; it is positive for a usage above the scale up threshold and
\* then as ScaleUpDelta says, and negative only for one below the upper taint threshold.
LEMMA Decision ==
    ASSUME NEW req, NEW cap, SizesOK(req, cap), NEW n \in Nat, NEW cached \in {cap, Zero},
           NEW d \in ThresholdDelta(n, UsageOf(req, cap, n), req, cached)
    PROVE  /\ d \in Int
           /\ Above(UsageOf(req, cap, n), ScaleUpThreshold) => d > 0
           /\ d > 0 =>
                /\ Above(UsageOf(req, cap, n), ScaleUpThreshold)
                /\ n > 0 \/ cached = cap => \A r \in Resources : Covers(req, cap, n + d, r)
                /\ \E r \in Resources : Fills(req, cap, n + d - 1, r)
           /\ d < 0 => Below(UsageOf(req, cap, n), TaintUpper)
<1> DEFINE up == CalcScaleUpDelta(n, UsageOf(req, cap, n), req, cached)
<1>1. Above(UsageOf(req, cap, n), ScaleUpThreshold) /\ d \in up =>
        /\ d \in Int /\ d >= 1
        /\ n > 0 \/ cached = cap => \A r \in Resources : Covers(req, cap, n + d, r)
        /\ \E r \in Resources : Fills(req, cap, n + d - 1, r)
  BY ScaleUpDelta
<1> HIDE DEF up
<1>2. /\ Below(UsageOf(req, cap, n), TaintLower) => Below(UsageOf(req, cap, n), TaintUpper)
      /\ Below(UsageOf(req, cap, n), TaintUpper) => ~Above(UsageOf(req, cap, n), ScaleUpThreshold)
  <2>1. CASE n = 0
    BY <2>1, UsageOfNone, Thresholds
  <2>2. CASE n # 0
    <3>1. \A r \in Resources : req[r] \in Nat /\ n * cap[r] \in Nat
      BY DEF SizesOK
    <3>2. \A r \in Resources :
            /\ TaintLower * (n * cap[r]) <= TaintUpper * (n * cap[r])
            /\ TaintUpper * (n * cap[r]) <= ScaleUpThreshold * (n * cap[r])
      BY <3>1, Thresholds
    <3>3. \A r \in Resources :
            {TaintLower * (n * cap[r]), TaintUpper * (n * cap[r]),
             ScaleUpThreshold * (n * cap[r]), 100 * req[r]} \subseteq Int
      BY <3>1, Thresholds
    <3>4. /\ Below(UsageOf(req, cap, n), TaintLower) <=>
               \A r \in Resources : 100 * req[r] < TaintLower * (n * cap[r])
          /\ Below(UsageOf(req, cap, n), TaintUpper) <=>
               \A r \in Resources : 100 * req[r] < TaintUpper * (n * cap[r])
          /\ Above(UsageOf(req, cap, n), ScaleUpThreshold) <=>
               \E r \in Resources : 100 * req[r] > ScaleUpThreshold * (n * cap[r])
      BY <2>2, UsageCompared, Thresholds
    <3> QED  BY <3>2, <3>3, <3>4
  <2> QED  BY <2>1, <2>2
<1>3. CASE Below(UsageOf(req, cap, n), TaintLower)
  <2>1. d = -FastRemovalRate
    BY <1>2, <1>3 DEF ThresholdDelta
  <2> QED  BY <1>2, <1>3, <2>1, Thresholds
<1>4. CASE ~Below(UsageOf(req, cap, n), TaintLower) /\ Below(UsageOf(req, cap, n), TaintUpper)
  <2>1. d = -SlowRemovalRate
    BY <1>2, <1>4 DEF ThresholdDelta
  <2> QED  BY <1>2, <1>4, <2>1, Thresholds
<1>5. CASE ~Below(UsageOf(req, cap, n), TaintUpper) /\ Above(UsageOf(req, cap, n), ScaleUpThreshold)
  <2>1. d \in up
    BY <1>2, <1>5 DEF ThresholdDelta, up
  <2> QED  BY <1>1, <1>5, <2>1
<1>6. CASE /\ ~Below(UsageOf(req, cap, n), TaintUpper)
           /\ ~Above(UsageOf(req, cap, n), ScaleUpThreshold)
  <2>1. d = 0
    BY <1>2, <1>6 DEF ThresholdDelta
  <2> QED  BY <1>6, <2>1
<1> QED  BY <1>3, <1>4, <1>5, <1>6
================================================================================
