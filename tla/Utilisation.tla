------------------------------ MODULE Utilisation ------------------------------
(***************************************************************************)
(* The arithmetic of a scaling decision: how much of a node group is       *)
(* requested, and how many nodes to add or to taint.                       *)
(*                                                                         *)
(* A resource quantity is a record of two naturals (milli-CPU and bytes of *)
(* memory, in any unit).  A percentage is a fraction [num, den] compared   *)
(* by cross multiplication, so no rounding is hidden; the code's           *)
(* math.MaxFloat64 ("infinite usage") is the fraction 1/0.                 *)
(***************************************************************************)
EXTENDS Integers, FiniteSetsExt

CONSTANTS
    TaintLower,        \* taint_lower_capacity_threshold_percent
    TaintUpper,        \* taint_upper_capacity_threshold_percent
    ScaleUpThreshold,  \* scale_up_threshold_percent
    SlowRemovalRate,   \* slow_node_removal_rate
    FastRemovalRate    \* fast_node_removal_rate

\* What ValidateNodeGroup demands of thresholds and rates.
ValidateThresholds ==
    /\ 0 < TaintLower /\ TaintLower < TaintUpper /\ TaintUpper < ScaleUpThreshold
    /\ SlowRemovalRate <= FastRemovalRate

\* Validated options, and removal rates that remove.
ASSUME ThresholdsAssumption ==
    /\ ValidateThresholds
    /\ {TaintLower, TaintUpper, ScaleUpThreshold} \subseteq Nat
    /\ {SlowRemovalRate, FastRemovalRate} \subseteq Nat

Zero == [cpu |-> 0, mem |-> 0]

Resources == {"cpu", "mem"}

\* The total allocatable capacity of n nodes of equal size (CalculateNodesCapacity).
NodesCapacity(n, node) == [cpu |-> n * node.cpu, mem |-> n * node.mem]

\* Mutant: rounded down.
CeilDiv_Floor(a, b) == a \div b

\* The least integer not below a / b, for b > 0.
CeilDiv(a, b) == -((-a) \div b)

\* Mutant: two nodes too many.
FloatCeilDiv_TwoMore(a, b) == {CeilDiv(a, b) + 2}

\* math.Ceil of the float64 quotient.  A quotient that is mathematically an integer
\* may come out of the float64 operations a little above it, and is then rounded up
\* to the next integer.
FloatCeilDiv(a, b) ==
    {CeilDiv(a, b)} \cup (IF a % b = 0 THEN {(a \div b) + 1} ELSE {})

Infinite == [r \in Resources |-> [num |-> 1, den |-> 0]]

NoUsage == [r \in Resources |-> [num |-> 0, den |-> 1]]

CannotDivideByZero == [error |-> "cannot divide by zero in percent calculation"]

CalcPercentUsage(request, capacity, untainted) ==
    CASE request = Zero /\ capacity = Zero /\ untainted = 0 -> NoUsage
      [] (request # Zero \/ capacity # Zero \/ untainted # 0)
           /\ (capacity.cpu = 0 \/ capacity.mem = 0) ->
             IF untainted = 0 THEN Infinite ELSE CannotDivideByZero
      [] OTHER ->
           [r \in Resources |-> [num |-> 100 * request[r], den |-> capacity[r]]]

Below(percent, threshold) == \A r \in Resources : percent[r].num < threshold * percent[r].den

Above(percent, threshold) == \E r \in Resources : percent[r].num > threshold * percent[r].den

\* The larger of what the two resources ask for.
Larger(cpuNodes, memNodes) == {Max({need[1], need[2]}) : need \in cpuNodes \X memNodes}

\* Mutant: growing from zero needs a stored capacity.
CalcScaleUpDelta_NoStart(nodeCount, percent, request, cachedCapacity) ==
    LET extra(r) == LET whole == ScaleUpThreshold * percent[r].den
                    IN  FloatCeilDiv(nodeCount * (percent[r].num - whole), whole)
    IN  IF percent = Infinite THEN {0} ELSE Larger(extra("cpu"), extra("mem"))

\* calcScaleUpDelta, as the set of the values the float64 arithmetic may give it.
\* cachedCapacity is the capacity of a node seen earlier, or Zero when none was.
CalcScaleUpDelta(nodeCount, percent, request, cachedCapacity) ==
    LET fromZero(r) == FloatCeilDiv(100 * request[r], cachedCapacity[r] * ScaleUpThreshold)
        extra(r) == LET whole == ScaleUpThreshold * percent[r].den
                    IN  FloatCeilDiv(nodeCount * (percent[r].num - whole), whole)
    IN  CASE percent = Infinite /\ (cachedCapacity.cpu = 0 \/ cachedCapacity.mem = 0) -> {1}
          [] percent = Infinite /\ cachedCapacity.cpu # 0 /\ cachedCapacity.mem # 0 ->
               Larger(fromZero("cpu"), fromZero("mem"))
          [] OTHER -> Larger(extra("cpu"), extra("mem"))

\* The switch of scaleNodeGroup on the larger percentage: the deltas it may choose.
ThresholdDelta(nodeCount, percent, request, cachedCapacity) ==
    CASE Below(percent, TaintLower) -> {-FastRemovalRate}
      [] ~Below(percent, TaintLower) /\ Below(percent, TaintUpper) -> {-SlowRemovalRate}
      [] Above(percent, ScaleUpThreshold) ->
           CalcScaleUpDelta(nodeCount, percent, request, cachedCapacity)
      [] OTHER -> {0}
================================================================================
