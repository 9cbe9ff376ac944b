---------------------------- MODULE TargetSizing ----------------------------
(***************************************************************************)
(* _cost_aware_target_quantity: the quantity the engine trades towards so  *)
(* that, after slippage, fees and rounding, the holding weighs no more     *)
(* than the signal's target.                                               *)
(***************************************************************************)
EXTENDS Money

CONSTANTS
    MaxOrderNotional  \* config.max_order_notional_pct

ASSUME SizingAssumption == MaxOrderNotional \in 0 .. WeightScale

\* best_units is None: no candidate has passed.
NoUnits == -1

(***************************************************************************)
(* candidate_is_safe.  holding is the part of the engine's state it reads: *)
(* [cash, quantity]; equity is the equity at the open the order executes   *)
(* on.                                                                     *)
(***************************************************************************)
CandidateIsSafe(candidate, holding, ticks, weight, equity) ==
    LET buys         == candidate > holding.quantity
        sells        == candidate < holding.quantity
        delta        == Magnitude(candidate - holding.quantity)
        notional     == delta * ExecutionPrice(ticks, IF buys THEN Buy ELSE Sell)
        cashNotional == MoneyOf(notional)
        value        == MarketValue(candidate, ticks)
        projectedCash ==
            holding.cash + (IF buys  THEN -cashNotional - TradeFee(notional)
                       ELSE IF sells THEN  cashNotional - TradeFee(notional)
                       ELSE 0)
        projectedEquity == projectedCash + value
        orderWithinLimit ==
            \/ weight > MaxOrderNotional
            \/ ~buys
            \/ notional * WeightScale <= MaxOrderNotional * equity * Quantum
    IN  /\ projectedEquity > 0
        /\ value * WeightScale <= weight * projectedEquity
        /\ orderWithinLimit
        /\ buys => value > 0 /\ cashNotional > 0

\* raw_target_units: what the target would buy if trading were free.
RawTargetUnits(ticks, weight, equity) ==
    (weight * equity * Quantum) \div (WeightScale * ReferencePrice(ticks))

\* current_weight <= target_weight: search upwards from the holding, else down.
AtOrBelowTarget(holding, ticks, weight, equity) ==
    MarketValue(holding.quantity, ticks) * WeightScale <= weight * equity

SearchLow(holding, ticks, weight, equity) ==
    IF AtOrBelowTarget(holding, ticks, weight, equity) THEN holding.quantity ELSE 0

SearchHigh(holding, ticks, weight, equity) ==
    IF AtOrBelowTarget(holding, ticks, weight, equity)
      THEN Larger(holding.quantity, RawTargetUnits(ticks, weight, equity))
      ELSE holding.quantity

\* The bisection of PrecisionSearch run to its end, as a function of what is left
\* of the interval.
Bisection(first, last, holding, ticks, weight, equity) ==
    LET best[interval \in (first .. last + 1) \X (first - 1 .. last)] ==
            LET low    == interval[1]
                high   == interval[2]
                middle == (low + high) \div 2
            IN  IF low > high THEN NoUnits
                ELSE IF CandidateIsSafe(middle, holding, ticks, weight, equity)
                  THEN Larger(middle, best[<<middle + 1, high>>])
                  ELSE best[<<low, middle - 1>>]
    IN  best[<<first, last>>]

\* A mutant of TargetUnits: the target is sized before its costs.
UnitsBeforeCosts(holding, ticks, weight, equity) ==
    IF weight = 0 THEN 0 ELSE Larger(0, RawTargetUnits(ticks, weight, equity))

\* _cost_aware_target_quantity: nothing safe means selling everything.
TargetUnits(holding, ticks, weight, equity) ==
    IF weight = 0 THEN 0
    ELSE Larger(0, Bisection(SearchLow(holding, ticks, weight, equity),
                             SearchHigh(holding, ticks, weight, equity),
                             holding, ticks, weight, equity))
=============================================================================
