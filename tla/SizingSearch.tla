---------------------------- MODULE SizingSearch ----------------------------
(***************************************************************************)
(* The bisection of PrecisionSearch run on the test it is used with: one   *)
(* portfolio, one price and one target weight of _cost_aware_target_       *)
(* quantity, and the order the engine makes of the answer.                 *)
(***************************************************************************)
EXTENDS PrecisionSearch, OrderProposal

CONSTANTS
    SizingUnits,  \* bound: the largest candidate of a portfolio
    Cash,         \* the amounts of cash to start from
    Quantities,   \* ... the holdings
    Ticks,        \* ... the prices
    Targets       \* ... and the target weights

ASSUME SizingSearchAssumption ==
    /\ Cash \subseteq Nat /\ Quantities \subseteq Nat
    /\ Ticks \subseteq Nat \ {0}
    /\ Targets \subseteq Fraction

VARIABLES
    holding, ticks, weight  \* what the search was asked

asked == <<holding, ticks, weight>>

Equity == EquityAt(holding, ticks)

\* What the policy is shown, of a portfolio that has lost nothing.
Portfolio ==
    Snapshot(holding, Equity, [peak |-> Equity, start_of_day |-> Equity], FALSE)

\* The engine sizes a target only for a portfolio that passed the check at the open.
SizingInit ==
    /\ holding \in [cash : Cash, quantity : Quantities]
    /\ ticks \in Ticks
    /\ weight \in Targets \ {0}
    /\ PortfolioHalt(EffectivePolicy, Portfolio) = {}
    /\ first = SearchLow(holding, ticks, weight, Equity)
    /\ last = SearchHigh(holding, ticks, weight, Equity)
    /\ last <= SizingUnits
    /\ safe = {units \in first .. last :
                CandidateIsSafe(units, holding, ticks, weight, Equity)}
    /\ low = first
    /\ high = last
    /\ best = None

SizingNext == Next /\ UNCHANGED asked

-----------------------------------------------------------------------------
Found == IF best = None THEN 0 ELSE best

\* The loop and the function the engine's model uses find the same quantity.
LoopAgrees ==
    Finished => Found = TargetUnits(holding, ticks, weight, Equity)

(***************************************************************************)
(* "Return the largest precision-safe quantity within the post-cost        *)
(* target", for the safe quantities that fees and rounding really leave,   *)
(* and not only when they form a prefix of the interval.                   *)
(***************************************************************************)
NoneLarger ==
    Finished => \A units \in safe : units <= Found

\* The caps the policy applies are those of the configuration, and the target is
\* within them; the data and the symbol are none that it refuses.
WithinCaps ==
    /\ Policy.max_asset_weight >= MaxPosition
    /\ Policy.max_total_gross_exposure >= MaxTotalExposure
    /\ Policy.max_order_notional_weight >= MaxOrderNotional
    /\ weight <= MaxPosition
    /\ weight <= MaxOrderNotional
    /\ DataAge <= Policy.max_data_age_seconds
    /\ Symbol \in Policy.allowed_symbols

(***************************************************************************)
(* Sizing and risk policy agree: within the caps, the order that trades to *)
(* the quantity found breaches none, and only a sale the minimum fee makes *)
(* unaffordable is refused.                                                *)
(***************************************************************************)
OrderIsAccepted ==
    LET order == OrderTo(Found, holding, ticks)
        reasons == EvaluateOrder(EffectivePolicy, order, Portfolio)
    IN  Finished /\ Found # holding.quantity /\ WithinCaps =>
            \/ reasons = {}
            \/ /\ order.side = Sell
               /\ reasons \subseteq {"insufficient_cash",
                                     "projected_equity_non_positive"}
=============================================================================
