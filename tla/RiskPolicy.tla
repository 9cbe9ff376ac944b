----------------------------- MODULE RiskPolicy -----------------------------
(***************************************************************************)
(* risk/policy.py: the pure checks every simulated order and every         *)
(* portfolio mark passes.  A decision is its set of reasons; the empty set *)
(* approves.                                                               *)
(*                                                                         *)
(* A numeric field holds an integer, or a model value for what             *)
(* _is_finite_number refuses (NaN, an infinity, a missing or a mistyped    *)
(* value): every comparison sits behind that test, as in the code.         *)
(* Rounded amounts (cash, fees, equity) are in quanta; unrounded ones      *)
(* (prices, notionals, exposures) in raw units.  The code compares with a  *)
(* tolerance of 1e-9, a tenth of a quantum: here the comparison is exact.  *)
(***************************************************************************)
EXTENDS Money

CONSTANTS
    Absent  \* None, for an optional field that is not given

ASSUME RiskAssumption == Absent \notin Int

PortfolioReason == {
    "invalid_portfolio", "equity_non_finite", "equity_non_positive",
    "start_of_day_invalid", "peak_invalid", "daily_pnl_non_finite",
    "trading_disabled", "kill_switch", "halted"}

LossReason == {"daily_loss", "max_drawdown"}

CapReason == {"max_order_notional", "max_position", "max_total_exposure",
              "leverage"}

Reason == PortfolioReason \cup LossReason \cup CapReason \cup {
    "invalid_order", "invalid_symbol", "invalid_data", "stale_data",
    "data_age_negative", "live_trading_disabled", "invalid_quantity",
    "non_positive_price", "notional_non_finite", "notional_non_positive",
    "gross_exposure_negative", "shorting", "duplicate_intent",
    "insufficient_cash", "projected_equity_non_positive",
    "max_open_positions", "risk_evaluation_error"}

IsFinite(v) == v \in Int
IsPositive(v) == IsFinite(v) /\ v > 0
IsNonNegative(v) == IsFinite(v) /\ v >= 0

When(condition, reason) == IF condition THEN {reason} ELSE {}

-----------------------------------------------------------------------------
(***************************************************************************)
(* The portfolio: a snapshot                                               *)
(*   [equity, start_of_day_equity, peak_equity, daily_pnl,                 *)
(*    trading_enabled, kill_switch_active, cash, open_positions, halted].  *)
(***************************************************************************)
\* _validate_portfolio
InvalidPortfolio(p) ==
    When(~IsFinite(p.equity), "equity_non_finite")
    \cup When(IsFinite(p.equity) /\ p.equity <= 0, "equity_non_positive")
    \cup When(~IsPositive(p.start_of_day_equity), "start_of_day_invalid")
    \cup When(~IsPositive(p.peak_equity), "peak_invalid")
    \cup When(~IsFinite(p.daily_pnl), "daily_pnl_non_finite")
    \cup When(/\ IsFinite(p.daily_pnl)
              /\ IsFinite(p.equity)
              /\ IsFinite(p.start_of_day_equity)
              /\ p.daily_pnl # p.equity - p.start_of_day_equity,
              "invalid_portfolio")
    \cup When(~IsNonNegative(p.cash), "invalid_portfolio")
    \cup When(~IsNonNegative(p.open_positions), "invalid_portfolio")
    \cup When(~p.trading_enabled, "trading_disabled")
    \cup When(p.kill_switch_active, "kill_switch")
    \cup When(p.halted, "halted")

\* _evaluate_loss_limits: reaching a limit counts as breaching it.
LossLimits(policy, p) ==
    When(/\ IsPositive(p.start_of_day_equity)
         /\ IsFinite(p.equity)
         /\ Larger(0, p.start_of_day_equity - p.equity) * WeightScale
                >= policy.max_daily_loss_pct * p.start_of_day_equity,
         "daily_loss")
    \cup When(/\ IsPositive(p.peak_equity)
              /\ IsFinite(p.equity)
              /\ Larger(0, p.peak_equity - p.equity) * WeightScale
                    >= policy.max_drawdown_pct * p.peak_equity,
              "max_drawdown")

\* evaluate_portfolio_halt
PortfolioHalt(policy, p) == InvalidPortfolio(p) \cup LossLimits(policy, p)

-----------------------------------------------------------------------------
(***************************************************************************)
(* The order: what the engine claims of a proposed order                   *)
(*   [symbol, side, quantity, reference_price, execution_price, notional,  *)
(*    estimated_fee, cash_required, available_cash, current_quantity,      *)
(*    current_symbol_exposure, current_total_gross_exposure,               *)
(*    resulting_symbol_exposure, resulting_total_gross_exposure,           *)
(*    resulting_quantity, data_age_seconds, open_positions, duplicate,     *)
(*    data_valid, reduces_risk, is_live_order],                            *)
(* with duplicate for intent_id = last_intent_id.                          *)
(***************************************************************************)

\* The age of the data the order rests on.
InvalidAge(policy, age) ==
    When(~IsFinite(age), "invalid_data")
    \cup When(IsFinite(age) /\ age < 0, "data_age_negative")
    \cup When(IsFinite(age) /\ age > policy.max_data_age_seconds, "stale_data")

\* What the order is about.
InvalidRequest(policy, o) ==
    When(o.symbol \notin policy.allowed_symbols, "invalid_symbol")
    \cup When(o.side \notin Sides, "invalid_order")
    \cup When(~o.data_valid, "invalid_data")
    \cup When(o.is_live_order, "live_trading_disabled")
    \cup InvalidAge(policy, o.data_age_seconds)
    \cup When(o.duplicate, "duplicate_intent")

\* Each of its numbers on its own.
InvalidAmounts(o, p) ==
    When(~IsPositive(o.quantity), "invalid_quantity")
    \cup When(~IsPositive(o.reference_price) \/ ~IsPositive(o.execution_price),
              "non_positive_price")
    \cup When(~IsFinite(o.notional), "notional_non_finite")
    \cup When(IsFinite(o.notional) /\ o.notional <= 0, "notional_non_positive")
    \cup When(\/ ~IsNonNegative(o.estimated_fee)
              \/ ~IsNonNegative(o.current_symbol_exposure)
              \/ ~IsNonNegative(o.current_total_gross_exposure)
              \/ ~IsNonNegative(o.current_quantity)
              \/ ~IsFinite(o.resulting_symbol_exposure)
              \/ ~IsFinite(o.resulting_total_gross_exposure), "invalid_order")
    \cup When(/\ IsFinite(o.resulting_total_gross_exposure)
              /\ o.resulting_total_gross_exposure < 0, "gross_exposure_negative")
    \cup When(~IsFinite(o.resulting_quantity), "invalid_quantity")
    \cup When(\/ IsFinite(o.resulting_quantity) /\ o.resulting_quantity < 0
              \/ /\ IsFinite(o.resulting_symbol_exposure)
                 /\ o.resulting_symbol_exposure < 0, "shorting")
    \cup When(\/ ~IsNonNegative(o.open_positions)
              \/ IsFinite(p.open_positions) /\ o.open_positions # p.open_positions,
              "invalid_portfolio")

Priced(o) == /\ IsPositive(o.quantity)
             /\ IsPositive(o.reference_price)
             /\ IsPositive(o.execution_price)

\* The claims against what quantities and prices imply.
InconsistentClaims(o) ==
    When(/\ Priced(o)
         /\ \/ IsFinite(o.notional) /\ o.notional # o.quantity * o.execution_price
            \/ o.side = Buy /\ o.execution_price < o.reference_price
            \/ o.side = Sell /\ o.execution_price > o.reference_price,
         "invalid_order")
    \cup When(/\ IsFinite(o.resulting_quantity)
              /\ IsPositive(o.reference_price)
              /\ IsFinite(o.resulting_symbol_exposure)
              /\ o.resulting_symbol_exposure # o.resulting_quantity * o.reference_price,
              "invalid_order")
    \cup When(/\ IsNonNegative(o.current_quantity)
              /\ IsPositive(o.reference_price)
              /\ IsNonNegative(o.current_symbol_exposure)
              /\ o.current_symbol_exposure # o.current_quantity * o.reference_price,
              "invalid_order")
    \cup When(/\ IsNonNegative(o.current_quantity)
              /\ IsFinite(o.resulting_quantity)
              /\ IsPositive(o.quantity)
              /\ o.side \in Sides
              /\ o.resulting_quantity #
                    o.current_quantity + (IF o.side = Buy THEN o.quantity ELSE -o.quantity),
              "invalid_order")
    \cup When(/\ IsNonNegative(o.current_total_gross_exposure)
              /\ IsNonNegative(o.current_symbol_exposure)
              /\ \/ o.current_total_gross_exposure < o.current_symbol_exposure
                 \/ /\ IsFinite(o.resulting_symbol_exposure)
                    /\ IsFinite(o.resulting_total_gross_exposure)
                    /\ o.resulting_total_gross_exposure #
                          o.current_total_gross_exposure - o.current_symbol_exposure
                             + Magnitude(o.resulting_symbol_exposure),
              "invalid_order")
    \cup When(/\ IsFinite(o.resulting_symbol_exposure)
              /\ IsFinite(o.resulting_total_gross_exposure)
              /\ o.resulting_total_gross_exposure < Magnitude(o.resulting_symbol_exposure),
              "invalid_order")

\* The claims against the portfolio's own cash and equity.
InconsistentPortfolio(o, p) ==
    When(/\ o.available_cash # Absent
         /\ \/ ~IsNonNegative(o.available_cash)
            \/ IsNonNegative(p.cash) /\ o.available_cash # p.cash,
         "invalid_portfolio")
    \cup When(/\ IsNonNegative(p.cash)
              /\ IsNonNegative(o.current_total_gross_exposure)
              /\ IsFinite(p.equity)
              /\ p.equity # p.cash + MoneyOf(o.current_total_gross_exposure),
              "invalid_portfolio")

(***************************************************************************)
(* The state after the fill, derived again from quantity and prices.       *)
(***************************************************************************)
Projectable(o, p) ==
    /\ o.side \in Sides
    /\ Priced(o)
    /\ IsNonNegative(o.estimated_fee)
    /\ IsNonNegative(p.cash)
    /\ IsFinite(p.equity)

\* A mutant of CashNotional: the policy truncates where the ledger rounds.
TruncatedNotional(o) == (o.quantity * o.execution_price) \div Quantum

\* Rounded as the ledger will round it.
CashNotional(o) == MoneyOf(o.quantity * o.execution_price)

\* A mutant of ProjectedCash: the fee of a sale is forgotten.
ProjectedCashFreeSale(o, p) ==
    IF o.side = Buy THEN p.cash - (CashNotional(o) + o.estimated_fee)
                    ELSE p.cash + CashNotional(o)

ProjectedCash(o, p) ==
    IF o.side = Buy THEN p.cash - (CashNotional(o) + o.estimated_fee)
                    ELSE p.cash + CashNotional(o) - o.estimated_fee

ProjectedEquity(o, p) ==
    ProjectedCash(o, p) + MoneyOf(o.resulting_total_gross_exposure)

UnaffordableOrder(o, p) ==
    IF ~Projectable(o, p) THEN {}
    ELSE When(/\ o.side = Buy
              /\ \/ CashNotional(o) <= 0
                 \/ /\ o.cash_required # Absent
                    /\ \/ ~IsFinite(o.cash_required)
                       \/ o.cash_required # CashNotional(o) + o.estimated_fee,
              "invalid_order")
         \cup When(o.side = Sell /\ o.cash_required # Absent, "invalid_order")
         \cup IF ~IsFinite(o.resulting_total_gross_exposure)
                THEN {"invalid_order"}
                ELSE When(ProjectedCash(o, p) < 0, "insufficient_cash")
                     \cup When(ProjectedEquity(o, p) <= 0,
                               "projected_equity_non_positive")

\* A mutant of ReducesRisk: the order's own claim is believed.
ClaimsToReduceRisk(o) == o.reduces_risk

\* actually_reduces_risk
ReducesRisk(o) ==
    /\ o.side = Sell
    /\ IsNonNegative(o.current_symbol_exposure)
    /\ IsNonNegative(o.current_total_gross_exposure)
    /\ IsFinite(o.resulting_symbol_exposure)
    /\ IsFinite(o.resulting_total_gross_exposure)
    /\ IsNonNegative(o.resulting_quantity)
    /\ o.resulting_symbol_exposure < o.current_symbol_exposure
    /\ o.resulting_total_gross_exposure < o.current_total_gross_exposure

WeightsKnown(o, p) ==
    /\ Projectable(o, p)
    /\ p.equity > 0
    /\ IsFinite(o.resulting_symbol_exposure)
    /\ IsFinite(o.resulting_total_gross_exposure)
    /\ ProjectedEquity(o, p) > 0

\* Of whole numbers the difference is at least one, and the code's tolerance of 1e-9
\* in weight less than one while equity * WeightScale stays below 10^9.
Exceeds(value, limit, equity) == value * WeightScale > limit * equity

\* The caps on order, asset and gross weight: not applied to an order that
\* reduces risk.
BreachedCaps(policy, o, p) ==
    IF ~WeightsKnown(o, p) \/ ReducesRisk(o) THEN {}
    ELSE LET asset == MoneyOf(Magnitude(o.resulting_symbol_exposure))
             gross == MoneyOf(o.resulting_total_gross_exposure)
             after == ProjectedEquity(o, p)
         IN  When(Exceeds(o.quantity * o.execution_price,
                          policy.max_order_notional_weight, p.equity * Quantum),
                  "max_order_notional")
             \cup When(Exceeds(asset, policy.max_asset_weight, after), "max_position")
             \cup When(Exceeds(gross, policy.max_total_gross_exposure, after),
                       "max_total_exposure")
             \cup When(gross > after, "leverage")

TooManyPositions(policy, o, p) ==
    When(/\ IsNonNegative(o.current_symbol_exposure)
         /\ IsFinite(o.resulting_symbol_exposure)
         /\ o.current_symbol_exposure = 0
         /\ o.resulting_symbol_exposure > 0
         /\ IsFinite(p.open_positions)
         /\ p.open_positions >= policy.max_open_positions,
         "max_open_positions")

\* evaluate_order
EvaluateOrder(policy, o, p) ==
    UNION {
        InvalidPortfolio(p),
        InvalidRequest(policy, o),
        InvalidAmounts(o, p),
        InconsistentClaims(o),
        InconsistentPortfolio(o, p),
        UnaffordableOrder(o, p),
        When(o.reduces_risk /\ ~ReducesRisk(o), "invalid_order"),
        BreachedCaps(policy, o, p),
        TooManyPositions(policy, o, p),
        LossLimits(policy, p)}
=============================================================================
