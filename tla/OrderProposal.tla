--------------------------- MODULE OrderProposal ---------------------------
(***************************************************************************)
(* How the engine turns a pending target into an order and puts it, with a *)
(* snapshot of the portfolio, before the risk policy: the pure part of     *)
(* _apply_pending_target and of _check_and_latch_portfolio_halt.           *)
(*                                                                         *)
(* A holding is the part of the ledger they read, [cash, quantity]; marks  *)
(* is [peak, start_of_day].                                                *)
(***************************************************************************)
EXTENDS TargetSizing, RiskPolicy

CONSTANTS
    Policy,            \* the RiskPolicy given to the engine
    MaxPosition,       \* config.max_position_pct
    MaxTotalExposure,  \* config.max_total_exposure_pct
    MaxDailyLoss,      \* config.max_daily_loss_pct
    MaxDrawdown,       \* config.max_drawdown_pct
    MaxOpenPositions,  \* config.max_open_positions
    DataAge,           \* config.data_age_seconds
    TradingEnabled,    \* config.trading_enabled
    KillSwitchActive,  \* config.kill_switch_active
    Symbol             \* the one symbol of the bars

Fraction == 0 .. WeightScale

ASSUME ProposalAssumption ==
    /\ Policy.max_asset_weight \in Fraction
    /\ Policy.max_total_gross_exposure \in Fraction
    /\ Policy.max_order_notional_weight \in Fraction
    /\ Policy.max_daily_loss_pct \in Fraction
    /\ Policy.max_drawdown_pct \in Fraction
    /\ Policy.max_open_positions \in Nat \ {0}
    /\ Policy.max_data_age_seconds \in Nat
    /\ MaxPosition \in Fraction
    /\ MaxTotalExposure \in Fraction
    /\ MaxPosition <= MaxTotalExposure
    /\ MaxDailyLoss \in Fraction
    /\ MaxDrawdown \in Fraction
    /\ MaxOpenPositions \in Nat \ {0}
    /\ DataAge \in Nat
    /\ TradingEnabled \in BOOLEAN
    /\ KillSwitchActive \in BOOLEAN

Stricter(policyLimit, configLimit) == Smaller(policyLimit, configLimit)

\* _effective_policy: the stricter of the policy and the run's configuration.
EffectivePolicy ==
    [max_asset_weight |-> Stricter(Policy.max_asset_weight, MaxPosition),
     max_total_gross_exposure |->
        Stricter(Policy.max_total_gross_exposure, MaxTotalExposure),
     max_order_notional_weight |->
        Stricter(Policy.max_order_notional_weight, MaxOrderNotional),
     max_daily_loss_pct |-> Stricter(Policy.max_daily_loss_pct, MaxDailyLoss),
     max_drawdown_pct |-> Stricter(Policy.max_drawdown_pct, MaxDrawdown),
     max_open_positions |-> Stricter(Policy.max_open_positions, MaxOpenPositions),
     max_data_age_seconds |-> Policy.max_data_age_seconds,
     allowed_symbols |-> Policy.allowed_symbols]

EquityAt(holding, ticks) == holding.cash + MarketValue(holding.quantity, ticks)

OpenPositions(holding) == IF holding.quantity > 0 THEN 1 ELSE 0

(***************************************************************************)
(* _portfolio_snapshot, and the one _check_and_latch_portfolio_halt builds *)
(* (halted is FALSE there: a latched engine returns before).  The floor of *)
(* 1e-12 under the start of day is below a quantum and is only met with an *)
(* equity of 0, which is refused on its own; daily_pnl agrees with it      *)
(* within the tolerance.                                                   *)
(***************************************************************************)
Snapshot(holding, equity, marks, halted) ==
    LET startOfDay == Larger(marks.start_of_day, 1)
    IN  [equity |-> equity,
         start_of_day_equity |-> startOfDay,
         peak_equity |-> Larger(marks.peak, equity),
         daily_pnl |-> equity - startOfDay,
         trading_enabled |-> TradingEnabled,
         kill_switch_active |-> KillSwitchActive,
         cash |-> holding.cash,
         open_positions |-> OpenPositions(holding),
         halted |-> halted]

\* The order that moves the holding to target units at the bar's open.
OrderTo(target, holding, ticks) ==
    LET side      == IF target > holding.quantity THEN Buy ELSE Sell
        quantity  == Magnitude(target - holding.quantity)
        notional  == quantity * ExecutionPrice(ticks, side)
        current   == holding.quantity * ReferencePrice(ticks)
        resulting == target * ReferencePrice(ticks)
        fee       == TradeFee(notional)
    IN  [symbol |-> Symbol,
         side |-> side,
         quantity |-> quantity,
         reference_price |-> ReferencePrice(ticks),
         execution_price |-> ExecutionPrice(ticks, side),
         notional |-> notional,
         estimated_fee |-> fee,
         cash_required |-> IF side = Buy THEN MoneyOf(notional) + fee ELSE Absent,
         available_cash |-> holding.cash,
         current_quantity |-> holding.quantity,
         current_symbol_exposure |-> current,
         current_total_gross_exposure |-> current,
         resulting_symbol_exposure |-> resulting,
         resulting_total_gross_exposure |-> Larger(resulting, 0),
         resulting_quantity |-> target,
         data_age_seconds |-> DataAge,
         open_positions |-> OpenPositions(holding),
         \* The intent id carries the execution timestamp, and timestamps are
         \* strictly ascending: no two intents of a run share one.
         duplicate |-> FALSE,
         data_valid |-> TRUE,
         reduces_risk |-> side = Sell /\ resulting < current,
         is_live_order |-> FALSE]

\* What an order is refused for only if the engine states it wrongly, or if the
\* check at the open let a halt pass.
EngineFault ==
    PortfolioReason \cup LossReason \cup
        {"invalid_order", "invalid_data", "invalid_quantity", "leverage",
         "notional_non_positive", "non_positive_price", "shorting",
         "gross_exposure_negative", "duplicate_intent"}
=============================================================================
