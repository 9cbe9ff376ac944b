--------------------------- MODULE ParityFixture ---------------------------
(***************************************************************************)
(* ParityFixtureV1: the LEAN algorithm whose trace is compared, value by   *)
(* value, with a run of the local engine.  It sizes, vetoes and fills the  *)
(* orders with code of its own; LEAN keeps the account and calls it back.  *)
(*                                                                         *)
(* LEAN is external: it may deliver a row early, late, twice or never, may *)
(* refuse an order, fill it in part or report its fill twice, and may end  *)
(* the run at any time.  The eight rows are fixed by a digest; here a row  *)
(* is chosen when it is received.                                          *)
(*                                                                         *)
(* The amounts of the eight rows are exact at eight places of money, so a  *)
(* raw unit of the Money module is a quantum; there is no minimum fee, and *)
(* the contract gives the target, the position and the order one limit.    *)
(***************************************************************************)
EXTENDS OrderProposal, TrailingSignal

CONSTANTS InitialCash, NumBars, Prices, None

\* The risk block of the contract: the limits of the run's configuration.
ContractPolicy ==
    [max_asset_weight |-> MaxPosition, max_total_gross_exposure |-> MaxTotalExposure,
     max_order_notional_weight |-> MaxOrderNotional, max_daily_loss_pct |-> MaxDailyLoss,
     max_drawdown_pct |-> MaxDrawdown, max_open_positions |-> MaxOpenPositions,
     max_data_age_seconds |-> 1, allowed_symbols |-> {Symbol}]

\* What the contract fixes besides: a target under the exposure it allows, losses
\* that are limits, costs that leave something of a sale, weights no finer than
\* costs are, and nothing that stops the engine by configuration.
ASSUME FixtureAssumption ==
    /\ Quantum = 1 /\ MinimumFee = 0
    /\ TargetWeight = MaxPosition /\ MaxPosition = MaxOrderNotional
    /\ MaxPosition < MaxTotalExposure /\ MaxDailyLoss > 0 /\ MaxDrawdown > 0
    /\ FeeBps + SlippageBps < BpsScale /\ WeightScale <= BpsScale
    /\ Policy = ContractPolicy /\ DataAge <= Policy.max_data_age_seconds
    /\ TradingEnabled /\ ~KillSwitchActive
    /\ InitialCash \in Nat \ {0} /\ NumBars \in Nat /\ NumBars >= Slow
    /\ Prices \subseteq Nat \ {0} /\ Prices # {}
    /\ None \notin Nat /\ None \notin [row : Nat, weight : Nat]
    /\ None \notin [price : Nat, quantity : Nat, fee : Nat]

VARIABLES
    pc,        \* "idle", "execute", "ordered", "close", "raised" or "traced"
    account,   \* LEAN: [cash, quantity]
    open,      \* the open of the row being processed, in ticks
    signal,    \* [closes, pending]: TrailingSignalState
    executing, \* the pending signal begin_bar has taken
    risk,      \* [peak, last_close, reasons]
    trail,     \* [bars, intents, decisions, fills, trades]: the trace
    active,    \* _active_intent_index
    callback   \* _callback_fill

vars == <<pc, account, open, signal, executing, risk, trail, active, callback>>

Init ==
    /\ pc = "idle" /\ account = [cash |-> InitialCash, quantity |-> 0] /\ open = None
    /\ signal = [closes |-> <<>>, pending |-> None] /\ executing = None
    /\ risk = [peak |-> InitialCash, last_close |-> InitialCash, reasons |-> {}]
    /\ trail = [bars |-> <<>>, intents |-> <<>>, decisions |-> <<>>, fills |-> <<>>,
                trades |-> <<>>]
    /\ active = None /\ callback = None

Row == Len(trail.bars) + 1
Halted == risk.reasons # {}

Raise == /\ pc' = "raised"
         /\ UNCHANGED <<account, open, signal, executing, risk, trail, active, callback>>

-----------------------------------------------------------------------------
\* The pure parts.

\* value_open_phase_risk_snapshot
OpenSnapshot == [equity |-> EquityAt(account, open), base |-> risk.last_close,
                 peak |-> Larger(risk.peak, EquityAt(account, open))]

\* The limits, reached from base and from the peak.
Breaches(equity, base, peak) ==
    When((base - equity) * WeightScale >= MaxDailyLoss * base, "daily_loss")
    \cup When((peak - equity) * WeightScale >= MaxDrawdown * peak, "max_drawdown")

\* Whether holding units after trading from the account at the open is safe.
UnitsAreSafe(units, weight, equity) ==
    LET isBuy    == units > account.quantity
        delta    == Magnitude(units - account.quantity)
        notional == delta * ExecutionPrice(open, IF isBuy THEN Buy ELSE Sell)
        value    == MarketValue(units, open)
        after    == account.cash + value - TradeFee(notional)
                      + (IF isBuy THEN -MoneyOf(notional) ELSE MoneyOf(notional))
    IN  /\ after > 0 /\ value * WeightScale <= weight * after
        /\ isBuy => /\ notional * WeightScale <= MaxOrderNotional * equity
                    /\ value > 0 /\ notional > 0

\* A mutant of TargetQuantity: the whole-share target without its costs.
TargetBeforeCosts(weight) ==
    (weight * EquityAt(account, open)) \div (WeightScale * ReferencePrice(open))

\* cost_aware_target_quantity
TargetQuantity(weight) ==
    LET equity == EquityAt(account, open)
        below  == MarketValue(account.quantity, open) * WeightScale <= weight * equity
        raw    == (weight * equity) \div (WeightScale * ReferencePrice(open))
        first  == IF below THEN account.quantity ELSE 0
        last   == IF below THEN Larger(account.quantity, raw) ELSE account.quantity
        best[interval \in (first .. last + 1) \X (first - 1 .. last)] ==
            LET low   == interval[1]
                high  == interval[2]
                units == (low + high) \div 2
            IN  IF low > high THEN 0
                ELSE IF UnitsAreSafe(units, weight, equity)
                       THEN Larger(units, best[<<units + 1, high>>])
                       ELSE best[<<low, units - 1>>]
    IN  IF weight = 0 \/ equity <= 0 THEN 0 ELSE best[<<first, last>>]

\* The reasons of _risk_decision for trading change shares; a sale is exempt
\* from the order limit and from the losses.
Veto(weight, change) ==
    LET s         == OpenSnapshot
        side      == IF change > 0 THEN Buy ELSE Sell
        value     == Magnitude(change) * ExecutionPrice(open, side)
        quantity  == account.quantity + change
        \* in units of 1 / BpsScale, for the fee is not rounded
        cash      == (account.cash + (IF change > 0 THEN -value ELSE value)) * BpsScale
                       - value * FeeBps
        exposure  == quantity * ReferencePrice(open) * BpsScale
        equity    == cash + exposure
        reduces   == Magnitude(quantity) < Magnitude(account.quantity)
    IN  When(weight < 0, "shorting_forbidden")
        \cup When(weight > MaxPosition, "max_position_weight")
        \cup When(equity <= 0 \/ exposure * WeightScale > MaxTotalExposure * equity,
                  "max_total_exposure")
        \cup When(value * WeightScale > MaxOrderNotional * s.equity /\ ~reduces,
                  "max_order_notional")
        \cup When(quantity < 0, "negative_quantity")
        \cup When(cash < 0, "negative_cash")
        \cup (IF reduces THEN {} ELSE Breaches(s.equity, s.base, s.peak))

-----------------------------------------------------------------------------
\* The handlers.

\* on_data for a row that is not the next one, or for one row too many.
Misdelivered == pc = "idle" /\ Raise

\* on_data up to the execution of the pending signal.
OpenRow(ticks) ==
    /\ pc = "idle" /\ Row <= NumBars
    /\ open' = ticks
    /\ IF \/ EquityAt(account, ticks) <= 0
          \/ account.cash < 0
         THEN pc' = "raised" /\ UNCHANGED <<signal, executing, risk>>
         ELSE /\ pc' = IF signal.pending # None /\ ~Halted THEN "execute" ELSE "close"
              /\ executing' = signal.pending
              /\ signal' = [signal EXCEPT !.pending = None]
              /\ risk' = [risk EXCEPT !.peak = Larger(@, EquityAt(account, ticks))]
    /\ UNCHANGED <<account, trail, active, callback>>

Change == TargetQuantity(executing.weight) - account.quantity

\* _execute_pending up to market_order.
Execute ==
    /\ pc = "execute"
    /\ IF Change = 0
         THEN pc' = "close" /\ UNCHANGED <<trail, active, callback>>
         ELSE LET intent  == [signal |-> executing.row, row |-> Row, weight |-> executing.weight,
                              side |-> IF Change > 0 THEN Buy ELSE Sell,
                              quantity |-> Magnitude(Change), open |-> open]
                  reasons == Veto(executing.weight, Change)
              IN  /\ trail' = [trail EXCEPT !.intents = Append(@, intent),
                                            !.decisions = Append(@, reasons)]
                  /\ pc' = IF reasons = {} THEN "ordered" ELSE "close"
                  /\ active' = IF reasons = {} THEN Len(trail'.intents) ELSE active
                  /\ callback' = IF reasons = {} THEN None ELSE callback
    /\ UNCHANGED <<account, open, signal, executing, risk>>

\* NextRowOpenFillModel.market_fill and NotionalBpsFeeModel: the fee is taken
\* on the open, not on the price of the fill.
FillPrice(side) == ExecutionPrice(open, side)
FillFee(quantity) == open * quantity * FeeBps

Unexpected == active = None \/ callback # None

\* LEAN fills the order, or reports its fill again; on_order_event.
Filled(intent) ==
    LET fee  == FillFee(intent.quantity)
        paid == intent.quantity * FillPrice(intent.side)
        buys == intent.side = Buy
    IN  IF Unexpected THEN Raise
        ELSE /\ callback' = [price |-> FillPrice(intent.side), quantity |-> intent.quantity,
                             fee |-> fee]
             /\ account' =
                  [cash |-> account.cash - fee + (IF buys THEN -paid ELSE paid),
                   quantity |-> account.quantity
                                  + (IF buys THEN intent.quantity ELSE -intent.quantity)]
             /\ UNCHANGED <<pc, open, signal, executing, risk, trail, active>>

\* LEAN reports a fill while market_order runs, or late.
OrderFilled ==
    /\ pc \in {"idle", "ordered"} /\ trail.intents # <<>>
    /\ Filled(trail.intents[Len(trail.intents)])

\* on_order_event for a partial fill.
PartiallyFilled == pc = "ordered" /\ Raise

\* _finalize_fill
FinalizeFill ==
    trail' = [trail EXCEPT
       !.fills = Append(@, [intent |-> active, price |-> callback.price,
                            quantity |-> callback.quantity, fee |-> callback.fee]),
       !.trades = Append(@, [fill |-> Len(trail.fills) + 1, cash |-> account.cash,
                             quantity |-> account.quantity])]

\* market_order has returned: the end of _execute_pending.
OrderReturns ==
    /\ pc = "ordered"
    /\ active' = None /\ callback' = None
    /\ IF callback = None
         THEN pc' = "raised" /\ UNCHANGED trail
         ELSE pc' = "close" /\ FinalizeFill
    /\ UNCHANGED <<account, open, signal, executing, risk>>

\* TrailingSignalState.finish_bar: a pending target once Slow closes are known.
FinishBar(ticks) ==
    LET closes == Recent(Append(signal.closes, ticks))
    IN  signal' = [closes |-> closes,
                   pending |-> IF ~Ready(closes) THEN signal.pending
                               ELSE [row |-> Row, weight |-> Target(closes)]]

\* _record_close: only a close halts the fixture, and the reasons stay.
RecordClose(ticks) ==
    LET equity == EquityAt(account, ticks)
        peak   == Larger(risk.peak, equity)
    IN  /\ risk' = [peak |-> peak, last_close |-> equity,
                    reasons |-> IF Halted THEN risk.reasons
                                ELSE Breaches(equity, risk.last_close, peak)]
        /\ trail' = [trail EXCEPT !.bars = Append(@,
              [cash |-> account.cash,
               quantity |-> account.quantity, equity |-> equity, peak |-> peak,
               start_of_day |-> risk.last_close, halted |-> risk'.reasons # {},
               target |-> IF Ready(signal'.closes) THEN Target(signal'.closes) ELSE 0])]

\* The rest of on_data.
CloseRow(ticks) ==
    /\ pc = "close" /\ pc' = "idle"
    /\ FinishBar(ticks)
    /\ RecordClose(ticks)
    /\ open' = None /\ executing' = None
    /\ UNCHANGED <<account, active, callback>>

\* on_end_of_algorithm and _build_trace.
TraceIsComplete ==
    /\ Len(trail.bars) = NumBars
    /\ Len(trail.fills) = Len(trail.trades)
    /\ signal.pending # None
    /\ signal.pending.row = NumBars

EndOfAlgorithm ==
    /\ pc = "idle"
    /\ pc' = IF TraceIsComplete THEN "traced" ELSE "raised"
    /\ UNCHANGED <<account, open, signal, executing, risk, trail, active, callback>>

Next ==
    \/ \E ticks \in Prices : OpenRow(ticks) \/ CloseRow(ticks)
    \/ Execute
    \/ OrderFilled
    \/ PartiallyFilled
    \/ OrderReturns
    \/ Misdelivered
    \/ EndOfAlgorithm

Spec == Init /\ [][Next]_vars

-----------------------------------------------------------------------------
(***************************************************************************)
(* Types.                                                                  *)
(***************************************************************************)
Pending == [row : 1 .. NumBars, weight : {0, TargetWeight}]

TypeOK ==
    /\ pc \in {"idle", "execute", "ordered", "close", "raised", "traced"}
    /\ account \in [cash : Int, quantity : Nat] /\ open \in Prices \cup {None}
    /\ signal.closes \in Seq(Prices) /\ signal.pending \in Pending \cup {None}
    /\ executing \in Pending \cup {None}
    /\ risk.peak >= risk.last_close /\ risk.reasons \subseteq LossReason
    /\ Len(trail.bars) <= NumBars /\ Len(trail.decisions) = Len(trail.intents)
    /\ active \in 1 .. Len(trail.intents) \cup {None}

(***************************************************************************)
(* "Mirror the local engine's integer target sizing" (main.py:434): on     *)
(* every account and open the run can reach, the fixture trades towards    *)
(* the quantity the engine's own code gives.                               *)
(***************************************************************************)
SizingMirrors ==
    pc = "execute" =>
        TargetQuantity(executing.weight)
            = TargetUnits(account, open, executing.weight, EquityAt(account, open))

(***************************************************************************)
(* The fixture's short list of vetoes decides as the engine's risk policy  *)
(* does on the same account and marks, but for one case: when a loss limit *)
(* is reached at the open the engine refuses every order, and the fixture  *)
(* still lets a sale through.                                              *)
(***************************************************************************)
VetoMirrors ==
    pc = "execute" /\ Change # 0 =>
        LET s == OpenSnapshot
            target  == TargetQuantity(executing.weight)
            reasons == EvaluateOrder(EffectivePolicy, OrderTo(target, account, open),
                          Snapshot(account, s.equity,
                                   [peak |-> s.peak, start_of_day |-> s.base], FALSE))
            vetoed  == Veto(executing.weight, Change) # {}
        IN  IF Change < 0 THEN reasons \subseteq LossReason /\ ~vetoed
            ELSE vetoed <=> reasons # {}

(***************************************************************************)
(* A filled buy leaves cash and a holding within the target it was sized   *)
(* for, although the fee LEAN charges is not the one that was estimated.   *)
(***************************************************************************)
FillsAreFunded ==
    /\ account.cash >= 0
    /\ callback # None /\ trail.intents[active].side = Buy =>
          MarketValue(account.quantity, open) * WeightScale
              <= executing.weight * EquityAt(account, open)

(***************************************************************************)
(* What is published is whole: every row was seen, every approved intent   *)
(* has its one fill, for its whole quantity and on the row after its       *)
(* signal, the last signal has none, and the fills, at their prices and    *)
(* fees, account for the cash and the holding of every trade.              *)
(***************************************************************************)
Published == pc = "traced"

CashOf(f) == (IF trail.intents[f.intent].side = Buy THEN -1 ELSE 1) * f.quantity * f.price - f.fee

TraceIsWhole ==
    Published =>
        /\ Len(trail.bars) = NumBars /\ signal.pending.row = NumBars
        /\ {trail.fills[i].intent : i \in DOMAIN trail.fills}
              = {i \in DOMAIN trail.intents : trail.decisions[i] = {}}
        /\ \A i, j \in DOMAIN trail.fills :
              i < j => trail.fills[i].intent < trail.fills[j].intent
        /\ \A i \in DOMAIN trail.fills :
              LET f == trail.fills[i]
                  t == trail.trades[i]
                  before == IF i = 1 THEN [cash |-> InitialCash, quantity |-> 0]
                            ELSE trail.trades[i - 1]
                  intent == trail.intents[f.intent]
              IN  /\ intent.signal = intent.row - 1 /\ f.quantity = intent.quantity
                  /\ t.cash = before.cash + CashOf(f)
                  /\ t.quantity = before.quantity
                        + (IF intent.side = Buy THEN f.quantity ELSE -f.quantity)
        /\ trail.trades # <<>> =>
              /\ account.cash = trail.trades[Len(trail.trades)].cash
              /\ account.quantity = trail.trades[Len(trail.trades)].quantity
=============================================================================
