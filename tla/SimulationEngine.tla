-------------------------- MODULE SimulationEngine --------------------------
(***************************************************************************)
(* backtesting/engine.py: the engine that batch backtests and the paper    *)
(* replay share.  process_bar rolls the day, marks the portfolio at the    *)
(* open, trades the target left by the previous bar, marks the close, asks *)
(* the strategy for the next target and commits; only then are the events  *)
(* of the bar delivered.  An exception anywhere before the commit restores *)
(* the state the bar found and ends the engine.                            *)
(*                                                                         *)
(* The strategy and the event sink are code of the caller: while they run  *)
(* they may raise, or change the engine they hold a reference to.          *)
(*                                                                         *)
(* Every bar is chosen when it is received, which is the same as fixing    *)
(* the validated sequence beforehand: nothing looks at a later bar.        *)
(***************************************************************************)
EXTENDS OrderProposal, Sequences

CONSTANTS
    InitialCash,     \* config.initial_cash, in quanta
    NumBars,         \* the length of the validated bar sequence
    Prices,          \* what a bar may open or close at, in ticks
    Weights,         \* the target weights the strategy may signal
    WarmupBars,      \* config.warmup_bars
    HasSink,         \* an event sink is installed
    SinkFaults,      \* ... and may raise or change the engine
    StrategyFaults,  \* the strategy may raise or change the engine
    RiskFaults,      \* an evaluation of the risk policy may raise
    NoSignal         \* _pending_signal is None

ASSUME EngineAssumption ==
    /\ InitialCash \in Nat \ {0}
    /\ NumBars \in Nat \ {0}
    /\ Prices \subseteq Nat \ {0}
    /\ Prices # {}
    /\ Weights \subseteq Fraction
    /\ WarmupBars \in Nat
    /\ HasSink \in BOOLEAN
    /\ SinkFaults \in BOOLEAN
    /\ StrategyFaults \in BOOLEAN
    /\ RiskFaults \in BOOLEAN
    /\ NoSignal \notin [bar : Nat, weight : Fraction]

VARIABLES
    book,      \* [cash, quantity, fees, slippage]: the ledger
    marks,     \* [peak, previous_close, start_of_day, day]
    pending,   \* the target to trade at the next open, or NoSignal
    halt,      \* [active, bar, reasons]
    bars,      \* _history
    trail,     \* [intents, decisions, fills, points]: what the result reports
    processingFailed,
    warned,    \* the event-sink warning has been recorded
    pc,        \* where process_bar, or a delivery, stands
    bar,       \* the bar being processed
    events,    \* _event_buffer, then the events still to deliver
    latching,  \* activate_kill_switch has expired the signal but not latched yet
    barSnapshot,  \* protected, in process_bar
    callSnapshot  \* protected, in _call_strategy and _deliver_event

vars == <<book, marks, pending, halt, bars, trail, processingFailed, warned,
          pc, bar, events, latching, barSnapshot, callSnapshot>>

\* _capture_strategy_protected_state
Protected == [book |-> book, marks |-> marks, pending |-> pending,
              halt |-> halt, bars |-> bars, trail |-> trail]

\* A mutant of Restore that leaves the halt latch as the caller's code set it.
RestoreButHalt(snapshot) ==
    /\ book' = snapshot.book
    /\ marks' = snapshot.marks
    /\ pending' = snapshot.pending
    /\ halt' = halt
    /\ bars' = snapshot.bars
    /\ trail' = snapshot.trail

\* A mutant of Restore that restores the fills but not their intents.
RestoreButIntents(snapshot) ==
    /\ book' = snapshot.book
    /\ marks' = snapshot.marks
    /\ pending' = snapshot.pending
    /\ halt' = snapshot.halt
    /\ bars' = snapshot.bars
    /\ trail' = [snapshot.trail EXCEPT !.intents = trail.intents]

\* _restore_strategy_protected_state
Restore(snapshot) ==
    /\ book' = snapshot.book
    /\ marks' = snapshot.marks
    /\ pending' = snapshot.pending
    /\ halt' = snapshot.halt
    /\ bars' = snapshot.bars
    /\ trail' = snapshot.trail

\* _strategy_state_changed
Changed == Protected # callSnapshot

NotHalted == [active |-> FALSE, bar |-> 0, reasons |-> {}]

Init ==
    /\ book = [cash |-> InitialCash, quantity |-> 0, fees |-> 0, slippage |-> 0]
    /\ marks = [peak |-> InitialCash, previous_close |-> InitialCash,
                start_of_day |-> InitialCash, day |-> 0]
    /\ pending = NoSignal
    /\ halt = NotHalted
    /\ bars = <<>>
    /\ trail = [intents |-> <<>>, decisions |-> <<>>, fills |-> <<>>, points |-> <<>>]
    /\ processingFailed = FALSE
    /\ warned = FALSE
    /\ pc = "idle"
    /\ bar = LET price == CHOOSE price \in Prices : TRUE
             IN  [open |-> price, close |-> price, day |-> 1]
    /\ events = <<>>
    /\ latching = FALSE
    /\ barSnapshot = Protected
    /\ callSnapshot = Protected

-----------------------------------------------------------------------------
\* _emit: nothing is built when no sink is installed.
Emitted(kinds, number) ==
    IF HasSink
      THEN [i \in 1 .. Len(kinds) |-> [kind |-> kinds[i], bar |-> number]]
      ELSE <<>>

\* A mutant of Outcomes: the failure is recorded under a reason of no taxonomy.
UntypedOutcomes(reasons) ==
    {reasons} \cup IF RiskFaults THEN {{"exception"}} ELSE {}

\* What a call of the risk policy may answer: its reasons, or, when it raises,
\* the one reason the engine records instead.
Outcomes(reasons) ==
    {reasons} \cup IF RiskFaults THEN {{"risk_evaluation_error"}} ELSE {}

\* A mutant of HaltOutcomes: the drawdown is measured from the start of the day.
HaltOutcomesOfDay(ledger, equity, mark) ==
    IF halt.active THEN {{}}
    ELSE Outcomes(PortfolioHalt(EffectivePolicy,
            Snapshot(ledger, equity, [mark EXCEPT !.peak = mark.start_of_day],
                     FALSE)))

\* The answers of _check_and_latch_portfolio_halt: none once halted.
HaltOutcomes(ledger, equity, mark) ==
    IF halt.active THEN {{}}
    ELSE Outcomes(PortfolioHalt(EffectivePolicy, Snapshot(ledger, equity, mark, FALSE)))

\* _latch_halt
Latched(reasons, number) ==
    IF reasons = {} \/ halt.active THEN halt
    ELSE [active |-> TRUE, bar |-> number, reasons |-> reasons]

HaltDecision(reasons, number) ==
    IF reasons = {} THEN <<>>
    ELSE <<[about |-> "portfolio", bar |-> number, reasons |-> reasons]>>

HaltKinds(reasons) == IF reasons = {} THEN <<>> ELSE <<"risk_rejected">>

\* The except clause of process_bar.
BarFails ==
    /\ Restore(barSnapshot)
    /\ processingFailed' = TRUE
    /\ events' = <<>>
    /\ pc' = "idle"
    /\ UNCHANGED <<warned, bar, latching, barSnapshot, callSnapshot>>

-----------------------------------------------------------------------------
(***************************************************************************)
(* _validate_event refuses the bar: it is not the next one of the          *)
(* validated sequence, or the sequence is exhausted.                       *)
(***************************************************************************)
RefuseBar ==
    /\ pc = "idle"
    /\ ~processingFailed
    /\ processingFailed' = TRUE
    /\ barSnapshot' = Protected
    /\ UNCHANGED <<book, marks, pending, halt, bars, trail, warned, pc, bar,
                   events, latching, callSnapshot>>

\* Timestamps ascend, so the date stays or moves on; how far does not matter.
NextDays == {day \in 1 .. NumBars : day \in marks.day .. marks.day + 1}

\* What a day's loss is measured from: the last close of the date before.
StartOfDay(day) ==
    IF day # marks.day THEN marks.previous_close ELSE marks.start_of_day

PeakAfter(equity) == Larger(marks.peak, equity)

\* The first half of _process_bar: the day rolls and the open is marked.
ReceiveBar ==
    /\ pc = "idle"
    /\ ~processingFailed
    /\ Len(bars) < NumBars
    /\ \E open \in Prices, close \in Prices, day \in NextDays :
        LET number == Len(bars) + 1
            equity == EquityAt(book, open)
            rolled == [marks EXCEPT !.day = day, !.start_of_day = StartOfDay(day),
                                    !.peak = PeakAfter(equity)]
        IN  /\ bar' = [open |-> open, close |-> close, day |-> day]
            /\ marks' = rolled
            /\ \E reasons \in HaltOutcomes(book, equity, rolled) :
                /\ halt' = Latched(reasons, number)
                /\ trail' = [trail EXCEPT
                               !.decisions = @ \o HaltDecision(reasons, number)]
                /\ events' = Emitted(<<"bar_received">> \o HaltKinds(reasons), number)
    /\ barSnapshot' = Protected
    /\ pc' = "opened"
    /\ UNCHANGED <<book, pending, bars, processingFailed, warned, latching, callSnapshot>>

-----------------------------------------------------------------------------
(***************************************************************************)
(* _apply_pending_target.  The search's result is a number of units of its *)
(* interval; \E over the interval says so.                                 *)
(***************************************************************************)
TargetQuantities ==
    LET equity == EquityAt(book, bar.open)
    IN  {units \in 0 .. Larger(book.quantity,
                               RawTargetUnits(bar.open, pending.weight, equity)) :
            units = TargetUnits(book, bar.open, pending.weight, equity)}

Intent(order) ==
    [signal_bar |-> pending.bar, bar |-> Len(bars) + 1,
     side |-> order.side, quantity |-> order.quantity]

OrderDecision(reasons) ==
    [about |-> "order", bar |-> Len(bars) + 1, reasons |-> reasons]

CashAfter(order) ==
    IF order.side = Buy
      THEN book.cash - MoneyOf(order.notional) - order.estimated_fee
      ELSE book.cash + MoneyOf(order.notional) - order.estimated_fee

\* The ledger once the order is filled at its execution price.
Filled(order) ==
    LET cost == order.quantity * Magnitude(order.execution_price - order.reference_price)
    IN  [cash |-> CashAfter(order),
         quantity |-> IF order.side = Buy
                        THEN book.quantity + order.quantity
                        ELSE book.quantity - order.quantity,
         fees |-> book.fees + order.estimated_fee,
         slippage |-> book.slippage + MoneyOf(cost)]

FillOf(order) ==
    [signal_bar |-> pending.bar, weight |-> pending.weight, bar |-> Len(bars) + 1,
     ticks |-> bar.open, side |-> order.side, quantity |-> order.quantity,
     fee |-> order.estimated_fee,
     cash_after |-> Filled(order).cash, quantity_after |-> Filled(order).quantity]

\* The two RuntimeErrors: the policy approved what the ledger cannot book.
Unbookable(order) ==
    \/ order.side = Sell /\ order.quantity > book.quantity
    \/ Filled(order).cash < 0
    \/ Filled(order).quantity < 0

\* There is no pending target, or the open latched a halt.
SkipTarget ==
    /\ pc = "opened"
    /\ pending = NoSignal \/ halt.active
    /\ pc' = "executed"
    /\ UNCHANGED <<book, marks, pending, halt, bars, trail, processingFailed,
                   warned, bar, events, latching, barSnapshot, callSnapshot>>

\* The holding is the target: no order.
HoldTarget ==
    /\ pc = "opened"
    /\ pending # NoSignal
    /\ ~halt.active
    /\ book.quantity \in TargetQuantities
    /\ pc' = "executed"
    /\ UNCHANGED <<book, marks, pending, halt, bars, trail, processingFailed,
                   warned, bar, events, latching, barSnapshot, callSnapshot>>

\* What evaluate_order may answer to the order.
OrderOutcomes(order) ==
    Outcomes(EvaluateOrder(EffectivePolicy, order,
                Snapshot(book, EquityAt(book, bar.open), marks, halt.active)))

RejectOrder ==
    /\ pc = "opened"
    /\ pending # NoSignal
    /\ ~halt.active
    /\ \E target \in TargetQuantities \ {book.quantity} :
        LET order == OrderTo(target, book, bar.open)
        IN  \E reasons \in OrderOutcomes(order) \ {{}} :
                trail' = [trail EXCEPT !.intents = Append(@, Intent(order)),
                                       !.decisions = Append(@, OrderDecision(reasons))]
    /\ events' = events \o Emitted(<<"intent_created", "risk_rejected">>, Len(bars) + 1)
    /\ pc' = "executed"
    /\ UNCHANGED <<book, marks, pending, halt, bars, processingFailed, warned,
                   bar, latching, barSnapshot, callSnapshot>>

\* Approved and booked; the open is marked again after the fill, the peak is not.
BookFill(order) ==
    LET ledger == Filled(order)
    IN  \E reasons \in HaltOutcomes(ledger, EquityAt(ledger, bar.open), marks) :
            /\ book' = ledger
            /\ halt' = Latched(reasons, Len(bars) + 1)
            /\ trail' =
                [trail EXCEPT
                    !.intents = Append(@, Intent(order)),
                    !.decisions = Append(@, OrderDecision({}))
                                     \o HaltDecision(reasons, Len(bars) + 1),
                    !.fills = Append(@, FillOf(order))]
            /\ events' = events \o Emitted(
                    <<"intent_created", "risk_accepted", "fill_created">>
                        \o HaltKinds(reasons), Len(bars) + 1)
            /\ pc' = "executed"
            /\ UNCHANGED <<marks, pending, bars, processingFailed, warned, bar,
                           latching, barSnapshot, callSnapshot>>

FillOrder ==
    /\ pc = "opened"
    /\ pending # NoSignal
    /\ ~halt.active
    /\ \E target \in TargetQuantities \ {book.quantity} :
        LET order == OrderTo(target, book, bar.open)
        IN  /\ {} \in OrderOutcomes(order)
            /\ IF Unbookable(order) THEN BarFails ELSE BookFill(order)

-----------------------------------------------------------------------------
\* A mutant of NeedsFlatSignal: a halted engine still asks the strategy.
NeedsFlatInWarmup(count, halted) == count <= WarmupBars

\* The strategy is not asked before the warm-up is over, nor once halted.
NeedsFlatSignal(count, halted) == count <= WarmupBars \/ halted

\* The close is marked and the bar joins the history the strategy will see.
MarkClose ==
    /\ pc = "executed"
    /\ LET number == Len(bars) + 1
           equity == EquityAt(book, bar.close)
           marked == [marks EXCEPT !.peak = PeakAfter(equity)]
       IN  /\ marks' = marked
           /\ \E reasons \in HaltOutcomes(book, equity, marked) :
                /\ halt' = Latched(reasons, number)
                /\ trail' = [trail EXCEPT
                               !.decisions = @ \o HaltDecision(reasons, number)]
                /\ events' = events \o Emitted(HaltKinds(reasons), number)
           /\ bars' = Append(bars, bar)
           /\ pc' = IF NeedsFlatSignal(number, halt'.active) THEN "flat" ELSE "strategy"
    /\ UNCHANGED <<book, pending>>
    /\ callSnapshot' = Protected'
    /\ UNCHANGED <<processingFailed, warned, bar, latching, barSnapshot>>

\* A mutant of NextSignal: an unchanged target keeps the signal it has.
UnrefreshedSignal(number, weight) ==
    IF pending # NoSignal /\ pending.weight = weight
      THEN pending
      ELSE [bar |-> number, weight |-> weight]

NextSignal(number, weight) == [bar |-> number, weight |-> weight]

\* The last part of _process_bar: the signal waits for the next open.
Commit(weight) ==
    LET number == Len(bars)
        equity == EquityAt(book, bar.close)
    IN  /\ pending' = NextSignal(number, weight)
        /\ marks' = [marks EXCEPT !.previous_close = equity]
        /\ trail' = [trail EXCEPT !.points = Append(@,
                [equity |-> equity, cash |-> book.cash, quantity |-> book.quantity,
                 peak |-> marks.peak, start_of_day |-> marks.start_of_day,
                 halted |-> halt.active, target |-> weight])]
        /\ events' = events \o Emitted(<<"signal_generated", "portfolio_updated">>, number)
        /\ pc' = "deliver"
        /\ UNCHANGED <<book, halt, bars, processingFailed, warned, bar, latching,
                       barSnapshot, callSnapshot>>

CommitFlat == pc = "flat" /\ Commit(0)

StrategySignals ==
    /\ pc = "strategy"
    /\ ~Changed
    /\ \E weight \in Weights : Commit(weight)

\* It raised, changed protected state, or its signal does not match the bar.
StrategyFails ==
    /\ pc = "strategy"
    /\ StrategyFaults
    /\ BarFails

(***************************************************************************)
(* What caller code may do to the engine it runs inside of: an amount, a   *)
(* pending target or the halt latch stand for every protected field.       *)
(***************************************************************************)
Tamper ==
    /\ ~Changed
    /\ \/ /\ book' = [book EXCEPT !.cash = @ + 1]
          /\ UNCHANGED <<pending, halt>>
       \/ /\ pending # NoSignal
          /\ pending' = NoSignal
          /\ UNCHANGED <<book, halt>>
       \/ /\ halt' = IF halt.active
                       THEN NotHalted
                       ELSE [active |-> TRUE, bar |-> Len(bars), reasons |-> {"kill_switch"}]
          /\ UNCHANGED <<book, pending>>
    /\ UNCHANGED <<marks, bars, trail, processingFailed, warned, pc, bar, events,
                   latching, barSnapshot, callSnapshot>>

StrategyTampers == pc = "strategy" /\ StrategyFaults /\ Tamper

-----------------------------------------------------------------------------
(***************************************************************************)
(* The delivery of committed events, one call of the sink at a time.       *)
(***************************************************************************)
CallSink ==
    /\ pc = "deliver"
    /\ events # <<>>
    /\ callSnapshot' = Protected
    /\ pc' = "sink"
    /\ UNCHANGED <<book, marks, pending, halt, bars, trail, processingFailed,
                   warned, bar, events, latching, barSnapshot>>

SinkTampers == pc = "sink" /\ SinkFaults /\ Tamper

\* A mutant of SinkReturns: an event whose delivery raised is delivered again.
SinkRetries ==
    /\ pc = "sink"
    /\ \E raised \in IF SinkFaults THEN BOOLEAN ELSE {FALSE} :
        /\ warned' = (warned \/ raised \/ Changed)
        /\ events' = IF raised THEN events ELSE Tail(events)
    /\ Restore(callSnapshot)
    /\ pc' = "deliver"
    /\ UNCHANGED <<processingFailed, bar, latching, barSnapshot, callSnapshot>>

\* The call is over: whatever it changed is rolled back, and noted once.
SinkReturns ==
    /\ pc = "sink"
    /\ \E raised \in IF SinkFaults THEN BOOLEAN ELSE {FALSE} :
        warned' = (warned \/ raised \/ Changed)
    /\ Restore(callSnapshot)
    /\ events' = Tail(events)
    /\ pc' = "deliver"
    /\ UNCHANGED <<processingFailed, bar, latching, barSnapshot, callSnapshot>>

\* activate_kill_switch, after expire_pending_signal has returned.
LatchKillSwitch ==
    /\ pc = "deliver"
    /\ events = <<>>
    /\ latching
    /\ halt' = Latched({"kill_switch"}, Len(bars))
    /\ events' = IF halt.active \/ bars = <<>> THEN <<>>
                 ELSE Emitted(<<"risk_rejected">>, Len(bars))
    /\ latching' = FALSE
    /\ UNCHANGED <<book, marks, pending, bars, trail, processingFailed, warned,
                   pc, bar, barSnapshot, callSnapshot>>

Return ==
    /\ pc = "deliver"
    /\ events = <<>>
    /\ ~latching
    /\ pc' = "idle"
    /\ UNCHANGED <<book, marks, pending, halt, bars, trail, processingFailed,
                   warned, bar, events, latching, barSnapshot, callSnapshot>>

\* expire_pending_signal
Expire ==
    /\ pc = "idle"
    /\ pending' = NoSignal
    /\ events' = IF pending = NoSignal THEN <<>>
                 ELSE Emitted(<<"pending_signal_expired">>, Len(bars))
    /\ pc' = "deliver"
    /\ UNCHANGED <<book, marks, halt, bars, trail, processingFailed, warned, bar,
                   barSnapshot, callSnapshot>>

ExpirePendingSignal == pending # NoSignal /\ Expire /\ UNCHANGED latching

ActivateKillSwitch == Expire /\ latching' = TRUE

-----------------------------------------------------------------------------
\* What the engine does of itself once it has been called.
EngineStep ==
    \/ SkipTarget
    \/ HoldTarget
    \/ RejectOrder
    \/ FillOrder
    \/ MarkClose
    \/ CommitFlat
    \/ CallSink
    \/ LatchKillSwitch
    \/ Return

\* The calls of the engine into the caller's code come back.
CallReturns == StrategySignals \/ StrategyFails \/ SinkReturns

Next ==
    \/ ReceiveBar
    \/ RefuseBar
    \/ ExpirePendingSignal
    \/ ActivateKillSwitch
    \/ EngineStep
    \/ CallReturns
    \/ StrategyTampers
    \/ SinkTampers

(***************************************************************************)
(* Nothing obliges the caller to hand over another bar; once it calls, the *)
(* engine runs to the end of the call, provided that the strategy and the  *)
(* sink return.                                                            *)
(***************************************************************************)
Spec == Init /\ [][Next]_vars /\ WF_vars(EngineStep) /\ WF_vars(CallReturns)

-----------------------------------------------------------------------------
(***************************************************************************)
(* Properties.  They speak of the committed state: what remains if the     *)
(* call under way fails.                                                   *)
(***************************************************************************)
InBar == pc \in {"opened", "executed", "flat", "strategy"}

Committed == IF InBar THEN barSnapshot
             ELSE IF pc = "sink" THEN callSnapshot
             ELSE Protected

Amount == Int

\* What each part of the protected state may hold.
Ledger == [cash : Nat, quantity : Nat, fees : Amount, slippage : Amount]
MarkRecord == [peak : Amount, previous_close : Amount, start_of_day : Amount, day : Nat]
SignalRecord == [bar : Nat, weight : Fraction]
HaltRecord == [active : BOOLEAN, bar : Nat, reasons : SUBSET Reason]
BarRecord == [open : Prices, close : Prices, day : Nat]
IntentRecord == [signal_bar : Nat, bar : Nat, side : Sides, quantity : Nat]
DecisionRecord == [about : {"order", "portfolio"}, bar : Nat, reasons : SUBSET Reason]
FillRecord == [signal_bar : Nat, weight : Fraction, bar : Nat, ticks : Nat,
               side : Sides, quantity : Nat, fee : Amount, cash_after : Nat,
               quantity_after : Nat]
PointRecord == [equity : Amount, cash : Nat, quantity : Nat, peak : Amount,
                start_of_day : Amount, halted : BOOLEAN, target : Fraction]
Trail == [intents : Seq(IntentRecord), decisions : Seq(DecisionRecord),
          fills : Seq(FillRecord), points : Seq(PointRecord)]

ProtectedState ==
    [book : Ledger, marks : MarkRecord, pending : SignalRecord \cup {NoSignal},
     halt : HaltRecord, bars : Seq(BarRecord), trail : Trail]

EventKind == {"bar_received", "intent_created", "risk_accepted", "risk_rejected",
              "fill_created", "signal_generated", "portfolio_updated",
              "pending_signal_expired"}

EventRecord == [kind : EventKind, bar : Nat]

TypeOK ==
    /\ Protected \in ProtectedState
    /\ barSnapshot \in ProtectedState
    /\ callSnapshot \in ProtectedState
    /\ processingFailed \in BOOLEAN
    /\ warned \in BOOLEAN
    /\ pc \in {"idle", "opened", "executed", "flat", "strategy", "deliver", "sink"}
    /\ bar \in BarRecord
    /\ events \in Seq(EventRecord)
    /\ latching \in BOOLEAN

(***************************************************************************)
(* "approved fill violated cash or long-only invariants" and "risk engine  *)
(* approved a short sale" are never raised: whatever the risk policy       *)
(* approves, the ledger can book, to the last rounded fee.                 *)
(***************************************************************************)
PolicyGuardsLedger == [][pc = "opened" => ~processingFailed']_vars

(***************************************************************************)
(* An order executes at the open of the bar right after the one whose      *)
(* signal it follows: no signal is used late, and none looks ahead.        *)
(***************************************************************************)
NextBarOpen ==
    \A i \in DOMAIN Committed.trail.intents :
        Committed.trail.intents[i].bar = Committed.trail.intents[i].signal_bar + 1

(***************************************************************************)
(* Once halted the engine proposes no order, and the only target it can    *)
(* still hold is flat: the latch survives bars, failures and sinks.        *)
(***************************************************************************)
HaltFreezes ==
    LET s == Committed
    IN  s.halt.active =>
            /\ \A i \in DOMAIN s.trail.intents : s.trail.intents[i].bar <= s.halt.bar
            /\ s.pending = NoSignal \/ s.pending.weight = 0

(***************************************************************************)
(* No bar closes beyond a loss limit with the engine still trading: a      *)
(* breach at a close has latched the halt by the time it is on the curve.  *)
(***************************************************************************)
BreachLatches ==
    \A i \in DOMAIN Committed.trail.points :
        LET point == Committed.trail.points[i]
        IN  \/ point.halted
            \/ LossLimits(EffectivePolicy,
                          [equity |-> point.equity, peak_equity |-> point.peak,
                           start_of_day_equity |-> point.start_of_day]) = {}

(***************************************************************************)
(* After its costs, a fill leaves the holding at or under the target       *)
(* weight of the signal, at the open it traded on.                         *)
(***************************************************************************)
PostCostTarget ==
    \A i \in DOMAIN Committed.trail.fills :
        LET fill == Committed.trail.fills[i]
            value == MarketValue(fill.quantity_after, fill.ticks)
        IN  value * WeightScale <= fill.weight * (fill.cash_after + value)

(***************************************************************************)
(* The daily loss of every bar is measured from the last close of the date *)
(* before its own, however many bars the date has.                         *)
(***************************************************************************)
DailyLossBase ==
    LET s == Committed
        FirstOfDay(i) == CHOOSE j \in 1 .. i :
                            /\ s.bars[j].day = s.bars[i].day
                            /\ j = 1 \/ s.bars[j - 1].day # s.bars[i].day
    IN  \A i \in DOMAIN s.trail.points :
            s.trail.points[i].start_of_day =
                IF FirstOfDay(i) = 1 THEN InitialCash
                ELSE s.trail.points[FirstOfDay(i) - 1].equity

(***************************************************************************)
(* The peak the drawdown is measured from covers every open and every      *)
(* close so far, and never falls.                                          *)
(***************************************************************************)
PeakCovers ==
    LET points == Committed.trail.points
    IN  \A i \in DOMAIN points :
            /\ points[i].peak >= InitialCash
            /\ \A j \in 1 .. i : /\ points[i].peak >= points[j].equity
                                 /\ points[i].peak >= points[j].peak

(***************************************************************************)
(* What the engine claims of an order always agrees with what the policy   *)
(* derives again: no order it sizes is ever refused as inconsistent, as    *)
(* levered, short or duplicate, or for a state of the portfolio that the   *)
(* check at the open had to catch before.                                  *)
(***************************************************************************)
OrdersAreConsistent ==
    \A i \in DOMAIN Committed.trail.decisions :
        LET decision == Committed.trail.decisions[i]
        IN  decision.about = "order" => decision.reasons \cap EngineFault = {}

\* The records of a sequence are, one by one and in order, of the same bars as
\* the chosen entries of a log.
Answers(records, log, chosen) ==
    \E at \in [DOMAIN records -> chosen] :
        /\ \A i, j \in DOMAIN records : i < j => at[i] < at[j]
        /\ \A k \in chosen : \E i \in DOMAIN records : at[i] = k
        /\ \A i \in DOMAIN records : log[at[i]].bar = records[i].bar

OnOrders(decisions) == {k \in DOMAIN decisions : decisions[k].about = "order"}

Approvals(decisions) == {k \in OnOrders(decisions) : decisions[k].reasons = {}}

(***************************************************************************)
(* Every intent has one decision on it, in the same order; every approved  *)
(* one has its fill and no other does, whichever bars were rolled back.    *)
(***************************************************************************)
AuditComplete ==
    LET t == Committed.trail
    IN  /\ Answers(t.intents, t.decisions, OnOrders(t.decisions))
        /\ Answers(t.fills, t.decisions, Approvals(t.decisions))

(***************************************************************************)
(* The sink hears of a bar only once it is committed, and of a fill only   *)
(* when the ledger has it: no event of a rolled back bar gets out.         *)
(***************************************************************************)
EventsAreCommitted ==
    pc = "sink" =>
        LET event == Head(events)
        IN  /\ event.bar <= Len(Committed.bars)
            /\ event.kind = "fill_created" =>
                    \E i \in DOMAIN Committed.trail.fills :
                        Committed.trail.fills[i].bar = event.bar

(***************************************************************************)
(* The audit trail under rollbacks: every intent has its decision and      *)
(* every approved one its fill, and the sink is told of nothing that the   *)
(* trail does not keep.                                                    *)
(***************************************************************************)
AuditHolds == AuditComplete /\ EventsAreCommitted

\* A call of the engine ends, whatever the strategy and the sink do.
CallEnds == pc # "idle" ~> pc = "idle"

-----------------------------------------------------------------------------
(***************************************************************************)
(* The engine implements its contract: seen from outside, where a call     *)
(* under way shows what its failure would leave, bars are atomic, halts    *)
(* last, and nothing a strategy or a sink does to the engine stays.        *)
(***************************************************************************)
Contract == INSTANCE EngineContract WITH
    Bars <- NumBars,
    Warmup <- WarmupBars,
    Targets <- Weights,
    Holdings <- [cash : Nat, quantity : Nat],
    Initial <- [cash |-> InitialCash, quantity |-> 0],
    Nothing <- NoSignal,
    processed <- Len(Committed.bars),
    holding <- [cash |-> Committed.book.cash, quantity |-> Committed.book.quantity],
    signal <- Committed.pending,
    halted <- Committed.halt.active,
    failed <- processingFailed

ImplementsContract == Contract!ContractSpec
=============================================================================
