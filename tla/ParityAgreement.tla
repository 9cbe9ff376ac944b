-------------------------- MODULE ParityAgreement --------------------------
(***************************************************************************)
(* The parity check as a whole: the LEAN fixture and the local engine run  *)
(* the same rows with the same moving average, parity/local.py and the     *)
(* fixture each write a trace, and parity/compare.py compares the two.     *)
(*                                                                         *)
(* The runs know nothing of each other, so nothing is lost by taking their *)
(* rows in turn.  LEAN may misbehave towards the fixture in every way      *)
(* ParityFixture knows; a run that ends in an error publishes no trace.    *)
(***************************************************************************)
EXTENDS ParityFixture, FiniteSets

CONSTANT MoneyTolerance   \* tolerances.money of the contract, in quanta

VARIABLES
    book, marks, pending, halt, bars, record, processingFailed, warned,
    step, bar, events, latching, barSnapshot, callSnapshot

local == <<book, marks, pending, halt, bars, record, processingFailed, warned,
           step, bar, events, latching, barSnapshot, callSnapshot>>

\* The local engine: no sink, no faults, and one bar to a day.
Engine == INSTANCE SimulationEngine WITH
    trail <- record, pc <- step, Weights <- {0, TargetWeight}, WarmupBars <- 0,
    HasSink <- FALSE, SinkFaults <- FALSE, StrategyFaults <- FALSE,
    RiskFaults <- FALSE, NoSignal <- None

Traces == INSTANCE TraceComparison WITH NoIntent <- None

AgreementInit == Init /\ Engine!Init

-----------------------------------------------------------------------------
\* What LEAN and the fixture do up to the close of a row, and at the end.
FixtureStep ==
    /\ step = "idle"
    /\ \/ \E ticks \in Prices : OpenRow(ticks)
       \/ Execute
       \/ OrderFilled
       \/ PartiallyFilled
       \/ OrderReturns
       \/ Misdelivered
       \/ EndOfAlgorithm
    /\ UNCHANGED local

\* The fixture closes the row, and the engine is given the row.
CloseBoth(ticks) ==
    /\ step = "idle" /\ CloseRow(ticks)
    /\ Engine!ReceiveBar
    /\ bar' = [open |-> open, close |-> ticks, day |-> Row]

\* MovingAverageStrategy.target_for_closes, of the whole history.
TargetForCloses ==
    LET closes == [i \in DOMAIN bars |-> bars[i].close]
    IN  IF Len(closes) < Slow THEN 0 ELSE Target(closes)

EngineStep ==
    /\ \/ Engine!EngineStep
       \/ Engine!StrategySignals /\ pending'.weight = TargetForCloses
    /\ UNCHANGED vars

AgreementNext == FixtureStep \/ (\E ticks \in Prices : CloseBoth(ticks)) \/ EngineStep

-----------------------------------------------------------------------------
(***************************************************************************)
(* The two traces, from lists of one shape: the fixture's own.             *)
(***************************************************************************)
Trace(points, intents, decisions, fills, trades, rejected, reasons, fees) ==
    LET last   == Len(points)
        asked  == \E i \in DOMAIN intents : intents[i].signal = last
        filled == \E i \in DOMAIN trades :
                     intents[fills[trades[i].fill].intent].signal = last
        Bar(p) == [exact |-> [halted |-> p.halted],
                   numeric |-> [cash |-> p.cash, quantity |-> p.quantity,
                                equity |-> p.equity, peak_equity |-> p.peak,
                                start_of_day_equity |-> p.start_of_day,
                                target_weight_for_next_bar |-> p.target]]
        Intent(x) == [exact |-> [signal_timestamp |-> x.signal,
                                 execution_timestamp |-> x.row, side |-> x.side],
                      numeric |-> [quantity |-> x.quantity, reference_price |-> x.open,
                                   target_weight |-> x.weight]]
        Decision(d) == [exact |-> [timestamp |-> d.row, intent_index |-> d.intent,
                                   reasons |-> d.reasons],
                        numeric |-> <<>>]
        Fill(f) == [exact |-> [intent_index |-> f.intent, timestamp |-> intents[f.intent].row,
                               side |-> intents[f.intent].side],
                    numeric |-> [quantity |-> f.quantity, execution_price |-> f.price,
                                 fee |-> f.fee]]
        Trade(t) == [exact |-> [fill_index |-> t.fill, signal_timestamp |->
                                   intents[fills[t.fill].intent].signal],
                     numeric |-> [resulting_cash |-> t.cash, resulting_quantity |-> t.quantity]]
    IN  [bars |-> [i \in DOMAIN points |-> Bar(points[i])],
         order_intents |-> [i \in DOMAIN intents |-> Intent(intents[i])],
         risk_decisions |-> [i \in DOMAIN decisions |-> Decision(decisions[i])],
         fills |-> [i \in DOMAIN fills |-> Fill(fills[i])],
         trades |-> [i \in DOMAIN trades |-> Trade(trades[i])],
         summary |->
            [exact |-> [number_of_fills |-> Len(fills), rejected_order_count |-> rejected,
                        risk_halt_triggered |-> reasons # {}, halt_reasons |-> reasons],
             numeric |-> [ending_equity |-> points[last].equity, total_fees_paid |-> fees]],
         final_bar |->
            [exact |-> [timestamp |-> last, creates_intent |-> asked, creates_fill |-> filled,
                        pending_signal_unfilled |-> ~asked /\ ~filled],
             numeric |-> [target_weight |-> points[last].target]]]

\* _build_trace
LeanTrace ==
    LET decisions == [i \in DOMAIN trail.decisions |->
                        [row |-> trail.intents[i].row, intent |-> i,
                         reasons |-> trail.decisions[i]]]
        fees[i \in 0 .. Len(trail.fills)] ==
            IF i = 0 THEN 0 ELSE fees[i - 1] + trail.fills[i].fee
    IN  Trace(trail.bars, trail.intents, decisions, trail.fills, trail.trades,
              Cardinality({i \in DOMAIN decisions : decisions[i].reasons # {}}),
              risk.reasons, fees[Len(trail.fills)])

\* The orders refused, in _normalize_result.
LocalRejected ==
    Cardinality({i \in DOMAIN record.decisions :
        record.decisions[i].reasons # {} /\ record.decisions[i].about = "order"})

\* _normalize_result
LocalTrace ==
    LET At(row) == CHOOSE i \in DOMAIN record.intents : record.intents[i].bar = row
        intents == [i \in DOMAIN record.intents |->
            LET x == record.intents[i]
            IN  [signal |-> x.signal_bar, row |-> x.bar, side |-> x.side,
                 quantity |-> x.quantity, open |-> bars[x.bar].open,
                 weight |-> record.points[x.signal_bar].target]]
        decisions == [i \in DOMAIN record.decisions |->
            LET d == record.decisions[i]
            IN  [row |-> d.bar, reasons |-> d.reasons,
                 intent |-> IF d.about = "order" THEN At(d.bar) ELSE None]]
        fills == [i \in DOMAIN record.fills |->
            LET f == record.fills[i]
            IN  [intent |-> At(f.bar), price |-> ExecutionPrice(f.ticks, f.side),
                 quantity |-> f.quantity, fee |-> f.fee]]
        trades == [i \in DOMAIN record.fills |->
            [fill |-> i, cash |-> record.fills[i].cash_after,
             quantity |-> record.fills[i].quantity_after]]
    IN  Trace(record.points, intents, decisions, fills, trades, LocalRejected,
              halt.reasons, book.fees)

Compared == pc = "traced" /\ step = "idle"
Found == Traces!Differences(LocalTrace, LeanTrace)

-----------------------------------------------------------------------------
(***************************************************************************)
(* Neither writer produces a trace that the check of internal consistency  *)
(* refuses, halts and refused orders included.                             *)
(***************************************************************************)
TracesAreAccepted ==
    Compared => Traces!Consistent(LocalTrace, NumBars) /\ Traces!Consistent(LeanTrace, NumBars)

(***************************************************************************)
(* Two implementations written apart, one in the engine and one in the     *)
(* LEAN algorithm, give traces without a difference on every sequence of   *)
(* rows that halts neither and on which both trade the same shares: the    *)
(* tolerance of money covers the fee LEAN takes on the open.               *)
(***************************************************************************)
SameShares ==
    \A i \in 1 .. NumBars : record.points[i].quantity = trail.bars[i].quantity

EnginesAgree == Compared /\ ~halt.active /\ ~Halted /\ SameShares => Found = {}

(***************************************************************************)
(* That fee moves the cash by a quantum, which can move a sizing across a  *)
(* whole share; it moves it by one share at the most, on every row before  *)
(* the first halt.                                                         *)
(***************************************************************************)
HoldingsStayClose ==
    \A i \in DOMAIN record.points :
        \/ record.points[i].halted \/ trail.bars[i].halted
        \/ Magnitude(record.points[i].quantity - trail.bars[i].quantity) <= 1

(***************************************************************************)
(* No halt passes the comparison, even one that both engines come to, and  *)
(* it is reported as what it is: the engine's decision on the portfolio    *)
(* has no counterpart in the fixture.                                      *)
(***************************************************************************)
HaltsAreSeen ==
    Compared /\ (halt.active \/ Halted) =>
        "rejection_and_halt_state" \in {Traces!Dimension(d) : d \in Found}
=============================================================================
