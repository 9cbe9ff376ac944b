------------------------ MODULE WalkForwardAlgorithm ------------------------
(***************************************************************************)
(* WalkForwardMovingAverageV1: one fold of the walk-forward protocol as    *)
(* LEAN runs it, from the warmup to the one observation it emits.  The     *)
(* engine calls the handlers one after another; which handler comes next,  *)
(* and with what, is up to the market (LeanMarket).                        *)
(***************************************************************************)
EXTENDS LeanMarket, LatchedRisk, TrailingSignal, FoldEvidence

CONSTANTS Fold, WarmupBars,
          Nothing           \* not yet known, not emitted

AlgorithmAssumption ==
    /\ WarmupBars \in Nat /\ InitialCash = StartingCapital
    /\ IsFold(Fold) /\ Window[Fold] = [start |-> FirstDay, end |-> LastDay]

VARIABLES
    algo,       \* the fields of the algorithm
    emitted     \* the observation written to the log, or Nothing

vars == <<market, algo, emitted>>

TypeOK ==
    /\ market.day \in 0 .. LastDay /\ market.at \in {"open", "close"}
    /\ market.mark \in Prices /\ market.cash \in Int /\ market.quantity \in Int
    /\ \A i \in DOMAIN market.orders : market.orders[i].left \in Int \ {0}
    /\ algo.status \in {"warming", "warm", "failed", "ended"}
    /\ Len(algo.closes) <= Slow
    /\ algo.first = Nothing <=> algo.last = Nothing
    /\ algo.maxDrawdown \in 0 .. 100
    /\ Reasons = HaltReasons /\ algo.guard.reasons \subseteq Reasons
    /\ emitted # Nothing <=> algo.status = "ended"

\* initialize, with an accepted parameter set.
Init ==
    /\ InitMarket
    /\ algo = [status |-> "warming", closes |-> <<>>, guard |-> FreshGuard(InitialCash),
               first |-> Nothing, last |-> Nothing, finalClose |-> FALSE,
               startingEquity |-> Nothing, benchmarkStart |-> Nothing,
               benchmarkEnd |-> Nothing, metricPeak |-> InitialCash, maxDrawdown |-> 0,
               fees |-> 0, orders |-> 0, fills |-> 0, rejected |-> 0]
    /\ emitted = Nothing

Running == algo.status \in {"warming", "warm"}

\* A RuntimeError in a handler ends the run; on_end_of_algorithm is not called.
Fails == algo' = [algo EXCEPT !.status = "failed"] /\ UNCHANGED <<market, emitted>>

\* _observe_metric_equity
Metered(a, e) ==
    LET peak == Larger(a.metricPeak, e)
    IN  [a EXCEPT !.metricPeak = peak,
                  !.maxDrawdown = Larger(@, FallPercent(peak, e))]

\* The evaluation state a completed bar sets on the first and on every bar.
\* (_next_open_is_within_evaluation fails at the last session.)
Seen(a, m) ==
    LET begun == IF a.first # Nothing THEN a
                 ELSE [a EXCEPT !.first = m.day, !.startingEquity = EquityOf(m),
                         !.benchmarkStart = m.mark, !.metricPeak = EquityOf(m)]
    IN  [Metered(begun, EquityOf(m)) EXCEPT !.last = m.day, !.benchmarkEnd = m.mark,
           !.finalClose = @ \/ m.day + 1 > LastDay]

\* A halt cancels what is open and sells nothing.
OnHalt(a, m) == IF Halted(a.guard) THEN Cancelled(m) ELSE m

-----------------------------------------------------------------------------
(* The handlers.                                                           *)

MarketOpens ==
    /\ Running /\ (market.day = FirstDay - 1 => algo.status = "warm")
    /\ \E price \in Prices : Open(price)
    /\ UNCHANGED <<algo, emitted>>

CancellationArrives == Running /\ Confirm /\ UNCHANGED <<algo, emitted>>

\* on_warmup_finished, before the first session of the evaluation.
WarmupFinished ==
    /\ algo.status = "warming" /\ market.day = FirstDay - 1 /\ market.at = "close"
    /\ IF Len(algo.closes) < WarmupBars THEN Fails
       ELSE algo' = [algo EXCEPT !.status = "warm"] /\ UNCHANGED <<market, emitted>>

\* on_data without a bar or with a fill-forward one: nothing.
NoBar ==
    /\ Running /\ market.at = "open"
    /\ market' = [market EXCEPT !.at = "close"]
    /\ UNCHANGED <<algo, emitted>>

\* on_data while is_warming_up.
WarmupBar ==
    /\ Running /\ market.at = "open" /\ market.day < FirstDay
    /\ \E close \in Prices :
         /\ market' = [market EXCEPT !.at = "close", !.mark = close]
         /\ algo' = [algo EXCEPT !.closes = Recent(Append(@, close))]
    /\ UNCHANGED emitted

\* submit_target: refused while an order is open, one being cancelled included.
MaySubmit(m, quantity) == quantity # 0 /\ m.orders = <<>>

\* on_data for an evaluation bar, after state, metric, window and guard: the
\* signal, and an order for the next open, unless that lies outside the fold.  A
\* target that would sell more than is held is an error.
Decide(a, m) ==
    LET target == IF Ready(a.closes) THEN Target(a.closes) ELSE 0
        quantity == OrderQuantityOf(m, target)
    IN  IF EquityOf(m) <= 0 THEN Fails
        ELSE IF Halted(a.guard)
        THEN algo' = a /\ market' = OnHalt(a, m) /\ UNCHANGED emitted
        ELSE IF ~Ready(a.closes) THEN Fails
        ELSE IF m.day + 1 > LastDay \/ ~MaySubmit(m, quantity)
        THEN algo' = a /\ market' = m /\ UNCHANGED emitted
        ELSE IF m.quantity + quantity < 0 THEN Fails
        ELSE /\ algo' = [a EXCEPT !.orders = @ + 1]
             /\ market' = Submitted(m, quantity)
             /\ UNCHANGED emitted

EvaluationBar ==
    /\ algo.status = "warm" /\ market.at = "open" /\ market.day >= FirstDay
    /\ \E close \in Prices :
         LET m == [market EXCEPT !.at = "close", !.mark = close]
             a == [Seen(algo, m) EXCEPT !.closes = Recent(Append(@, close)),
                     !.guard = CloseSession(@, m.day, EquityOf(m))]
         IN  Decide(a, m)

\* on_order_event, FILLED or PARTIALLY_FILLED.
Filled ==
    /\ Running /\ market.at = "open"
    /\ \E i \in Live, fee \in Fees : \E shares \in Part(i) :
         LET m == AfterFill(i, shares, fee)
             booked == [algo EXCEPT !.fills = @ + 1, !.fees = @ + fee]
             metered == IF algo.first = Nothing THEN booked ELSE Metered(booked, EquityOf(m))
             a == [metered EXCEPT !.guard = Observe(@, m.day, EquityOf(m))]
         IN  IF EquityOf(m) <= 0 THEN Fails
             ELSE algo' = a /\ market' = OnHalt(a, m) /\ UNCHANGED emitted

\* on_order_event, INVALID.
Rejected ==
    /\ Running /\ market.at = "open"
    /\ \E i \in Live : market' = AfterInvalid(i)
    /\ algo' = [algo EXCEPT !.rejected = @ + 1]
    /\ UNCHANGED emitted

\* The observation of the fold, from the state at the end.
Observation(a, m) ==
    LET total == Return(a.startingEquity, EquityOf(m))
        benchmark == Return(a.benchmarkStart, a.benchmarkEnd)
    IN  [protocol |-> "v1", fold |-> Fold, window |-> [start |-> FirstDay, end |-> LastDay],
         metrics |-> [startingEquity |-> a.startingEquity, endingEquity |-> EquityOf(m),
                      benchmarkStart |-> a.benchmarkStart, benchmarkEnd |-> a.benchmarkEnd,
                      totalReturn |-> total, benchmarkReturn |-> benchmark,
                      excessReturn |-> Minus(total, benchmark),
                      drawdown |-> Metered(a, EquityOf(m)).maxDrawdown,
                      fees |-> a.fees, orders |-> a.orders, fills |-> a.fills,
                      rejected |-> a.rejected],
         state |-> [completion |-> "completed", warmup |-> a.status = "warm",
                    finalClose |-> a.finalClose, reasons |-> a.guard.reasons,
                    halted |-> Halted(a.guard), first |-> a.first, last |-> a.last,
                    quantity |-> m.quantity,
                    position |-> IF m.quantity > 0 THEN "long" ELSE "cash"]]

Complete(a) == a.first # Nothing /\ a.finalClose

\* on_end_of_algorithm: open orders are cancelled; the observation is emitted
\* only from a complete state with a position that is not short.
EndOfAlgorithm ==
    /\ algo.status = "warm" /\ market.at = "close" /\ market.day = LastDay
    /\ market' = Cancelled(market)
    /\ IF Complete(algo) /\ Equity > 0 /\ market.quantity >= 0
       THEN /\ emitted' = Observation(algo, market)
            /\ algo' = [algo EXCEPT !.status = "ended",
                          !.maxDrawdown = Metered(algo, Equity).maxDrawdown]
       ELSE algo' = [algo EXCEPT !.status = "failed"] /\ UNCHANGED emitted

Next ==
    \/ MarketOpens \/ CancellationArrives
    \/ WarmupFinished \/ NoBar \/ WarmupBar \/ EvaluationBar
    \/ Filled \/ Rejected
    \/ EndOfAlgorithm

Spec == Init /\ [][Next]_vars

-----------------------------------------------------------------------------
\* No sequence of late, partial and repeated fills makes the position short:
\* the one-open-order rule of submit_target is what the check of the quantity
\* at submission relies on.
NeverShort == market.quantity >= 0

\* A latched halt freezes the position for the rest of the fold: no order that
\* was still open is filled after it, none is submitted, nothing is liquidated.
HaltFreezesPosition ==
    [][Halted(algo.guard) => /\ market'.quantity = market.quantity
                             /\ Len(market'.orders) <= Len(market.orders)
                             /\ algo'.guard.reasons = algo.guard.reasons]_vars

\* The drawdown the observation reports is metered apart from the guard, from
\* the first close on; yet a reported drawdown at the limit means a halt, and a
\* halt for the drawdown is one the report shows.
ReportedDrawdownHalts ==
    /\ algo.maxDrawdown >= DrawdownLimit => Halted(algo.guard)
    /\ "max_drawdown" \in algo.guard.reasons => algo.maxDrawdown >= DrawdownLimit

\* What the algorithm emits is what the extraction of the repository accepts.
EmittedIsAccepted == emitted # Nothing => Accepted(emitted)

\* An outage at the end of the fold emits nothing: an observation ends with the
\* close of the last session.
OutageEmitsNothing == emitted # Nothing => emitted.state.last = LastDay
=============================================================================
