------------------------- MODULE BaselineAlgorithm -------------------------
(***************************************************************************)
(* MovingAverageBaseline as LEAN runs it.  It differs from the walk-       *)
(* forward algorithm in what a halt does: the whole position is sold at    *)
(* the next open, and asked for again at every bar until it is gone.       *)
(***************************************************************************)
EXTENDS LeanMarket, LatchedRisk, TrailingSignal

VARIABLE algo   \* the fields of the algorithm

vars == <<market, algo>>

TypeOK ==
    /\ market.day \in 0 .. LastDay /\ market.at \in {"open", "close"}
    /\ market.mark \in Prices /\ market.cash \in Int /\ market.quantity \in Int
    /\ \A i \in DOMAIN market.orders : market.orders[i].left \in Int \ {0}
    /\ algo.status \in {"running", "over"}
    /\ Len(algo.closes) <= Slow /\ algo.last \in 0 .. LastDay
    /\ algo.guard.reasons \subseteq Reasons /\ algo.liquidate \in BOOLEAN

\* initialize, with an accepted configuration.
Init ==
    /\ InitMarket
    /\ algo = [status |-> "running", closes |-> <<>>, last |-> 0,
               guard |-> FreshGuard(InitialCash), liquidate |-> FALSE]

Running == algo.status = "running"

MarketOpens == Running /\ (\E price \in Prices : Open(price)) /\ UNCHANGED algo
CancellationArrives == Running /\ Confirm /\ UNCHANGED algo

\* on_data without a bar or with a fill-forward one: nothing.
NoBar ==
    /\ Running /\ market.at = "open"
    /\ market' = [market EXCEPT !.at = "close"]
    /\ UNCHANGED algo

\* submit_target: refused while an order is open, one being cancelled included.
\* (What it asks for is never below what is held, so its check does not raise.)
\* A mutant of MaySubmit: the open orders are not asked for.
MaySubmitAnother(m, quantity) == quantity # 0

MaySubmit(m, quantity) == quantity # 0 /\ m.orders = <<>>
Requested(m, percent) ==
    LET quantity == OrderQuantityOf(m, percent)
    IN  IF MaySubmit(m, quantity) THEN Submitted(m, quantity) ELSE m

\* _submit_halt_liquidation: cancel what is open, sell what is held.
Liquidation(a, m) ==
    LET cancelled == Cancelled(m)
    IN  IF ~a.liquidate \/ m.quantity = 0
        THEN [a |-> [a EXCEPT !.liquidate = FALSE], m |-> cancelled]
        ELSE [a |-> a, m |-> Requested(cancelled, 0)]

\* on_data for an evaluation bar, after the close was added to the window.
\* A halt is noticed again at every bar, so the liquidation is asked for until
\* nothing is held; the signal never speaks after it.
Decide(b, m) ==
    LET guard == CloseSession(b.guard, m.day, EquityOf(m))
        a == [b EXCEPT !.guard = guard, !.liquidate = @ \/ Halted(guard)]
    IN  IF Halted(guard) THEN Liquidation(a, m)
        ELSE IF ~Ready(a.closes) \/ m.day + 1 > LastDay THEN [a |-> a, m |-> m]
        ELSE [a |-> a, m |-> Requested(m, Target(a.closes))]

\* on_data with a bar; warmup bars only fill the window.
Bar ==
    /\ Running /\ market.at = "open"
    /\ \E close \in Prices :
         LET m == [market EXCEPT !.at = "close", !.mark = close]
             b == [algo EXCEPT !.closes = Recent(Append(@, close)), !.last = m.day]
             decided == IF m.day < FirstDay THEN [a |-> b, m |-> m] ELSE Decide(b, m)
         IN  algo' = decided.a /\ market' = decided.m

\* A mutant of AfterEvent: a halt found at a fill leaves the open orders alone.
AfterEventKeeping(a, m) == [a |-> [a EXCEPT !.liquidate = @ \/ Halted(a.guard)], m |-> m]

\* A fill that finds or follows a halt cancels the rest of every order, that of
\* the liquidation itself included.
AfterEvent(a, m) ==
    [a |-> [a EXCEPT !.liquidate = @ \/ Halted(a.guard)],
     m |-> IF Halted(a.guard) THEN Cancelled(m) ELSE m]

\* on_order_event, FILLED or PARTIALLY_FILLED.
Filled ==
    /\ Running /\ market.at = "open"
    /\ \E i \in Live, fee \in Fees : \E shares \in Part(i) :
         LET m == AfterFill(i, shares, fee)
             after == AfterEvent([algo EXCEPT !.guard = Observe(@, m.day, EquityOf(m))], m)
         IN  algo' = after.a /\ market' = after.m

\* on_order_event for an invalid order: ignored.
Rejected ==
    /\ Running /\ market.at = "open"
    /\ \E i \in Live : market' = AfterInvalid(i)
    /\ UNCHANGED algo

\* on_end_of_algorithm
EndOfAlgorithm ==
    /\ Running /\ market.at = "close" /\ market.day = LastDay
    /\ market' = Cancelled(market)
    /\ algo' = [algo EXCEPT !.status = "over"]

Next ==
    \/ MarketOpens \/ CancellationArrives \/ NoBar \/ Bar
    \/ Filled \/ Rejected \/ EndOfAlgorithm

Spec == Init /\ [][Next]_vars

-----------------------------------------------------------------------------
\* However the fills of the signal's orders and of the liquidation arrive, the
\* position is never short.
NeverShort == market.quantity >= 0

\* After a halt the position only shrinks: no order of the signal that was
\* still open is filled, and the signal asks for no other.
HaltOnlySells == [][Halted(algo.guard) => market'.quantity <= market.quantity]_vars

\* At every bar of a halted run the whole position is put up for sale, whatever
\* part of an earlier request was filled, refused or left open; where an order
\* is still open it is cancelled first, so the sale waits one bar and no more.
LiquidationRequested ==
    [][market.at = "open" /\ market'.at = "close" /\ algo'.last = market.day
         /\ market.day >= FirstDay /\ Halted(algo'.guard) /\ market.quantity > 0 =>
           IF market.orders = <<>>
           THEN market'.orders = <<[left |-> -market.quantity, cancelling |-> FALSE]>>
           ELSE \A i \in DOMAIN market'.orders : market'.orders[i].cancelling]_vars
=============================================================================
