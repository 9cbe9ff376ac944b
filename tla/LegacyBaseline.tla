--------------------------- MODULE LegacyBaseline ---------------------------
(***************************************************************************)
(* The preserved draft lean/algorithms/MovingAverageBaseline: daily bars,  *)
(* a rebalancing target, and a guard of its own that takes its base from   *)
(* the first bar of the day.                                               *)
(***************************************************************************)
EXTENDS LeanMarket, TrailingSignal, LatchedRisk

VARIABLES algo,     \* the fields of the algorithm
          before    \* history: the equity at the bar before the last

vars == <<market, algo, before>>

TypeOK ==
    /\ market.day \in 0 .. LastDay /\ market.at \in {"open", "close"}
    /\ market.mark \in Prices /\ market.cash \in Int /\ market.quantity \in Int
    /\ Len(algo.closes) <= Slow /\ algo.session \in 0 .. LastDay
    /\ algo.startOfDay \in Int /\ algo.peak \in Int /\ algo.halted \in BOOLEAN
    /\ before \in Int

\* Initialize
Init ==
    /\ InitMarket
    /\ algo = [closes |-> <<>>, session |-> 0, startOfDay |-> InitialCash,
               equity |-> InitialCash, peak |-> InitialCash, halted |-> FALSE]
    /\ before = InitialCash

MarketOpens == (\E price \in Prices : Open(price)) /\ UNCHANGED <<algo, before>>
CancellationArrives == Confirm /\ UNCHANGED <<algo, before>>
NoBar ==
    /\ market.at = "open" /\ market' = [market EXCEPT !.at = "close"]
    /\ UNCHANGED <<algo, before>>

\* _update_risk_state
Updated(a, day, e) ==
    LET base == IF a.session # day THEN e ELSE a.startOfDay
        peak == Larger(a.peak, e)
    IN  [a EXCEPT !.session = day, !.startOfDay = base, !.equity = e, !.peak = peak,
           !.halted = @ \/ FallPercent(base, e) >= DailyLossLimit
                        \/ FallPercent(peak, e) >= DrawdownLimit]

\* Liquidate cancels what is open and sells what is held; SetHoldings buys or
\* sells the difference to the target.
Liquidate(m) == IF m.quantity = 0 THEN m ELSE Submitted(Cancelled(m), -m.quantity)
SetHoldings(m) ==
    LET quantity == OrderQuantityOf(m, TargetWeight)
    IN  IF quantity = 0 THEN m ELSE Submitted(m, quantity)

\* The rest of OnData.
Decide(a, m) ==
    IF a.halted THEN Liquidate(m)
    ELSE IF ~Ready(a.closes) THEN m
    ELSE IF Target(a.closes) > 0 THEN SetHoldings(m)
    ELSE Liquidate(m)

OnData ==
    /\ market.at = "open"
    /\ \E close \in Prices :
         LET m == [market EXCEPT !.at = "close", !.mark = close]
             seen == [algo EXCEPT !.closes = Recent(Append(@, close))]
             a == Updated(seen, m.day, EquityOf(m))
         IN  IF m.day < FirstDay THEN algo' = seen /\ market' = m /\ UNCHANGED before
             ELSE algo' = a /\ market' = Decide(a, m) /\ before' = algo.equity

\* Fills; the algorithm does not handle order events.
Filled ==
    /\ market.at = "open"
    /\ \E i \in Live, fee \in Fees : \E shares \in Part(i) : market' = AfterFill(i, shares, fee)
    /\ UNCHANGED <<algo, before>>

Next == MarketOpens \/ CancellationArrives \/ NoBar \/ OnData \/ Filled

Spec == Init /\ [][Next]_vars

-----------------------------------------------------------------------------
\* At every bar of a halted run the whole position is the one order left open,
\* whatever an order of before has filled since.  Where nothing is held, an order
\* that was open when the halt came stays open: a halt submits no new ones.
HaltSellsAll ==
    [][market.at = "open" /\ market'.at = "close" /\ algo'.session = market.day
         /\ algo'.halted /\ market.quantity # 0 =>
           \E i \in DOMAIN market'.orders :
              /\ market'.orders[i] = [left |-> -market.quantity, cancelling |-> FALSE]
              /\ \A j \in DOMAIN market'.orders \ {i} : market'.orders[j].cancelling]_vars

\* What the draft's README says: trading stops when the equity falls by the
\* daily-loss limit from one daily bar to the next.
DailyLossHalts == FallPercent(before, algo.equity) >= DailyLossLimit => algo.halted
=============================================================================
