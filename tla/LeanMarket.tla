----------------------------- MODULE LeanMarket -----------------------------
(***************************************************************************)
(* The part of the LEAN engine the algorithms see: a clock that alternates *)
(* between the open and the close of a session, one security with a price, *)
(* a cash account, and the open orders.  It is no code of the repository;  *)
(* it is modelled from how the algorithms use it and allows everything     *)
(* they handle: a session without a bar, an order filled at the open, in   *)
(* parts, later or never, an order found invalid, and a cancellation that  *)
(* takes effect only after the handler that asked for it has gone on.      *)
(***************************************************************************)
EXTENDS Integers, Sequences

CONSTANTS Prices,        \* whole dollars
          Fees,          \* what a fill may cost
          InitialCash,
          FirstDay,      \* the first session of the evaluation
          LastDay        \* its last session; earlier ones are warmup

MarketAssumption ==
    /\ Prices \subseteq Nat \ {0} /\ Fees \subseteq Nat /\ InitialCash \in Nat \ {0}
    /\ FirstDay \in Nat \ {0} /\ LastDay \in Nat /\ FirstDay <= LastDay

VARIABLE market
\* day, at: the session and whether its open or its close came last;
\* mark: the last price; cash, quantity: the holdings;
\* orders: the open market-on-open orders, oldest first.

InitMarket ==
    \E price \in Prices :
        market = [day |-> 0, at |-> "close", mark |-> price, cash |-> InitialCash,
                  quantity |-> 0, orders |-> <<>>]

EquityOf(m) == m.cash + m.quantity * m.mark
Equity == EquityOf(market)

\* calculate_order_quantity: the change that brings the holding to percent of
\* the equity, in whole shares.
OrderQuantityOf(m, percent) ==
    (percent * EquityOf(m)) \div (100 * m.mark) - m.quantity

\* market_on_open_order
Submitted(m, quantity) ==
    [m EXCEPT !.orders = Append(@, [left |-> quantity, cancelling |-> FALSE])]

\* cancel_open_orders(symbol)
Cancelled(m) == [m EXCEPT !.orders =
                   [i \in DOMAIN @ |-> [@[i] EXCEPT !.cancelling = TRUE]]]

Without(orders, i) ==
    SubSeq(orders, 1, i - 1) \o SubSeq(orders, i + 1, Len(orders))

\* The orders that are left when the cancellations have been carried out.
Standing(orders) ==
    LET kept[n \in 0 .. Len(orders)] ==
            IF n = 0 THEN <<>>
            ELSE IF orders[n].cancelling THEN kept[n - 1] ELSE Append(kept[n - 1], orders[n])
    IN  kept[Len(orders)]

\* The next open.  Cancellations asked for at the close have been carried out.
Open(price) ==
    /\ market.at = "close" /\ market.day < LastDay
    /\ market' = [market EXCEPT !.day = @ + 1, !.at = "open", !.mark = price,
                    !.orders = Standing(@)]

\* The cancellations are carried out during the session.
Confirm ==
    /\ \E i \in DOMAIN market.orders : market.orders[i].cancelling
    /\ market' = [market EXCEPT !.orders = Standing(@)]

\* What one order event brings: a fill of shares of order i at the price of the
\* open, or the end of an invalid order.
Worked(orders, i, shares) ==
    IF orders[i].left = shares THEN Without(orders, i)
    ELSE [orders EXCEPT ![i].left = @ - shares]
AfterFill(i, shares, fee) ==
    [market EXCEPT !.cash = @ - shares * market.mark - fee, !.quantity = @ + shares,
       !.orders = Worked(@, i, shares)]
AfterInvalid(i) == [market EXCEPT !.orders = Without(@, i)]

\* Live orders, and the shares a fill of one may have, with the order's sign.
Live == {i \in DOMAIN market.orders : ~market.orders[i].cancelling}
Part(i) == LET left == market.orders[i].left
           IN  IF left > 0 THEN 1 .. left ELSE left .. -1
=============================================================================
