-------------------------- MODULE ProfitAccounting --------------------------
(***************************************************************************)
(* The ledger of the simulation engine, its average cost and its profit,   *)
(* booked again from the fills alone.  The average and the profit the code *)
(* keeps beside the ledger and saves and restores with it, so they are a   *)
(* function of the fills: an entry of Account is what the fields hold      *)
(* after that many of them.                                                *)
(*                                                                         *)
(* The average is a fraction of raw units, [num, den], exact where the     *)
(* program has a float; the profit is rounded to quanta as the code does.  *)
(***************************************************************************)
EXTENDS SimulationEngine

PriceOf(fill) == ExecutionPrice(fill.ticks, fill.side)

NoCost == [num |-> 0, den |-> 1]

\* A mutant of AverageAfterBuy: the mean of two prices, whatever the sizes.
MeanAfterBuy(before, fill) ==
    IF before.quantity = 0 THEN [num |-> PriceOf(fill), den |-> 1]
    ELSE [num |-> before.average.num + PriceOf(fill) * before.average.den,
          den |-> 2 * before.average.den]

\* The average cost after a buy: of all that is held, at what was paid.
AverageAfterBuy(before, fill) ==
    LET average == before.average
    IN  [num |-> before.quantity * average.num + fill.quantity * PriceOf(fill) * average.den,
         den |-> average.den * (before.quantity + fill.quantity)]

AverageAfterSale(before, fill) ==
    IF before.quantity = fill.quantity THEN NoCost ELSE before.average

\* _money of quantity * (raw - average).
Gain(quantity, raw, average) ==
    RoundHalfEven(quantity * (raw * average.den - average.num), average.den * Quantum)

\* Before any fill.  roundings counts the amounts rounded to quanta so far.
NoFills == [cash |-> InitialCash, quantity |-> 0, fees |-> 0, slippage |-> 0,
            average |-> NoCost, realized |-> 0, roundings |-> 0]

\* The fields after one more fill: a buy, or a sale, which realizes a profit.
AfterFill(before, fill) ==
    LET notional == MoneyOf(fill.quantity * PriceOf(fill))
        slippage == MoneyOf(fill.quantity
                              * Magnitude(PriceOf(fill) - ReferencePrice(fill.ticks)))
        gain     == Gain(fill.quantity, PriceOf(fill), before.average)
        buys     == fill.side = Buy
    IN  [cash |-> IF buys THEN before.cash - notional - fill.fee
                          ELSE before.cash + notional - fill.fee,
         quantity |-> IF buys THEN before.quantity + fill.quantity
                              ELSE before.quantity - fill.quantity,
         fees |-> before.fees + fill.fee,
         slippage |-> before.slippage + slippage,
         average |-> IF buys THEN AverageAfterBuy(before, fill)
                             ELSE AverageAfterSale(before, fill),
         realized |-> IF buys THEN before.realized ELSE before.realized + gain,
         roundings |-> before.roundings + IF buys THEN 1 ELSE 2]

Account(fills) ==
    LET after[n \in 0 .. Len(fills)] ==
            IF n = 0 THEN NoFills ELSE AfterFill(after[n - 1], fills[n])
    IN  after

\* The number of the fills booked by the end of a bar.
FillsBy(fills, number) ==
    CHOOSE n \in 0 .. Len(fills) :
        /\ \A i \in 1 .. n : fills[i].bar <= number
        /\ \A i \in n + 1 .. Len(fills) : fills[i].bar > number

AccountAt(number) ==
    LET fills == Committed.trail.fills
    IN  Account(fills)[FillsBy(fills, number)]

Unrealized(number) ==
    LET now == AccountAt(number)
    IN  Gain(now.quantity, ReferencePrice(Committed.bars[number].close), now.average)

-----------------------------------------------------------------------------
(***************************************************************************)
(* The ledger is the sum of the fills: cash is the initial cash less what  *)
(* was bought and every fee, plus what was sold, each rounded once; the    *)
(* quantity, the fees and the slippage add up likewise, and each fill      *)
(* shows the cash and quantity of its moment.  No fill is booked twice,    *)
(* lost in a rollback or kept by one.                                      *)
(***************************************************************************)
LedgerReconciles ==
    LET ledger  == Committed.book
        fills   == Committed.trail.fills
        account == Account(fills)
        now     == account[Len(fills)]
    IN  /\ ledger = [cash |-> now.cash, quantity |-> now.quantity,
                     fees |-> now.fees, slippage |-> now.slippage]
        /\ \A n \in DOMAIN fills : /\ fills[n].cash_after = account[n].cash
                                   /\ fills[n].quantity_after = account[n].quantity

(***************************************************************************)
(* "Realized and unrealized PnL are gross of fees" (README.md:212): at     *)
(* every close the equity is the initial cash plus both profits less the   *)
(* fees.  Each of the roundings, one a fill, one more a sale and two at    *)
(* the close, adds at most half a quantum; nothing else may come between.  *)
(***************************************************************************)
ProfitReconciles ==
    \A number \in DOMAIN Committed.trail.points :
        LET now   == AccountAt(number)
            error == Committed.trail.points[number].equity - InitialCash + now.fees
                       - now.realized - Unrealized(number)
            roundings == now.roundings + 2
        IN  2 * error \in -roundings .. roundings

(***************************************************************************)
(* While a position is held its average cost lies between the lowest and   *)
(* the highest price paid since the engine was last flat; flat, there is   *)
(* none.  No price of an earlier position survives in a later one.         *)
(***************************************************************************)
CostIsOfThisPosition ==
    LET fills   == Committed.trail.fills
        account == Account(fills)
        Since(n) == {i \in 1 .. n : /\ fills[i].side = Buy
                                    /\ \A j \in i .. n : fills[j].quantity_after > 0}
    IN  \A n \in DOMAIN fills :
            LET average == account[n].average
            IN  IF fills[n].quantity_after = 0 THEN average = NoCost
                ELSE /\ \E i \in Since(n) : PriceOf(fills[i]) * average.den >= average.num
                     /\ \E i \in Since(n) : PriceOf(fills[i]) * average.den <= average.num

(***************************************************************************)
(* The books: the ledger is the sum of the fills, the equity is explained  *)
(* by the profits, and the average cost by the position.  What the result  *)
(* reports in three ways is one history.                                   *)
(***************************************************************************)
BooksReconcile == LedgerReconciles /\ ProfitReconciles /\ CostIsOfThisPosition

(***************************************************************************)
(* The loss limits: no bar closes beyond one with the engine still         *)
(* trading, the daily loss measured from the last close of the date        *)
(* before, the drawdown from the highest of every open and close so far.   *)
(***************************************************************************)
LossLimitsLatch == BreachLatches /\ DailyLossBase /\ PeakCovers

-----------------------------------------------------------------------------
(***************************************************************************)
(* Small instances of the engine.  Weights, fees and slippage are tenths,  *)
(* a tick of price is one quantum and a unit of quantity one share, so a   *)
(* few shares move the portfolio across every limit.                       *)
(***************************************************************************)

\* A policy stricter than the run's configuration on the gross exposure, whose
\* loss limits a few ticks breach.
StrictPolicy ==
    [max_asset_weight |-> 10, max_total_gross_exposure |-> 9,
     max_order_notional_weight |-> 10, max_daily_loss_pct |-> 4,
     max_drawdown_pct |-> 3, max_open_positions |-> 1,
     max_data_age_seconds |-> 1, allowed_symbols |-> {Symbol}]

\* A policy whose limits no portfolio reaches.
LoosePolicy ==
    [StrictPolicy EXCEPT !.max_total_gross_exposure = 10,
                         !.max_daily_loss_pct = 10, !.max_drawdown_pct = 10]
=============================================================================
