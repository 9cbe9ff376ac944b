------------------------------- MODULE Money -------------------------------
(***************************************************************************)
(* The arithmetic the simulation engine shares: prices, slippage, fees and *)
(* rounding to the configured money precision.                             *)
(*                                                                         *)
(* Two integer scales stand for the program's floats.  A "quantum" is the  *)
(* smallest amount of money the ledger represents, 10^-money_precision;    *)
(* cash, fees and equity are whole quanta.  A product that the code has    *)
(* not rounded yet (a price, a notional, an exposure) is counted in "raw"  *)
(* units, Quantum of which make one quantum.  A reference price of r ticks *)
(* is r * BpsScale raw units, so that the execution price after slippage   *)
(* is an integer as well.  Quantities are whole units of                   *)
(* 10^-quantity_precision.                                                 *)
(***************************************************************************)
EXTENDS Integers

CONSTANTS
    Quantum,     \* raw units in one quantum of money
    BpsScale,    \* denominator of fee_bps and slippage_bps (10000 in the code)
    WeightScale, \* denominator of every weight, limit and percentage
    FeeBps,      \* config.fee_bps
    SlippageBps, \* config.slippage_bps
    MinimumFee   \* config.minimum_fee, in quanta

ASSUME MoneyAssumption ==
    /\ Quantum \in Nat \ {0}
    /\ BpsScale \in Nat \ {0}
    /\ WeightScale \in Nat \ {0}
    /\ FeeBps \in Nat
    /\ SlippageBps \in Nat
    /\ SlippageBps < BpsScale
    /\ MinimumFee \in Nat

Buy  == "buy"
Sell == "sell"
Sides == {Buy, Sell}

Larger(a, b)  == IF a >= b THEN a ELSE b
Smaller(a, b) == IF a <= b THEN a ELSE b
Magnitude(a)  == IF a >= 0 THEN a ELSE -a

(***************************************************************************)
(* Python's round(): to the nearest integer, ties to the even one.         *)
(***************************************************************************)
RoundHalfEven(n, d) ==
    LET q == n \div d
        r == n % d
    IN  IF 2 * r < d \/ (2 * r = d /\ q % 2 = 0) THEN q ELSE q + 1

\* SimulationEngine._money: a raw amount as whole quanta.
MoneyOf(raw) == RoundHalfEven(raw, Quantum)

\* The open or close of a bar, in raw units per unit of quantity.
ReferencePrice(ticks) == ticks * BpsScale

\* _execution_price: slippage always moves the price against the order.
ExecutionPrice(ticks, side) ==
    IF side = Buy THEN ticks * (BpsScale + SlippageBps)
                  ELSE ticks * (BpsScale - SlippageBps)

\* _money(_trade_fee(notional)): proportional, but never under the minimum.
TradeFee(notional) ==
    RoundHalfEven(Larger(notional * FeeBps, MinimumFee * Quantum * BpsScale),
                  Quantum * BpsScale)

\* The ledger's value of a holding at a reference price.
MarketValue(quantity, ticks) == MoneyOf(quantity * ReferencePrice(ticks))
=============================================================================
