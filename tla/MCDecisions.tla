---------------------------- MODULE MCDecisions ----------------------------
(***************************************************************************)
(* What an order is decided by, on small instances.  Four parts are run    *)
(* one at a time, each from its own initial states, the others at rest:    *)
(*   "search"     PrecisionSearch, on every test of a few candidates;      *)
(*   "sizing"     SizingSearch, on every small portfolio, price and        *)
(*                target: the same loop on the test it is used with;       *)
(*   "gate"       PolicyScrutiny, on orders and portfolios with up to two  *)
(*                wrong fields, each of its two policies the stricter one  *)
(*                on some limits;                                          *)
(*   "benchmark"  BuyAndHold, with every cash that buys a few units.       *)
(***************************************************************************)
EXTENDS SizingSearch, BuyAndHold, FiniteSets

CONSTANTS
    Parts,  \* the parts to run
    NaN,
    GatePolicy,
    GateFee, GateCap,  \* MinimumFee, MaxPosition and the other caps of "gate"
    GateCash, GateQuantities, GateTicks, GateAmounts, GateWrong

VARIABLES
    part,
    order, portfolio, wrong  \* "gate"

search    == <<first, last, safe, low, high, best>>
shown     == <<order, portfolio, wrong>>
benchmark == <<cash, bars>>
all == <<part, search, asked, shown, benchmark>>

\* Caps equal to those of the configuration in the .cfg.
MCPolicy ==
    [max_asset_weight |-> MaxPosition, max_total_gross_exposure |-> MaxTotalExposure,
     max_order_notional_weight |-> MaxOrderNotional,
     max_daily_loss_pct |-> MaxDailyLoss, max_drawdown_pct |-> MaxDrawdown,
     max_open_positions |-> 1, max_data_age_seconds |-> 1,
     allowed_symbols |-> {Symbol}]

MCGatePolicy ==
    [MCPolicy EXCEPT !.max_asset_weight = 6, !.max_total_gross_exposure = 8,
                     !.max_order_notional_weight = 8, !.max_daily_loss_pct = 4,
                     !.max_drawdown_pct = 6]

\* In quanta and raw, around those of the orders, with their borders.
MCAmounts == {-1, 0, 2, 4, 20, 44}

Gate == INSTANCE PolicyScrutiny WITH
    Policy <- GatePolicy, MinimumFee <- GateFee,
    MaxPosition <- GateCap, MaxTotalExposure <- GateCap, MaxOrderNotional <- GateCap,
    Cash <- GateCash, Quantities <- GateQuantities, Ticks <- GateTicks,
    Amounts <- GateAmounts, MaxWrong <- GateWrong

\* An empty interval: the search is over.
SearchRests == /\ first = 1 /\ last = 0 /\ low = 1 /\ high = 0
               /\ safe = {} /\ best = None
SizingRests == holding = None /\ ticks = None /\ weight = None
GateRests == order = None /\ portfolio = None /\ wrong = {}
BenchmarkRests == cash = 0 /\ bars = <<>>

AllInit ==
    /\ part \in Parts
    /\ CASE part = "search" -> Init /\ SizingRests
         [] part = "sizing" -> SizingInit
         [] OTHER           -> SearchRests /\ SizingRests
    /\ IF part = "gate" THEN Gate!Init ELSE GateRests
    /\ IF part = "benchmark" THEN BenchmarkInit ELSE BenchmarkRests

AllNext ==
    \/ part = "search" /\ Next /\ UNCHANGED <<part, asked, shown, benchmark>>
    \/ part = "sizing" /\ SizingNext /\ UNCHANGED <<part, shown, benchmark>>
    \/ part = "gate" /\ Gate!Next /\ UNCHANGED <<part, search, asked, benchmark>>
    \/ part = "benchmark" /\ ProcessBar /\ UNCHANGED <<part, search, asked, shown>>

AllSpec == AllInit /\ [][AllNext]_all

-----------------------------------------------------------------------------
(***************************************************************************)
(* "Return the largest precision-safe quantity within the post-cost        *)
(* target" (engine.py:665): the loop and the function the engine's model   *)
(* uses find the same quantity, and no larger candidate passes the test    *)
(* that fees and rounding really leave, prefix of the interval or not.     *)
(***************************************************************************)
FindsLargestSafe == part = "sizing" => LoopAgrees /\ NoneLarger

(***************************************************************************)
(* Sizing and risk policy, two modules of the program, agree: when their   *)
(* caps are the same the policy refuses nothing that was sized, but a sale *)
(* the minimum fee makes unaffordable.                                     *)
(***************************************************************************)
SizedOrderIsAccepted == part = "sizing" => OrderIsAccepted

(***************************************************************************)
(* The risk policy as a gate: whatever up to two fields of the order and   *)
(* the portfolio say that the quantities and prices do not, an approved    *)
(* order leaves cash, quantity and equity safe and neither the policy nor  *)
(* the configuration would have refused it; a number that is not finite,   *)
(* in whichever field, is refused.                                         *)
(***************************************************************************)
GateHolds ==
    part = "gate" => Gate!ApprovedIsSafe /\ Gate!EffectiveIsStricter /\ Gate!FailsClosed

(***************************************************************************)
(* The costed benchmark of every report neither flatters nor handicaps:    *)
(* its purchase is the largest the cash affords, the engine's own sizing   *)
(* never buys more, and every cost is charged.                             *)
(***************************************************************************)
BenchmarkIsFair ==
    part = "benchmark" =>
        PurchaseIsLargest /\ EngineBuysNoMore /\ CostsAreCharged
=============================================================================
