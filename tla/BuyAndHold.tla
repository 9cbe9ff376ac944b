----------------------------- MODULE BuyAndHold -----------------------------
(***************************************************************************)
(* _build_benchmark_comparison: the costed buy-and-hold benchmark of a     *)
(* run, computed from the bars processed so far each time finish() is      *)
(* called: by a batch run after its last bar, by the summary of a replay   *)
(* session after whatever bar it halted, failed or was stopped at.         *)
(***************************************************************************)
EXTENDS TargetSizing, Sequences

CONSTANTS
    InitialCashes,  \* the values of config.initial_cash
    BarTicks,       \* the opens and closes of the bars
    WarmupBars,     \* config.warmup_bars
    NumBars         \* bound: the bars of a run

ASSUME BenchmarkAssumption ==
    /\ InitialCashes \subseteq Nat \ {0} /\ BarTicks \subseteq Nat \ {0}
    /\ WarmupBars \in Nat /\ NumBars \in Nat

VARIABLES
    cash,  \* config.initial_cash
    bars   \* the engine's history

Cost(units, ticks) ==
    LET notional == units * ExecutionPrice(ticks, Buy)
    IN  MoneyOf(notional) + TradeFee(notional)

\* A mutant of Affordable: the fee is paid out of nothing.
AffordableBeforeFee(units, ticks) ==
    MoneyOf(units * ExecutionPrice(ticks, Buy)) <= cash

Affordable(units, ticks) == Cost(units, ticks) <= cash

\* What the cash buys at the execution price, cut to whole units.
Whole(ticks) == (cash * Quantum) \div ExecutionPrice(ticks, Buy)

\* _largest_affordable_benchmark_purchase: the bisection of PrecisionSearch run to
\* its end on what the cash pays for; 0 when not even one unit is.
LargestPurchase(ticks) ==
    LET selected[interval \in (1 .. Whole(ticks) + 1) \X (0 .. Whole(ticks))] ==
            LET low    == interval[1]
                high   == interval[2]
                middle == (low + high) \div 2
            IN  IF low > high THEN NoUnits
                ELSE IF Affordable(middle, ticks)
                  THEN Larger(middle, selected[<<middle + 1, high>>])
                  ELSE selected[<<low, middle - 1>>]
    IN  Larger(0, selected[<<1, Whole(ticks)>>])

\* The first bar after warmup_bars, by its place in the history.
PurchaseBar == WarmupBars + 1

Bought == PurchaseBar \in DOMAIN bars

Quantity == IF Bought THEN LargestPurchase(bars[PurchaseBar].open) ELSE 0

ResidualCash ==
    IF Quantity = 0 THEN cash ELSE cash - Cost(Quantity, bars[PurchaseBar].open)

Fee == IF Quantity = 0 THEN 0
       ELSE TradeFee(Quantity * ExecutionPrice(bars[PurchaseBar].open, Buy))

SlippageCost ==
    IF Quantity = 0 THEN 0
    ELSE LET open == bars[PurchaseBar].open
         IN  MoneyOf(Quantity * (ExecutionPrice(open, Buy) - ReferencePrice(open)))

\* The benchmark's equity at the close of each bar.
EquityValues ==
    [n \in DOMAIN bars |->
        IF n >= PurchaseBar /\ Quantity > 0
        THEN ResidualCash + MarketValue(Quantity, bars[n].close)
        ELSE cash]

-----------------------------------------------------------------------------
BenchmarkInit == cash \in InitialCashes /\ bars = <<>>

ProcessBar ==
    /\ Len(bars) < NumBars
    /\ \E open, close \in BarTicks : bars' = Append(bars, [open |-> open, close |-> close])
    /\ UNCHANGED cash

BenchmarkSpec == BenchmarkInit /\ [][ProcessBar]_<<cash, bars>>

-----------------------------------------------------------------------------
(***************************************************************************)
(* "It selects the largest affordable quantity, keeps residual cash        *)
(* nonnegative" (docs/local-backtesting.md:84): of the quantities whose    *)
(* exact value the cash covers, no larger one would have left it           *)
(* nonnegative, although the minimum fee and two roundings shape the test. *)
(***************************************************************************)
PurchaseIsLargest ==
    Bought =>
        /\ ResidualCash >= 0
        /\ \A units \in 1 .. Whole(bars[PurchaseBar].open) :
              Affordable(units, bars[PurchaseBar].open) => units <= Quantity

(***************************************************************************)
(* The benchmark is not handicapped: at its open, with the same cash, the  *)
(* engine's own sizing never buys more for any target.  Only when slippage *)
(* is charged and no minimum fee is may it buy more, and then only a       *)
(* quantity whose exact value the cash does not cover: the sizing tests    *)
(* the rounded value, the benchmark cuts its interval by the exact one.    *)
(***************************************************************************)
EngineBuysNoMore ==
    Bought => \A weight \in 0 .. WeightScale :
        LET open  == bars[PurchaseBar].open
            units == TargetUnits([cash |-> cash, quantity |-> 0], open, weight, cash)
        IN  \/ units <= Quantity
            \/ SlippageBps > 0 /\ MinimumFee = 0 /\ units > Whole(open)

(***************************************************************************)
(* "costed": from the entry on the equity is the starting cash, less the   *)
(* fee and the slippage, plus what the price has done since the open.  The *)
(* three amounts are rounded apart; they differ by those roundings alone.  *)
(***************************************************************************)
CostsAreCharged ==
    \A n \in DOMAIN bars :
        LET moved == IF n < PurchaseBar THEN 0
                     ELSE Quantity * (ReferencePrice(bars[n].close)
                                      - ReferencePrice(bars[PurchaseBar].open))
            costs == IF n < PurchaseBar THEN 0 ELSE Fee + SlippageCost
            error == (EquityValues[n] - cash + costs) * Quantum - moved
        IN  2 * error \in -3 * Quantum .. 3 * Quantum
=============================================================================
