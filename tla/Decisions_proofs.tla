-------------------------- MODULE Decisions_proofs --------------------------
(***************************************************************************)
(* What decides an order, for every value of the constants: the bisection, *)
(* the sizing of a target and the order made of it, the risk policy as a   *)
(* gate, and the buy-and-hold benchmark every report is compared with.     *)
(***************************************************************************)
EXTENDS MCDecisions, OrderProposal_proofs

-----------------------------------------------------------------------------
(***************************************************************************)
(* The search.  What was accepted lies just below what is left of the      *)
(* interval, what was refused just above it.                               *)
(***************************************************************************)
Searched ==
    /\ first \in Int /\ last \in Int /\ low \in Int /\ high \in Int
    /\ first <= low
    /\ high <= last
    /\ best = None => low = first
    /\ best # None => best = low - 1 /\ best \in safe /\ best \in first .. last
    /\ high # last => high + 1 \notin safe /\ high + 1 \in first .. last
    /\ low <= high + 1 \/ first > last

\* A probe keeps it, and what the search was started on.
LEMMA ProbeKeepsSearched ==
    ASSUME Searched, Next
    PROVE  Searched' /\ UNCHANGED <<first, last, safe>>
<1>1. low \in Int /\ high \in Int /\ first \in Int /\ last \in Int
  BY DEF Searched
<1>2. low <= high
  BY DEF Next, ProbeSafe, ProbeUnsafe
<1>3. Middle \in Int /\ low <= Middle /\ Middle <= high
  BY <1>1, <1>2, Z3 DEF Middle
<1>4. Middle \in first .. last
  BY <1>1, <1>3 DEF Searched
<1> HIDE DEF Middle
<1>5. CASE ProbeSafe
  <2>1. Middle # None
    BY <1>3, SearchAssumption
  <2> QED
    BY <1>1, <1>3, <1>4, <1>5, <2>1 DEF ProbeSafe, Searched
<1>6. CASE ProbeUnsafe
  BY <1>1, <1>3, <1>4, <1>6 DEF ProbeUnsafe, Searched
<1> QED
  BY <1>5, <1>6 DEF Next

\* Each probe at least halves what is left.
LEMMA ProbeHalves ==
    ASSUME Searched, Next
    PROVE  2 * (high' - low' + 1) <= high - low + 1
<1>1. low \in Int /\ high \in Int
  BY DEF Searched
<1>2. CASE ProbeSafe
  BY <1>1, <1>2, Z3 DEF ProbeSafe, Middle
<1>3. CASE ProbeUnsafe
  BY <1>1, <1>3, Z3 DEF ProbeUnsafe, Middle
<1> QED
  BY <1>2, <1>3 DEF Next

\* A search that is over has the largest candidate of a prefix.
LEMMA SearchedIsLargest ==
    ASSUME Searched
    PROVE  ResultIsLargest
<1>1. ASSUME Finished, SafeIsPrefix, NEW u \in safe \cap (first .. last)
      PROVE  best # None /\ u <= best
  <2>1. /\ first \in Int /\ last \in Int /\ low \in Int /\ high \in Int /\ u \in Int
        /\ first <= u /\ u <= last /\ u \in safe
    BY DEF Searched
  <2>2. low = high + 1
    BY <1>1, <2>1 DEF Searched, Finished
  <2>3. u <= high
    <3>1. CASE high = last
      BY <2>1, <3>1
    <3>2. CASE high # last
      <4>1. high + 1 \notin safe /\ high + 1 \in first .. last
        BY <3>2 DEF Searched
      <4>2. ~(high + 1 < u)
        BY <1>1, <2>1, <4>1 DEF SafeIsPrefix
      <4> QED
        BY <2>1, <4>1, <4>2
    <3> QED
      BY <3>1, <3>2
  <2>4. best # None
    BY <2>1, <2>2, <2>3 DEF Searched
  <2> QED
    BY <2>1, <2>2, <2>3, <2>4 DEF Searched
<1> QED
  BY <1>1 DEF ResultIsLargest

-----------------------------------------------------------------------------
(***************************************************************************)
(* The four parts.  What a search was asked and what it was started on     *)
(* stay; a benchmark's cash stays, and its bars are bars.                  *)
(***************************************************************************)
AskedInv ==
    /\ holding.cash \in Nat /\ holding.quantity \in Nat
    /\ ticks \in Nat \ {0}
    /\ weight \in Fraction \ {0}
    /\ PortfolioHalt(EffectivePolicy, Portfolio) = {}
    /\ first \in Nat
    /\ first = SearchLow(holding, ticks, weight, Equity)
    /\ last = SearchHigh(holding, ticks, weight, Equity)
    /\ safe = {units \in first .. last :
                CandidateIsSafe(units, holding, ticks, weight, Equity)}

\* What the function finds in the whole interval is the better of what the loop has
\* found and of what the function finds in the rest.
LoopInv ==
    \A bisection : IsBest(bisection, first, last, safe) =>
        bisection[<<first, last>>] =
            LET rest == bisection[<<low, high>>]
            IN  IF best = None THEN rest ELSE Larger(best, rest)

Bar == [open : Nat \ {0}, close : Nat \ {0}]

BenchmarkInv == cash \in Nat \ {0} /\ bars \in Seq(Bar)

AllInv ==
    /\ Searched
    /\ part = "sizing" => AskedInv /\ LoopInv
    /\ part = "benchmark" => BenchmarkInv

\* The raw target is a quantity, or nothing.
LEMMA RawTargetTyped ==
    ASSUME NEW price \in Nat \ {0}, NEW share \in Nat, NEW worth \in Int
    PROVE  RawTargetUnits(price, share, worth) \in Int
<1>1. WeightScale * (price * BpsScale) \in Nat \ {0}
  BY MoneyAssumption, Z3
<1>2. share * worth * Quantum \in Int
  BY MoneyAssumption, Z3
<1>3. \A n \in Int, d \in Nat \ {0} : n \div d \in Int
  BY Z3
<1> QED
  BY <1>1, <1>2, <1>3 DEF RawTargetUnits, ReferencePrice

\* What is left of the interval is always in the function's domain.
LEMMA LeftOfSearch ==
    ASSUME Searched, first <= last
    PROVE  <<low, high>> \in Left(first, last)
BY DEF Searched, Left

LEMMA ProbeKeepsLoop ==
    ASSUME Searched, first <= last, safe \subseteq Int, LoopInv, Next
    PROVE  LoopInv'
<1>0. /\ first \in Int /\ last \in Int /\ low \in Int /\ high \in Int
      /\ best # None => best = low - 1
  BY DEF Searched
<1>1. low <= high
  BY DEF Next, ProbeSafe, ProbeUnsafe
<1>2. UNCHANGED <<first, last, safe>> /\ Searched'
  BY ProbeKeepsSearched
<1> SUFFICES ASSUME NEW bisection, IsBest(bisection, first, last, safe)
             PROVE  bisection[<<first, last>>] =
                      IF best' = None THEN bisection[<<low', high'>>]
                      ELSE Larger(best', bisection[<<low', high'>>])
  BY <1>2 DEF LoopInv
<1>3. Middle \in low .. high
  BY <1>0, <1>1, MiddleWithin DEF Middle
<1>4. bisection[<<low, high>>] =
         IF Middle \in safe THEN Larger(Middle, bisection[<<Middle + 1, high>>])
         ELSE bisection[<<low, Middle - 1>>]
  <2>1. <<low, high>> \in Left(first, last)
    BY LeftOfSearch
  <2>2. bisection[<<low, high>>] = BestOf(bisection, safe, <<low, high>>)
    BY <2>1 DEF IsBest
  <2>3. <<low, high>>[1] = low /\ <<low, high>>[2] = high /\ ~(low > high)
    BY <1>0, <1>1
  <2> QED
    BY <2>2, <2>3 DEF BestOf, Middle
<1>5. bisection[<<first, last>>] =
         IF best = None THEN bisection[<<low, high>>]
         ELSE Larger(best, bisection[<<low, high>>])
  BY DEF LoopInv
<1> HIDE DEF Middle
<1>6. CASE ProbeSafe
  <2>1. Middle \in safe /\ best' = Middle /\ low' = Middle + 1 /\ high' = high
    BY <1>6 DEF ProbeSafe
  <2>2. Middle # None /\ Middle \in Int
    BY <1>0, <1>3, SearchAssumption
  <2>3. <<Middle + 1, high>> \in Left(first, last)
    BY <1>2, <2>1, LeftOfSearch, <1>0, <1>3 DEF Searched, Left
  <2>4. bisection[<<Middle + 1, high>>] = NoUnits \/ bisection[<<Middle + 1, high>>] \in safe
    BY <1>0, <2>3, BestIsSafe
  <2>5. bisection[<<Middle + 1, high>>] \in Int
    <3>1. NoUnits \in Int
      BY DEF NoUnits
    <3>2. \A x : x = NoUnits \/ x \in safe => x \in Int
      BY <3>1
    <3> QED
      BY <2>4, <3>2
  <2> QED
    BY <1>0, <1>3, <1>4, <1>5, <2>1, <2>2, <2>5 DEF Larger
<1>7. CASE ProbeUnsafe
  BY <1>4, <1>5, <1>7 DEF ProbeUnsafe
<1> QED
  BY <1>6, <1>7 DEF Next

LEMMA SizingStarts ==
    ASSUME SizingInit
    PROVE  Searched /\ AskedInv /\ LoopInv
<1>1. /\ holding.cash \in Nat /\ holding.quantity \in Nat
      /\ ticks \in Nat \ {0} /\ weight \in Fraction
  BY SizingSearchAssumption DEF SizingInit
<1>2. Equity \in Nat /\ weight \in Nat
  BY <1>1, EquityTyped, MoneyAssumption DEF Equity, Fraction
<1>3. RawTargetUnits(ticks, weight, Equity) \in Int
  BY <1>1, <1>2, RawTargetTyped
<1>4. first \in Nat /\ last \in Int /\ first <= last
  BY <1>1, <1>3 DEF SizingInit, SearchLow, SearchHigh, Larger
<1>5. low = first /\ high = last /\ best = None
  BY DEF SizingInit
<1>6. Searched
  BY <1>4, <1>5 DEF Searched
<1>7. AskedInv
  BY <1>1, <1>4 DEF SizingInit, AskedInv
<1>8. LoopInv
  BY <1>5 DEF LoopInv
<1> QED
  BY <1>6, <1>7, <1>8

\* The interval of a search is not empty.
LEMMA AskedInterval ==
    ASSUME AskedInv
    PROVE  /\ Equity \in Nat /\ RawTargetUnits(ticks, weight, Equity) \in Int
           /\ first \in Nat /\ last \in Nat /\ first <= last /\ safe \subseteq Int
<1>1. /\ holding.cash \in Nat /\ holding.quantity \in Nat
      /\ ticks \in Nat \ {0} /\ weight \in Fraction
  BY DEF AskedInv
<1>2. Equity \in Nat /\ weight \in Nat
  BY <1>1, EquityTyped, MoneyAssumption DEF Equity, Fraction
<1>3. RawTargetUnits(ticks, weight, Equity) \in Int
  BY <1>1, <1>2, RawTargetTyped
<1>4. first \in Nat /\ last \in Nat /\ first <= last
  BY <1>1, <1>3 DEF AskedInv, SearchLow, SearchHigh, Larger
<1> QED
  BY <1>2, <1>3, <1>4 DEF AskedInv

LEMMA AllStarts == AllInit => AllInv
<1> SUFFICES ASSUME AllInit PROVE AllInv
  OBVIOUS
<1>1. CASE part = "search"
  <2>1. Init
    BY <1>1 DEF AllInit
  <2>2. Searched
    BY <2>1, SearchAssumption DEF Init, Units, Searched
  <2> QED
    BY <1>1, <2>2 DEF AllInv
<1>2. CASE part = "sizing"
  <2>1. SizingInit
    BY <1>2 DEF AllInit
  <2> QED
    BY <1>2, <2>1, SizingStarts DEF AllInv
<1>3. CASE part # "search" /\ part # "sizing"
  <2>1. SearchRests
    BY <1>3 DEF AllInit
  <2>2. Searched
    BY <2>1 DEF SearchRests, Searched
  <2>3. part = "benchmark" => BenchmarkInv
    <3> SUFFICES ASSUME part = "benchmark" PROVE BenchmarkInv
      OBVIOUS
    <3>1. BenchmarkInit
      BY DEF AllInit
    <3>2. <<>> \in Seq(Bar)
      OBVIOUS
    <3> QED
      BY <3>1, <3>2, BenchmarkAssumption DEF BenchmarkInit, BenchmarkInv
  <2> QED
    BY <1>3, <2>2, <2>3 DEF AllInv
<1> QED
  BY <1>1, <1>2, <1>3

\* A bar is appended.
LEMMA BarArrives ==
    ASSUME BenchmarkInv, ProcessBar
    PROVE  BenchmarkInv'
<1>1. PICK open \in BarTicks, close \in BarTicks :
          bars' = Append(bars, [open |-> open, close |-> close])
  BY DEF ProcessBar
<1>2. [open |-> open, close |-> close] \in Bar
  BY BenchmarkAssumption DEF Bar
<1>3. \A b \in Bar : Append(bars, b) \in Seq(Bar)
  <2>1. bars \in Seq(Bar)
    BY DEF BenchmarkInv
  <2> HIDE DEF Bar
  <2> QED
    BY <2>1
<1> QED
  BY <1>1, <1>2, <1>3 DEF BenchmarkInv, ProcessBar

LEMMA AllStep == AllInv /\ [AllNext]_all => AllInv'
<1> SUFFICES ASSUME AllInv, [AllNext]_all PROVE AllInv'
  OBVIOUS
<1>1. CASE part = "search" /\ Next /\ UNCHANGED <<part, asked, shown, benchmark>>
  BY <1>1, ProbeKeepsSearched DEF AllInv
<1>2. CASE part = "sizing" /\ SizingNext /\ UNCHANGED <<part, shown, benchmark>>
  <2>1. Searched' /\ UNCHANGED <<first, last, safe>>
    BY <1>2, ProbeKeepsSearched DEF AllInv, SizingNext
  <2>2. UNCHANGED <<holding, ticks, weight>>
    BY <1>2 DEF SizingNext, asked
  <2>3. AskedInv'
    BY <1>2, <2>1, <2>2 DEF AllInv, AskedInv, Portfolio, Equity
  <2>4. AskedInv /\ LoopInv
    BY <1>2 DEF AllInv
  <2>5. first <= last /\ safe \subseteq Int
    BY <2>4, AskedInterval DEF AllInv
  <2>6. LoopInv'
    BY <1>2, <2>4, <2>5, ProbeKeepsLoop DEF AllInv, SizingNext
  <2> QED
    BY <1>2, <2>1, <2>3, <2>6 DEF AllInv
<1>3. CASE part = "gate" /\ Gate!Next /\ UNCHANGED <<part, search, asked, benchmark>>
  BY <1>3 DEF AllInv, search, Searched
<1>4. CASE part = "benchmark" /\ ProcessBar /\ UNCHANGED <<part, search, asked, shown>>
  <2>1. Searched'
    BY <1>4 DEF AllInv, search, Searched
  <2> QED
    BY <1>4, <2>1, BarArrives DEF AllInv
<1>5. CASE UNCHANGED all
  <2>1. UNCHANGED <<part, search, asked, benchmark>>
    BY <1>5 DEF all
  <2>2. Searched'
    BY <2>1 DEF AllInv, search, Searched
  <2>3. part = "sizing" => AskedInv' /\ LoopInv'
    BY <2>1 DEF AllInv, search, asked, AskedInv, LoopInv, Portfolio, Equity
  <2>4. part = "benchmark" => BenchmarkInv'
    BY <2>1 DEF AllInv, benchmark, BenchmarkInv
  <2> QED
    BY <2>1, <2>2, <2>3, <2>4 DEF AllInv
<1> QED
  BY <1>1, <1>2, <1>3, <1>4, <1>5 DEF AllNext

LEMMA DecisionsInvariant == AllSpec => []AllInv
BY AllStarts, AllStep, PTL DEF AllSpec

(***************************************************************************)
(* Whatever the test accepts, a quantity the search returns has passed it. *)
(***************************************************************************)
THEOREM SearchReturnsSafe == AllSpec => []ResultIsSafe
<1>1. AllInv => ResultIsSafe
  BY DEF AllInv, Searched, ResultIsSafe
<1> QED
  BY <1>1, DecisionsInvariant, PTL

(***************************************************************************)
(* When smaller quantities are safe wherever larger ones are, the finished *)
(* search has the largest safe quantity of its interval.                   *)
(***************************************************************************)
THEOREM SearchReturnsLargest == AllSpec => []ResultIsLargest
<1>1. AllInv => ResultIsLargest
  BY SearchedIsLargest DEF AllInv
<1> QED
  BY <1>1, DecisionsInvariant, PTL

(***************************************************************************)
(* Each probe at least halves what is left: 10^12 units take forty probes. *)
(***************************************************************************)
THEOREM SearchHalves == AllSpec => HalvesInterval
<1>1. AllInv /\ [AllNext]_all => [2 * (high' - low' + 1) <= high - low + 1]_vars
  <2> SUFFICES ASSUME AllInv, [AllNext]_all
               PROVE  2 * (high' - low' + 1) <= high - low + 1 \/ UNCHANGED vars
    OBVIOUS
  <2>1. Next \/ UNCHANGED search
    BY DEF AllNext, SizingNext, all
  <2> QED
    BY <2>1, ProbeHalves DEF AllInv, search, vars
<1> QED
  BY <1>1, DecisionsInvariant, PTL DEF AllSpec, HalvesInterval

-----------------------------------------------------------------------------
(***************************************************************************)
(* The benchmark.  Rounding is monotone, so what is affordable is a prefix *)
(* of the interval and the bisection finds the largest of it.              *)
(***************************************************************************)
LEMMA RoundMonotone ==
    ASSUME NEW m \in Int, NEW n \in Int, m <= n, NEW d \in Nat \ {0}
    PROVE  RoundHalfEven(m, d) <= RoundHalfEven(n, d)
<1> DEFINE a == RoundHalfEven(m, d)
           b == RoundHalfEven(n, d)
<1>1. a \in Int /\ b \in Int
  BY RoundTyped
<1>2. Within(d * a - m, d) /\ Within(d * b - n, d)
  BY RoundedNear
<1>3. m = n => a = b
  OBVIOUS
<1> HIDE DEF a, b
<1>4. d * a \in Int /\ d * b \in Int /\ d * (a - b) = d * a - d * b
  BY <1>1, Z3
<1>5. m < n => d * (a - b) < d
  BY <1>2, <1>4 DEF Within
<1>6. d * (a - b) < d => a - b < 1
  BY <1>1, Z3
<1> QED
  BY <1>1, <1>3, <1>5, <1>6 DEF a, b

LEMMA FeeMonotone ==
    ASSUME NEW m \in Int, NEW n \in Int, m <= n
    PROVE  TradeFee(m) <= TradeFee(n)
<1>1. Quantum * BpsScale \in Nat \ {0}
  BY MoneyAssumption, Z3
<1>2. MinimumFee * Quantum * BpsScale \in Int
  <2>1. MinimumFee * Quantum \in Int
    BY MoneyAssumption, Z3
  <2> QED
    BY <2>1, MoneyAssumption, Z3
<1>3. m * FeeBps \in Int /\ n * FeeBps \in Int /\ m * FeeBps <= n * FeeBps
  BY MoneyAssumption, TimesMonotone
<1>4. /\ Larger(m * FeeBps, MinimumFee * Quantum * BpsScale) \in Int
      /\ Larger(n * FeeBps, MinimumFee * Quantum * BpsScale) \in Int
      /\ Larger(m * FeeBps, MinimumFee * Quantum * BpsScale)
             <= Larger(n * FeeBps, MinimumFee * Quantum * BpsScale)
  BY <1>2, <1>3 DEF Larger
<1> QED
  BY <1>1, <1>4, RoundMonotone DEF TradeFee

\* The minimum fee is a whole number of quanta, so it is charged whole.
LEMMA MinimumFeeCharged ==
    ASSUME NEW n \in Int
    PROVE  TradeFee(n) >= MinimumFee
<1> DEFINE unit == Quantum * BpsScale
           fee == TradeFee(n)
           charged == Larger(n * FeeBps, MinimumFee * Quantum * BpsScale)
<1>1. unit \in Nat \ {0} /\ MinimumFee \in Nat
  BY MoneyAssumption, Z3
<1>2. MinimumFee * Quantum * BpsScale = unit * MinimumFee /\ unit * MinimumFee \in Int
  BY MoneyAssumption, Z3
<1>3. n * FeeBps \in Int
  BY MoneyAssumption
<1>4. charged \in Int /\ charged >= unit * MinimumFee
  BY <1>2, <1>3 DEF Larger
<1>5. fee \in Int
  BY FeeTyped
<1>6. Within(unit * fee - charged, unit)
  BY <1>1, <1>4, RoundedNear DEF TradeFee
<1> HIDE DEF unit, fee, charged
<1>7. unit * fee \in Int /\ unit * (MinimumFee - fee) = unit * MinimumFee - unit * fee
  BY <1>1, <1>5, Z3
<1>8. unit * (MinimumFee - fee) < unit
  BY <1>1, <1>2, <1>4, <1>6, <1>7 DEF Within
<1>9. MinimumFee - fee < 1
  BY <1>1, <1>5, <1>8, Z3
<1> QED
  BY <1>1, <1>5, <1>9 DEF fee

\* A purchase costs no less than a smaller one.
LEMMA CostMonotone ==
    ASSUME NEW price \in Nat \ {0}, NEW m \in Int, NEW n \in Int, m <= n
    PROVE  Cost(m, price) \in Int /\ Cost(n, price) \in Int /\ Cost(m, price) <= Cost(n, price)
<1> DEFINE paid == ExecutionPrice(price, Buy)
<1>1. paid \in Nat
  BY PricesTyped DEF Sides
<1> HIDE DEF paid
<1>2. m * paid \in Int /\ n * paid \in Int /\ m * paid <= n * paid
  BY <1>1, TimesMonotone
<1>3. /\ MoneyOf(m * paid) \in Int /\ MoneyOf(n * paid) \in Int
      /\ MoneyOf(m * paid) <= MoneyOf(n * paid)
  BY <1>2, MoneyTyped, RoundMonotone, MoneyAssumption DEF MoneyOf
<1>4. /\ TradeFee(m * paid) \in Int /\ TradeFee(n * paid) \in Int
      /\ TradeFee(m * paid) <= TradeFee(n * paid)
  BY <1>2, FeeTyped, FeeMonotone
<1> QED
  BY <1>3, <1>4 DEF Cost, paid

\* The bisection of an interval by a test that accepts a prefix of it.
LEMMA BisectionLargest ==
    ASSUME NEW lo \in Nat, NEW hi \in Int, lo <= hi + 1,
           NEW S \in SUBSET (lo .. hi), \A u, v \in lo .. hi : u < v /\ v \in S => u \in S,
           NEW g, IsBest(g, lo, hi, S)
    PROVE  /\ g[<<lo, hi>>] \in S \cup {NoUnits}
           /\ \A u \in S : u <= g[<<lo, hi>>]
<1> DEFINE D == Left(lo, hi)
           Good(i) == /\ g[i] \in S \cup {NoUnits}
                      /\ \A u \in S : i[1] <= u /\ u <= i[2] => u <= g[i]
           n == hi - lo + 2
           T == {m \in 0 .. n : \A i \in D : i[2] - i[1] < m - 1 => Good(i)}
<1>1. \A i \in D : g[i] = BestOf(g, S, i)
  BY DEF IsBest
<1>s. S \subseteq Int
  OBVIOUS
<1>t. \A i \in D : i[1] \in Int /\ i[2] \in Int /\ i[2] - i[1] < n - 1
  BY DEF Left
<1>2. 0 \in T
  <2>1. ASSUME NEW i \in D, i[2] - i[1] < 0 - 1
        PROVE  Good(i)
    <3>1. i[1] > i[2]
      BY <1>t, <2>1
    <3>2. g[i] = NoUnits
      BY <1>1, <3>1 DEF BestOf
    <3> QED
      BY <1>s, <1>t, <3>1, <3>2
  <2>2. 0 \in 0 .. n
    OBVIOUS
  <2> QED
    BY <2>1, <2>2
<1>3. ASSUME NEW m \in 1 .. n, m - 1 \in T
      PROVE  m \in T
  <2> SUFFICES ASSUME NEW i \in D, i[2] - i[1] < m - 1
               PROVE  Good(i)
    OBVIOUS
  <2>1. CASE i[1] > i[2]
    <3>1. g[i] = NoUnits
      BY <1>1, <2>1 DEF BestOf
    <3>2. \A u \in S : ~(i[1] <= u /\ u <= i[2])
      <4>1. i[1] \in Int /\ i[2] \in Int
        BY <1>t
      <4> QED
        BY <1>s, <2>1, <4>1
    <3> QED
      BY <3>1, <3>2
  <2>2. CASE ~(i[1] > i[2])
    <3> DEFINE a == i[1]
               b == i[2]
               middle == (a + b) \div 2
               above == <<middle + 1, b>>
               below == <<a, middle - 1>>
    <3>1. a \in Int /\ b \in Int /\ a <= b
      BY <1>t, <2>2
    <3>2. middle \in a .. b /\ middle \in lo .. hi /\ above \in D /\ below \in D
      BY <3>1, ProbeShrinks
    <3>3. g[i] = IF middle \in S THEN Larger(middle, g[above]) ELSE g[below]
      BY <1>1, <2>2 DEF BestOf
    <3>4. above[1] = middle + 1 /\ above[2] = b /\ below[1] = a /\ below[2] = middle - 1
      OBVIOUS
    <3>5. middle \in Int
      BY <3>1, <3>2
    <3> HIDE DEF middle, above, below
    <3>6. above[2] - above[1] < m - 1 - 1 /\ below[2] - below[1] < m - 1 - 1
      BY <3>1, <3>2, <3>4, <3>5
    <3>7. Good(above) /\ Good(below)
      BY <1>3, <3>2, <3>6
    <3> HIDE DEF a, b
    <3>8. CASE middle \in S
      <4>1. g[above] \in Int /\ g[i] = Larger(middle, g[above])
        <5>1. g[above] \in S \cup {NoUnits}
          BY <3>7
        <5>2. NoUnits \in Int
          BY DEF NoUnits
        <5> QED
          BY <1>s, <3>3, <3>8, <5>1, <5>2
      <4>2. g[i] \in S \cup {NoUnits} /\ middle <= g[i] /\ g[above] <= g[i] /\ g[i] \in Int
        BY <3>5, <3>7, <3>8, <4>1 DEF Larger
      <4>3. ASSUME NEW u \in S, a <= u, u <= b PROVE u <= g[i]
        <5>1. u \in Int
          BY <1>s
        <5>2. CASE u <= middle
          BY <3>5, <4>2, <5>1, <5>2
        <5>3. CASE middle + 1 <= u
          <6>1. u <= g[above]
            BY <3>4, <3>7, <4>3, <5>3
          <6> QED
            BY <4>1, <4>2, <5>1, <6>1
        <5> QED
          BY <3>5, <5>1, <5>2, <5>3
      <4> QED
        BY <4>2, <4>3 DEF a, b
    <3>9. CASE middle \notin S
      <4>1. g[i] = g[below]
        BY <3>3, <3>9
      <4>2. ASSUME NEW u \in S, a <= u, u <= b PROVE u <= g[i]
        <5>1. u \in Int /\ u \in lo .. hi
          BY <1>s
        <5>2. ~(middle < u) /\ u # middle
          BY <3>2, <3>9, <5>1
        <5>3. u <= middle - 1
          BY <3>5, <5>1, <5>2
        <5> QED
          BY <3>4, <3>7, <4>1, <4>2, <5>3
      <4> QED
        BY <3>7, <4>1, <4>2 DEF a, b
    <3> QED
      BY <3>8, <3>9
  <2> QED
    BY <2>1, <2>2
<1>4. n \in Nat /\ n \in 0 .. n
  OBVIOUS
<1>5. n \in T
  <2> HIDE DEF T, n
  <2> QED
    BY <1>2, <1>3, <1>4, UpTo
<1>6. <<lo, hi>> \in D /\ <<lo, hi>>[1] = lo /\ <<lo, hi>>[2] = hi
  BY DEF Left
<1>7. Good(<<lo, hi>>)
  BY <1>5, <1>t, <1>6
<1> QED
  BY <1>6, <1>7

\* A quotient is the largest number whose multiple is not above.
LEMMA QuotientLargest ==
    ASSUME NEW n \in Nat, NEW d \in Nat \ {0}
    PROVE  /\ n \div d \in Nat
           /\ \A u \in Nat : u * d <= n => u <= n \div d
<1>1. n \div d \in Int /\ n % d \in Int /\ n = d * (n \div d) + (n % d) /\ n % d < d /\ n \div d >= 0
  BY Z3
<1>2. ASSUME NEW u \in Nat, u * d <= n PROVE u <= n \div d
  <2> DEFINE q == n \div d
  <2>1. q \in Int /\ d * q + d > n
    BY <1>1
  <2> HIDE DEF q
  <2>2. d * (u - q) < d
    <3>1. d * (u - q) = u * d - d * q /\ d * q \in Int /\ u * d \in Int
      BY <2>1, Z3
    <3> QED
      BY <1>2, <2>1, <3>1
  <2>3. u - q < 1
    BY <2>1, <2>2, Z3
  <2> QED
    BY <2>1, <2>3 DEF q
<1> QED
  BY <1>1, <1>2

\* What the benchmark buys is affordable, and nothing larger of the interval is.
LEMMA PurchaseFound ==
    ASSUME cash \in Nat, NEW price \in Nat \ {0}
    PROVE  /\ Whole(price) \in Nat
           /\ LargestPurchase(price) \in Nat
           /\ LargestPurchase(price) # 0 => Affordable(LargestPurchase(price), price)
           /\ \A u \in 1 .. Whole(price) :
                  Affordable(u, price) => u <= LargestPurchase(price)
<1> DEFINE hi == Whole(price)
           D == Left(1, hi)
           S == {u \in 1 .. hi : Affordable(u, price)}
           Body(g, i) ==
               IF i[1] > i[2] THEN NoUnits
               ELSE IF Affordable((i[1] + i[2]) \div 2, price)
                 THEN Larger((i[1] + i[2]) \div 2, g[<<(i[1] + i[2]) \div 2 + 1, i[2]>>])
                 ELSE g[<<i[1], (i[1] + i[2]) \div 2 - 1>>]
           selected == CHOOSE g : g = [i \in D |-> Body(g, i)]
<1>1. hi \in Nat
  <2>1. ExecutionPrice(price, Buy) \in Nat \ {0}
    BY PricesTyped DEF Sides
  <2>2. cash * Quantum \in Nat
    BY MoneyAssumption
  <2> QED
    BY <2>1, <2>2, QuotientLargest DEF Whole
<1>2. LargestPurchase(price) = Larger(0, selected[<<1, hi>>])
  <2>1. D = (1 .. hi + 1) \X (0 .. hi)
    BY DEF Left
  <2> QED
    BY <2>1 DEF LargestPurchase
<1> HIDE DEF hi
<1>3. ASSUME NEW g, NEW i \in D
      PROVE  Body(g, i) = BestOf(g, S, i)
  <2>1. i[1] \in Int /\ i[2] \in Int
    BY <1>1 DEF Left
  <2>2. CASE i[1] > i[2]
    BY <2>2 DEF BestOf
  <2>3. CASE ~(i[1] > i[2])
    <3> DEFINE middle == (i[1] + i[2]) \div 2
    <3>0. i[1] <= i[2]
      BY <2>1, <2>3
    <3>1. middle \in 1 .. hi
      <4>1. 1 \in Int /\ hi \in Int /\ i \in Left(1, hi)
        BY <1>1
      <4> HIDE DEF S, Body
      <4> QED
        BY <3>0, <4>1, ProbeShrinks
    <3>2. middle \in S <=> Affordable(middle, price)
      BY <3>1
    <3> HIDE DEF middle, S
    <3> QED
      BY <2>3, <3>2 DEF BestOf, middle
  <2> QED
    BY <2>2, <2>3
<1> HIDE DEF S, Body
<1>4. \E g : g = [i \in D |-> Body(g, i)]
  <2>1. PICK g : g = [i \in D |-> BestOf(g, S, i)]
    <3>1. 1 <= hi + 1
      BY <1>1
    <3>2. PICK g : IsBest(g, 1, hi, S)
      BY <1>1, <3>1, BisectionDefined
    <3> QED
      BY <3>2 DEF IsBest
  <2>2. [i \in D |-> BestOf(g, S, i)] = [i \in D |-> Body(g, i)]
    BY <1>3
  <2> QED
    BY <2>1, <2>2
<1>5. selected = [i \in D |-> Body(selected, i)]
  BY <1>4
<1> HIDE DEF selected
<1>6. IsBest(selected, 1, hi, S)
  <2>1. [i \in D |-> BestOf(selected, S, i)] = [i \in D |-> Body(selected, i)]
    BY <1>3
  <2> QED
    BY <1>5, <2>1 DEF IsBest
<1>7. \A u, v \in 1 .. hi : u < v /\ v \in S => u \in S
  <2> SUFFICES ASSUME NEW u \in 1 .. hi, NEW v \in 1 .. hi, u < v, Affordable(v, price)
               PROVE  Affordable(u, price)
    BY DEF S
  <2>1. u \in Int /\ v \in Int /\ u <= v
    BY <1>1
  <2>2. Cost(u, price) \in Int /\ Cost(v, price) \in Int /\ Cost(u, price) <= Cost(v, price)
    BY <2>1, CostMonotone
  <2> QED
    BY <2>2 DEF Affordable
<1>8. S \in SUBSET (1 .. hi)
  BY DEF S
<1>9. /\ selected[<<1, hi>>] \in S \cup {NoUnits}
      /\ \A u \in S : u <= selected[<<1, hi>>]
  <2>1. 1 \in Nat /\ hi \in Int /\ 1 <= hi + 1
    BY <1>1
  <2> QED
    BY <1>6, <1>7, <1>8, <2>1, BisectionLargest
<1> DEFINE found == selected[<<1, hi>>]
<1> HIDE DEF found
<1>10. found = NoUnits \/ (found \in 1 .. hi /\ Affordable(found, price))
  BY <1>9 DEF S, found
<1>11. LargestPurchase(price) = Larger(0, found) /\ \A u \in S : u <= found
  BY <1>2, <1>9 DEF found
<1>12. CASE found = NoUnits
  <2>1. LargestPurchase(price) = 0
    BY <1>11, <1>12 DEF Larger, NoUnits
  <2>2. ASSUME NEW u \in 1 .. hi, Affordable(u, price) PROVE FALSE
    <3>1. u \in S
      BY <2>2 DEF S
    <3> QED
      BY <1>1, <1>11, <1>12, <3>1 DEF NoUnits
  <2> QED
    BY <1>1, <2>1, <2>2 DEF hi
<1>13. CASE found \in 1 .. hi /\ Affordable(found, price)
  <2>1. LargestPurchase(price) = found /\ found \in Nat
    BY <1>1, <1>11, <1>13 DEF Larger
  <2>2. ASSUME NEW u \in 1 .. hi, Affordable(u, price) PROVE u <= found
    <3>1. u \in S
      BY <2>2 DEF S
    <3> QED
      BY <1>11, <3>1
  <2> QED
    BY <1>1, <1>13, <2>1, <2>2 DEF hi
<1> QED
  BY <1>10, <1>12, <1>13

\* The open and the close of a bar are prices.
LEMMA BarsPriced ==
    ASSUME BenchmarkInv, NEW n \in DOMAIN bars
    PROVE  bars[n].open \in Nat \ {0} /\ bars[n].close \in Nat \ {0}
<1>1. \A S : bars \in Seq(S) => bars[n] \in S
  OBVIOUS
<1> QED
  BY <1>1 DEF BenchmarkInv, Bar

\* "It selects the largest affordable quantity, keeps residual cash nonnegative".
LEMMA LargestIsBought == BenchmarkInv => PurchaseIsLargest
<1> SUFFICES ASSUME BenchmarkInv, Bought
             PROVE  /\ ResidualCash >= 0
                    /\ \A u \in 1 .. Whole(bars[PurchaseBar].open) :
                          Affordable(u, bars[PurchaseBar].open) => u <= Quantity
  BY DEF PurchaseIsLargest
<1> DEFINE price == bars[PurchaseBar].open
<1>1. price \in Nat \ {0} /\ cash \in Nat
  BY BarsPriced DEF Bought, BenchmarkInv
<1>2. Quantity = LargestPurchase(price)
  BY DEF Quantity
<1> HIDE DEF price
<1>3. /\ Quantity \in Nat
      /\ Quantity # 0 => Affordable(Quantity, price)
      /\ \A u \in 1 .. Whole(price) : Affordable(u, price) => u <= Quantity
  BY <1>1, <1>2, PurchaseFound
<1>4. ResidualCash >= 0
  <2>1. CASE Quantity = 0
    BY <1>1, <2>1 DEF ResidualCash
  <2>2. CASE Quantity # 0
    <3>1. Cost(Quantity, price) \in Int /\ Cost(Quantity, price) <= cash
      BY <1>1, <1>3, <2>2, CostMonotone DEF Affordable
    <3>2. ResidualCash = cash - Cost(Quantity, price)
      BY <2>2 DEF ResidualCash, price
    <3> QED
      BY <1>1, <3>1, <3>2
  <2> QED
    BY <2>1, <2>2
<1> QED
  BY <1>3, <1>4 DEF price

\* What the engine buys out of cash alone, the cash pays for.
LEMMA SizedIsAffordable ==
    ASSUME cash \in Nat, NEW price \in Nat \ {0}, NEW share \in Fraction,
           NEW units \in Nat \ {0},
           CandidateIsSafe(units, [cash |-> cash, quantity |-> 0], price, share, cash)
    PROVE  Affordable(units, price)
<1> DEFINE held == [cash |-> cash, quantity |-> 0]
           proposed == OrderTo(units, held, price)
           left == held.cash - MoneyOf(proposed.notional) - proposed.estimated_fee
<1>1. held.quantity = 0 /\ held.cash = cash /\ held.quantity \in Nat /\ held.cash \in Nat
  OBVIOUS
<1> HIDE DEF held
<1>2. /\ proposed.side = Buy
      /\ proposed.quantity = units
      /\ proposed.notional \in Nat /\ proposed.estimated_fee \in Nat
      /\ proposed.notional = units * ExecutionPrice(price, Buy)
      /\ proposed.estimated_fee = TradeFee(proposed.notional)
  <2>1. units # held.quantity /\ units > held.quantity /\ Magnitude(units - held.quantity) = units
    BY <1>1 DEF Magnitude
  <2>2. /\ proposed.side = Buy /\ proposed.quantity = units
        /\ proposed.notional \in Nat /\ proposed.estimated_fee \in Nat
    BY <1>1, <2>1, OrderTyped
  <2> QED
    BY <2>1, <2>2 DEF OrderTo
<1>3. MarketValue(units, price) <= left + MarketValue(units, price) /\ left \in Int
  <2>1. CandidateIsSafe(units, held, price, share, cash)
    BY DEF held
  <2>2. units \in Nat /\ units # held.quantity /\ cash \in Int
    BY <1>1
  <2> HIDE DEF proposed
  <2>3. left = IF proposed.side = Buy
                 THEN held.cash - MoneyOf(proposed.notional) - proposed.estimated_fee
                 ELSE held.cash + MoneyOf(proposed.notional) - proposed.estimated_fee
    BY <1>2
  <2> HIDE DEF left
  <2> QED
    BY <1>1, <2>1, <2>2, <2>3, SizedAsFilled DEF proposed
<1>4. MarketValue(units, price) \in Int /\ MoneyOf(proposed.notional) \in Int
  BY <1>2, ValueTyped, MoneyTyped
<1>5. left >= 0
  <2> HIDE DEF left
  <2> QED
    BY <1>3, <1>4
<1>6. MoneyOf(proposed.notional) + proposed.estimated_fee <= cash
  <2> HIDE DEF proposed
  <2> QED
    BY <1>1, <1>2, <1>4, <1>5
<1> QED
  BY <1>2, <1>6 DEF Affordable, Cost

\* With a minimum fee, a purchase that the cash pays for lies in the interval.
LEMMA FeeKeepsWhole ==
    ASSUME cash \in Nat, NEW price \in Nat \ {0}, NEW units \in Nat,
           Affordable(units, price), MinimumFee > 0
    PROVE  units <= Whole(price)
<1> DEFINE paid == ExecutionPrice(price, Buy)
           value == units * paid
           money == MoneyOf(value)
<1>1. paid \in Nat \ {0}
  BY PricesTyped DEF Sides
<1>2. value \in Nat
  <2> HIDE DEF paid
  <2> QED
    BY <1>1, Z3
<1>3. money \in Int /\ TradeFee(value) \in Int /\ TradeFee(value) >= MinimumFee
  BY <1>2, MoneyTyped, FeeTyped, MinimumFeeCharged
<1>4. money + TradeFee(value) <= cash
  BY DEF Affordable, Cost
<1>5. Within(Quantum * money - value, Quantum)
  BY <1>2, RoundedNear, MoneyAssumption DEF MoneyOf
<1> HIDE DEF money
<1>6. money + 1 <= cash
  BY <1>3, <1>4, MoneyAssumption
<1>7. Quantum * money + Quantum <= cash * Quantum /\ Quantum * money \in Int
      /\ cash * Quantum \in Nat
  <2>1. (money + 1) * Quantum <= cash * Quantum
    BY <1>3, <1>6, TimesMonotone, MoneyAssumption
  <2>2. (money + 1) * Quantum = Quantum * money + Quantum /\ Quantum * money \in Int
        /\ cash * Quantum \in Nat
    BY <1>3, MoneyAssumption, Z3
  <2> QED
    BY <2>1, <2>2
<1>8. value <= cash * Quantum
  <2> HIDE DEF value
  <2> QED
    BY <1>2, <1>5, <1>7, MoneyAssumption DEF Within
<1> QED
  BY <1>1, <1>7, <1>8, QuotientLargest DEF Whole

\* Without slippage, what the engine buys lies in the interval: it starts at the
\* same price.
LEMMA FreePriceKeepsWhole ==
    ASSUME cash \in Nat, NEW price \in Nat \ {0}, NEW share \in Fraction,
           NEW units \in Nat, SlippageBps = 0,
           units = TargetUnits([cash |-> cash, quantity |-> 0], price, share, cash)
    PROVE  units <= Whole(price)
<1> DEFINE held == [cash |-> cash, quantity |-> 0]
           lo == SearchLow(held, price, share, cash)
           hi == SearchHigh(held, price, share, cash)
           raw == RawTargetUnits(price, share, cash)
           found == Bisection(lo, hi, held, price, share, cash)
<1>1. held.quantity = 0
  OBVIOUS
<1>2. share \in Nat /\ share <= WeightScale /\ WeightScale \in Nat \ {0} /\ Quantum \in Nat \ {0}
  BY MoneyAssumption DEF Fraction
<1>3. raw \in Int
  BY <1>2, RawTargetTyped
<1> DEFINE d == WeightScale * (price * BpsScale)
           n == share * cash * Quantum
<1>4. d \in Nat \ {0} /\ n \in Nat
  <2>1. price * BpsScale \in Nat \ {0}
    BY MoneyAssumption, Z3
  <2>2. d \in Nat \ {0}
    BY <1>2, <2>1, Z3
  <2>3. share * cash \in Nat
    BY <1>2, Z3
  <2>4. n \in Nat
    BY <1>2, <2>3, Z3
  <2> QED
    BY <2>2, <2>4
<1>5. raw = n \div d
  BY DEF RawTargetUnits, ReferencePrice
<1>6. raw >= 0 /\ raw * d <= n
  <2> HIDE DEF n, d, raw
  <2> QED
    BY <1>4, <1>5, Z3
<1>7. raw <= Whole(price)
  <2> DEFINE paid == price * BpsScale
  <2>1. ExecutionPrice(price, Buy) = paid /\ paid \in Nat \ {0}
    <3>1. price * (BpsScale + SlippageBps) = paid
      BY MoneyAssumption
    <3>2. paid \in Nat \ {0}
      BY MoneyAssumption, Z3
    <3> QED
      BY <3>1, <3>2 DEF ExecutionPrice
  <2> HIDE DEF raw
  <2>2. cash * Quantum \in Nat /\ n = share * (cash * Quantum) /\ raw \in Nat
    BY <1>2, <1>3, <1>6, Z3
  <2>3. n <= WeightScale * (cash * Quantum)
    <3>1. share * (cash * Quantum) <= WeightScale * (cash * Quantum)
      BY <1>2, <2>2, TimesMonotone
    <3> QED
      BY <2>2, <3>1
  <2>4. raw * paid <= cash * Quantum
    <3> HIDE DEF n, paid
    <3> DEFINE x == raw * paid
               y == cash * Quantum
    <3>1. x \in Nat /\ y \in Nat
      BY <2>1, <2>2, Z3
    <3>2. raw * (WeightScale * paid) = WeightScale * x
      BY <1>2, <2>1, <2>2, Z3
    <3>3. WeightScale * x \in Int /\ WeightScale * y \in Int
      BY <1>2, <3>1
    <3>4. WeightScale * x <= WeightScale * y
      <4>1. raw * (WeightScale * paid) <= n
        BY <1>6 DEF paid
      <4> QED
        BY <1>4, <2>3, <3>2, <3>3, <4>1
    <3> HIDE DEF x, y
    <3>5. x <= y
      BY <1>2, <3>1, <3>4, Z3
    <3> QED
      BY <3>5 DEF x, y
  <2> HIDE DEF paid, n, d
  <2> QED
    BY <2>1, <2>2, <2>4, QuotientLargest DEF Whole
<1>8. lo = 0 /\ hi = raw
  <2>1. MarketValue(held.quantity, price) = 0
    <3>1. 0 * ReferencePrice(price) = 0
      BY MoneyAssumption DEF ReferencePrice
    <3>2. MoneyOf(0) = 0
      BY MoneyAssumption, Z3 DEF MoneyOf, RoundHalfEven
    <3> QED
      BY <1>1, <3>1, <3>2 DEF MarketValue
  <2>2. share * cash \in Nat
    BY <1>2, Z3
  <2>3. AtOrBelowTarget(held, price, share, cash)
    BY <1>2, <2>1, <2>2 DEF AtOrBelowTarget
  <2> HIDE DEF held, raw
  <2> QED
    BY <1>1, <1>3, <1>6, <2>3 DEF SearchLow, SearchHigh, Larger, raw
<1> HIDE DEF raw, lo, hi, held
<1>9. found = NoUnits \/ found \in 0 .. raw
  <2>1. lo \in Int /\ hi \in Int /\ lo <= hi
    BY <1>3, <1>6, <1>8
  <2>2. found = NoUnits \/ found \in lo .. hi
    BY <2>1, BisectionFinds
  <2> QED
    BY <1>8, <2>2
<1>10. units = IF share = 0 THEN 0 ELSE Larger(0, found)
  BY DEF TargetUnits, held, lo, hi
<1> HIDE DEF found
<1>11. units <= raw
  BY <1>3, <1>6, <1>9, <1>10 DEF Larger, NoUnits
<1>12. Whole(price) \in Int
  BY PurchaseFound
<1> QED
  BY <1>3, <1>7, <1>11, <1>12

\* The engine's own sizing, with the same cash at the same open, never buys more.
LEMMA NoMoreIsBought == BenchmarkInv => EngineBuysNoMore
<1> SUFFICES ASSUME BenchmarkInv, Bought, NEW share \in 0 .. WeightScale,
                    NEW units, units = TargetUnits([cash |-> cash, quantity |-> 0],
                                                   bars[PurchaseBar].open, share, cash)
             PROVE  \/ units <= Quantity
                    \/ SlippageBps > 0 /\ MinimumFee = 0 /\ units > Whole(bars[PurchaseBar].open)
  BY DEF EngineBuysNoMore
<1> DEFINE price == bars[PurchaseBar].open
           held == [cash |-> cash, quantity |-> 0]
<1>1. price \in Nat \ {0} /\ cash \in Nat
  BY BarsPriced DEF Bought, BenchmarkInv
<1>2. Quantity = LargestPurchase(price)
  BY DEF Quantity
<1>3. share \in Fraction /\ share \in Nat
  BY MoneyAssumption DEF Fraction
<1>4. held.quantity \in Nat
  OBVIOUS
<1> HIDE DEF price
<1>5. Quantity \in Nat /\ Whole(price) \in Nat
      /\ (\A u \in 1 .. Whole(price) : Affordable(u, price) => u <= Quantity)
  BY <1>1, <1>2, PurchaseFound
<1>6. units \in Nat /\ (units = 0 \/ CandidateIsSafe(units, held, price, share, cash))
  <2>1. units = TargetUnits(held, price, share, cash)
    BY DEF price
  <2> HIDE DEF held
  <2> QED
    BY <1>1, <1>3, <1>4, <2>1, SizedIsSafe
<1>7. CASE units = 0
  BY <1>5, <1>7
<1>8. CASE units # 0
  <2>1. Affordable(units, price)
    BY <1>1, <1>3, <1>6, <1>8, SizedIsAffordable
  <2>2. CASE units <= Whole(price)
    <3>1. units \in 1 .. Whole(price)
      BY <1>5, <1>6, <1>8, <2>2
    <3> QED
      BY <1>5, <2>1, <3>1
  <2>3. CASE ~(units <= Whole(price))
    <3>1. ~(MinimumFee > 0)
      BY <1>1, <1>6, <2>1, <2>3, FeeKeepsWhole
    <3>2. SlippageBps # 0
      BY <1>1, <1>3, <1>6, <2>3, FreePriceKeepsWhole DEF price
    <3>3. units > Whole(price)
      BY <1>5, <1>6, <2>3
    <3> QED
      BY <3>1, <3>2, <3>3, MoneyAssumption DEF price
  <2> QED
    BY <2>2, <2>3
<1> QED
  BY <1>7, <1>8

\* Cost and slippage and value are rounded apart, and no more is lost than that.
LEMMA RoundedApart ==
    ASSUME NEW q \in Nat, NEW paid \in Int, NEW before \in Int, NEW now \in Int
    PROVE  Within((MoneyOf(q * now) - MoneyOf(q * paid) + MoneyOf(q * (paid - before))) * Quantum
                      - q * (now - before), 3 * Quantum)
<1> DEFINE a == q * now
           b == q * paid
           c == q * (paid - before)
<1>1. a \in Int /\ b \in Int /\ c \in Int /\ q * (now - before) = a - b + c
  BY Z3
<1> HIDE DEF a, b, c
<1>2. MoneyOf(a) \in Int /\ MoneyOf(b) \in Int /\ MoneyOf(c) \in Int
  BY <1>1, MoneyTyped
<1> DEFINE x == Quantum * MoneyOf(a) - a
           y == Quantum * MoneyOf(b) - b
           z == Quantum * MoneyOf(c) - c
<1>3. Within(x, Quantum) /\ Within(y, Quantum) /\ Within(z, Quantum)
  BY <1>1, RoundedNear, MoneyAssumption DEF MoneyOf
<1>4. /\ Quantum * MoneyOf(a) \in Int /\ Quantum * MoneyOf(b) \in Int
      /\ Quantum * MoneyOf(c) \in Int
      /\ (MoneyOf(a) - MoneyOf(b) + MoneyOf(c)) * Quantum =
             Quantum * MoneyOf(a) - Quantum * MoneyOf(b) + Quantum * MoneyOf(c)
  BY <1>2, MoneyAssumption, Z3
<1>5. /\ x \in Int /\ y \in Int /\ z \in Int
      /\ (MoneyOf(a) - MoneyOf(b) + MoneyOf(c)) * Quantum - (a - b + c) = (x - y) + z
  BY <1>1, <1>4
<1> HIDE DEF x, y, z
<1>6. Within(x - y, Quantum + Quantum)
  BY <1>3, <1>5, WithinSum, MoneyAssumption
<1>7. Within((x - y) + z, (Quantum + Quantum) + Quantum)
  <2>1. x - y \in Int /\ Quantum + Quantum \in Int /\ Quantum \in Int
    BY <1>5, MoneyAssumption
  <2> QED
    BY <1>3, <1>5, <1>6, <2>1, WithinSum
<1>8. (Quantum + Quantum) + Quantum = 3 * Quantum
  BY MoneyAssumption
<1> QED
  BY <1>1, <1>5, <1>7, <1>8 DEF a, b, c

\* "costed": the benchmark's equity is its cash, less fee and slippage, plus what
\* the price has done since.
LEMMA CostsAre == BenchmarkInv => CostsAreCharged
<1> SUFFICES ASSUME BenchmarkInv, NEW n \in DOMAIN bars
             PROVE  LET moved == IF n < PurchaseBar THEN 0
                                 ELSE Quantity * (ReferencePrice(bars[n].close)
                                                  - ReferencePrice(bars[PurchaseBar].open))
                        costs == IF n < PurchaseBar THEN 0 ELSE Fee + SlippageCost
                        error == (EquityValues[n] - cash + costs) * Quantum - moved
                    IN  2 * error \in -3 * Quantum .. 3 * Quantum
  BY DEF CostsAreCharged
<1>1. cash \in Nat /\ Quantum \in Nat \ {0}
  BY MoneyAssumption DEF BenchmarkInv
<1>2. EquityValues[n] = IF n >= PurchaseBar /\ Quantity > 0
                        THEN ResidualCash + MarketValue(Quantity, bars[n].close)
                        ELSE cash
  BY DEF EquityValues
<1>3. n \in Nat /\ n >= 1 /\ PurchaseBar \in Nat /\ PurchaseBar >= 1
  <2>1. \A S : bars \in Seq(S) => DOMAIN bars = 1 .. Len(bars) /\ Len(bars) \in Nat
    OBVIOUS
  <2>2. n \in 1 .. Len(bars) /\ Len(bars) \in Nat
    BY <2>1 DEF BenchmarkInv
  <2> QED
    BY <2>2, BenchmarkAssumption DEF PurchaseBar
<1>z. /\ 0 * Quantum - 0 = 0 /\ 2 * 0 \in -3 * Quantum .. 3 * Quantum
      /\ (cash - cash + 0) * Quantum - 0 = 0 /\ cash - cash + (0 + 0) = 0
  BY <1>1
<1>4. CASE n < PurchaseBar
  <2>1. EquityValues[n] = cash
    BY <1>2, <1>3, <1>4
  <2> QED
    BY <1>4, <1>z, <2>1
<1>5. CASE ~(n < PurchaseBar)
  <2>1. n >= PurchaseBar /\ PurchaseBar \in DOMAIN bars
    <3>1. \A S : bars \in Seq(S) => DOMAIN bars = 1 .. Len(bars) /\ Len(bars) \in Nat
      OBVIOUS
    <3>2. DOMAIN bars = 1 .. Len(bars) /\ Len(bars) \in Nat
      BY <3>1 DEF BenchmarkInv
    <3> QED
      BY <1>3, <1>5, <3>2
  <2> DEFINE price == bars[PurchaseBar].open
             close == bars[n].close
             paid == ExecutionPrice(price, Buy)
             before == ReferencePrice(price)
             now == ReferencePrice(close)
  <2>2. price \in Nat \ {0} /\ close \in Nat \ {0}
    BY <2>1, BarsPriced
  <2>3. Quantity \in Nat
    <3>1. Quantity = LargestPurchase(price)
      BY <2>1 DEF Quantity, Bought
    <3> HIDE DEF price
    <3> QED
      BY <1>1, <2>2, <3>1, PurchaseFound
  <2> HIDE DEF price, close
  <2>4. paid \in Int /\ before \in Int /\ now \in Int
    BY <2>2, PricesTyped DEF Sides
  <2>5. CASE Quantity = 0
    <3>1. EquityValues[n] = cash /\ Fee = 0 /\ SlippageCost = 0
      BY <1>2, <2>5 DEF Fee, SlippageCost
    <3>2. Quantity * (now - before) = 0
      BY <2>4, <2>5
    <3> QED
      BY <1>1, <1>5, <1>z, <3>1, <3>2 DEF price, close
  <2>6. CASE Quantity # 0
    <3>1. /\ EquityValues[n] = ResidualCash + MoneyOf(Quantity * now)
          /\ ResidualCash = cash - (MoneyOf(Quantity * paid) + TradeFee(Quantity * paid))
          /\ Fee = TradeFee(Quantity * paid)
          /\ SlippageCost = MoneyOf(Quantity * (paid - before))
      <4>1. EquityValues[n] = ResidualCash + MoneyOf(Quantity * now)
        BY <1>2, <2>1, <2>3, <2>6 DEF MarketValue, close
      <4>2. ResidualCash = cash - (MoneyOf(Quantity * paid) + TradeFee(Quantity * paid))
        BY <2>6 DEF ResidualCash, Cost, price
      <4>3. Fee = TradeFee(Quantity * paid)
        BY <2>6 DEF Fee, price
      <4>4. SlippageCost = MoneyOf(Quantity * (paid - before))
        BY <2>6 DEF SlippageCost, price
      <4> QED
        BY <4>1, <4>2, <4>3, <4>4
    <3>2. /\ Quantity * now \in Int /\ Quantity * paid \in Int
          /\ Quantity * (paid - before) \in Int /\ Quantity * (now - before) \in Int
      <4> HIDE DEF now, paid, before
      <4> QED
        BY <2>3, <2>4, Z3
    <3>3. /\ MoneyOf(Quantity * now) \in Int /\ MoneyOf(Quantity * paid) \in Int
          /\ MoneyOf(Quantity * (paid - before)) \in Int /\ TradeFee(Quantity * paid) \in Int
      BY <3>2, MoneyTyped, FeeTyped
    <3> HIDE DEF now, paid, before
    <3>4. EquityValues[n] - cash + (Fee + SlippageCost) =
              MoneyOf(Quantity * now) - MoneyOf(Quantity * paid)
                  + MoneyOf(Quantity * (paid - before))
      BY <1>1, <3>1, <3>3
    <3> DEFINE error == (EquityValues[n] - cash + (Fee + SlippageCost)) * Quantum
                            - Quantity * (now - before)
    <3>5. Within(error, 3 * Quantum)
      BY <2>3, <2>4, <3>4, RoundedApart
    <3>6. error \in Int
      BY <1>1, <3>2, <3>3, <3>4
    <3>7. 2 * error \in -3 * Quantum .. 3 * Quantum
      <4> HIDE DEF error
      <4>1. -(3 * Quantum) = -3 * Quantum
        BY <1>1
      <4> QED
        BY <1>1, <3>5, <3>6, <4>1 DEF Within
    <3> QED
      BY <1>5, <3>7 DEF price, close, now, before
  <2> QED
    BY <2>5, <2>6
<1> QED
  BY <1>4, <1>5

(***************************************************************************)
(* The benchmark of every report is the largest purchase its cash covers,  *)
(* none the engine would better with the same cash, and all of its costs   *)
(* are charged: for every cash, price, fee, slippage and precision.        *)
(***************************************************************************)
THEOREM BenchmarkHolds == AllSpec => []BenchmarkIsFair
<1>1. AllInv => BenchmarkIsFair
  BY LargestIsBought, NoMoreIsBought, CostsAre DEF AllInv, BenchmarkIsFair
<1> QED
  BY <1>1, DecisionsInvariant, PTL

-----------------------------------------------------------------------------
\* The quantity found is one of the program's answers: nothing, or a safe candidate.
LEMMA FoundIsSafe ==
    ASSUME Searched, AskedInv
    PROVE  /\ Found \in Nat
           /\ Found = 0 \/ CandidateIsSafe(Found, holding, ticks, weight, Equity)
<1>1. CASE best = None
  BY <1>1 DEF Found
<1>2. CASE best # None
  <2>1. best \in safe /\ best \in first .. last /\ first \in Nat /\ last \in Int
    BY <1>2 DEF Searched, AskedInv
  <2>2. CandidateIsSafe(best, holding, ticks, weight, Equity)
    BY <2>1 DEF AskedInv
  <2>3. Found = best /\ best \in Nat
    BY <1>2, <2>1 DEF Found
  <2> QED
    BY <2>2, <2>3
<1> QED
  BY <1>1, <1>2

\* The order of the quantity found is accepted, but for a sale its fee makes unaffordable.
LEMMA SizedIsAccepted == AskedInv /\ Searched => OrderIsAccepted
<1> DEFINE proposed == OrderTo(Found, holding, ticks)
           mark == [peak |-> Equity, start_of_day |-> Equity]
           reasons == EvaluateOrder(EffectivePolicy, proposed, Portfolio)
<1> SUFFICES ASSUME AskedInv, Searched, Found # holding.quantity, WithinCaps
             PROVE  \/ reasons = {}
                    \/ /\ proposed.side = Sell
                       /\ reasons \subseteq {"insufficient_cash",
                                             "projected_equity_non_positive"}
  BY DEF OrderIsAccepted
<1>1. /\ holding.cash \in Nat /\ holding.quantity \in Nat
      /\ ticks \in Nat \ {0} /\ weight \in Fraction
      /\ PortfolioHalt(EffectivePolicy, Portfolio) = {}
  BY DEF AskedInv
<1>2. Found \in Nat /\ (Found = 0 \/ CandidateIsSafe(Found, holding, ticks, weight, Equity))
  BY FoundIsSafe
<1>3. Equity = EquityAt(holding, ticks) /\ Portfolio = Snapshot(holding, Equity, mark, FALSE)
  BY DEF Equity, Portfolio
<1> HIDE DEF mark, proposed
<1>0. InvalidPortfolio(Portfolio) = {} /\ LossLimits(EffectivePolicy, Portfolio) = {}
  BY <1>1 DEF PortfolioHalt
<1>4. LeftToCheck(proposed, Portfolio, holding, Found, ticks, weight, Equity)
  BY <1>0, <1>1, <1>2, <1>3, SafeOrderIsStated DEF proposed
<1>5. /\ EffectivePolicy.max_asset_weight = MaxPosition
      /\ EffectivePolicy.max_total_gross_exposure = MaxTotalExposure
      /\ EffectivePolicy.max_order_notional_weight = MaxOrderNotional
      /\ EffectivePolicy.max_data_age_seconds = Policy.max_data_age_seconds
      /\ EffectivePolicy.allowed_symbols = Policy.allowed_symbols
      /\ EffectivePolicy.max_open_positions \in Nat \ {0}
  <2>1. /\ Policy.max_asset_weight \in Int /\ Policy.max_total_gross_exposure \in Int
        /\ Policy.max_order_notional_weight \in Int /\ MaxPosition \in Int
        /\ MaxTotalExposure \in Int /\ MaxOrderNotional \in Int
        /\ Policy.max_open_positions \in Nat \ {0} /\ MaxOpenPositions \in Nat \ {0}
    BY ProposalAssumption, SizingAssumption, MoneyAssumption DEF Fraction
  <2> QED
    BY <2>1 DEF EffectivePolicy, Stricter, Smaller, WithinCaps
<1>6. InvalidRequest(EffectivePolicy, proposed) = {}
  <2>1. Symbol \in EffectivePolicy.allowed_symbols
        /\ ~(DataAge > EffectivePolicy.max_data_age_seconds)
    BY <1>5, ProposalAssumption DEF WithinCaps
  <2> QED
    BY <1>4, <2>1 DEF LeftToCheck, When
<1>7. /\ proposed.side \in Sides
      /\ proposed.side = Sell => ReducesRisk(proposed)
      /\ UnaffordableOrder(proposed, Portfolio)
             \subseteq {"insufficient_cash", "projected_equity_non_positive"}
      /\ reasons = UnaffordableOrder(proposed, Portfolio)
                   \cup BreachedCaps(EffectivePolicy, proposed, Portfolio)
                   \cup TooManyPositions(EffectivePolicy, proposed, Portfolio)
  BY <1>0, <1>4, <1>6 DEF LeftToCheck
<1>8. TooManyPositions(EffectivePolicy, proposed, Portfolio) = {}
  <2>1. Portfolio.open_positions = OpenPositions(holding)
    BY <1>3 DEF Snapshot
  <2>2. Stated(proposed, holding, Found, ticks) /\ proposed.reference_price \in Nat \ {0}
    <3>1. proposed.reference_price = ReferencePrice(ticks)
      BY DEF proposed, OrderTo
    <3> QED
      BY <1>1, <1>2, <3>1, OrderStated, PricesTyped, SMTT(30) DEF proposed, Sides
  <2>3. CASE holding.quantity = 0
    <3>1. ~(Portfolio.open_positions >= EffectivePolicy.max_open_positions)
      BY <1>5, <2>1, <2>3 DEF OpenPositions
    <3> QED
      BY <3>1 DEF TooManyPositions, When
  <2>4. CASE holding.quantity # 0
    <3>1. proposed.current_symbol_exposure # 0
      <4>1. holding.quantity * proposed.reference_price # 0
        BY <1>1, <2>2, <2>4, Z3
      <4> QED
        BY <2>2, <4>1 DEF Stated
    <3> QED
      BY <3>1 DEF TooManyPositions, When
  <2> QED
    BY <2>3, <2>4
<1>9. CASE proposed.side = Sell
  <2>1. BreachedCaps(EffectivePolicy, proposed, Portfolio) = {}
    BY <1>7, <1>9 DEF BreachedCaps
  <2> QED
    BY <1>7, <1>8, <1>9, <2>1
<1>10. CASE proposed.side = Buy
  <2>1. weight <= MaxPosition /\ weight <= MaxOrderNotional
    BY DEF WithinCaps
  <2>2. /\ BreachedCaps(EffectivePolicy, proposed, Portfolio) = {}
        /\ UnaffordableOrder(proposed, Portfolio) = {}
    <3> HIDE DEF EffectivePolicy
    <3> QED
      BY <1>1, <1>2, <1>3, <1>4, <1>5, <1>10, <2>1, NoCapBreached DEF proposed
  <2> QED
    BY <1>7, <1>8, <2>2
<1> QED
  BY <1>7, <1>9, <1>10 DEF Sides

(***************************************************************************)
(* Sizing and risk policy agree: for every portfolio that passed the check *)
(* at the open, every price, cost and target within the caps, the policy   *)
(* accepts the order that trades to what the search found, but for a sale  *)
(* whose fee the cash does not pay.                                        *)
(***************************************************************************)
THEOREM SizedOrdersAreAccepted == AllSpec => []SizedOrderIsAccepted
<1>1. AllInv => SizedOrderIsAccepted
  BY SizedIsAccepted DEF AllInv, SizedOrderIsAccepted
<1> QED
  BY <1>1, DecisionsInvariant, PTL

-----------------------------------------------------------------------------
(***************************************************************************)
(* The loop and the function, and what they find.                          *)
(***************************************************************************)
\* A search that is over has found what the function finds.
LEMMA LoopIsTheFunction == AskedInv /\ Searched /\ LoopInv => LoopAgrees
<1> SUFFICES ASSUME AskedInv, Searched, LoopInv, Finished
             PROVE  Found = TargetUnits(holding, ticks, weight, Equity)
  BY DEF LoopAgrees
<1>1. first \in Nat /\ last \in Nat /\ first <= last /\ safe \subseteq Int
  BY AskedInterval
<1>2. \A units \in first .. last :
          units \in safe <=> CandidateIsSafe(units, holding, ticks, weight, Equity)
  BY DEF AskedInv
<1>3. PICK bisection :
          /\ IsBest(bisection, first, last, safe)
          /\ Bisection(first, last, holding, ticks, weight, Equity) = bisection[<<first, last>>]
  <2>1. first \in Int /\ last \in Int
    BY <1>1
  <2> QED
    BY <1>1, <1>2, <2>1, BisectionUnfolds
<1>4. bisection[<<low, high>>] = NoUnits
  <2>1. <<low, high>> \in Left(first, last) /\ low > high
    BY <1>1, LeftOfSearch DEF Finished
  <2>2. bisection[<<low, high>>] = BestOf(bisection, safe, <<low, high>>)
    BY <1>3, <2>1 DEF IsBest
  <2>3. <<low, high>>[1] = low /\ <<low, high>>[2] = high
    OBVIOUS
  <2> QED
    BY <2>1, <2>2, <2>3 DEF BestOf
<1>5. bisection[<<first, last>>] = IF best = None THEN NoUnits ELSE Larger(best, NoUnits)
  BY <1>3, <1>4 DEF LoopInv
<1>6. TargetUnits(holding, ticks, weight, Equity) = Larger(0, bisection[<<first, last>>])
  BY <1>3 DEF TargetUnits, AskedInv
<1>7. best # None => best \in Nat
  BY <1>1 DEF Searched
<1>8. CASE best = None
  BY <1>5, <1>6, <1>8 DEF Found, Larger, NoUnits
<1>9. CASE best # None
  <2>1. bisection[<<first, last>>] = best
    BY <1>5, <1>7, <1>9 DEF Larger, NoUnits
  <2> QED
    BY <1>6, <1>7, <1>9, <2>1 DEF Found, Larger
<1> QED
  BY <1>8, <1>9

\* What a sale of units brings in.
Proceeds(units, price) ==
    MoneyOf(units * ExecutionPrice(price, Sell)) - TradeFee(units * ExecutionPrice(price, Sell))

\* A unit sold brings in more than two quanta after its proportional fee.
UnitPays(price) == ExecutionPrice(price, Sell) * (BpsScale - FeeBps) > 2 * (Quantum * BpsScale)

\* Then selling more brings in more: the roundings of value and fee make up for less.
LEMMA ProceedsGrow ==
    ASSUME NEW price \in Nat \ {0}, UnitPays(price), NEW m \in Nat, NEW n \in Nat, m < n
    PROVE  /\ Proceeds(m, price) \in Int /\ Proceeds(n, price) \in Int
           /\ Proceeds(m, price) < Proceeds(n, price)
<1> DEFINE paid == ExecutionPrice(price, Sell)
           unit == Quantum * BpsScale
           base == MinimumFee * Quantum * BpsScale
           chargedM == Larger(m * paid * FeeBps, base)
           chargedN == Larger(n * paid * FeeBps, base)
           a == MoneyOf(n * paid)
           b == MoneyOf(m * paid)
           f == TradeFee(n * paid)
           g == TradeFee(m * paid)
<1>1. /\ paid \in Nat \ {0} /\ unit \in Nat \ {0} /\ base \in Int
      /\ Quantum \in Nat \ {0} /\ BpsScale \in Nat \ {0} /\ FeeBps \in Nat
  <2>1. paid \in Nat \ {0}
    BY PricesTyped DEF Sides
  <2>2. MinimumFee * Quantum \in Int
    BY MoneyAssumption, Z3
  <2>3. base \in Int
    BY <2>2, MoneyAssumption, Z3
  <2> QED
    BY <2>1, <2>3, MoneyAssumption, Z3
<1>2. paid * (BpsScale - FeeBps) > 2 * unit
  BY DEF UnitPays
<1> HIDE DEF paid, base
<1>3. m * paid \in Int /\ n * paid \in Int /\ (n - m) * paid = n * paid - m * paid
      /\ (n - m) * paid \in Nat
  BY <1>1, Z3
<1>4. a \in Int /\ b \in Int /\ f \in Int /\ g \in Int
  BY <1>3, MoneyTyped, FeeTyped
<1>5. Within(Quantum * a - n * paid, Quantum) /\ Within(Quantum * b - m * paid, Quantum)
  BY <1>1, <1>3, RoundedNear DEF MoneyOf
<1>6. /\ m * paid * FeeBps \in Int /\ n * paid * FeeBps \in Int
      /\ (n - m) * paid * FeeBps = n * paid * FeeBps - m * paid * FeeBps
      /\ (n - m) * paid * FeeBps \in Nat
  <2>1. \A x, y \in Int, k \in Nat : x * k \in Int /\ (x - y) * k = x * k - y * k
    BY Z3
  <2>2. \A x, k \in Nat : x * k \in Nat
    BY Z3
  <2> QED
    BY <1>1, <1>3, <2>1, <2>2
<1>7. chargedM \in Int /\ chargedN \in Int /\ chargedN - chargedM <= (n - m) * paid * FeeBps
  BY <1>1, <1>6 DEF Larger
<1>8. Within(unit * f - chargedN, unit) /\ Within(unit * g - chargedM, unit)
  <2>1. f = RoundHalfEven(chargedN, unit) /\ g = RoundHalfEven(chargedM, unit)
    BY DEF TradeFee, base
  <2> QED
    BY <1>1, <1>7, <2>1, RoundedNear
<1> HIDE DEF a, b, f, g, chargedM, chargedN
<1>9. unit * (f - g) <= (n - m) * paid * FeeBps + unit
  <2>1. unit * f \in Int /\ unit * g \in Int /\ unit * (f - g) = unit * f - unit * g
    BY <1>1, <1>4, Z3
  <2> HIDE DEF unit
  <2> QED
    BY <1>1, <1>6, <1>7, <1>8, <2>1 DEF Within
<1>10. unit * (a - b) >= (n - m) * paid * BpsScale - unit
  <2>1. Quantum * a \in Int /\ Quantum * b \in Int /\ Quantum * (a - b) = Quantum * a - Quantum * b
    BY <1>1, <1>4, Z3
  <2>2. Quantum * (a - b) >= (n - m) * paid - Quantum
    BY <1>1, <1>3, <1>5, <2>1 DEF Within
  <2>3. Quantum * (a - b) \in Int /\ (n - m) * paid - Quantum \in Int
    BY <1>1, <1>3, <2>1
  <2>4. (Quantum * (a - b)) * BpsScale >= ((n - m) * paid - Quantum) * BpsScale
    BY <1>1, <2>2, <2>3, TimesMonotone
  <2>5. /\ (Quantum * (a - b)) * BpsScale = unit * (a - b)
        /\ ((n - m) * paid - Quantum) * BpsScale = (n - m) * paid * BpsScale - unit
    <3>1. \A x, q, k \in Int : (q * x) * k = (q * k) * x /\ (x - q) * k = x * k - q * k
      BY Z3
    <3>2. a - b \in Int
      BY <1>4
    <3> QED
      BY <1>1, <1>3, <3>1, <3>2
  <2> QED
    BY <2>4, <2>5
<1>11. (n - m) * paid * BpsScale - (n - m) * paid * FeeBps > 2 * unit
  <2> DEFINE share == paid * (BpsScale - FeeBps)
  <2>1. share \in Int /\ share > 0
    <3>1. share \in Int
      BY <1>1, Z3
    <3> QED
      BY <1>1, <1>2, <3>1
  <2>2. share <= (n - m) * share
    <3>1. n - m \in Nat /\ 1 <= n - m
      OBVIOUS
    <3>2. 1 * share <= (n - m) * share
      BY <2>1, <3>1, TimesMonotone
    <3> QED
      BY <2>1, <3>2
  <2>3. (n - m) * share = (n - m) * paid * BpsScale - (n - m) * paid * FeeBps
    <3>1. \A x, p, k, l \in Int : x * (p * (k - l)) = x * p * k - x * p * l
      BY Z3
    <3> QED
      BY <1>1, <3>1
  <2>4. (n - m) * share \in Int
    BY <2>1, Z3
  <2> HIDE DEF share
  <2> QED
    BY <1>1, <1>2, <2>1, <2>2, <2>3, <2>4 DEF share
<1>12. unit * ((a - b) - (f - g)) > 0
  <2>1. /\ unit * ((a - b) - (f - g)) = unit * (a - b) - unit * (f - g)
        /\ unit * (a - b) \in Int /\ unit * (f - g) \in Int
    <3>1. \A u, x, y \in Int : u * (x - y) = u * x - u * y /\ u * x \in Int
      BY Z3
    <3>2. a - b \in Int /\ f - g \in Int
      BY <1>4
    <3> QED
      BY <1>1, <3>1, <3>2
  <2>2. (n - m) * paid * BpsScale \in Int /\ (n - m) * paid * FeeBps \in Int
    BY <1>1, <1>3, Z3
  <2> HIDE DEF unit
  <2> QED
    BY <1>1, <1>9, <1>10, <1>11, <2>1, <2>2
<1>13. (a - b) - (f - g) > 0
  <2>1. \A u \in Nat \ {0}, x \in Int : u * x > 0 => x > 0
    BY Z3
  <2>2. (a - b) - (f - g) \in Int
    BY <1>4
  <2> QED
    BY <1>1, <1>12, <2>1, <2>2
<1> QED
  BY <1>4, <1>13 DEF Proceeds, a, b, f, g, paid

\* When equity grows by no more than value does, a smaller holding weighs no more.
LEMMA SmallerWeighsLess ==
    ASSUME NEW share \in Fraction, NEW x \in Int, NEW y \in Int, NEW a \in Int, NEW b \in Int,
           x <= y, b - a <= y - x, y * WeightScale <= share * b
    PROVE  x * WeightScale <= share * a
<1>1. share \in Nat /\ WeightScale \in Nat \ {0} /\ share <= WeightScale
  BY MoneyAssumption DEF Fraction
<1>2. share * (b - a) <= share * (y - x)
  <2>1. (b - a) * share <= (y - x) * share
    BY <1>1, TimesMonotone
  <2> QED
    BY <1>1, <2>1, Z3
<1>3. share * (y - x) <= WeightScale * (y - x)
  <2>1. y - x \in Nat
    OBVIOUS
  <2> QED
    BY <1>1, <2>1, TimesMonotone
<1>4. /\ share * (b - a) = share * b - share * a /\ share * (y - x) \in Int
      /\ WeightScale * (y - x) = y * WeightScale - x * WeightScale
      /\ share * a \in Int /\ share * b \in Int
      /\ x * WeightScale \in Int /\ y * WeightScale \in Int
  BY <1>1, Z3
<1> QED
  BY <1>2, <1>3, <1>4

\* The test of a candidate above the holding, of one below it, and of the holding.
LEMMA BuyIsTested ==
    ASSUME NEW held, held.quantity \in Nat, held.cash \in Nat,
           NEW price \in Nat \ {0}, NEW share, NEW worth,
           NEW units \in Nat, units > held.quantity,
           NEW n, n = (units - held.quantity) * ExecutionPrice(price, Buy),
           NEW left, left = held.cash - (MoneyOf(n) + TradeFee(n)) + MarketValue(units, price)
    PROVE  CandidateIsSafe(units, held, price, share, worth) <=>
               /\ left > 0
               /\ MarketValue(units, price) * WeightScale <= share * left
               /\ \/ share > MaxOrderNotional
                  \/ n * WeightScale <= MaxOrderNotional * worth * Quantum
               /\ MarketValue(units, price) > 0 /\ MoneyOf(n) > 0
<1>1. Magnitude(units - held.quantity) = units - held.quantity
  BY DEF Magnitude
<1>2. ExecutionPrice(price, Buy) \in Nat
  BY PricesTyped DEF Sides
<1>3. n \in Int
  BY <1>2, Z3
<1>4. MoneyOf(n) \in Int /\ TradeFee(n) \in Int /\ MarketValue(units, price) \in Nat
  BY <1>3, MoneyTyped, FeeTyped, ValueTyped
<1>5. held.cash + (-MoneyOf(n) - TradeFee(n)) + MarketValue(units, price) = left
  BY <1>4
<1>6. (units > held.quantity) = TRUE /\ (units < held.quantity) = FALSE
  OBVIOUS
<1> QED
  BY <1>1, <1>5, <1>6 DEF CandidateIsSafe

LEMMA SaleIsTested ==
    ASSUME NEW held, held.quantity \in Nat, held.cash \in Nat,
           NEW price \in Nat \ {0}, NEW share, NEW worth,
           NEW units \in Nat, units < held.quantity,
           NEW left, left = held.cash + Proceeds(held.quantity - units, price)
                              + MarketValue(units, price)
    PROVE  CandidateIsSafe(units, held, price, share, worth) <=>
               left > 0 /\ MarketValue(units, price) * WeightScale <= share * left
<1>1. Magnitude(units - held.quantity) = held.quantity - units
  BY DEF Magnitude
<1>2. ExecutionPrice(price, Sell) \in Nat
  BY PricesTyped DEF Sides
<1> DEFINE n == (held.quantity - units) * ExecutionPrice(price, Sell)
<1>3. n \in Int
  BY <1>2, Z3
<1>4. MoneyOf(n) \in Int /\ TradeFee(n) \in Int /\ MarketValue(units, price) \in Nat
  BY <1>3, MoneyTyped, FeeTyped, ValueTyped
<1>5. held.cash + (MoneyOf(n) - TradeFee(n)) + MarketValue(units, price) = left
  BY <1>4 DEF Proceeds
<1>6. (units > held.quantity) = FALSE /\ (units < held.quantity) = TRUE
  OBVIOUS
<1> QED
  BY <1>1, <1>5, <1>6 DEF CandidateIsSafe

LEMMA HoldingIsTested ==
    ASSUME NEW held, held.quantity \in Nat, held.cash \in Nat,
           NEW price \in Nat \ {0}, NEW share, NEW worth
    PROVE  CandidateIsSafe(held.quantity, held, price, share, worth) <=>
               /\ EquityAt(held, price) > 0
               /\ MarketValue(held.quantity, price) * WeightScale <= share * EquityAt(held, price)
<1>1. MarketValue(held.quantity, price) \in Nat
  BY ValueTyped
<1>2. (held.quantity > held.quantity) = FALSE /\ (held.quantity < held.quantity) = FALSE
  OBVIOUS
<1>3. held.cash + 0 + MarketValue(held.quantity, price) = EquityAt(held, price)
  BY <1>1 DEF EquityAt
<1> QED
  BY <1>2, <1>3 DEF CandidateIsSafe

\* What is worth something remains of a smaller purchase.
LEMMA ValueGrows ==
    ASSUME NEW price \in Nat \ {0}, NEW m \in Nat, NEW n \in Nat, m <= n
    PROVE  MarketValue(m, price) <= MarketValue(n, price)
<1>1. ReferencePrice(price) \in Nat
  BY PricesTyped DEF Sides
<1>2. m * ReferencePrice(price) \in Int /\ n * ReferencePrice(price) \in Int
      /\ m * ReferencePrice(price) <= n * ReferencePrice(price)
  BY <1>1, TimesMonotone
<1> QED
  BY <1>2, RoundMonotone, MoneyAssumption DEF MarketValue, MoneyOf

\* A unit worth something leaves the safe purchases no holes.
LEMMA PurchasesArePrefix ==
    ASSUME NEW held, held.quantity \in Nat, held.cash \in Nat,
           NEW price \in Nat \ {0}, NEW share \in Fraction, NEW worth, worth \in Int,
           MarketValue(1, price) > 0,
           NEW u \in Nat, NEW v \in Nat, held.quantity < u, u < v,
           CandidateIsSafe(v, held, price, share, worth)
    PROVE  CandidateIsSafe(u, held, price, share, worth)
<1> DEFINE paid == ExecutionPrice(price, Buy)
           n == (u - held.quantity) * paid
           m == (v - held.quantity) * paid
           x == MarketValue(u, price)
           y == MarketValue(v, price)
           a == held.cash - (MoneyOf(n) + TradeFee(n)) + x
           b == held.cash - (MoneyOf(m) + TradeFee(m)) + y
<1>1. paid \in Nat /\ ReferencePrice(price) \in Nat /\ ReferencePrice(price) <= paid
  <2>1. paid \in Nat /\ ReferencePrice(price) \in Nat
    BY PricesTyped DEF Sides
  <2>2. price * BpsScale <= price * (BpsScale + SlippageBps)
    BY MoneyAssumption, Z3
  <2> QED
    BY <2>1, <2>2 DEF ExecutionPrice, ReferencePrice
<1>2. n \in Int /\ m \in Int /\ n <= m
  <2>1. u - held.quantity \in Int /\ v - held.quantity \in Int
        /\ u - held.quantity <= v - held.quantity
    OBVIOUS
  <2> HIDE DEF paid
  <2> QED
    BY <1>1, <2>1, TimesMonotone
<1>3. x \in Nat /\ y \in Nat /\ x <= y /\ x > 0
  <2>1. MarketValue(1, price) <= x
    BY ValueGrows
  <2> QED
    BY <2>1, ValueTyped, ValueGrows
<1>4. MoneyOf(n) > 0
  <2>1. MarketValue(1, price) = MoneyOf(ReferencePrice(price))
    BY <1>1 DEF MarketValue
  <2>2. ReferencePrice(price) <= n
    <3>1. 1 * paid <= (u - held.quantity) * paid
      BY <1>1, TimesMonotone
    <3> HIDE DEF paid
    <3> QED
      BY <1>1, <1>2, <3>1
  <2> HIDE DEF n
  <2>3. MoneyOf(ReferencePrice(price)) <= MoneyOf(n)
    BY <1>1, <1>2, <2>2, RoundMonotone, MoneyAssumption DEF MoneyOf
  <2>4. MoneyOf(ReferencePrice(price)) \in Int /\ MoneyOf(n) \in Int
    BY <1>1, <1>2, MoneyTyped
  <2> QED
    BY <2>1, <2>3, <2>4
<1>5. /\ MoneyOf(n) \in Int /\ MoneyOf(m) \in Int /\ MoneyOf(n) <= MoneyOf(m)
      /\ TradeFee(n) \in Int /\ TradeFee(m) \in Int /\ TradeFee(n) <= TradeFee(m)
  <2> HIDE DEF n, m
  <2>1. MoneyOf(n) <= MoneyOf(m)
    BY <1>2, RoundMonotone, MoneyAssumption DEF MoneyOf
  <2> QED
    BY <1>2, <2>1, MoneyTyped, FeeTyped, FeeMonotone
<1>6. a \in Int /\ b \in Int /\ b - a <= y - x
  BY <1>3, <1>5
<1>7. /\ b > 0 /\ y * WeightScale <= share * b
      /\ \/ share > MaxOrderNotional
         \/ m * WeightScale <= MaxOrderNotional * worth * Quantum
  <2>1. v > held.quantity
    OBVIOUS
  <2> QED
    BY <2>1, BuyIsTested
<1> HIDE DEF n, m, x, y, a, b
<1>8. x * WeightScale <= share * a
  BY <1>3, <1>6, <1>7, SmallerWeighsLess
<1>9. a > 0
  <2>1. x * WeightScale > 0
    BY <1>3, MoneyAssumption, Z3
  <2>2. share \in Nat /\ share * a \in Int /\ x * WeightScale \in Int
    BY <1>3, <1>6, MoneyAssumption, Z3 DEF Fraction
  <2>3. share * a > 0
    BY <1>8, <2>1, <2>2
  <2>4. \A s \in Nat, z \in Int : s * z > 0 => z > 0
    BY Z3
  <2> QED
    BY <1>6, <2>2, <2>3, <2>4
<1>10. \/ share > MaxOrderNotional
       \/ n * WeightScale <= MaxOrderNotional * worth * Quantum
  <2>1. n * WeightScale <= m * WeightScale
    BY <1>2, MoneyAssumption, TimesMonotone
  <2>2. n * WeightScale \in Int /\ m * WeightScale \in Int /\ MaxOrderNotional * worth * Quantum \in Int
    BY <1>2, MoneyAssumption, SizingAssumption, Z3
  <2> QED
    BY <1>7, <2>1, <2>2
<1> QED
  BY <1>3, <1>4, <1>8, <1>9, <1>10, BuyIsTested DEF n, x, a

\* A unit that pays leaves the safe sales no holes.
LEMMA SalesArePrefix ==
    ASSUME NEW held, held.quantity \in Nat, held.cash \in Nat,
           NEW price \in Nat \ {0}, NEW share \in Fraction, NEW worth,
           UnitPays(price),
           NEW u \in Nat, NEW v \in Nat, u < v, v < held.quantity,
           CandidateIsSafe(v, held, price, share, worth)
    PROVE  CandidateIsSafe(u, held, price, share, worth)
<1> DEFINE p == Proceeds(held.quantity - u, price)
           q == Proceeds(held.quantity - v, price)
           x == MarketValue(u, price)
           y == MarketValue(v, price)
           a == held.cash + p + x
           b == held.cash + q + y
<1>1. p \in Int /\ q \in Int /\ q < p
  <2>1. held.quantity - v \in Nat /\ held.quantity - u \in Nat
        /\ held.quantity - v < held.quantity - u
    OBVIOUS
  <2> QED
    BY <2>1, ProceedsGrow
<1>2. x \in Nat /\ y \in Nat /\ x <= y
  <2>1. u <= v
    OBVIOUS
  <2>2. x <= y
    BY <2>1, ValueGrows
  <2> QED
    BY <2>2, ValueTyped
<1>3. b > 0 /\ y * WeightScale <= share * b
  BY SaleIsTested
<1> HIDE DEF p, q, x, y
<1>4. a \in Int /\ b \in Int /\ b - a <= y - x
  BY <1>1, <1>2
<1>5. x * WeightScale <= share * a
  BY <1>2, <1>3, <1>4, SmallerWeighsLess
<1>6. y <= b
  <2>1. share \in Nat /\ WeightScale \in Nat \ {0} /\ share <= WeightScale
    BY MoneyAssumption DEF Fraction
  <2> HIDE DEF b
  <2>2. share * b <= WeightScale * b
    BY <1>3, <1>4, <2>1, TimesMonotone
  <2>3. y * WeightScale \in Int /\ share * b \in Int /\ WeightScale * b \in Int
        /\ WeightScale * b = b * WeightScale
    BY <1>2, <1>4, <2>1, Z3
  <2>4. y * WeightScale <= b * WeightScale
    BY <1>3, <2>2, <2>3
  <2>5. \A k \in Nat \ {0}, s, z \in Int : s * k <= z * k => s <= z
    BY Z3
  <2> QED
    BY <1>2, <1>4, <2>1, <2>4, <2>5
<1>7. a > 0
  BY <1>1, <1>2, <1>6
<1> QED
  BY <1>5, <1>7, SaleIsTested DEF p, x

\* What leaves the search no holes to fall into: for a purchase, that a unit is worth
\* something; for a sale, that a unit sold pays its fee and the roundings.
NoHoles ==
    IF AtOrBelowTarget(holding, ticks, weight, Equity)
      THEN MarketValue(1, ticks) > 0
      ELSE UnitPays(ticks)

LEMMA SafeSetIsPrefix == AskedInv /\ NoHoles => SafeIsPrefix
<1> SUFFICES ASSUME AskedInv, NoHoles,
                    NEW u \in first .. last, NEW v \in first .. last, u < v, v \in safe
             PROVE  u \in safe
  BY DEF SafeIsPrefix
<1>1. /\ holding.cash \in Nat /\ holding.quantity \in Nat
      /\ ticks \in Nat \ {0} /\ weight \in Fraction
      /\ Equity \in Nat /\ first \in Nat /\ last \in Nat
      /\ PortfolioHalt(EffectivePolicy, Portfolio) = {}
  BY AskedInterval DEF AskedInv
<1>2. u \in Nat /\ v \in Nat
  BY <1>1
<1>3. CandidateIsSafe(v, holding, ticks, weight, Equity)
  BY DEF AskedInv
<1>4. SUFFICES CandidateIsSafe(u, holding, ticks, weight, Equity)
  BY <1>4 DEF AskedInv
<1>5. CASE AtOrBelowTarget(holding, ticks, weight, Equity)
  <2>1. first = holding.quantity
    BY <1>5 DEF AskedInv, SearchLow
  <2>2. CASE u = holding.quantity
    <3>1. Equity > 0
      BY <1>1 DEF PortfolioHalt, InvalidPortfolio, When, Portfolio, Snapshot, IsPositive
    <3> QED
      BY <1>1, <1>5, <2>2, <3>1, HoldingIsTested DEF Equity, AtOrBelowTarget
  <2>3. CASE u # holding.quantity
    <3>1. holding.quantity < u
      BY <1>1, <1>2, <2>1, <2>3
    <3>2. MarketValue(1, ticks) > 0 /\ Equity \in Int
      BY <1>1, <1>5 DEF NoHoles
    <3> QED
      BY <1>1, <1>2, <1>3, <3>1, <3>2, PurchasesArePrefix
  <2> QED
    BY <2>2, <2>3
<1>6. CASE ~AtOrBelowTarget(holding, ticks, weight, Equity)
  <2>1. last = holding.quantity
    BY <1>6 DEF AskedInv, SearchHigh
  <2>2. v # holding.quantity
    BY <1>1, <1>3, <1>6, HoldingIsTested DEF Equity, AtOrBelowTarget
  <2>3. v < holding.quantity
    BY <1>1, <1>2, <2>1, <2>2
  <2> QED
    BY <1>1, <1>2, <1>3, <1>6, <2>3, SalesArePrefix DEF NoHoles
<1> QED
  BY <1>5, <1>6

(***************************************************************************)
(* "Return the largest precision-safe quantity within the post-cost        *)
(* target": for every portfolio that passed the check at the open, every   *)
(* price, cost, precision and target, the loop finds what the function of  *)
(* the engine's model finds; and no larger candidate passes the test, as   *)
(* long as one unit bought is worth something, or one sold brings in more  *)
(* than two quanta after its fee.  Without that the second is false.       *)
(***************************************************************************)
THEOREM LargestSafeIsFound ==
    AllSpec => /\ [](part = "sizing" => LoopAgrees)
               /\ [](NoHoles => FindsLargestSafe)
<1>1. ASSUME AllInv, NoHoles, part = "sizing"
      PROVE  LoopAgrees /\ NoneLarger
  <2>1. AskedInv /\ LoopInv /\ Searched
    BY <1>1 DEF AllInv
  <2>2. LoopAgrees
    BY <2>1, LoopIsTheFunction
  <2>3. SafeIsPrefix /\ ResultIsLargest
    BY <1>1, <2>1, SafeSetIsPrefix, SearchedIsLargest
  <2>4. ASSUME Finished, NEW units \in safe
        PROVE  units <= Found
    <3>1. units \in safe \cap (first .. last)
      BY <2>1, <2>4 DEF AskedInv
    <3> QED
      BY <2>3, <2>4, <3>1 DEF ResultIsLargest, Found
  <2> QED
    BY <2>2, <2>4 DEF NoneLarger
<1>2. AllInv => (NoHoles => FindsLargestSafe)
  BY <1>1 DEF FindsLargestSafe
<1>3. AllInv => (part = "sizing" => LoopAgrees)
  BY LoopIsTheFunction DEF AllInv
<1> QED
  BY <1>2, <1>3, DecisionsInvariant, PTL

-----------------------------------------------------------------------------
(***************************************************************************)
(* The risk policy as a gate, for every order and every portfolio, whoever *)
(* states them.  None of what follows depends on the engine.               *)
(***************************************************************************)
\* None of the checks objects.
AllPass(policy, o, p) ==
    /\ InvalidPortfolio(p) = {}
    /\ InvalidRequest(policy, o) = {}
    /\ InvalidAmounts(o, p) = {}
    /\ InconsistentClaims(o) = {}
    /\ InconsistentPortfolio(o, p) = {}
    /\ UnaffordableOrder(o, p) = {}
    /\ When(o.reduces_risk /\ ~ReducesRisk(o), "invalid_order") = {}
    /\ BreachedCaps(policy, o, p) = {}
    /\ TooManyPositions(policy, o, p) = {}
    /\ LossLimits(policy, p) = {}

LEMMA ApprovedPasses ==
    ASSUME NEW policy, NEW o, NEW p
    PROVE  EvaluateOrder(policy, o, p) = {} <=> AllPass(policy, o, p)
<1> DEFINE a == InvalidPortfolio(p)
           b == InvalidRequest(policy, o)
           c == InvalidAmounts(o, p)
           d == InconsistentClaims(o)
           e == InconsistentPortfolio(o, p)
           f == UnaffordableOrder(o, p)
           g == When(o.reduces_risk /\ ~ReducesRisk(o), "invalid_order")
           h == BreachedCaps(policy, o, p)
           i == TooManyPositions(policy, o, p)
           j == LossLimits(policy, p)
<1>1. EvaluateOrder(policy, o, p) = UNION {a, b, c, d, e, f, g, h, i, j}
  BY DEF EvaluateOrder
<1>2. AllPass(policy, o, p) <=>
        /\ a = {} /\ b = {} /\ c = {} /\ d = {} /\ e = {}
        /\ f = {} /\ g = {} /\ h = {} /\ i = {} /\ j = {}
  BY DEF AllPass
<1> HIDE DEF a, b, c, d, e, f, g, h, i, j
<1>3. UNION {a, b, c, d, e, f, g, h, i, j} = {} <=>
        /\ a = {} /\ b = {} /\ c = {} /\ d = {} /\ e = {}
        /\ f = {} /\ g = {} /\ h = {} /\ i = {} /\ j = {}
  OBVIOUS
<1> QED
  BY <1>1, <1>2, <1>3

LEMMA NothingSaid ==
    ASSUME NEW c \in BOOLEAN, NEW reason
    PROVE  When(c, reason) = {} <=> ~c
BY DEF When

\* The numbers of an approved portfolio.
LEMMA PortfolioFinite ==
    ASSUME NEW p, InvalidPortfolio(p) = {}
    PROVE  /\ p.equity \in Nat \ {0} /\ p.start_of_day_equity \in Nat \ {0}
           /\ p.peak_equity \in Nat \ {0} /\ p.daily_pnl \in Int
           /\ p.cash \in Nat /\ p.open_positions \in Nat
           /\ p.daily_pnl = p.equity - p.start_of_day_equity
           /\ ~p.halted /\ ~p.kill_switch_active /\ p.trading_enabled
BY DEF InvalidPortfolio, When, IsFinite, IsPositive, IsNonNegative

\* The numbers of an approved order, taken one by one.
LEMMA AmountsFinite ==
    ASSUME NEW o, NEW p, InvalidAmounts(o, p) = {}
    PROVE  /\ o.quantity \in Nat \ {0} /\ o.reference_price \in Nat \ {0}
           /\ o.execution_price \in Nat \ {0} /\ o.notional \in Nat \ {0}
           /\ o.estimated_fee \in Nat
           /\ o.current_symbol_exposure \in Nat /\ o.current_total_gross_exposure \in Nat
           /\ o.current_quantity \in Nat /\ o.resulting_quantity \in Nat
           /\ o.resulting_symbol_exposure \in Nat
           /\ o.resulting_total_gross_exposure \in Nat
           /\ o.open_positions \in Nat
BY DEF InvalidAmounts, When, IsFinite, IsPositive, IsNonNegative

\* What an approved order claims follows from its quantities and prices.
LEMMA ClaimsFollow ==
    ASSUME NEW o, NEW p, InvalidAmounts(o, p) = {}, InconsistentClaims(o) = {},
           o.side \in Sides
    PROVE  /\ o.notional = o.quantity * o.execution_price
           /\ o.resulting_symbol_exposure = o.resulting_quantity * o.reference_price
           /\ o.current_symbol_exposure = o.current_quantity * o.reference_price
           /\ o.resulting_quantity =
                  o.current_quantity + (IF o.side = Buy THEN o.quantity ELSE -o.quantity)
           /\ o.current_symbol_exposure <= o.current_total_gross_exposure
           /\ o.resulting_total_gross_exposure =
                  o.current_total_gross_exposure - o.current_symbol_exposure
                      + o.resulting_symbol_exposure
<1>1. /\ IsPositive(o.quantity) /\ IsPositive(o.reference_price)
      /\ IsPositive(o.execution_price) /\ IsFinite(o.notional)
      /\ IsNonNegative(o.current_symbol_exposure)
      /\ IsNonNegative(o.current_total_gross_exposure)
      /\ IsFinite(o.resulting_symbol_exposure) /\ IsFinite(o.resulting_total_gross_exposure)
      /\ IsNonNegative(o.current_quantity) /\ IsFinite(o.resulting_quantity)
  BY AmountsFinite DEF IsFinite, IsPositive, IsNonNegative
<1>2. o.resulting_symbol_exposure \in Nat
  BY AmountsFinite
<1>3. Magnitude(o.resulting_symbol_exposure) = o.resulting_symbol_exposure
  BY <1>2 DEF Magnitude
<1>4. /\ o.current_symbol_exposure \in Nat /\ o.current_total_gross_exposure \in Nat
  BY AmountsFinite
<1> QED
  BY <1>1, <1>3, <1>4 DEF InconsistentClaims, When, Priced

\* What was sent and what is paid for it.
LEMMA PaymentsFinite ==
    ASSUME NEW policy, NEW o, NEW p, AllPass(policy, o, p)
    PROVE  /\ o.side \in Sides
           /\ o.data_age_seconds \in Nat
           /\ o.available_cash = Absent \/ o.available_cash = p.cash
           /\ \/ o.cash_required = Absent
              \/ o.side = Buy /\ o.cash_required = MoneyOf(o.notional) + o.estimated_fee
           /\ p.equity = p.cash + MoneyOf(o.current_total_gross_exposure)
           /\ ProjectedCash(o, p) >= 0
           /\ ProjectedEquity(o, p) > 0
<1>1. o.side \in Sides /\ InvalidAge(policy, o.data_age_seconds) = {}
  BY DEF AllPass, InvalidRequest, When
<1>2. o.data_age_seconds \in Nat
  BY <1>1 DEF InvalidAge, When, IsFinite
<1>3. /\ p.equity \in Nat /\ p.cash \in Nat /\ o.estimated_fee \in Nat
      /\ o.quantity \in Nat \ {0} /\ o.reference_price \in Nat \ {0}
      /\ o.execution_price \in Nat \ {0}
      /\ o.current_total_gross_exposure \in Nat
      /\ o.resulting_total_gross_exposure \in Nat
  BY PortfolioFinite, AmountsFinite DEF AllPass
<1>4. /\ IsNonNegative(p.cash) /\ IsFinite(p.equity) /\ Priced(o)
      /\ IsNonNegative(o.estimated_fee) /\ IsNonNegative(o.current_total_gross_exposure)
      /\ IsFinite(o.resulting_total_gross_exposure)
  BY <1>3 DEF IsFinite, IsPositive, IsNonNegative, Priced
<1>5. /\ o.available_cash = Absent \/ o.available_cash = p.cash
      /\ p.equity = p.cash + MoneyOf(o.current_total_gross_exposure)
  <2>1. InconsistentPortfolio(o, p) = {}
    BY DEF AllPass
  <2> QED
    BY <1>4, <2>1 DEF InconsistentPortfolio, When
<1>6. Projectable(o, p)
  BY <1>1, <1>4 DEF Projectable
<1>7. UnaffordableOrder(o, p) = {} /\ o.notional = o.quantity * o.execution_price
  BY <1>1, ClaimsFollow DEF AllPass
<1>8. /\ o.side = Buy => o.cash_required = Absent
                         \/ o.cash_required = CashNotional(o) + o.estimated_fee
      /\ o.side = Sell => o.cash_required = Absent
      /\ ~(ProjectedCash(o, p) < 0)
      /\ ~(ProjectedEquity(o, p) <= 0)
  BY <1>4, <1>6, <1>7 DEF UnaffordableOrder, When
<1>9. CashNotional(o) = MoneyOf(o.notional)
  BY <1>7 DEF CashNotional
<1>10. ProjectedCash(o, p) \in Int /\ ProjectedEquity(o, p) \in Int
  <2>1. o.quantity * o.execution_price \in Int
    BY <1>3
  <2>2. CashNotional(o) \in Int /\ MoneyOf(o.resulting_total_gross_exposure) \in Int
    BY <1>3, <2>1, MoneyTyped DEF CashNotional
  <2> QED
    BY <1>3, <2>2 DEF ProjectedCash, ProjectedEquity
<1> QED
  BY <1>1, <1>2, <1>5, <1>8, <1>9, <1>10 DEF Sides

(***************************************************************************)
(* The policy fails closed: it approves an order only when every number of *)
(* the order and of the portfolio is one, within its bounds, and not what  *)
(* _is_finite_number refuses.                                              *)
(***************************************************************************)
THEOREM ApprovedNumbersAreFinite ==
    ASSUME NEW policy, NEW o, NEW p, EvaluateOrder(policy, o, p) = {}
    PROVE  /\ p.equity \in Nat \ {0} /\ p.start_of_day_equity \in Nat \ {0}
           /\ p.peak_equity \in Nat \ {0} /\ p.daily_pnl \in Int
           /\ p.cash \in Nat /\ p.open_positions \in Nat
           /\ o.quantity \in Nat \ {0} /\ o.reference_price \in Nat \ {0}
           /\ o.execution_price \in Nat \ {0} /\ o.notional \in Nat \ {0}
           /\ o.estimated_fee \in Nat
           /\ o.current_symbol_exposure \in Nat /\ o.current_total_gross_exposure \in Nat
           /\ o.current_quantity \in Nat /\ o.resulting_quantity \in Nat
           /\ o.resulting_symbol_exposure \in Nat
           /\ o.resulting_total_gross_exposure \in Nat
           /\ o.open_positions \in Nat /\ o.data_age_seconds \in Nat
           /\ o.available_cash \in Nat \cup {Absent}
           /\ o.cash_required \in Int \cup {Absent}
<1>1. AllPass(policy, o, p)
  BY ApprovedPasses
<1>2. InvalidPortfolio(p) = {} /\ InvalidAmounts(o, p) = {}
  BY <1>1 DEF AllPass
<1>3. o.available_cash \in Nat \cup {Absent}
  BY <1>1, <1>2, PaymentsFinite, PortfolioFinite
<1>4. o.cash_required \in Int \cup {Absent}
  <2>1. MoneyOf(o.notional) \in Int /\ o.estimated_fee \in Int
    BY <1>2, AmountsFinite, MoneyTyped
  <2> QED
    BY <1>1, <2>1, PaymentsFinite
<1>5. o.data_age_seconds \in Nat
  BY <1>1, PaymentsFinite
<1> QED
  BY <1>2, <1>3, <1>4, <1>5, PortfolioFinite, AmountsFinite

\* What is left after the fill, from the quantities and the prices, and from what
\* the order says the other holdings are worth (nothing, in the engine).
CashAfter(o, p) ==
    IF o.side = Buy THEN p.cash - MoneyOf(o.quantity * o.execution_price) - o.estimated_fee
                    ELSE p.cash + MoneyOf(o.quantity * o.execution_price) - o.estimated_fee
QuantityAfter(o) ==
    o.current_quantity + (IF o.side = Buy THEN o.quantity ELSE -o.quantity)
Elsewhere(o) == o.current_total_gross_exposure - o.current_symbol_exposure
EquityAfter(o, p) ==
    CashAfter(o, p) + MoneyOf(Elsewhere(o) + QuantityAfter(o) * o.reference_price)

(***************************************************************************)
(* Whatever an approved order claims of notional, exposures and reduced    *)
(* risk, its fill leaves cash and quantity non-negative and equity         *)
(* positive, and a holding above the cap on one asset is left only by a    *)
(* sale that makes it smaller.                                             *)
(***************************************************************************)
THEOREM ApprovedOrdersAreSafe ==
    ASSUME NEW policy, NEW o, NEW p, EvaluateOrder(policy, o, p) = {}
    PROVE  /\ CashAfter(o, p) >= 0
           /\ QuantityAfter(o) >= 0
           /\ Elsewhere(o) >= 0
           /\ EquityAfter(o, p) > 0
           /\ \/ ~Exceeds(MoneyOf(QuantityAfter(o) * o.reference_price),
                          policy.max_asset_weight, EquityAfter(o, p))
              \/ o.side = Sell /\ QuantityAfter(o) < o.current_quantity
<1>1. AllPass(policy, o, p)
  BY ApprovedPasses
<1>2. o.side \in Sides /\ ProjectedCash(o, p) >= 0 /\ ProjectedEquity(o, p) > 0
  BY <1>1, PaymentsFinite
<1>3. /\ p.cash \in Nat /\ p.equity \in Nat \ {0}
      /\ o.quantity \in Nat \ {0} /\ o.reference_price \in Nat \ {0}
      /\ o.execution_price \in Nat \ {0} /\ o.estimated_fee \in Nat
      /\ o.current_symbol_exposure \in Nat /\ o.current_total_gross_exposure \in Nat
      /\ o.current_quantity \in Nat /\ o.resulting_quantity \in Nat
      /\ o.resulting_symbol_exposure \in Nat /\ o.resulting_total_gross_exposure \in Nat
  BY <1>1, PortfolioFinite, AmountsFinite DEF AllPass
<1>4. /\ o.resulting_symbol_exposure = o.resulting_quantity * o.reference_price
      /\ o.resulting_quantity = QuantityAfter(o)
      /\ o.current_symbol_exposure <= o.current_total_gross_exposure
      /\ o.resulting_total_gross_exposure = Elsewhere(o) + o.resulting_symbol_exposure
  BY <1>1, <1>2, ClaimsFollow DEF AllPass, QuantityAfter, Elsewhere
<1>5. MoneyOf(o.quantity * o.execution_price) \in Int
  <2>1. o.quantity * o.execution_price \in Int
    BY <1>3
  <2> QED
    BY <2>1, MoneyTyped
<1>6. ProjectedCash(o, p) = CashAfter(o, p)
  <2> DEFINE x == MoneyOf(o.quantity * o.execution_price)
  <2>1. p.cash - (x + o.estimated_fee) = p.cash - x - o.estimated_fee
    <3> HIDE DEF x
    <3> QED
      BY <1>3, <1>5 DEF x
  <2> QED
    BY <2>1 DEF ProjectedCash, CashNotional, CashAfter
<1>7. ProjectedEquity(o, p) = EquityAfter(o, p)
  BY <1>4, <1>6 DEF ProjectedEquity, EquityAfter
<1>8. \/ ~Exceeds(MoneyOf(QuantityAfter(o) * o.reference_price),
                  policy.max_asset_weight, EquityAfter(o, p))
      \/ o.side = Sell /\ QuantityAfter(o) < o.current_quantity
  <2>1. CASE ReducesRisk(o)
    BY <1>3, <1>4, <2>1 DEF ReducesRisk, QuantityAfter, Buy, Sell
  <2>2. CASE ~ReducesRisk(o)
    <3>1. WeightsKnown(o, p)
      BY <1>2, <1>3 DEF WeightsKnown, Projectable, Priced, IsPositive, IsNonNegative, IsFinite
    <3>2. Magnitude(o.resulting_symbol_exposure) = o.resulting_symbol_exposure
      BY <1>3 DEF Magnitude
    <3>3. BreachedCaps(policy, o, p) = {}
      BY <1>1 DEF AllPass
    <3>4. ~Exceeds(MoneyOf(Magnitude(o.resulting_symbol_exposure)),
                   policy.max_asset_weight, ProjectedEquity(o, p))
      BY <2>2, <3>1, <3>3 DEF BreachedCaps, When
    <3> QED
      BY <1>4, <1>7, <3>2, <3>4
  <2> QED
    BY <2>1, <2>2
<1>9. QuantityAfter(o) >= 0 /\ Elsewhere(o) >= 0
  BY <1>3, <1>4 DEF Elsewhere
<1> QED
  BY <1>2, <1>6, <1>7, <1>8, <1>9

\* The limits of one policy are no looser than those of another.
NoLooser(strict, loose) ==
    /\ strict.max_asset_weight <= loose.max_asset_weight
    /\ strict.max_total_gross_exposure <= loose.max_total_gross_exposure
    /\ strict.max_order_notional_weight <= loose.max_order_notional_weight
    /\ strict.max_daily_loss_pct <= loose.max_daily_loss_pct
    /\ strict.max_drawdown_pct <= loose.max_drawdown_pct
    /\ strict.max_open_positions <= loose.max_open_positions
    /\ strict.max_data_age_seconds <= loose.max_data_age_seconds
    /\ strict.allowed_symbols \subseteq loose.allowed_symbols

Limits(policy) ==
    /\ policy.max_asset_weight \in Int /\ policy.max_total_gross_exposure \in Int
    /\ policy.max_order_notional_weight \in Int
    /\ policy.max_daily_loss_pct \in Int /\ policy.max_drawdown_pct \in Int
    /\ policy.max_open_positions \in Int /\ policy.max_data_age_seconds \in Int

LEMMA StricterRefusesMore ==
    ASSUME NEW strict, NEW loose, Limits(strict), Limits(loose), NoLooser(strict, loose),
           NEW o, NEW p, AllPass(strict, o, p)
    PROVE  AllPass(loose, o, p)
<1>1. /\ p.equity \in Nat \ {0} /\ p.start_of_day_equity \in Nat \ {0}
      /\ p.peak_equity \in Nat \ {0} /\ p.open_positions \in Nat
      /\ o.quantity \in Nat /\ o.execution_price \in Nat
      /\ o.resulting_symbol_exposure \in Nat /\ o.resulting_total_gross_exposure \in Nat
      /\ o.data_age_seconds \in Nat
  BY PortfolioFinite, AmountsFinite, PaymentsFinite DEF AllPass
<1>2. InvalidRequest(loose, o) = {}
  <2>1. InvalidRequest(strict, o) = {}
    BY DEF AllPass
  <2>2. o.data_age_seconds <= strict.max_data_age_seconds
    BY <1>1, <2>1 DEF InvalidRequest, InvalidAge, When, IsFinite, Limits
  <2>3. ~(o.data_age_seconds > loose.max_data_age_seconds) /\ ~(o.data_age_seconds < 0)
    BY <1>1, <2>2 DEF Limits, NoLooser
  <2>4. InvalidAge(loose, o.data_age_seconds) = {}
    BY <1>1, <2>3 DEF InvalidAge, When, IsFinite
  <2> QED
    BY <2>1, <2>4 DEF InvalidRequest, When, NoLooser
<1>3. TooManyPositions(loose, o, p) = {}
  <2>1. TooManyPositions(strict, o, p) = {}
    BY DEF AllPass
  <2>2. p.open_positions >= loose.max_open_positions
            => p.open_positions >= strict.max_open_positions
    BY <1>1 DEF Limits, NoLooser
  <2> QED
    BY <2>1, <2>2 DEF TooManyPositions, When
<1>4. LossLimits(loose, p) = {}
  <2>1. LossLimits(strict, p) = {}
    BY DEF AllPass
  <2>2. /\ strict.max_daily_loss_pct * p.start_of_day_equity
               <= loose.max_daily_loss_pct * p.start_of_day_equity
        /\ strict.max_drawdown_pct * p.peak_equity <= loose.max_drawdown_pct * p.peak_equity
    BY <1>1, TimesMonotone DEF Limits, NoLooser
  <2>3. /\ Larger(0, p.start_of_day_equity - p.equity) * WeightScale \in Int
        /\ Larger(0, p.peak_equity - p.equity) * WeightScale \in Int
        /\ strict.max_daily_loss_pct * p.start_of_day_equity \in Int
        /\ loose.max_daily_loss_pct * p.start_of_day_equity \in Int
        /\ strict.max_drawdown_pct * p.peak_equity \in Int
        /\ loose.max_drawdown_pct * p.peak_equity \in Int
    <3>1. \A x, y \in Int : x * y \in Int
      OBVIOUS
    <3>2. Larger(0, p.start_of_day_equity - p.equity) \in Int
          /\ Larger(0, p.peak_equity - p.equity) \in Int
      BY <1>1 DEF Larger
    <3> QED
      BY <1>1, <3>1, <3>2, MoneyAssumption DEF Limits
  <2>4. /\ ~(Larger(0, p.start_of_day_equity - p.equity) * WeightScale
                 >= strict.max_daily_loss_pct * p.start_of_day_equity)
        /\ ~(Larger(0, p.peak_equity - p.equity) * WeightScale
                 >= strict.max_drawdown_pct * p.peak_equity)
    BY <1>1, <2>1 DEF LossLimits, When, IsPositive, IsFinite
  <2>5. /\ ~(Larger(0, p.start_of_day_equity - p.equity) * WeightScale
                 >= loose.max_daily_loss_pct * p.start_of_day_equity)
        /\ ~(Larger(0, p.peak_equity - p.equity) * WeightScale
                 >= loose.max_drawdown_pct * p.peak_equity)
    BY <2>2, <2>3, <2>4
  <2> QED
    BY <2>5 DEF LossLimits, When
<1>5. BreachedCaps(loose, o, p) = {}
  <2>1. BreachedCaps(strict, o, p) = {}
    BY DEF AllPass
  <2>2. CASE ~WeightsKnown(o, p) \/ ReducesRisk(o)
    BY <2>2 DEF BreachedCaps
  <2>3. CASE WeightsKnown(o, p) /\ ~ReducesRisk(o)
    <3> DEFINE after == ProjectedEquity(o, p)
               asset == MoneyOf(Magnitude(o.resulting_symbol_exposure))
               gross == MoneyOf(o.resulting_total_gross_exposure)
               notional == o.quantity * o.execution_price
    <3>1. /\ asset \in Int /\ gross \in Int /\ notional \in Int
          /\ after \in Nat /\ p.equity * Quantum \in Nat
      <4>1. Magnitude(o.resulting_symbol_exposure) \in Int
        BY <1>1 DEF Magnitude
      <4>2. asset \in Int /\ gross \in Int /\ notional \in Int
        BY <1>1, <4>1, MoneyTyped
      <4>3. after \in Int
        <5>1. CashNotional(o) \in Int
          BY <4>2, MoneyTyped DEF CashNotional
        <5>2. p.cash \in Int /\ o.estimated_fee \in Int
          BY PortfolioFinite, AmountsFinite DEF AllPass
        <5> QED
          BY <4>2, <5>1, <5>2 DEF ProjectedEquity, ProjectedCash
      <4>4. after > 0
        BY <2>3 DEF WeightsKnown
      <4>5. p.equity * Quantum \in Nat
        BY <1>1, MoneyAssumption
      <4> QED
        BY <4>2, <4>3, <4>4, <4>5
    <3>2. ASSUME NEW x \in Int, NEW s \in Int, NEW l \in Int, s <= l, NEW e \in Nat,
                 ~Exceeds(x, s, e)
          PROVE  ~Exceeds(x, l, e)
      <4>1. s * e <= l * e
        BY <3>2, TimesMonotone
      <4>2. s * e \in Int /\ l * e \in Int /\ x * WeightScale \in Int
        BY <3>2, MoneyAssumption
      <4> QED
        BY <3>2, <4>1, <4>2 DEF Exceeds
    <3>3. /\ ~Exceeds(notional, strict.max_order_notional_weight, p.equity * Quantum)
          /\ ~Exceeds(asset, strict.max_asset_weight, after)
          /\ ~Exceeds(gross, strict.max_total_gross_exposure, after)
          /\ ~(gross > after)
      BY <2>1, <2>3 DEF BreachedCaps, When
    <3>4. /\ ~Exceeds(notional, loose.max_order_notional_weight, p.equity * Quantum)
          /\ ~Exceeds(asset, loose.max_asset_weight, after)
          /\ ~Exceeds(gross, loose.max_total_gross_exposure, after)
      <4> HIDE DEF after, asset, gross, notional
      <4> QED
        BY <3>1, <3>2, <3>3 DEF Limits, NoLooser
    <3> QED
      BY <3>3, <3>4 DEF BreachedCaps, When
  <2> QED
    BY <2>2, <2>3
<1> QED
  BY <1>2, <1>3, <1>4, <1>5 DEF AllPass

\* The limits of the run's configuration, as a policy.
Configured ==
    [max_asset_weight |-> MaxPosition,
     max_total_gross_exposure |-> MaxTotalExposure,
     max_order_notional_weight |-> MaxOrderNotional,
     max_daily_loss_pct |-> MaxDailyLoss,
     max_drawdown_pct |-> MaxDrawdown,
     max_open_positions |-> MaxOpenPositions,
     max_data_age_seconds |-> Policy.max_data_age_seconds,
     allowed_symbols |-> Policy.allowed_symbols]

(***************************************************************************)
(* _effective_policy is at least as strict as each of the two it combines: *)
(* whatever it approves, the policy given to the engine and the limits of  *)
(* the run's configuration approve as well.                                *)
(***************************************************************************)
THEOREM EffectivePolicyIsStricter ==
    ASSUME NEW o, NEW p, EvaluateOrder(EffectivePolicy, o, p) = {}
    PROVE  EvaluateOrder(Policy, o, p) = {} /\ EvaluateOrder(Configured, o, p) = {}
<1>1. Limits(Policy) /\ Limits(Configured)
  BY ProposalAssumption, SizingAssumption, MoneyAssumption DEF Limits, Configured, Fraction
<1>2. /\ Limits(EffectivePolicy)
      /\ NoLooser(EffectivePolicy, Policy) /\ NoLooser(EffectivePolicy, Configured)
  BY <1>1 DEF Limits, Configured, EffectivePolicy, Stricter, Smaller, NoLooser
<1>3. AllPass(EffectivePolicy, o, p)
  BY ApprovedPasses
<1> HIDE DEF EffectivePolicy
<1>4. AllPass(Policy, o, p) /\ AllPass(Configured, o, p)
  BY <1>1, <1>2, <1>3, StricterRefusesMore
<1> QED
  BY <1>4, ApprovedPasses
=============================================================================
