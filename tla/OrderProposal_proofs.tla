------------------------ MODULE OrderProposal_proofs ------------------------
(***************************************************************************)
(* What holds of the arithmetic, the sizing of a target and the order made *)
(* of it, for every value of the constants and whoever uses them: the      *)
(* engine, its benchmark and the search itself.                            *)
(*                                                                         *)
(* Bisection is recursive: that it is defined for every interval, and that *)
(* what it finds passed the test, are inductions over the length of what   *)
(* is left of the interval.  No theorem about induction takes an operator  *)
(* here: the induction is a least element of the set of counterexamples    *)
(* (LeastNumber, UpTo), which needs the well-founded order of the numbers  *)
(* and nothing else.                                                       *)
(***************************************************************************)
EXTENDS OrderProposal, WellFoundedInduction, TLAPS

\* A product grows with its first factor.
LEMMA TimesMonotone ==
    ASSUME NEW k \in Nat, NEW m \in Int, NEW n \in Int, m <= n
    PROVE  m * k <= n * k
BY Z3

\* Rounding gives an integer, and never a negative one of a non-negative amount.
LEMMA RoundTyped ==
    ASSUME NEW n \in Int, NEW d \in Nat \ {0}
    PROVE  /\ RoundHalfEven(n, d) \in Int
           /\ n >= 0 => RoundHalfEven(n, d) >= 0
<1>1. n \div d \in Int /\ n % d \in Int
  BY Z3
<1>2. n >= 0 => n \div d >= 0
  BY Z3
<1> QED
  BY <1>1, <1>2 DEF RoundHalfEven

\* SimulationEngine._money keeps an amount an integer and its sign.
LEMMA MoneyTyped ==
    ASSUME NEW raw \in Int
    PROVE  MoneyOf(raw) \in Int /\ (raw >= 0 => MoneyOf(raw) >= 0)
BY RoundTyped, MoneyAssumption DEF MoneyOf

\* Slippage is under 100%: the price of a positive price stays positive on both
\* sides of the market.
LEMMA PricesTyped ==
    ASSUME NEW ticks \in Nat, NEW side \in Sides
    PROVE  /\ ReferencePrice(ticks) \in Nat
           /\ ExecutionPrice(ticks, side) \in Nat
           /\ ticks > 0 => ReferencePrice(ticks) > 0 /\ ExecutionPrice(ticks, side) > 0
<1>1. BpsScale - SlippageBps \in Nat \ {0} /\ BpsScale + SlippageBps \in Nat \ {0}
  BY MoneyAssumption
<1>2. \A m \in Nat \ {0} : ticks * m \in Nat /\ (ticks > 0 => ticks * m > 0)
  BY Z3
<1> QED
  BY <1>1, <1>2, MoneyAssumption DEF ReferencePrice, ExecutionPrice

\* A fee is never negative, whatever the notional: the minimum bounds it.
LEMMA FeeTyped ==
    ASSUME NEW notional \in Int
    PROVE  TradeFee(notional) \in Int /\ TradeFee(notional) >= 0
<1>1. Quantum * BpsScale \in Nat \ {0}
  BY MoneyAssumption, Z3
<1>2. notional * FeeBps \in Int /\ MinimumFee * Quantum * BpsScale \in Nat
  <2>1. MinimumFee * Quantum \in Nat
    BY MoneyAssumption, Z3
  <2>2. MinimumFee * Quantum * BpsScale \in Nat
    BY <2>1, MoneyAssumption, Z3
  <2> QED
    BY <2>2, MoneyAssumption
<1>3. Larger(notional * FeeBps, MinimumFee * Quantum * BpsScale) \in Nat
  BY <1>2 DEF Larger
<1> QED
  BY <1>1, <1>3, RoundTyped DEF TradeFee

\* A long holding is never worth less than nothing.
LEMMA ValueTyped ==
    ASSUME NEW quantity \in Nat, NEW ticks \in Nat
    PROVE  MarketValue(quantity, ticks) \in Nat
<1>1. ReferencePrice(ticks) \in Nat
  BY PricesTyped DEF Sides
<1>2. quantity * ReferencePrice(ticks) \in Nat
  BY <1>1, Z3
<1> QED
  BY <1>2, MoneyTyped DEF MarketValue

\* The policy answers with reasons of its taxonomy only, whatever it is asked.
LEMMA ReasonsTyped ==
    ASSUME NEW policy, NEW o, NEW p
    PROVE  /\ EvaluateOrder(policy, o, p) \subseteq Reason
           /\ PortfolioHalt(policy, p) \subseteq Reason
<1>1. InvalidPortfolio(p) \subseteq PortfolioReason
  BY DEF InvalidPortfolio, When, PortfolioReason
<1>2. LossLimits(policy, p) \subseteq LossReason
  BY DEF LossLimits, When, LossReason
<1>3. /\ InvalidRequest(policy, o) \subseteq Reason
      /\ InvalidAmounts(o, p) \subseteq Reason
  <2>1. InvalidRequest(policy, o) \subseteq Reason
    BY DEF InvalidRequest, InvalidAge, When, Reason
  <2>2. InvalidAmounts(o, p) \subseteq Reason
    BY DEF InvalidAmounts, When, Reason, PortfolioReason
  <2> QED
    BY <2>1, <2>2
<1>4. InconsistentClaims(o) \subseteq Reason
  BY DEF InconsistentClaims, When, Reason
<1>5. InconsistentPortfolio(o, p) \subseteq Reason
  BY DEF InconsistentPortfolio, When, Reason, PortfolioReason
<1>6. UnaffordableOrder(o, p) \subseteq Reason
  BY DEF UnaffordableOrder, When, Reason
<1>7. BreachedCaps(policy, o, p) \subseteq CapReason
  BY DEF BreachedCaps, When, CapReason
<1>8. TooManyPositions(policy, o, p) \subseteq Reason
  BY DEF TooManyPositions, When, Reason
<1>9. When(o.reduces_risk /\ ~ReducesRisk(o), "invalid_order") \subseteq Reason
  BY DEF When, Reason
<1> QED
  BY <1>1, <1>2, <1>3, <1>4, <1>5, <1>6, <1>7, <1>8, <1>9
  DEF EvaluateOrder, PortfolioHalt, Reason

\* An order towards a target other than the holding is of a positive quantity at
\* positive prices, with a notional and a fee that are not negative.
LEMMA OrderTyped ==
    ASSUME NEW holding, holding.quantity \in Nat, holding.cash \in Nat,
           NEW ticks \in Nat \ {0}, NEW target \in Nat, target # holding.quantity,
           NEW order, order = OrderTo(target, holding, ticks)
    PROVE  /\ order.side = IF target > holding.quantity THEN Buy ELSE Sell
           /\ order.side \in Sides
           /\ order.quantity \in Nat \ {0}
           /\ order.quantity = Magnitude(target - holding.quantity)
           /\ order.reference_price \in Nat \ {0}
           /\ order.execution_price \in Nat \ {0}
           /\ order.notional \in Nat
           /\ order.notional = order.quantity * order.execution_price
           /\ order.estimated_fee \in Nat
           /\ order.resulting_total_gross_exposure \in Nat
           /\ order.available_cash = holding.cash
<1> DEFINE side == IF target > holding.quantity THEN Buy ELSE Sell
           quantity == Magnitude(target - holding.quantity)
           price == ExecutionPrice(ticks, side)
<1>1. side \in Sides
  BY DEF Sides
<1>2. quantity \in Nat \ {0}
  BY DEF Magnitude
<1>3. price \in Nat \ {0} /\ ReferencePrice(ticks) \in Nat \ {0}
  BY <1>1, PricesTyped
<1>4. quantity * price \in Nat
  BY <1>2, <1>3, Z3
<1>5. TradeFee(quantity * price) \in Nat
  BY <1>4, FeeTyped
<1>6. target * ReferencePrice(ticks) \in Nat
  BY <1>3, Z3
<1>7. Larger(target * ReferencePrice(ticks), 0) \in Nat
  BY <1>6 DEF Larger
<1> QED
  BY <1>1, <1>2, <1>3, <1>4, <1>5, <1>7 DEF OrderTo

\* The equity of a holding without debts is never negative.
LEMMA EquityTyped ==
    ASSUME NEW holding, holding.quantity \in Nat, holding.cash \in Nat,
           NEW ticks \in Nat
    PROVE  EquityAt(holding, ticks) \in Nat
<1>1. MarketValue(holding.quantity, ticks) \in Nat
  BY ValueTyped
<1> QED
  BY <1>1 DEF EquityAt

-----------------------------------------------------------------------------
\* x is at most half of bound away from nothing: what roundings add up to.
Within(x, bound) == -bound <= 2 * x /\ 2 * x <= bound

LEMMA WithinSum ==
    ASSUME NEW x \in Int, NEW y \in Int, NEW a \in Int, NEW b \in Int,
           Within(x, a), Within(y, b)
    PROVE  Within(x + y, a + b) /\ Within(x - y, a + b)
BY DEF Within

\* Both sides may be multiplied by the same positive number, and divided by it.
LEMMA WithinTimes ==
    ASSUME NEW k \in Nat \ {0}, NEW x \in Int, NEW bound \in Int
    PROVE  Within(x, bound) <=> Within(k * x, k * bound)
<1>1. \A u, v \in Int : u <= v <=> k * u <= k * v
  BY Z3
<1>2. k * (-bound) = -(k * bound) /\ k * (2 * x) = 2 * (k * x)
  BY Z3
<1>3. -bound \in Int /\ 2 * x \in Int
  OBVIOUS
<1>4. -bound <= 2 * x <=> -(k * bound) <= 2 * (k * x)
  BY <1>1, <1>2, <1>3
<1>5. 2 * x <= bound <=> 2 * (k * x) <= k * bound
  BY <1>1, <1>2, <1>3
<1> QED
  BY <1>4, <1>5 DEF Within

\* A rounded fraction is at most half a unit away from it.
LEMMA RoundedNear ==
    ASSUME NEW n \in Int, NEW d \in Nat \ {0}
    PROVE  Within(d * RoundHalfEven(n, d) - n, d)
<1> DEFINE q == n \div d
           r == n % d
<1>1. q \in Int /\ r \in Int /\ n = d * q + r /\ 0 <= r /\ r < d
  BY Z3
<1>2. RoundHalfEven(n, d) = IF 2 * r < d \/ (2 * r = d /\ q % 2 = 0) THEN q ELSE q + 1
  BY DEF RoundHalfEven
<1> HIDE DEF q, r
<1>3. d * (q + 1) = d * q + d /\ d * q \in Int
  BY <1>1, Z3
<1>4. CASE RoundHalfEven(n, d) = q /\ 2 * r <= d
  BY <1>1, <1>3, <1>4 DEF Within
<1>5. CASE RoundHalfEven(n, d) = q + 1 /\ 2 * r >= d
  BY <1>1, <1>3, <1>5 DEF Within
<1>6. \/ RoundHalfEven(n, d) = q /\ 2 * r <= d
      \/ RoundHalfEven(n, d) = q + 1 /\ 2 * r >= d
  BY <1>1, <1>2
<1> QED
  BY <1>4, <1>5, <1>6

-----------------------------------------------------------------------------
\* Every nonempty set of numbers has a least one: what induction rests on here.
LEMMA LeastNumber ==
    ASSUME NEW S \in SUBSET Nat, S # {}
    PROVE  \E n \in S : \A m \in S : n <= m
<1> DEFINE R == {ss \in Nat \X Nat : ss[1] < ss[2]}
<1>1. IsWellFoundedOn(R, Nat)
  BY NatLessThanWellFounded DEF OpToRel
<1> HIDE DEF R
<1>2. PICK n \in S : \A m \in S : ~(<<m, n>> \in R)
  BY <1>1, WFMin
<1>3. \A m \in S : ~(m < n)
  BY <1>2 DEF R
<1> QED
  BY <1>3

\* Induction over the numbers up to n, the set T standing for what is shown of them.
LEMMA UpTo ==
    ASSUME NEW n \in Nat, NEW T, 0 \in T, \A i \in 1 .. n : i - 1 \in T => i \in T
    PROVE  \A i \in 0 .. n : i \in T
<1> DEFINE Bad == {i \in 0 .. n : i \notin T}
<1> SUFFICES ASSUME Bad # {} PROVE FALSE
  OBVIOUS
<1>1. Bad \in SUBSET Nat
  OBVIOUS
<1>2. PICK i \in Bad : \A m \in Bad : i <= m
  BY <1>1, LeastNumber
<1>3. i \in 1 .. n /\ i - 1 \in 0 .. n
  BY <1>2
<1>4. i - 1 \notin Bad
  BY <1>2, <1>3
<1> QED
  BY <1>2, <1>3, <1>4

\* A probe lies in its interval.
LEMMA MiddleWithin ==
    ASSUME NEW low \in Int, NEW high \in Int, low <= high
    PROVE  (low + high) \div 2 \in low .. high
BY Z3

\* What is left of an interval that starts as first .. last.
Left(first, last) == (first .. last + 1) \X (first - 1 .. last)

\* The largest result of the bisection of an interval by the test safe, by what
\* best says of the smaller ones.
BestOf(best, safe, interval) ==
    LET low    == interval[1]
        high   == interval[2]
        middle == (low + high) \div 2
    IN  IF low > high THEN NoUnits
        ELSE IF middle \in safe THEN Larger(middle, best[<<middle + 1, high>>])
        ELSE best[<<low, middle - 1>>]

\* The function that the recursive definition is to define.
IsBest(best, first, last, safe) ==
    best = [interval \in Left(first, last) |-> BestOf(best, safe, interval)]

\* What is left after a probe is smaller.
LEMMA ProbeShrinks ==
    ASSUME NEW first \in Int, NEW last \in Int, NEW interval \in Left(first, last),
           interval[1] <= interval[2]
    PROVE  LET middle == (interval[1] + interval[2]) \div 2
           IN  /\ middle \in first .. last
               /\ middle \in interval[1] .. interval[2]
               /\ <<middle + 1, interval[2]>> \in Left(first, last)
               /\ <<interval[1], middle - 1>> \in Left(first, last)
<1> DEFINE low == interval[1]
           high == interval[2]
           middle == (low + high) \div 2
<1>1. low \in first .. last + 1 /\ high \in first - 1 .. last
  BY DEF Left
<1>2. low \in Int /\ high \in Int
  BY <1>1
<1> HIDE DEF low, high
<1>3. low <= high
  BY DEF low, high
<1>4. middle \in low .. high
  BY <1>2, <1>3, MiddleWithin
<1> HIDE DEF middle
<1>5. /\ middle \in first .. last
      /\ middle + 1 \in first .. last + 1
      /\ middle - 1 \in first - 1 .. last
  BY <1>1, <1>2, <1>4
<1>6. <<middle + 1, high>> \in Left(first, last) /\ <<low, middle - 1>> \in Left(first, last)
  BY <1>1, <1>5 DEF Left
<1> QED
  BY <1>4, <1>5, <1>6 DEF low, high, middle

\* The recursive definition of the bisection defines a function: by induction on
\* how much of the interval is left.
LEMMA BisectionDefined ==
    ASSUME NEW first \in Int, NEW last \in Int, NEW safe, first <= last + 1
    PROVE  \E best : IsBest(best, first, last, safe)
<1> DEFINE D == Left(first, last)
           OneStep(g) == [interval \in D |-> BestOf(g, safe, interval)]
           n == last - first + 1
           T == {m \in 0 .. n : \E g : \A interval \in D :
                    interval[2] - interval[1] < m => g[interval] = BestOf(g, safe, interval)}
<1>t. \A interval \in D : interval[1] \in Int /\ interval[2] \in Int
                           /\ interval[2] - interval[1] < n
  BY DEF Left
<1>1. 0 \in T
  <2> DEFINE g == [interval \in D |-> NoUnits]
  <2>1. \A interval \in D : interval[2] - interval[1] < 0
                => g[interval] = BestOf(g, safe, interval)
    BY <1>t DEF BestOf
  <2>2. 0 \in 0 .. n
    OBVIOUS
  <2> HIDE DEF g
  <2> QED
    BY <2>1, <2>2
<1>2. ASSUME NEW m \in 1 .. n, m - 1 \in T
      PROVE  m \in T
  <2>1. PICK g : \A interval \in D :
                    interval[2] - interval[1] < m - 1 => g[interval] = BestOf(g, safe, interval)
    BY <1>2
  <2> DEFINE h == OneStep(g)
  <2>2. \A interval \in D : h[interval] = BestOf(g, safe, interval)
    OBVIOUS
  <2> HIDE DEF h
  <2>3. ASSUME NEW interval \in D, interval[2] - interval[1] < m
        PROVE  BestOf(g, safe, interval) = BestOf(h, safe, interval)
    <3> DEFINE low == interval[1]
               high == interval[2]
               middle == (low + high) \div 2
    <3>1. CASE low > high
      BY <3>1 DEF BestOf
    <3>2. CASE ~(low > high)
      <4>1. low \in Int /\ high \in Int /\ low <= high
        BY <1>t, <3>2
      <4>2. /\ middle \in low .. high
            /\ <<middle + 1, high>> \in D
            /\ <<low, middle - 1>> \in D
        BY <4>1, ProbeShrinks
      <4>3. middle \in Int
        BY <4>1, <4>2
      <4> HIDE DEF middle
      <4>4. high - (middle + 1) < m - 1 /\ (middle - 1) - low < m - 1
        BY <2>3, <4>1, <4>2, <4>3
      <4>5. <<middle + 1, high>>[1] = middle + 1 /\ <<middle + 1, high>>[2] = high
              /\ <<low, middle - 1>>[1] = low /\ <<low, middle - 1>>[2] = middle - 1
        OBVIOUS
      <4>6. /\ g[<<middle + 1, high>>] = h[<<middle + 1, high>>]
            /\ g[<<low, middle - 1>>] = h[<<low, middle - 1>>]
        BY <2>1, <2>2, <4>2, <4>4, <4>5
      <4> QED
        BY <4>6 DEF BestOf, middle
    <3> QED
      BY <3>1, <3>2
  <2>4. \A interval \in D : interval[2] - interval[1] < m
            => h[interval] = BestOf(h, safe, interval)
    BY <2>2, <2>3
  <2>5. m \in 0 .. n
    OBVIOUS
  <2> QED
    BY <2>4, <2>5
<1>3. n \in Nat /\ n \in 0 .. n
  OBVIOUS
<1>4. n \in T
  <2> HIDE DEF T, n
  <2> QED
    BY <1>1, <1>2, <1>3, UpTo
<1>5. PICK g : \A interval \in D : g[interval] = BestOf(g, safe, interval)
  BY <1>4, <1>t
<1> DEFINE best == OneStep(g)
<1>6. \A interval \in D : best[interval] = g[interval]
  BY <1>5
<1> HIDE DEF best
<1>7. ASSUME NEW interval \in D
      PROVE  BestOf(g, safe, interval) = BestOf(best, safe, interval)
  <2>1. CASE interval[1] > interval[2]
    BY <2>1 DEF BestOf
  <2>2. CASE ~(interval[1] > interval[2])
    <3>1. interval[1] <= interval[2]
      BY <1>t, <2>2
    <3> QED
      BY <3>1, <1>6, ProbeShrinks DEF BestOf
  <2> QED
    BY <2>1, <2>2
<1>8. best = [interval \in D |-> BestOf(best, safe, interval)]
  BY <1>7 DEF best
<1> QED
  BY <1>8 DEF IsBest

\* What the bisection finds is a candidate of the interval that passes the test.
\* The recursive definition is unfolded.
LEMMA BisectionUnfolds ==
    ASSUME NEW first \in Int, NEW last \in Int, first <= last,
           NEW holding, NEW ticks, NEW weight, NEW equity,
           NEW safe, \A units \in first .. last :
                units \in safe <=> CandidateIsSafe(units, holding, ticks, weight, equity)
    PROVE  \E best : /\ IsBest(best, first, last, safe)
                     /\ Bisection(first, last, holding, ticks, weight, equity)
                          = best[<<first, last>>]
<1> DEFINE D == Left(first, last)
           Body(g, interval) ==
               IF interval[1] > interval[2] THEN NoUnits
               ELSE IF CandidateIsSafe((interval[1] + interval[2]) \div 2,
                                       holding, ticks, weight, equity)
                 THEN Larger((interval[1] + interval[2]) \div 2,
                             g[<<(interval[1] + interval[2]) \div 2 + 1, interval[2]>>])
                 ELSE g[<<interval[1], (interval[1] + interval[2]) \div 2 - 1>>]
           best == CHOOSE g : g = [interval \in D |-> Body(g, interval)]
<1>1. Bisection(first, last, holding, ticks, weight, equity) = best[<<first, last>>]
  BY DEF Bisection, Left
<1>2. ASSUME NEW g, NEW interval \in D
      PROVE  Body(g, interval) = BestOf(g, safe, interval)
  <2>1. interval[1] \in Int /\ interval[2] \in Int
    BY DEF Left
  <2>2. CASE interval[1] > interval[2]
    BY <2>2 DEF BestOf
  <2>3. CASE ~(interval[1] > interval[2])
    <3> DEFINE middle == (interval[1] + interval[2]) \div 2
    <3>0. interval[1] <= interval[2]
      BY <2>1, <2>3
    <3>1. middle \in first .. last
      BY <3>0, ProbeShrinks
    <3>2. middle \in safe <=> CandidateIsSafe(middle, holding, ticks, weight, equity)
      BY <3>1
    <3> HIDE DEF middle
    <3> QED
      BY <2>3, <3>2 DEF BestOf, middle
  <2> QED
    BY <2>2, <2>3
<1> HIDE DEF Body
<1>3. \E g : g = [interval \in D |-> Body(g, interval)]
  <2>1. PICK g : g = [interval \in D |-> BestOf(g, safe, interval)]
    <3>1. first <= last + 1
      OBVIOUS
    <3>2. PICK g : IsBest(g, first, last, safe)
      BY <3>1, BisectionDefined
    <3> QED
      BY <3>2 DEF IsBest
  <2>2. [interval \in D |-> BestOf(g, safe, interval)] = [interval \in D |-> Body(g, interval)]
    BY <1>2
  <2> QED
    BY <2>1, <2>2
<1>4. best = [interval \in D |-> Body(best, interval)]
  BY <1>3
<1> HIDE DEF best
<1>5. [interval \in D |-> BestOf(best, safe, interval)]
          = [interval \in D |-> Body(best, interval)]
  BY <1>2
<1> QED
  BY <1>1, <1>4, <1>5 DEF IsBest

\* It finds none or a member of safe, in whatever is left of the interval.
LEMMA BestIsSafe ==
    ASSUME NEW first \in Int, NEW last \in Int, first <= last, NEW safe, safe \subseteq Int,
           NEW best, IsBest(best, first, last, safe),
           NEW left, left \in Left(first, last)
    PROVE  best[left] = NoUnits \/ best[left] \in safe
<1> DEFINE D == Left(first, last)
<1>5. \A interval \in D : best[interval] = BestOf(best, safe, interval)
  BY DEF IsBest
<1> DEFINE Found(interval) == \/ best[interval] = NoUnits
                              \/ best[interval] \in safe
           n == last - first + 2
           T == {m \in 0 .. n : \A interval \in D : interval[2] - interval[1] < m - 1
                                    => Found(interval)}
<1>t. \A interval \in D : interval[1] \in Int /\ interval[2] \in Int
                           /\ interval[2] - interval[1] < n - 1
  BY DEF Left
<1>6. 0 \in T
  <2>1. ASSUME NEW interval \in D, interval[2] - interval[1] < 0 - 1
        PROVE  best[interval] = NoUnits
    <3>1. interval[1] > interval[2]
      BY <1>t, <2>1
    <3> QED
      BY <1>5, <3>1 DEF BestOf
  <2>2. 0 \in 0 .. n
    OBVIOUS
  <2> QED
    BY <2>1, <2>2
<1>7. ASSUME NEW m \in 1 .. n, m - 1 \in T
      PROVE  m \in T
  <2> SUFFICES ASSUME NEW interval \in D, interval[2] - interval[1] < m - 1
               PROVE  Found(interval)
    OBVIOUS
  <2>1. CASE interval[1] > interval[2]
    BY <1>5, <2>1 DEF BestOf
  <2>2. CASE ~(interval[1] > interval[2])
    <3> DEFINE low == interval[1]
               high == interval[2]
               middle == (low + high) \div 2
    <3>1. low \in Int /\ high \in Int /\ low <= high
      BY <1>t, <2>2
    <3>2. /\ middle \in low .. high
          /\ <<middle + 1, high>> \in D
          /\ <<low, middle - 1>> \in D
      BY <3>1, ProbeShrinks
    <3>3. best[interval] = IF middle \in safe THEN Larger(middle, best[<<middle + 1, high>>])
                           ELSE best[<<low, middle - 1>>]
      BY <1>5, <2>2 DEF BestOf
    <3> HIDE DEF middle
    <3>4. high - (middle + 1) < m - 1 - 1 /\ (middle - 1) - low < m - 1 - 1
      BY <3>1, <3>2
    <3>5. <<middle + 1, high>>[1] = middle + 1 /\ <<middle + 1, high>>[2] = high
            /\ <<low, middle - 1>>[1] = low /\ <<low, middle - 1>>[2] = middle - 1
      OBVIOUS
    <3>6. Found(<<middle + 1, high>>) /\ Found(<<low, middle - 1>>)
      BY <1>7, <3>2, <3>4, <3>5
    <3> QED
      BY <3>3, <3>6 DEF Larger
  <2> QED
    BY <2>1, <2>2
<1>8. n \in Nat /\ n \in 0 .. n
  OBVIOUS
<1>9. n \in T
  <2> HIDE DEF T, n
  <2> QED
    BY <1>6, <1>7, <1>8, UpTo
<1>10. Found(left)
  BY <1>9, <1>t
<1> QED
  BY <1>10

LEMMA BisectionFinds ==
    ASSUME NEW first \in Int, NEW last \in Int, first <= last,
           NEW holding, NEW ticks, NEW weight, NEW equity,
           NEW found, found = Bisection(first, last, holding, ticks, weight, equity)
    PROVE  \/ found = NoUnits
           \/ found \in first .. last
                  /\ CandidateIsSafe(found, holding, ticks, weight, equity)
<1> DEFINE safe == {units \in first .. last :
                        CandidateIsSafe(units, holding, ticks, weight, equity)}
<1>2. <<first, last>> \in Left(first, last) /\ safe \subseteq Int
  BY DEF Left
<1>0. \A units \in first .. last :
          units \in safe <=> CandidateIsSafe(units, holding, ticks, weight, equity)
  OBVIOUS
<1> HIDE DEF safe
<1>1. PICK best : /\ IsBest(best, first, last, safe)
                  /\ Bisection(first, last, holding, ticks, weight, equity)
                       = best[<<first, last>>]
  BY <1>0, BisectionUnfolds
<1>3. found = NoUnits \/ found \in safe
  BY <1>1, <1>2, BestIsSafe
<1> QED
  BY <1>3 DEF safe

(***************************************************************************)
(* What _cost_aware_target_quantity returns is zero or a candidate that    *)
(* passed its test: every order of the engine was sized safely, whatever   *)
(* the price, the costs, the equity and the holding.                       *)
(***************************************************************************)
THEOREM SizedIsSafe ==
    ASSUME NEW holding, holding.quantity \in Nat, NEW ticks \in Nat \ {0},
           NEW weight \in Nat, NEW equity \in Int,
           NEW target, target = TargetUnits(holding, ticks, weight, equity)
    PROVE  /\ target \in Nat
           /\ target = 0 \/ CandidateIsSafe(target, holding, ticks, weight, equity)
<1> DEFINE first == SearchLow(holding, ticks, weight, equity)
           last == SearchHigh(holding, ticks, weight, equity)
           found == Bisection(first, last, holding, ticks, weight, equity)
<1>1. RawTargetUnits(ticks, weight, equity) \in Int
  <2>1. WeightScale * (ticks * BpsScale) \in Nat \ {0}
    BY MoneyAssumption, Z3
  <2>2. weight * equity * Quantum \in Int
    BY MoneyAssumption, Z3
  <2>3. \A n \in Int, d \in Nat \ {0} : n \div d \in Int
    BY Z3
  <2> QED
    BY <2>1, <2>2, <2>3 DEF RawTargetUnits, ReferencePrice
<1>2. first \in Int /\ last \in Int /\ first <= last /\ 0 <= first
  BY <1>1 DEF SearchLow, SearchHigh, Larger
<1> HIDE DEF first, last
<1>3. \/ found = NoUnits
      \/ found \in first .. last
             /\ CandidateIsSafe(found, holding, ticks, weight, equity)
  BY <1>2, BisectionFinds
<1>4. target = IF weight = 0 THEN 0 ELSE Larger(0, found)
  BY DEF TargetUnits, first, last
<1> HIDE DEF found
<1>5. CASE weight = 0 \/ found = NoUnits
  BY <1>4, <1>5 DEF Larger, NoUnits
<1>6. CASE /\ found \in first .. last
           /\ CandidateIsSafe(found, holding, ticks, weight, equity)
           /\ weight # 0
  <2>1. found \in Nat
    BY <1>2, <1>6
  <2>2. target = found
    BY <1>4, <1>6, <2>1 DEF Larger
  <2> QED
    BY <1>6, <2>1, <2>2
<1> QED
  BY <1>3, <1>5, <1>6

-----------------------------------------------------------------------------
\* What the engine states of an order besides its quantity, its notional and its fee.
Stated(order, holding, target, ticks) ==
    /\ order.resulting_quantity = target
    /\ order.current_quantity = holding.quantity
    /\ order.current_symbol_exposure \in Nat
    /\ order.current_symbol_exposure = holding.quantity * order.reference_price
    /\ MoneyOf(order.current_symbol_exposure) = MarketValue(holding.quantity, ticks)
    /\ order.current_total_gross_exposure = order.current_symbol_exposure
    /\ order.resulting_symbol_exposure \in Nat
    /\ order.resulting_symbol_exposure = target * order.reference_price
    /\ MoneyOf(order.resulting_symbol_exposure) = MarketValue(target, ticks)
    /\ order.resulting_total_gross_exposure = order.resulting_symbol_exposure
    /\ order.side = Sell => order.resulting_symbol_exposure < order.current_symbol_exposure
    /\ order.side = Buy => order.execution_price >= order.reference_price
    /\ order.side = Sell => order.execution_price <= order.reference_price
    /\ order.cash_required = IF order.side = Buy
                               THEN MoneyOf(order.notional) + order.estimated_fee
                               ELSE Absent
    /\ order.reduces_risk => order.side = Sell
    /\ order.open_positions = OpenPositions(holding)
    /\ order.data_valid = TRUE /\ order.is_live_order = FALSE
    /\ order.duplicate = FALSE /\ order.data_age_seconds = DataAge

\* So it states every order.
LEMMA OrderStated ==
    ASSUME NEW holding, holding.quantity \in Nat, holding.cash \in Nat,
           NEW ticks \in Nat \ {0}, NEW target \in Nat, target # holding.quantity,
           NEW order, order = OrderTo(target, holding, ticks)
    PROVE  Stated(order, holding, target, ticks)
<1> DEFINE side == IF target > holding.quantity THEN Buy ELSE Sell
           price == ReferencePrice(ticks)
           current == holding.quantity * price
           resulting == target * price
<1>1. price \in Nat \ {0} /\ order.reference_price = price /\ order.side = side
  BY OrderTyped, PricesTyped DEF OrderTo, Sides
<1>2. current \in Nat /\ resulting \in Nat
  <2> HIDE DEF price
  <2> QED
    BY <1>1, Z3
<1>3. Larger(resulting, 0) = resulting
  BY <1>2 DEF Larger
<1>4. order.side = Sell => resulting < current
  <2> SUFFICES ASSUME order.side = Sell PROVE resulting < current
    OBVIOUS
  <2>1. target < holding.quantity
    BY <1>1 DEF Buy, Sell
  <2> HIDE DEF price
  <2> QED
    BY <1>1, <2>1, Z3
<1>5. /\ order.side = Buy => order.execution_price >= order.reference_price
      /\ order.side = Sell => order.execution_price <= order.reference_price
  <2>1. /\ ticks * (BpsScale + SlippageBps) >= ticks * BpsScale
        /\ ticks * (BpsScale - SlippageBps) <= ticks * BpsScale
    BY MoneyAssumption, Z3
  <2>2. order.execution_price = ExecutionPrice(ticks, order.side)
    BY DEF OrderTo
  <2> QED
    BY <1>1, <2>1, <2>2 DEF ExecutionPrice, ReferencePrice, Buy, Sell
<1>6. /\ order.resulting_quantity = target
      /\ order.current_quantity = holding.quantity
      /\ order.current_symbol_exposure = current
      /\ order.current_total_gross_exposure = current
      /\ order.resulting_symbol_exposure = resulting
      /\ order.resulting_total_gross_exposure = Larger(resulting, 0)
      /\ order.cash_required = IF side = Buy THEN MoneyOf(order.notional) + order.estimated_fee
                                             ELSE Absent
      /\ order.open_positions = OpenPositions(holding)
      /\ order.data_valid = TRUE /\ order.is_live_order = FALSE
      /\ order.duplicate = FALSE /\ order.data_age_seconds = DataAge
      /\ order.reduces_risk => side = Sell
  BY DEF OrderTo
<1> QED
  BY <1>1, <1>2, <1>3, <1>4, <1>5, <1>6 DEF MarketValue, Stated

\* What the ledger has once an order for target is filled, as the sizing projects it.
LEMMA SizedAsFilled ==
    ASSUME NEW holding, holding.quantity \in Nat, holding.cash \in Nat,
           NEW ticks \in Nat \ {0}, NEW weight \in Fraction, NEW equity \in Int,
           NEW target \in Nat, target # holding.quantity,
           CandidateIsSafe(target, holding, ticks, weight, equity),
           NEW order, order = OrderTo(target, holding, ticks),
           NEW cash, cash = IF order.side = Buy
                              THEN holding.cash - MoneyOf(order.notional) - order.estimated_fee
                              ELSE holding.cash + MoneyOf(order.notional) - order.estimated_fee
    PROVE  /\ cash \in Int
           /\ cash + MarketValue(target, ticks) > 0
           /\ MarketValue(target, ticks) * WeightScale
                  <= weight * (cash + MarketValue(target, ticks))
           /\ MarketValue(target, ticks) <= cash + MarketValue(target, ticks)
           /\ order.side = Buy => MoneyOf(order.notional) > 0
<1> DEFINE value == MarketValue(target, ticks)
           side == IF target > holding.quantity THEN Buy ELSE Sell
           notional == Magnitude(target - holding.quantity) * ExecutionPrice(ticks, side)
<1>1. /\ order.side = side
      /\ order.notional = notional
      /\ order.estimated_fee = TradeFee(notional)
      /\ order.notional \in Nat /\ order.estimated_fee \in Nat
  BY OrderTyped DEF OrderTo
<1>2. MoneyOf(order.notional) \in Int /\ value \in Nat
  BY <1>1, MoneyTyped, ValueTyped
<1>3. cash \in Int
  BY <1>1, <1>2
<1> HIDE DEF value
<1>4. /\ cash + value > 0
      /\ value * WeightScale <= weight * (cash + value)
      /\ side = Buy => MoneyOf(notional) > 0
  <2>1. CASE target > holding.quantity
    <3>1. side = Buy
      BY <2>1
    <3>2. cash = holding.cash + (-MoneyOf(notional) - TradeFee(notional))
      BY <1>1, <1>2, <3>1
    <3> QED
      BY <2>1, <3>1, <3>2 DEF CandidateIsSafe, value
  <2>2. CASE target < holding.quantity
    <3>1. side = Sell /\ side # Buy
      BY <2>2 DEF Buy, Sell
    <3>2. cash = holding.cash + (MoneyOf(notional) - TradeFee(notional))
      BY <1>1, <1>2, <3>1
    <3> QED
      BY <2>2, <3>1, <3>2 DEF CandidateIsSafe, value
  <2> QED
    BY <2>1, <2>2
<1>5. value <= cash + value
  <2>1. weight \in Nat /\ weight <= WeightScale /\ WeightScale \in Nat \ {0}
    BY MoneyAssumption DEF Fraction
  <2>2. \A v \in Nat, e \in Nat \ {0}, s \in Nat \ {0}, w \in Nat :
            w <= s /\ v * s <= w * e => v <= e
    <3> SUFFICES ASSUME NEW v \in Nat, NEW e \in Nat \ {0}, NEW s \in Nat \ {0},
                        NEW w \in Nat, w <= s, v * s <= w * e
                 PROVE  v <= e
      OBVIOUS
    <3>1. w * e <= s * e
      BY Z3
    <3>2. v * s <= e * s
      BY <3>1, Z3
    <3> QED
      BY <3>2, Z3
  <2>3. cash + value \in Nat \ {0}
    BY <1>2, <1>3, <1>4
  <2> QED
    BY <1>2, <1>4, <2>1, <2>2, <2>3
<1> QED
  BY <1>1, <1>3, <1>4, <1>5 DEF value

\* The checks that are left of a well stated order: the age of the data and the
\* symbol, whether cash and equity last, the caps and the losses.
LeftToCheck(order, shown, holding, target, ticks, weight, equity) ==
    /\ EvaluateOrder(EffectivePolicy, order, shown) =
            InvalidRequest(EffectivePolicy, order)
            \cup UnaffordableOrder(order, shown)
            \cup BreachedCaps(EffectivePolicy, order, shown)
            \cup TooManyPositions(EffectivePolicy, order, shown)
            \cup LossLimits(EffectivePolicy, shown)
    /\ InvalidRequest(EffectivePolicy, order) =
            When(Symbol \notin EffectivePolicy.allowed_symbols, "invalid_symbol")
            \cup When(DataAge > EffectivePolicy.max_data_age_seconds, "stale_data")
    /\ UnaffordableOrder(order, shown)
            \subseteq {"insufficient_cash", "projected_equity_non_positive"}
    /\ "leverage" \notin BreachedCaps(EffectivePolicy, order, shown)
    /\ order.side \in Sides
    /\ order.side = Sell => ReducesRisk(order)
    /\ order.side = Buy =>
           /\ target > holding.quantity
           /\ CandidateIsSafe(target, holding, ticks, weight, equity)
           /\ ProjectedCash(order, shown) =
                  holding.cash - MoneyOf(order.notional) - order.estimated_fee
           /\ ProjectedEquity(order, shown) =
                  ProjectedCash(order, shown) + MarketValue(target, ticks)

\* No others are left of an order to a quantity that is safe, of a valid portfolio.
LEMMA SafeOrderIsStated ==
    ASSUME NEW holding, holding.quantity \in Nat, holding.cash \in Nat,
           NEW ticks \in Nat \ {0}, NEW weight \in Fraction,
           NEW equity, equity = EquityAt(holding, ticks),
           NEW target \in Nat, target # holding.quantity,
           target = 0 \/ CandidateIsSafe(target, holding, ticks, weight, equity),
           NEW order, order = OrderTo(target, holding, ticks),
           NEW mark, NEW shown, shown = Snapshot(holding, equity, mark, FALSE),
           InvalidPortfolio(shown) = {}
    PROVE  LeftToCheck(order, shown, holding, target, ticks, weight, equity)
<1>1. /\ equity \in Nat /\ shown.equity = equity /\ shown.cash = holding.cash
      /\ shown.open_positions = OpenPositions(holding)
      /\ OpenPositions(holding) \in Nat
      /\ equity = holding.cash + MarketValue(holding.quantity, ticks)
  BY EquityTyped DEF Snapshot, EquityAt, OpenPositions
<1>2. target \in Nat /\ (target = 0 \/ CandidateIsSafe(target, holding, ticks, weight, equity))
  OBVIOUS
<1>3. /\ order.side = IF target > holding.quantity THEN Buy ELSE Sell
      /\ order.side \in Sides
      /\ order.quantity \in Nat \ {0}
      /\ order.quantity = Magnitude(target - holding.quantity)
      /\ order.reference_price \in Nat \ {0}
      /\ order.execution_price \in Nat \ {0}
      /\ order.notional \in Nat
      /\ order.notional = order.quantity * order.execution_price
      /\ order.estimated_fee \in Nat
      /\ order.available_cash = holding.cash
  BY <1>2, OrderTyped
<1>4. Stated(order, holding, target, ticks)
  BY <1>2, OrderStated
<1>a. /\ IsPositive(order.quantity) /\ IsPositive(order.reference_price)
      /\ IsPositive(order.execution_price) /\ IsPositive(order.notional)
      /\ IsNonNegative(order.estimated_fee)
      /\ IsNonNegative(order.current_symbol_exposure)
      /\ IsNonNegative(order.current_total_gross_exposure)
      /\ IsNonNegative(order.resulting_symbol_exposure)
      /\ IsNonNegative(order.resulting_total_gross_exposure)
      /\ IsNonNegative(order.current_quantity) /\ IsNonNegative(order.resulting_quantity)
      /\ IsNonNegative(order.open_positions)
  <2>1. order.notional > 0
    BY <1>3, Z3
  <2> QED
    BY <1>1, <1>2, <1>3, <1>4, <2>1 DEF Stated, IsPositive, IsNonNegative, IsFinite
<1>6. InvalidRequest(EffectivePolicy, order) =
          When(Symbol \notin EffectivePolicy.allowed_symbols, "invalid_symbol")
          \cup When(DataAge > EffectivePolicy.max_data_age_seconds, "stale_data")
  <2>1. DataAge \in Nat
    BY ProposalAssumption
  <2>2. InvalidAge(EffectivePolicy, order.data_age_seconds) =
            When(DataAge > EffectivePolicy.max_data_age_seconds, "stale_data")
    BY <1>4, <2>1 DEF Stated, InvalidAge, When, IsFinite
  <2>3. order.symbol = Symbol
    BY DEF OrderTo
  <2> QED
    BY <1>3, <1>4, <2>2, <2>3 DEF Stated, InvalidRequest, When
<1>7. InvalidAmounts(order, shown) = {}
  <2>1. order.open_positions = shown.open_positions
    BY <1>1, <1>4 DEF Stated
  <2>2. ~(order.notional <= 0)
    BY <1>a DEF IsPositive, IsFinite
  <2>3. \A v : IsNonNegative(v) => IsFinite(v) /\ ~(v < 0)
    BY DEF IsNonNegative, IsFinite
  <2>4. IsFinite(order.notional)
    BY <1>a DEF IsPositive
  <2> QED
    BY <1>a, <2>1, <2>2, <2>3, <2>4 DEF InvalidAmounts, When
<1>8. InconsistentClaims(order) = {}
  <2>1. /\ order.side = Buy => target = holding.quantity + order.quantity
        /\ order.side = Sell => target = holding.quantity - order.quantity
    BY <1>2, <1>3 DEF Magnitude, Buy, Sell
  <2>2. Magnitude(order.resulting_symbol_exposure) = order.resulting_symbol_exposure
    BY <1>4 DEF Stated, Magnitude
  <2> QED
    BY <1>2, <1>3, <1>4, <2>1, <2>2
    DEF Stated, InconsistentClaims, When, Priced, IsPositive, IsNonNegative, IsFinite, Sides
<1>9. InconsistentPortfolio(order, shown) = {}
  <2>1. order.available_cash = shown.cash
    BY <1>1, <1>3
  <2>3. shown.cash \in Nat
    BY <1>1
  <2>4. IsNonNegative(shown.cash)
    <3>1. \A v \in Nat : IsNonNegative(v)
      BY DEF IsNonNegative, IsFinite
    <3> QED
      BY <2>3, <3>1
  <2>2. shown.equity = shown.cash + MoneyOf(order.current_total_gross_exposure)
    BY <1>1, <1>4 DEF Stated
  <2> QED
    BY <2>1, <2>2, <2>4 DEF InconsistentPortfolio, When
<1>10. order.side = Buy => CandidateIsSafe(target, holding, ticks, weight, equity)
  BY <1>2, <1>3 DEF Buy, Sell
<1>11. UnaffordableOrder(order, shown)
            \subseteq {"insufficient_cash", "projected_equity_non_positive"}
  <2>1. CashNotional(order) = MoneyOf(order.notional) /\ MoneyOf(order.notional) \in Int
    BY <1>3, MoneyTyped DEF CashNotional
  <2>2. order.side = Buy => MoneyOf(order.notional) > 0
    BY <1>1, <1>2, <1>3, <1>10, SizedAsFilled
  <2>3. order.side = Sell => order.cash_required = Absent
    BY <1>4 DEF Stated, Buy, Sell
  <2>4. order.side = Buy => order.cash_required = CashNotional(order) + order.estimated_fee
    BY <1>4, <2>1 DEF Stated
  <2>5. order.side = Buy => ~(CashNotional(order) <= 0) /\ IsFinite(order.cash_required)
    BY <1>3, <2>1, <2>2, <2>4 DEF IsFinite
  <2>6. IsFinite(order.resulting_total_gross_exposure)
    BY <1>a DEF IsNonNegative
  <2> QED
    BY <2>3, <2>4, <2>5, <2>6 DEF UnaffordableOrder, When
<1>12. order.side = Sell => ReducesRisk(order)
  BY <1>a, <1>4 DEF Stated, ReducesRisk, IsNonNegative
<1>13. When(order.reduces_risk /\ ~ReducesRisk(order), "invalid_order") = {}
  BY <1>4, <1>12 DEF Stated, When
<1>14. order.side = Buy =>
           /\ target > holding.quantity
           /\ CandidateIsSafe(target, holding, ticks, weight, equity)
           /\ ProjectedCash(order, shown) =
                  holding.cash - MoneyOf(order.notional) - order.estimated_fee
           /\ ProjectedEquity(order, shown) =
                  ProjectedCash(order, shown) + MarketValue(target, ticks)
  <2> SUFFICES ASSUME order.side = Buy
               PROVE  /\ ProjectedCash(order, shown) =
                             holding.cash - MoneyOf(order.notional) - order.estimated_fee
                      /\ ProjectedEquity(order, shown) =
                             ProjectedCash(order, shown) + MarketValue(target, ticks)
    BY <1>3, <1>10 DEF Buy, Sell
  <2>1. CashNotional(order) = MoneyOf(order.notional) /\ MoneyOf(order.notional) \in Int
    BY <1>3, MoneyTyped DEF CashNotional
  <2>2. ProjectedCash(order, shown) =
            holding.cash - (MoneyOf(order.notional) + order.estimated_fee)
    BY <1>1, <2>1 DEF ProjectedCash
  <2>3. order.estimated_fee \in Int /\ holding.cash \in Int
    BY <1>3
  <2>4. \A a, b, c \in Int : a - (b + c) = a - b - c
    OBVIOUS
  <2>5. ProjectedEquity(order, shown) =
            ProjectedCash(order, shown) + MarketValue(target, ticks)
    BY <1>4 DEF Stated, ProjectedEquity
  <2> QED
    BY <2>1, <2>2, <2>3, <2>4, <2>5
<1>15. "leverage" \notin BreachedCaps(EffectivePolicy, order, shown)
  <2>1. CASE order.side = Sell
    BY <1>12, <2>1 DEF BreachedCaps
  <2>2. CASE order.side = Buy
    <3> DEFINE cash == holding.cash - MoneyOf(order.notional) - order.estimated_fee
    <3>1. cash \in Int /\ MarketValue(target, ticks) <= cash + MarketValue(target, ticks)
      BY <1>1, <1>2, <1>10, <2>2, SizedAsFilled
    <3>2. ProjectedEquity(order, shown) = cash + MarketValue(target, ticks)
      BY <1>14, <2>2
    <3>3. MarketValue(target, ticks) \in Int
      BY <1>2, ValueTyped
    <3> HIDE DEF cash
    <3>4. ~(MarketValue(target, ticks) > cash + MarketValue(target, ticks))
      BY <3>1, <3>3
    <3>5. MoneyOf(order.resulting_total_gross_exposure) = MarketValue(target, ticks)
      BY <1>4 DEF Stated
    <3>6. ~(MoneyOf(order.resulting_total_gross_exposure) > ProjectedEquity(order, shown))
      BY <3>2, <3>4, <3>5
    <3> QED
      BY <3>6 DEF BreachedCaps, When
  <2> QED
    BY <1>3, <2>1, <2>2 DEF Sides
<1>16. EvaluateOrder(EffectivePolicy, order, shown) =
           InvalidRequest(EffectivePolicy, order)
           \cup UnaffordableOrder(order, shown)
           \cup BreachedCaps(EffectivePolicy, order, shown)
           \cup TooManyPositions(EffectivePolicy, order, shown)
           \cup LossLimits(EffectivePolicy, shown)
  <2> DEFINE a == InvalidPortfolio(shown)
             b == InvalidRequest(EffectivePolicy, order)
             c == InvalidAmounts(order, shown)
             d == InconsistentClaims(order)
             e == InconsistentPortfolio(order, shown)
             f == UnaffordableOrder(order, shown)
             g == When(order.reduces_risk /\ ~ReducesRisk(order), "invalid_order")
             h == BreachedCaps(EffectivePolicy, order, shown)
             i == TooManyPositions(EffectivePolicy, order, shown)
             j == LossLimits(EffectivePolicy, shown)
  <2>1. EvaluateOrder(EffectivePolicy, order, shown) = UNION {a, b, c, d, e, f, g, h, i, j}
    BY DEF EvaluateOrder
  <2>2. a = {} /\ c = {} /\ d = {} /\ e = {} /\ g = {}
    BY <1>7, <1>8, <1>9, <1>13
  <2> HIDE DEF a, b, c, d, e, f, g, h, i, j
  <2>3. UNION {a, b, c, d, e, f, g, h, i, j} = b \cup f \cup h \cup i \cup j
    BY <2>2
  <2> QED
    BY <2>1, <2>3 DEF b, f, h, i, j
<1> QED
  BY <1>3, <1>6, <1>11, <1>12, <1>14, <1>15, <1>16 DEF LeftToCheck

\* Within the caps no cap is breached by what was sized.
LEMMA NoCapBreached ==
    ASSUME NEW held, held.quantity \in Nat, held.cash \in Nat,
           NEW price \in Nat \ {0}, NEW share \in Fraction,
           NEW worth, worth = EquityAt(held, price),
           NEW target \in Nat, target # held.quantity,
           target = 0 \/ CandidateIsSafe(target, held, price, share, worth),
           share <= MaxPosition, share <= MaxOrderNotional,
           EffectivePolicy.max_asset_weight = MaxPosition,
           EffectivePolicy.max_total_gross_exposure = MaxTotalExposure,
           EffectivePolicy.max_order_notional_weight = MaxOrderNotional,
           NEW proposed, proposed = OrderTo(target, held, price),
           NEW mark, NEW snap, snap = Snapshot(held, worth, mark, FALSE),
           LeftToCheck(proposed, snap, held, target, price, share, worth),
           proposed.side = Buy
    PROVE  /\ BreachedCaps(EffectivePolicy, proposed, snap) = {}
           /\ UnaffordableOrder(proposed, snap) = {}
<1> DEFINE left == held.cash - MoneyOf(proposed.notional) - proposed.estimated_fee
           value == MarketValue(target, price)
<1>1. /\ target > held.quantity
      /\ CandidateIsSafe(target, held, price, share, worth)
      /\ ProjectedCash(proposed, snap) = left
      /\ ProjectedEquity(proposed, snap) = left + value
      /\ "leverage" \notin BreachedCaps(EffectivePolicy, proposed, snap)
      /\ UnaffordableOrder(proposed, snap)
             \subseteq {"insufficient_cash", "projected_equity_non_positive"}
  BY DEF LeftToCheck
<1>2. /\ left \in Int
      /\ left + value > 0
      /\ value * WeightScale <= share * (left + value)
      /\ value <= left + value
  <2>1. worth \in Int
    BY EquityTyped
  <2>2. left = IF proposed.side = Buy
                 THEN held.cash - MoneyOf(proposed.notional) - proposed.estimated_fee
                 ELSE held.cash + MoneyOf(proposed.notional) - proposed.estimated_fee
    OBVIOUS
  <2> HIDE DEF left
  <2> QED
    BY <1>1, <2>1, <2>2, SizedAsFilled
<1>3. value \in Nat
  BY ValueTyped
<1>4. /\ proposed.quantity \in Nat /\ proposed.execution_price \in Nat
      /\ proposed.notional = proposed.quantity * proposed.execution_price
      /\ proposed.quantity = target - held.quantity
      /\ proposed.execution_price = ExecutionPrice(price, Buy)
  <2>1. /\ proposed.quantity \in Nat \ {0} /\ proposed.execution_price \in Nat \ {0}
        /\ proposed.notional = proposed.quantity * proposed.execution_price
        /\ proposed.quantity = Magnitude(target - held.quantity)
    BY OrderTyped
  <2>2. proposed.execution_price = ExecutionPrice(price, Buy)
    BY <1>1 DEF OrderTo
  <2> QED
    BY <1>1, <2>1, <2>2 DEF Magnitude
<1>5. Stated(proposed, held, target, price)
  BY OrderStated
<1> HIDE DEF left, value
<1>6. UnaffordableOrder(proposed, snap) = {}
  <2>1. ~(ProjectedCash(proposed, snap) < 0) /\ ~(ProjectedEquity(proposed, snap) <= 0)
    <3>1. ProjectedCash(proposed, snap) = left /\ ProjectedEquity(proposed, snap) = left + value
      BY <1>1
    <3>2. ~(left < 0) /\ ~(left + value <= 0)
      BY <1>2, <1>3
    <3> QED
      BY <3>1, <3>2
  <2>2. \A reason \in UnaffordableOrder(proposed, snap) :
            /\ reason # "insufficient_cash"
            /\ reason # "projected_equity_non_positive"
    BY <2>1 DEF UnaffordableOrder, When
  <2> QED
    BY <1>1, <2>2
<1>7. MoneyOf(Magnitude(proposed.resulting_symbol_exposure)) = value
      /\ MoneyOf(proposed.resulting_total_gross_exposure) = value
  <2>1. Magnitude(proposed.resulting_symbol_exposure) = proposed.resulting_symbol_exposure
    BY <1>5 DEF Stated, Magnitude
  <2> QED
    BY <1>5, <2>1 DEF Stated, value
<1>8. \A cap \in Fraction : share <= cap => ~Exceeds(value, cap, left + value)
  <2> SUFFICES ASSUME NEW cap \in Fraction, share <= cap
               PROVE  ~(value * WeightScale > cap * (left + value))
    BY DEF Exceeds
  <2>1. share \in Int /\ cap \in Int /\ left + value \in Nat
    BY <1>2, <1>3, MoneyAssumption DEF Fraction
  <2>2. share * (left + value) <= cap * (left + value)
    BY <2>1, TimesMonotone
  <2>3. share * (left + value) \in Int /\ cap * (left + value) \in Int
        /\ value * WeightScale \in Int
    BY <1>3, <2>1, MoneyAssumption
  <2> QED
    BY <1>2, <2>2, <2>3
<1>9. ~Exceeds(proposed.quantity * proposed.execution_price, MaxOrderNotional,
               snap.equity * Quantum)
  <2>1. snap.equity = worth /\ worth \in Nat
    BY EquityTyped DEF Snapshot
  <2> DEFINE notional == (target - held.quantity) * ExecutionPrice(price, Buy)
  <2>2. notional * WeightScale <= MaxOrderNotional * worth * Quantum
    <3>1. Magnitude(target - held.quantity) = target - held.quantity
      BY <1>1 DEF Magnitude
    <3>2. ~(share > MaxOrderNotional)
      BY MoneyAssumption, SizingAssumption DEF Fraction
    <3> QED
      BY <1>1, <3>1, <3>2 DEF CandidateIsSafe
  <2>3. proposed.quantity * proposed.execution_price = notional /\ notional \in Int
    BY <1>4
  <2> HIDE DEF notional
  <2>4. MaxOrderNotional * (worth * Quantum) = MaxOrderNotional * worth * Quantum
        /\ MaxOrderNotional * worth * Quantum \in Int /\ notional * WeightScale \in Int
    BY <2>1, <2>3, MoneyAssumption, SizingAssumption, Z3
  <2> QED
    <3>1. ~(notional * WeightScale > MaxOrderNotional * (worth * Quantum))
      BY <2>2, <2>4
    <3> QED
      BY <2>1, <2>3, <3>1 DEF Exceeds
<1>10. MaxPosition \in Fraction /\ MaxTotalExposure \in Fraction
       /\ share <= MaxPosition /\ share <= MaxTotalExposure
  BY ProposalAssumption, MoneyAssumption DEF Fraction
<1>11. BreachedCaps(EffectivePolicy, proposed, snap) = {}
  <2>1. ~Exceeds(value, MaxPosition, left + value)
        /\ ~Exceeds(value, MaxTotalExposure, left + value)
    BY <1>8, <1>10
  <2>2. BreachedCaps(EffectivePolicy, proposed, snap) \subseteq {"leverage"}
    <3> HIDE DEF EffectivePolicy
    <3> QED
      BY <1>1, <1>7, <1>9, <2>1 DEF BreachedCaps, When
  <2> QED
    BY <1>1, <2>2
<1> QED
  BY <1>6, <1>11

\* The policy finds nothing to object to in how the engine states an order that it
\* sized, nor in a portfolio that passed the check at the open.
LEMMA SizedOrderIsStated ==
    ASSUME NEW holding, holding.quantity \in Nat, holding.cash \in Nat,
           NEW ticks \in Nat \ {0}, NEW weight \in Fraction,
           NEW equity, equity = EquityAt(holding, ticks),
           NEW target, target = TargetUnits(holding, ticks, weight, equity),
           target # holding.quantity,
           NEW order, order = OrderTo(target, holding, ticks),
           NEW mark, NEW shown, shown = Snapshot(holding, equity, mark, FALSE),
           PortfolioHalt(EffectivePolicy, shown) = {}
    PROVE  EvaluateOrder(EffectivePolicy, order, shown) \cap EngineFault = {}
<1>1. weight \in Nat /\ equity \in Int
  BY EquityTyped, MoneyAssumption DEF Fraction
<1>2. target \in Nat /\ (target = 0 \/ CandidateIsSafe(target, holding, ticks, weight, equity))
  BY <1>1, SizedIsSafe
<1>3. /\ EvaluateOrder(EffectivePolicy, order, shown) =
              InvalidRequest(EffectivePolicy, order)
              \cup UnaffordableOrder(order, shown)
              \cup BreachedCaps(EffectivePolicy, order, shown)
              \cup TooManyPositions(EffectivePolicy, order, shown)
      /\ InvalidRequest(EffectivePolicy, order) \subseteq {"stale_data", "invalid_symbol"}
      /\ UnaffordableOrder(order, shown)
              \subseteq {"insufficient_cash", "projected_equity_non_positive"}
      /\ "leverage" \notin BreachedCaps(EffectivePolicy, order, shown)
  <2> HIDE DEF EffectivePolicy, EngineFault
  <2>1. target \in Nat
    BY <1>2
  <2>2. /\ EvaluateOrder(EffectivePolicy, order, shown) =
                InvalidRequest(EffectivePolicy, order)
                \cup UnaffordableOrder(order, shown)
                \cup BreachedCaps(EffectivePolicy, order, shown)
                \cup TooManyPositions(EffectivePolicy, order, shown)
        /\ InvalidRequest(EffectivePolicy, order) =
                When(Symbol \notin EffectivePolicy.allowed_symbols, "invalid_symbol")
                \cup When(DataAge > EffectivePolicy.max_data_age_seconds, "stale_data")
        /\ UnaffordableOrder(order, shown)
                \subseteq {"insufficient_cash", "projected_equity_non_positive"}
        /\ "leverage" \notin BreachedCaps(EffectivePolicy, order, shown)
    <3>1. InvalidPortfolio(shown) = {} /\ LossLimits(EffectivePolicy, shown) = {}
      BY DEF PortfolioHalt
    <3>2. LeftToCheck(order, shown, holding, target, ticks, weight, equity)
      BY <1>2, <2>1, <3>1, SafeOrderIsStated
    <3> QED
      BY <3>1, <3>2 DEF LeftToCheck
  <2>3. \A c, reason : When(c, reason) \subseteq {reason}
    BY DEF When
  <2> QED
    BY <2>2, <2>3
<1>4. BreachedCaps(EffectivePolicy, order, shown) \subseteq CapReason
  BY DEF BreachedCaps, When, CapReason
<1>5. TooManyPositions(EffectivePolicy, order, shown) \subseteq {"max_open_positions"}
  BY DEF TooManyPositions, When
<1>6. \A reason \in {"stale_data", "invalid_symbol", "insufficient_cash",
                     "projected_equity_non_positive", "max_open_positions"}
                      \cup (CapReason \ {"leverage"}) : reason \notin EngineFault
  BY DEF CapReason, EngineFault, PortfolioReason, LossReason
<1> DEFINE Rest == {"stale_data", "invalid_symbol", "insufficient_cash",
                     "projected_equity_non_positive", "max_open_positions"}
                      \cup (CapReason \ {"leverage"})
<1>7. EvaluateOrder(EffectivePolicy, order, shown) \subseteq Rest
  <2> HIDE DEF CapReason
  <2> QED
    BY <1>3, <1>4, <1>5
<1> QED
  BY <1>6, <1>7
=============================================================================
