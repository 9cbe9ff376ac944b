----------------------- MODULE LeanAlgorithms_proofs -----------------------
(***************************************************************************)
(* The moving-average algorithms on every market: any prices and fees, any *)
(* number of sessions, any windows, limits and weight.                     *)
(***************************************************************************)
EXTENDS MCLeanAlgorithms, OrderProposal_proofs, SequenceTheorems, WellFoundedInduction, TLAPS

(***************************************************************************)
(* The market as the two active algorithms keep it: at most one order, and *)
(* what is left of it never sells more than is held.                       *)
(***************************************************************************)
Order == [left : Int, cancelling : BOOLEAN]
AtMostOne == {s \in Seq(Order) : Len(s) <= 1}
Account == [day : 0 .. FinalSession, at : {"open", "close"}, mark : Dollars,
            cash : Int, quantity : Int, orders : AtMostOne]

Covered(m) ==
    /\ m \in Account
    /\ m.quantity >= 0
    /\ m.orders # <<>> => m.orders[1].left # 0 /\ m.quantity + m.orders[1].left >= 0

SameSession(m, n) == n.quantity = m.quantity /\ n.day = m.day /\ n.at = m.at

LEMMA LeanFacts ==
    /\ Dollars \subseteq Nat \ {0} /\ Charges \subseteq Nat /\ Capital \in Nat \ {0}
    /\ FirstSession \in Nat \ {0} /\ FinalSession \in Nat /\ FirstSession <= FinalSession
    /\ DailyLimit \in 1 .. 100 /\ DeclineLimit \in 1 .. 100
    /\ LongWeight \in 1 .. 100
    /\ \A day \in FirstSession .. FinalSession : day # None
BY LeanAssumption DEF Baseline!MarketAssumption, Baseline!LimitAssumption

LEMMA ShortSequences ==
    ASSUME NEW S, NEW s \in Seq(S), Len(s) <= 1
    PROVE  /\ s # <<>> => s[1] \in S
           /\ s = <<>> \/ (Len(s) = 1 /\ DOMAIN s = {1} /\ s = <<s[1]>>)
           /\ s = <<>> => Len(s) = 0 /\ DOMAIN s = {}
<1>1. Len(s) \in {0, 1} /\ DOMAIN s = 1 .. Len(s)
  <2>1. Len(s) \in Nat /\ DOMAIN s = 1 .. Len(s)
    OBVIOUS
  <2> QED
    BY <2>1
<1>2. CASE Len(s) = 0
  BY <1>2
<1>3. CASE Len(s) = 1
  <2>1. DOMAIN s = {1} /\ s[1] \in S
    BY <1>1, <1>3
  <2>2. DOMAIN <<s[1]>> = {1} /\ <<s[1]>>[1] = s[1]
    OBVIOUS
  <2>3. s = <<s[1]>>
    BY <1>3, <2>1
  <2>4. s # <<>>
    BY <1>3
  <2> QED
    BY <1>3, <2>1, <2>3, <2>4
<1> QED
  BY <1>1, <1>2, <1>3

LEMMA OneOrNone ==
    ASSUME NEW s \in AtMostOne
    PROVE  /\ s \in Seq(Order) /\ Len(s) <= 1
           /\ s # <<>> => s[1] \in Order
           /\ s = <<>> \/ (Len(s) = 1 /\ DOMAIN s = {1} /\ s = <<s[1]>>)
           /\ s = <<>> => Len(s) = 0 /\ DOMAIN s = {}
<1>1. s \in Seq(Order) /\ Len(s) <= 1
  BY Zenon DEF AtMostOne
<1> QED
  BY <1>1, ShortSequences

LEMMA OneIsShort ==
    ASSUME NEW o \in Order
    PROVE  /\ <<>> \in AtMostOne /\ <<o>> \in AtMostOne
           /\ <<o>>[1] = o /\ <<o>> # <<>> /\ Append(<<>>, o) = <<o>>
<1>1. ASSUME NEW S, NEW x \in S
      PROVE  /\ <<>> \in Seq(S) /\ Len(<<>>) <= 1
             /\ <<x>> \in Seq(S) /\ Len(<<x>>) <= 1 /\ <<x>>[1] = x /\ <<x>> # <<>>
             /\ Append(<<>>, x) = <<x>>
  OBVIOUS
<1> QED
  BY <1>1 DEF AtMostOne

\* What a cancellation leaves of at most one order.
LEMMA StandingOfOne ==
    ASSUME NEW s \in AtMostOne
    PROVE  Baseline!Standing(s) = IF s = <<>> THEN <<>>
                                  ELSE IF s[1].cancelling THEN <<>> ELSE s
<1> DEFINE N == Len(s)
           Body(f, n) == IF n = 0 THEN <<>>
                         ELSE IF s[n].cancelling THEN f[n - 1] ELSE Append(f[n - 1], s[n])
           kept == CHOOSE f : f = [n \in 0 .. N |-> Body(f, n)]
<1>1. Baseline!Standing(s) = kept[N]
  BY DEF Baseline!Standing
<1>2. N \in {0, 1}
  BY OneOrNone
<1>3. \E f : f = [n \in 0 .. N |-> Body(f, n)]
  <2> DEFINE none == <<>>
             first == IF s[1].cancelling THEN none ELSE Append(none, s[1])
             g == [n \in 0 .. N |-> IF n = 0 THEN none ELSE first]
  <2>a. N \in Nat /\ (\A n \in 0 .. N : n = 0 \/ (n = 1 /\ n - 1 = 0))
    <3> HIDE DEF N, none, first, g, kept, Body
    <3> QED
      BY <1>2
  <2>b. g[0] = none
    <3> HIDE DEF N
    <3>1. 0 \in 0 .. N
      BY <2>a
    <3> QED
      BY <3>1
  <2>1. \A n \in 0 .. N : n = 0 \/ (n = 1 /\ n - 1 = 0 /\ g[n - 1] = none)
    BY <2>a, <2>b
  <2>2. \A n \in 0 .. N : g[n] = Body(g, n)
    BY <2>1
  <2>3. g = [n \in 0 .. N |-> Body(g, n)]
    BY <2>2
  <2> QED
    BY <2>3
<1>4. kept = [n \in 0 .. N |-> Body(kept, n)]
  <2> HIDE DEF Body
  <2> QED
    BY <1>3
<1> HIDE DEF kept
<1>5. \A n \in 0 .. N : kept[n] = Body(kept, n)
  BY <1>4
<1>6. CASE s = <<>>
  <2>1. N = 0
    BY <1>6
  <2> QED
    BY <1>1, <1>5, <1>6, <2>1
<1>7. CASE s # <<>>
  <2>1. N = 1 /\ s = <<s[1]>> /\ s[1] \in Order
    BY <1>7, OneOrNone
  <2>2. kept[0] = <<>>
    BY <1>5, <2>1
  <2>3. kept[1] = IF s[1].cancelling THEN kept[0] ELSE Append(kept[0], s[1])
    BY <1>5, <2>1
  <2>4. Append(<<>>, s[1]) = <<s[1]>>
    BY <2>1, OneIsShort
  <2> QED
    BY <1>1, <1>7, <2>1, <2>2, <2>3, <2>4
<1> QED
  BY <1>6, <1>7

\* What is done to the account between two events.
LEMMA MarketMoves ==
    ASSUME NEW m, Covered(m), NEW price \in Dollars
    PROVE  /\ Covered([m EXCEPT !.at = "close"])
           /\ Covered([m EXCEPT !.at = "close", !.mark = price])
           /\ Covered([m EXCEPT !.orders = Baseline!Standing(@)])
           /\ m.day < FinalSession =>
                Covered([m EXCEPT !.day = @ + 1, !.at = "open", !.mark = price,
                                  !.orders = Baseline!Standing(@)])
<1> DEFINE left == Baseline!Standing(m.orders)
<1>1. /\ m \in Account /\ m.orders \in AtMostOne /\ m.quantity >= 0 /\ m.day \in 0 .. FinalSession
      /\ m.orders # <<>> => m.orders[1].left # 0 /\ m.quantity + m.orders[1].left >= 0
  BY DEF Covered, Account
<1>2. left \in {<<>>, m.orders} /\ left \in AtMostOne
  <2>1. <<>> \in AtMostOne
    BY DEF AtMostOne
  <2> QED
    BY <1>1, <2>1, StandingOfOne
<1> HIDE DEF left
<1>3. Covered([m EXCEPT !.at = "close"]) /\ Covered([m EXCEPT !.at = "close", !.mark = price])
  BY <1>1 DEF Covered, Account
<1>4. Covered([m EXCEPT !.orders = left])
  BY <1>1, <1>2 DEF Covered, Account
<1>5. ASSUME m.day < FinalSession
      PROVE  Covered([m EXCEPT !.day = @ + 1, !.at = "open", !.mark = price, !.orders = left])
  <2>1. m.day + 1 \in 0 .. FinalSession
    BY <1>1, <1>5, LeanFacts
  <2> QED
    BY <1>1, <1>2, <2>1 DEF Covered, Account
<1> QED
  BY <1>3, <1>4, <1>5 DEF left

LEMMA OrdersCancelled ==
    ASSUME NEW m, Covered(m)
    PROVE  /\ Covered(Baseline!Cancelled(m))
           /\ SameSession(m, Baseline!Cancelled(m))
           /\ Len(Baseline!Cancelled(m).orders) = Len(m.orders)
           /\ DOMAIN Baseline!Cancelled(m).orders = DOMAIN m.orders
           /\ \A i \in DOMAIN m.orders : Baseline!Cancelled(m).orders[i].cancelling
           /\ m.orders = <<>> => Baseline!Cancelled(m) = m
<1> DEFINE c == Baseline!Cancelled(m)
           s == [i \in DOMAIN m.orders |-> [m.orders[i] EXCEPT !.cancelling = TRUE]]
<1>1. /\ m \in Account /\ m.orders \in AtMostOne /\ m.quantity >= 0
      /\ m.orders # <<>> => m.orders[1].left # 0 /\ m.quantity + m.orders[1].left >= 0
  BY DEF Covered, Account
<1>2. c = [m EXCEPT !.orders = s]
  BY DEF Baseline!Cancelled
<1>3. /\ s \in AtMostOne /\ Len(s) = Len(m.orders) /\ DOMAIN s = DOMAIN m.orders
      /\ \A i \in DOMAIN s : s[i].cancelling
      /\ s # <<>> => m.orders # <<>> /\ s[1].left = m.orders[1].left
      /\ m.orders = <<>> => s = m.orders
  <2>1. CASE m.orders = <<>>
    <3>1. s = <<>> /\ <<>> \in AtMostOne
      BY <2>1, OneIsShort, LeanFacts DEF AtMostOne
    <3> QED
      BY <2>1, <3>1
  <2>2. CASE m.orders # <<>>
    <3>1. DOMAIN m.orders = {1} /\ Len(m.orders) = 1 /\ m.orders[1] \in Order
      BY <1>1, <2>2, OneOrNone
    <3>2. [m.orders[1] EXCEPT !.cancelling = TRUE] \in Order
      BY <3>1 DEF Order
    <3>3. DOMAIN s = {1} /\ s[1] = [m.orders[1] EXCEPT !.cancelling = TRUE]
      BY <3>1
    <3>4. ASSUME NEW x, NEW f, DOMAIN f = {1}, f[1] = x, f = [i \in DOMAIN f |-> f[i]]
          PROVE  f = <<x>>
      <4>1. <<x>> = [i \in 1 .. 1 |-> x] /\ 1 .. 1 = {1}
        OBVIOUS
      <4> QED
        BY <3>4, <4>1
    <3>5. s = <<[m.orders[1] EXCEPT !.cancelling = TRUE]>>
      BY <3>3, <3>4
    <3>6. s \in AtMostOne /\ Len(s) = 1
      BY <3>2, <3>5, OneIsShort
    <3>7. s[1].left = m.orders[1].left /\ s[1].cancelling
      BY <3>1, <3>3 DEF Order
    <3> QED
      BY <2>2, <3>1, <3>3, <3>6, <3>7
  <2> QED
    BY <2>1, <2>2
<1> HIDE DEF s
<1>4. SameSession(m, c) /\ c.orders = s /\ (s = m.orders => c = m)
  BY <1>1, <1>2 DEF Account, SameSession
<1>5. Covered(c)
  BY <1>1, <1>2, <1>3 DEF Covered, Account
<1> QED
  BY <1>3, <1>4, <1>5

LEMMA OrderSubmitted ==
    ASSUME NEW m, Covered(m), m.orders = <<>>,
           NEW quantity \in Int, quantity # 0, m.quantity + quantity >= 0
    PROVE  /\ Covered(Baseline!Submitted(m, quantity))
           /\ SameSession(m, Baseline!Submitted(m, quantity))
           /\ Baseline!Submitted(m, quantity).orders
                = <<[left |-> quantity, cancelling |-> FALSE]>>
<1> DEFINE o == [left |-> quantity, cancelling |-> FALSE]
<1>1. m \in Account /\ m.quantity >= 0
  BY DEF Covered
<1>2. o \in Order /\ o.left = quantity
  BY DEF Order
<1> HIDE DEF o
<1>3. Append(m.orders, o) = <<o>> /\ <<o>> \in AtMostOne /\ <<o>>[1] = o
  BY <1>2, OneIsShort
<1>4. Baseline!Submitted(m, quantity) = [m EXCEPT !.orders = <<o>>]
  BY <1>3 DEF Baseline!Submitted, o
<1> QED
  BY <1>1, <1>2, <1>3, <1>4 DEF Covered, Account, SameSession, o

LEMMA OneRemoved ==
    ASSUME NEW s \in AtMostOne, s # <<>>
    PROVE  Baseline!Without(s, 1) = <<>>
<1>1. s \in Seq(Order) /\ Len(s) = 1
  BY OneOrNone
<1>2. ASSUME NEW S, NEW t \in Seq(S), Len(t) = 1
      PROVE  SubSeq(t, 1, 1 - 1) \o SubSeq(t, 1 + 1, Len(t)) = <<>>
  <2>1. SubSeq(t, 1, 1 - 1) = <<>> /\ SubSeq(t, 1 + 1, Len(t)) = <<>>
    BY <1>2
  <2> QED
    BY <2>1
<1> QED
  BY <1>1, <1>2 DEF Baseline!Without

\* A fill of a part of the one order moves the holding by as much.
LEMMA PartIsFilled ==
    ASSUME Covered(market), NEW i \in Baseline!Live, NEW fee \in Charges,
           NEW shares \in Baseline!Part(i), NEW m, m = Baseline!AfterFill(i, shares, fee)
    PROVE  /\ Covered(m) /\ i = 1 /\ market.orders # <<>> /\ ~market.orders[1].cancelling
           /\ shares \in Int /\ m.quantity = market.quantity + shares
           /\ m.day = market.day /\ m.at = market.at
           /\ market.orders[1].left < 0 => shares < 0
           /\ m.orders # <<>> => ~m.orders[1].cancelling
           /\ m.orders # <<>> /\ market.orders[1].left < 0 => m.orders[1].left < 0
           /\ Len(m.orders) <= Len(market.orders)
<1> DEFINE s == market.orders
           o == s[1]
<1>1. /\ market \in Account /\ s \in AtMostOne /\ market.quantity \in Nat /\ market.cash \in Int
      /\ market.mark \in Dollars
      /\ s # <<>> => o.left # 0 /\ market.quantity + o.left >= 0
  BY DEF Covered, Account
<1>2. /\ i = 1 /\ s # <<>> /\ ~o.cancelling /\ o \in Order /\ Len(s) = 1 /\ s = <<o>>
      /\ DOMAIN s = {1}
  <2>1. i \in DOMAIN s /\ ~s[i].cancelling
    BY DEF Baseline!Live
  <2> QED
    BY <1>1, <2>1, OneOrNone
<1>3. o.left \in Int /\ o.left # 0
  BY <1>1, <1>2 DEF Order
<1>4. /\ shares \in Int /\ shares # 0
      /\ IF o.left > 0 THEN shares \in 1 .. o.left ELSE shares \in o.left .. -1
  BY <1>2, <1>3 DEF Baseline!Part
<1> DEFINE t == IF o.left = shares THEN Baseline!Without(s, 1)
                ELSE [s EXCEPT ![1].left = s[1].left - shares]
<1>5. /\ t \in AtMostOne /\ Len(t) <= Len(s)
      /\ t # <<>> => /\ t[1].left = o.left - shares /\ ~t[1].cancelling /\ o.left # shares
  <2>1. CASE o.left = shares
    BY <1>1, <1>2, <2>1, OneRemoved, OneIsShort
  <2>2. CASE o.left # shares
    <3> DEFINE p == [o EXCEPT !.left = o.left - shares]
    <3>1. p \in Order /\ p.left = o.left - shares /\ ~p.cancelling
      BY <1>2, <1>3, <1>4 DEF Order
    <3> HIDE DEF p
    <3>2. [s EXCEPT ![1] = p] = <<p>>
      <4>1. \A x : [<<o>> EXCEPT ![1] = x] = <<x>>
        OBVIOUS
      <4> QED
        BY <1>2, <4>1
    <3>3. [s EXCEPT ![1].left = s[1].left - shares] = [s EXCEPT ![1] = p]
      BY DEF p
    <3>4. t = <<p>>
      BY <2>2, <3>2, <3>3
    <3>5. Len(<<p>>) = 1 /\ <<p>>[1] = p /\ <<p>> \in AtMostOne
      BY <3>1, OneIsShort
    <3> HIDE DEF t
    <3> QED
      BY <1>2, <2>2, <3>1, <3>4, <3>5
  <2> QED
    BY <2>1, <2>2
<1>6. m = [market EXCEPT !.cash = market.cash - shares * market.mark - fee,
                         !.quantity = market.quantity + shares, !.orders = t]
  <2>1. m = Baseline!AfterFill(1, shares, fee) /\ t = Baseline!Worked(s, 1, shares)
    BY <1>2 DEF Baseline!Worked
  <2> HIDE DEF t
  <2> QED
    BY <2>1 DEF Baseline!AfterFill
<1> HIDE DEF t
<1>7. market.cash - shares * market.mark - fee \in Int
  <2>1. market.mark \in Int /\ fee \in Int
    <3>1. Dollars \subseteq Int /\ Charges \subseteq Int
      BY LeanFacts
    <3> QED
      BY <1>1, <3>1
  <2>2. shares * market.mark \in Int
    BY <1>4, <2>1
  <2> QED
    BY <1>1, <2>1, <2>2
<1>8. /\ m.quantity = market.quantity + shares /\ m.orders = t /\ m.day = market.day
      /\ m.at = market.at
  BY <1>1, <1>6 DEF Account
<1>9. market.quantity + shares >= 0
  BY <1>1, <1>2, <1>3, <1>4
<1>10. m \in Account
  <2>1. market.quantity + shares \in Int
    BY <1>1, <1>4
  <2> QED
    BY <1>1, <1>5, <1>6, <1>7, <2>1 DEF Account
<1>11. t # <<>> => t[1].left # 0 /\ market.quantity + shares + t[1].left >= 0
  BY <1>1, <1>2, <1>3, <1>4, <1>5
<1>12. Covered(m)
  BY <1>8, <1>9, <1>10, <1>11 DEF Covered
<1> QED
  BY <1>2, <1>3, <1>4, <1>5, <1>8, <1>12

LEMMA OrderInvalid ==
    ASSUME Covered(market), NEW i \in Baseline!Live
    PROVE  /\ Covered(Baseline!AfterInvalid(i)) /\ Baseline!AfterInvalid(i).orders = <<>>
           /\ SameSession(market, Baseline!AfterInvalid(i))
<1>1. market \in Account /\ market.orders \in AtMostOne
  BY DEF Covered, Account
<1>2. i = 1 /\ market.orders # <<>>
  BY <1>1, OneOrNone DEF Baseline!Live
<1>3. Baseline!AfterInvalid(i) = [market EXCEPT !.orders = <<>>] /\ <<>> \in AtMostOne
  <2>1. <<>> \in AtMostOne
    BY <1>1, <1>2, OneOrNone, OneIsShort
  <2> QED
    BY <1>1, <1>2, <2>1, OneRemoved DEF Baseline!AfterInvalid
<1> QED
  BY <1>1, <1>3 DEF Covered, Account, SameSession

LEMMA Quotient ==
    ASSUME NEW a \in Nat, NEW b \in Nat \ {0}
    PROVE  a \div b \in Nat /\ (a <= 100 * b => a \div b <= 100)
<1>1. a \div b \in Int /\ b * (a \div b) <= a /\ a < b * (a \div b) + b
  OBVIOUS
<1> DEFINE q == a \div b
<1> HIDE DEF q
<1>2. q \in Int /\ b * q <= a /\ a < b * q + b
  BY <1>1 DEF q
<1>3. q >= 0
  <2> SUFFICES ASSUME q <= -1 PROVE FALSE
    BY <1>2
  <2>1. b * q <= b * (-1)
    BY <1>2
  <2> QED
    BY <1>2, <2>1
<1>4. ASSUME a <= 100 * b PROVE q <= 100
  <2> SUFFICES ASSUME q >= 101 PROVE FALSE
    BY <1>2
  <2>1. b * q >= b * 101
    BY <1>2
  <2> QED
    BY <1>2, <1>4, <2>1
<1> QED
  BY <1>2, <1>3, <1>4 DEF q

\* An order never asks for more to be sold than is held, while anything is owned.
LEMMA TargetIsCovered ==
    ASSUME NEW m, Covered(m), NEW percent \in Nat,
           percent = 0 \/ Baseline!EquityOf(m) > 0
    PROVE  /\ Baseline!OrderQuantityOf(m, percent) \in Int
           /\ m.quantity + Baseline!OrderQuantityOf(m, percent) >= 0
           /\ percent = 0 => Baseline!OrderQuantityOf(m, percent) = -m.quantity
           /\ Baseline!EquityOf(m) \in Int
<1> DEFINE e == Baseline!EquityOf(m)
<1>1. m.cash \in Int /\ m.quantity \in Nat /\ m.mark \in Nat \ {0}
  <2>1. m \in Account /\ m.quantity >= 0
    BY DEF Covered
  <2>2. m.cash \in Int /\ m.quantity \in Int /\ m.mark \in Dollars
    BY <2>1 DEF Account
  <2>3. m.mark \in Nat \ {0}
    BY <2>2, LeanFacts, Zenon
  <2>4. \A n \in Int : n >= 0 => n \in Nat
    OBVIOUS
  <2>5. m.quantity \in Nat
    BY <2>1, <2>2, <2>4
  <2> QED
    BY <2>2, <2>3, <2>5
<1>2. e \in Int
  BY <1>1 DEF Baseline!EquityOf
<1> HIDE DEF e
<1>3. percent * e \in Nat /\ 100 * m.mark \in Nat \ {0} /\ (percent = 0 => percent * e = 0)
  <2>1. CASE percent = 0
    BY <1>1, <1>2, <2>1
  <2>2. CASE percent # 0
    <3>1. e \in Nat
      BY <1>2, <2>2 DEF e
    <3> QED
      BY <1>1, <2>2, <3>1
  <2> QED
    BY <2>1, <2>2
<1>4. (percent * e) \div (100 * m.mark) \in Nat
  BY <1>3, Quotient
<1>5. percent = 0 => (percent * e) \div (100 * m.mark) = 0
  <2>1. \A b \in Nat \ {0} : 0 \div b = 0
    OBVIOUS
  <2> QED
    BY <1>3, <2>1
<1>6. Baseline!OrderQuantityOf(m, percent) = (percent * e) \div (100 * m.mark) - m.quantity
  BY DEF Baseline!OrderQuantityOf, e
<1> QED
  BY <1>1, <1>2, <1>4, <1>5, <1>6 DEF e

(***************************************************************************)
(* The guard.  A halt stays what it is; a run that is not halted owns      *)
(* something.                                                              *)
(***************************************************************************)
Guards == [session : Int, startOfDay : Int, lastClose : Int, peak : Nat \ {0},
           reasons : SUBSET Baseline!Reasons]

LEMMA GuardLatches ==
    ASSUME NEW g \in Guards, NEW day \in Int, NEW e \in Int, NEW o, NEW c,
           o = Baseline!Observe(g, day, e), c = Baseline!CloseSession(g, day, e)
    PROVE  /\ o \in Guards /\ c \in Guards /\ c.reasons = o.reasons /\ c.peak = o.peak
           /\ Baseline!Halted(g) => o = g
           /\ ~Baseline!Halted(o) => e > 0 /\ ~Baseline!Halted(g)
<1>1. /\ g.session \in Int /\ g.startOfDay \in Int /\ g.lastClose \in Int
      /\ g.peak \in Nat \ {0} /\ g.reasons \in SUBSET Baseline!Reasons
  BY DEF Guards
<1> DEFINE base == IF g.session # day THEN g.lastClose ELSE g.startOfDay
           peak == Baseline!Larger(g.peak, e)
           lost == (IF Baseline!FallPercent(base, e) >= DailyLimit THEN {"daily_loss"} ELSE {})
                   \cup (IF Baseline!FallPercent(peak, e) >= DeclineLimit
                           THEN {"max_drawdown"} ELSE {})
<1>2. base \in Int /\ peak \in Nat \ {0}
  BY <1>1 DEF Baseline!Larger
<1>3. lost \in SUBSET Baseline!Reasons /\ {"invalid_equity"} \in SUBSET Baseline!Reasons
  BY DEF Baseline!Reasons
<1>4. o = IF Baseline!Halted(g) THEN g
          ELSE IF e <= 0 THEN [g EXCEPT !.reasons = {"invalid_equity"}]
          ELSE [g EXCEPT !.session = day, !.startOfDay = base, !.peak = peak, !.reasons = lost]
  BY DEF Baseline!Observe
<1> HIDE DEF base, peak, lost
<1>5. o \in Guards /\ (~Baseline!Halted(o) => e > 0 /\ ~Baseline!Halted(g))
  <2>1. CASE Baseline!Halted(g)
    BY <1>4, <2>1
  <2>2. CASE ~Baseline!Halted(g) /\ e <= 0
    <3>1. o = [g EXCEPT !.reasons = {"invalid_equity"}]
      BY <1>4, <2>2
    <3>2. o \in Guards /\ o.reasons = {"invalid_equity"}
      BY <1>1, <1>3, <3>1 DEF Guards
    <3>3. Baseline!Halted(o)
      BY <3>2 DEF Baseline!Halted
    <3> QED
      BY <3>2, <3>3
  <2>3. CASE ~Baseline!Halted(g) /\ e > 0
    <3>1. o = [g EXCEPT !.session = day, !.startOfDay = base, !.peak = peak, !.reasons = lost]
      BY <1>4, <2>3
    <3>2. o \in Guards
      BY <1>1, <1>2, <1>3, <3>1 DEF Guards
    <3> QED
      BY <2>3, <3>2
  <2> QED
    BY <2>1, <2>2, <2>3
<1>6. c = [o EXCEPT !.lastClose = e]
  BY DEF Baseline!CloseSession
<1>7. c \in Guards /\ c.reasons = o.reasons /\ c.peak = o.peak
  BY <1>5, <1>6 DEF Guards
<1> QED
  BY <1>4, <1>5, <1>7

LEMMA GuardKept ==
    ASSUME NEW g \in Guards, NEW day \in Int, NEW e \in Int
    PROVE  /\ Baseline!Observe(g, day, e) \in Guards /\ Baseline!CloseSession(g, day, e) \in Guards
           /\ Baseline!Halted(g) => /\ Baseline!Observe(g, day, e).reasons = g.reasons
                                   /\ Baseline!CloseSession(g, day, e).reasons = g.reasons
BY GuardLatches

(***************************************************************************)
(* The baseline.                                                           *)
(***************************************************************************)
Baselines == [status : {"running", "over"}, closes : Seq(Dollars), last : 0 .. FinalSession,
              guard : Guards, liquidate : BOOLEAN]

\* What is still open after a halt is a sale.
SoldOff(m) == m.orders # <<>> => m.orders[1].cancelling \/ m.orders[1].left < 0

BaselineInv ==
    /\ Covered(market) /\ baseline \in Baselines
    /\ baseline.last <= market.day /\ (market.at = "open" => baseline.last < market.day)
    /\ Baseline!Halted(baseline.guard) => SoldOff(market)

LEMMA ClosesKept ==
    ASSUME NEW closes \in Seq(Dollars), NEW close \in Dollars
    PROVE  Baseline!Recent(Append(closes, close)) \in Seq(Dollars)
<1>1. Append(closes, close) \in Seq(Dollars) /\ Append(closes, close) # <<>>
  OBVIOUS
<1>2. \A c \in Seq(Dollars) : c # <<>> => Tail(c) \in Seq(Dollars)
  OBVIOUS
<1> QED
  BY <1>1, <1>2 DEF Baseline!Recent

\* What the algorithm asks for at a close.
LEMMA BaselineRequests ==
    ASSUME NEW m, Covered(m), NEW percent \in Nat,
           percent = 0 \/ Baseline!EquityOf(m) > 0, NEW n, n = Baseline!Requested(m, percent)
    PROVE  /\ Covered(n) /\ SameSession(m, n)
           /\ n # m => /\ m.orders = <<>> /\ m.quantity + n.orders[1].left >= 0
                       /\ percent = 0 => n.orders[1].left = -m.quantity
           /\ percent = 0 /\ m.orders = <<>> /\ m.quantity # 0 =>
                n.orders = <<[left |-> -m.quantity, cancelling |-> FALSE]>>
<1> DEFINE quantity == Baseline!OrderQuantityOf(m, percent)
<1>1. /\ quantity \in Int /\ m.quantity + quantity >= 0 /\ m.quantity \in Int
      /\ percent = 0 => quantity = -m.quantity
  <2>1. m.quantity \in Int
    BY DEF Covered, Account
  <2> QED
    BY <2>1, TargetIsCovered
<1>2. n = IF Baseline!MaySubmit(m, quantity) THEN Baseline!Submitted(m, quantity) ELSE m
  BY DEF Baseline!Requested
<1>3. Baseline!MaySubmit(m, quantity) <=> quantity # 0 /\ m.orders = <<>>
  BY DEF Baseline!MaySubmit
<1> HIDE DEF quantity
<1>4. CASE quantity # 0 /\ m.orders = <<>>
  <2>1. /\ Covered(n) /\ SameSession(m, n)
        /\ n.orders = <<[left |-> quantity, cancelling |-> FALSE]>>
    BY <1>1, <1>2, <1>3, <1>4, OrderSubmitted
  <2>2. n.orders[1].left = quantity
    BY <2>1
  <2> QED
    BY <1>1, <1>4, <2>1, <2>2
<1>5. CASE ~(quantity # 0 /\ m.orders = <<>>)
  <2>1. n = m /\ SameSession(m, n)
    BY <1>2, <1>3, <1>5 DEF SameSession
  <2>2. percent = 0 /\ m.orders = <<>> => m.quantity = 0
    BY <1>1, <1>5
  <2> QED
    BY <2>1, <2>2
<1> QED
  BY <1>4, <1>5

LEMMA BaselineDecides ==
    ASSUME NEW m, Covered(m), NEW b \in Baselines, Baseline!Halted(b.guard) => SoldOff(m),
           NEW d, d = Baseline!Decide(b, m)
    PROVE  /\ Covered(d.m) /\ SameSession(m, d.m)
           /\ d.a \in Baselines /\ d.a.last = b.last /\ d.a.status = b.status
           /\ Baseline!Halted(d.a.guard) => SoldOff(d.m)
           /\ Baseline!Halted(d.a.guard) /\ m.quantity > 0 =>
                IF m.orders = <<>>
                THEN d.m.orders = <<[left |-> -m.quantity, cancelling |-> FALSE]>>
                ELSE \A i \in DOMAIN d.m.orders : d.m.orders[i].cancelling
<1> DEFINE e == Baseline!EquityOf(m)
           guard == Baseline!CloseSession(b.guard, m.day, e)
           a == [b EXCEPT !.guard = guard, !.liquidate = @ \/ Baseline!Halted(guard)]
           c == Baseline!Cancelled(m)
<1>1. m.day \in Int /\ m.quantity \in Int /\ m.quantity >= 0 /\ e \in Int /\ m.orders \in AtMostOne
  <2>1. m \in Account /\ m.quantity >= 0
    BY DEF Covered
  <2>2. m.day \in Int /\ m.quantity \in Int /\ m.orders \in AtMostOne
    BY <2>1, LeanFacts DEF Account
  <2>3. 0 \in Nat
    OBVIOUS
  <2> QED
    BY <2>1, <2>2, <2>3, TargetIsCovered
<1>2. d = IF Baseline!Halted(guard) THEN Baseline!Liquidation(a, m)
          ELSE IF ~Baseline!Ready(a.closes) \/ m.day + 1 > FinalSession THEN [a |-> a, m |-> m]
          ELSE [a |-> a, m |-> Baseline!Requested(m, Baseline!Target(a.closes))]
  BY DEF Baseline!Decide
<1> HIDE DEF e, guard
<1>3. guard \in Guards /\ (~Baseline!Halted(guard) => e > 0 /\ ~Baseline!Halted(b.guard))
  <2>1. b.guard \in Guards
    BY DEF Baselines
  <2>2. /\ Baseline!CloseSession(b.guard, m.day, e) = guard
        /\ guard.reasons = Baseline!Observe(b.guard, m.day, e).reasons
    BY <1>1, <2>1, GuardLatches DEF guard
  <2> QED
    BY <1>1, <2>1, <2>2, GuardLatches DEF Baseline!Halted
<1>4. /\ a \in Baselines /\ a.guard = guard /\ a.last = b.last /\ a.status = b.status
      /\ Baseline!Halted(guard) => a.liquidate
  <2>1. Baseline!Halted(guard) \in BOOLEAN
    BY DEF Baseline!Halted
  <2> HIDE DEF a
  <2>2. a = [b EXCEPT !.guard = guard, !.liquidate = b.liquidate \/ Baseline!Halted(guard)]
    BY DEF a
  <2> QED
    BY <1>3, <2>1, <2>2 DEF Baselines
<1>5. Baseline!Target(a.closes) \in Nat
  BY LeanFacts DEF Baseline!Target
<1> HIDE DEF a, c
<1>6. CASE ~Baseline!Halted(guard)
  <2>1. d.a = a /\ (d.m = m \/ d.m = Baseline!Requested(m, Baseline!Target(a.closes)))
    BY <1>2, <1>6
  <2>2. Covered(m) /\ SameSession(m, m) /\ Baseline!EquityOf(m) > 0
    BY <1>3, <1>6 DEF e, SameSession
  <2>3. /\ Covered(Baseline!Requested(m, Baseline!Target(a.closes)))
        /\ SameSession(m, Baseline!Requested(m, Baseline!Target(a.closes)))
    BY <1>5, <2>2, BaselineRequests
  <2>4. Covered(d.m) /\ SameSession(m, d.m)
    BY <2>1, <2>2, <2>3
  <2> QED
    BY <1>4, <1>6, <2>1, <2>4
<1>7. CASE Baseline!Halted(guard)
  <2>1. d = IF m.quantity = 0 THEN [a |-> [a EXCEPT !.liquidate = FALSE], m |-> c]
            ELSE [a |-> a, m |-> Baseline!Requested(c, 0)]
    BY <1>2, <1>4, <1>7 DEF Baseline!Liquidation, c
  <2>2. /\ Covered(c) /\ SameSession(m, c) /\ DOMAIN c.orders = DOMAIN m.orders
        /\ \A i \in DOMAIN m.orders : c.orders[i].cancelling
        /\ m.orders = <<>> => c = m
        /\ c.orders \in AtMostOne
    BY OrdersCancelled DEF c, Covered, Account
  <2>3. SoldOff(c) /\ (c.orders = <<>> => c = m)
    BY <1>1, <2>2, OneOrNone DEF SoldOff
  <2>4. CASE m.quantity = 0
    <3>1. d.m = c /\ d.a = [a EXCEPT !.liquidate = FALSE]
      BY <2>1, <2>4
    <3>2. d.a \in Baselines /\ d.a.last = b.last /\ d.a.status = b.status
      BY <1>4, <3>1 DEF Baselines
    <3> QED
      BY <2>2, <2>3, <2>4, <3>1, <3>2
  <2>5. CASE m.quantity # 0
    <3>1. d.a = a /\ d.m = Baseline!Requested(c, 0)
      BY <2>1, <2>5
    <3>2. /\ Covered(d.m) /\ SameSession(c, d.m)
          /\ d.m # c => c.orders = <<>> /\ d.m.orders[1].left = -c.quantity
          /\ c.orders = <<>> =>
               d.m.orders = <<[left |-> -m.quantity, cancelling |-> FALSE]>>
      <4>1. 0 \in Nat /\ c.quantity = m.quantity
        BY <2>2 DEF SameSession
      <4> QED
        BY <2>2, <2>5, <3>1, <4>1, BaselineRequests
    <3>3. SameSession(m, d.m) /\ c.quantity > 0
      BY <1>1, <2>2, <2>5, <3>2 DEF SameSession
    <3>4. SoldOff(d.m)
      BY <1>1, <2>3, <3>2, <3>3 DEF SoldOff, SameSession
    <3>5. m.orders # <<>> => d.m = c
      BY <1>1, <2>2, <3>2, OneOrNone
    <3> QED
      BY <1>4, <2>2, <3>1, <3>2, <3>3, <3>4, <3>5
  <2> QED
    BY <2>4, <2>5
<1> QED
  BY <1>6, <1>7

\* What a step of a halted run may do to the position, and does at a bar.
HaltedStep ==
    /\ Baseline!Halted(baseline.guard) => market'.quantity <= market.quantity
    /\ market.at = "open" /\ market'.at = "close" /\ baseline'.last = market.day
         /\ market.day >= FirstSession /\ Baseline!Halted(baseline'.guard)
         /\ market.quantity > 0 =>
           IF market.orders = <<>>
           THEN market'.orders = <<[left |-> -market.quantity, cancelling |-> FALSE]>>
           ELSE \A i \in DOMAIN market'.orders : market'.orders[i].cancelling

LEMMA AccountTyped ==
    ASSUME NEW m, Covered(m)
    PROVE  /\ m \in Account /\ m.day \in 0 .. FinalSession /\ m.day \in Nat
           /\ m.at \in {"open", "close"} /\ m.mark \in Dollars /\ m.cash \in Int
           /\ m.quantity \in Nat /\ m.orders \in AtMostOne
<1>1. m \in Account /\ m.quantity >= 0
  BY DEF Covered
<1>2. /\ m.day \in 0 .. FinalSession /\ m.at \in {"open", "close"} /\ m.mark \in Dollars
      /\ m.cash \in Int /\ m.quantity \in Int /\ m.orders \in AtMostOne
  BY <1>1 DEF Account
<1>3. m.day \in Nat
  BY <1>2, LeanFacts
<1> QED
  BY <1>1, <1>2, <1>3

LEMMA BaselineMarketSteps ==
    ASSUME BaselineInv, Baseline!MarketOpens \/ Baseline!CancellationArrives \/ Baseline!NoBar
    PROVE  BaselineInv' /\ HaltedStep
<1>1. /\ Covered(market) /\ baseline \in Baselines /\ baseline' = baseline
      /\ baseline.last <= market.day /\ (market.at = "open" => baseline.last < market.day)
      /\ Baseline!Halted(baseline.guard) => SoldOff(market)
  BY DEF BaselineInv, Baseline!MarketOpens, Baseline!CancellationArrives, Baseline!NoBar
<1>2. /\ market \in Account /\ market.day \in Nat /\ market.orders \in AtMostOne
      /\ market.at \in {"open", "close"} /\ market.quantity \in Nat /\ baseline.last \in Nat
  <2>1. baseline.last \in Nat
    BY <1>1, LeanFacts DEF Baselines
  <2> QED
    BY <1>1, <2>1, AccountTyped
<1>3. /\ Baseline!Standing(market.orders) \in {<<>>, market.orders}
      /\ Baseline!Standing(market.orders) # <<>> =>
           Baseline!Standing(market.orders)[1] = market.orders[1] /\ market.orders # <<>>
  BY <1>2, StandingOfOne
<1>4. CASE Baseline!MarketOpens
  <2>1. PICK price \in Dollars : Baseline!Open(price)
    BY <1>4 DEF Baseline!MarketOpens
  <2>2. /\ market.at = "close" /\ market.day < FinalSession
        /\ market' = [market EXCEPT !.day = @ + 1, !.at = "open", !.mark = price,
                                    !.orders = Baseline!Standing(@)]
    BY <2>1 DEF Baseline!Open
  <2>3. Covered(market')
    BY <1>1, <2>2, MarketMoves
  <2>4. /\ market'.day = market.day + 1 /\ market'.at = "open"
        /\ market'.quantity = market.quantity
        /\ market'.orders = Baseline!Standing(market.orders)
    BY <1>2, <2>2 DEF Account
  <2>5. HaltedStep
    BY <1>2, <2>2, <2>4 DEF HaltedStep
  <2> QED
    BY <1>1, <1>2, <1>3, <2>3, <2>4, <2>5 DEF BaselineInv, SoldOff
<1>5. CASE Baseline!CancellationArrives
  <2>1. market' = [market EXCEPT !.orders = Baseline!Standing(@)]
    BY <1>5 DEF Baseline!CancellationArrives, Baseline!Confirm
  <2>2. Covered(market')
    BY <1>1, <1>2, <2>1, MarketMoves, AccountTyped
  <2>3. /\ market'.day = market.day /\ market'.at = market.at
        /\ market'.quantity = market.quantity
        /\ market'.orders = Baseline!Standing(market.orders)
    BY <1>2, <2>1 DEF Account
  <2>4. HaltedStep
    BY <1>2, <2>3 DEF HaltedStep
  <2> QED
    BY <1>1, <1>2, <1>3, <2>2, <2>3, <2>4 DEF BaselineInv, SoldOff
<1>6. CASE Baseline!NoBar
  <2>1. market.at = "open" /\ market' = [market EXCEPT !.at = "close"]
    BY <1>6 DEF Baseline!NoBar
  <2>2. Covered(market')
    BY <1>1, <1>2, <2>1, MarketMoves, AccountTyped
  <2>3. /\ market'.day = market.day /\ market'.at = "close"
        /\ market'.quantity = market.quantity /\ market'.orders = market.orders
    BY <1>2, <2>1 DEF Account
  <2>4. HaltedStep
    BY <1>1, <1>2, <2>1, <2>3 DEF HaltedStep
  <2> QED
    BY <1>1, <1>2, <2>2, <2>3, <2>4 DEF BaselineInv, SoldOff
<1> QED
  BY <1>4, <1>5, <1>6

LEMMA BaselineBar ==
    ASSUME BaselineInv, Baseline!Bar
    PROVE  BaselineInv' /\ HaltedStep
<1>1. /\ Covered(market) /\ baseline \in Baselines
      /\ baseline.last <= market.day /\ (market.at = "open" => baseline.last < market.day)
      /\ Baseline!Halted(baseline.guard) => SoldOff(market)
  BY DEF BaselineInv
<1>2. /\ market \in Account /\ market.day \in Nat /\ market.day \in 0 .. FinalSession
      /\ market.quantity \in Nat
  BY <1>1, AccountTyped
<1>3. PICK close \in Dollars :
         LET m == [market EXCEPT !.at = "close", !.mark = close]
             b == [baseline EXCEPT !.closes = Baseline!Recent(Append(@, close)),
                                   !.last = m.day]
             decided == IF m.day < FirstSession THEN [a |-> b, m |-> m]
                        ELSE Baseline!Decide(b, m)
         IN  baseline' = decided.a /\ market' = decided.m
  BY DEF Baseline!Bar
<1>4. market.at = "open"
  BY DEF Baseline!Bar
<1> DEFINE m == [market EXCEPT !.at = "close", !.mark = close]
           b == [baseline EXCEPT !.closes = Baseline!Recent(Append(@, close)), !.last = m.day]
           d == Baseline!Decide(b, m)
<1>5. /\ Covered(m) /\ m.day = market.day /\ m.at = "close" /\ m.quantity = market.quantity
      /\ m.orders = market.orders
  <2>1. Covered(m)
    BY <1>1, MarketMoves
  <2> QED
    BY <1>2, <2>1 DEF Account
<1> HIDE DEF m
<1>6. b \in Baselines /\ b.guard = baseline.guard /\ b.last = market.day
  <2>1. Baseline!Recent(Append(baseline.closes, close)) \in Seq(Dollars)
    BY <1>1, ClosesKept DEF Baselines
  <2> QED
    BY <1>1, <1>2, <1>5, <2>1 DEF Baselines
<1>7. IF market.day < FirstSession THEN baseline' = b /\ market' = m
      ELSE baseline' = d.a /\ market' = d.m
  BY <1>3, <1>5 DEF m
<1> HIDE DEF b, d
<1>8. CASE market.day < FirstSession
  <2>1. HaltedStep
    BY <1>2, <1>5, <1>7, <1>8, LeanFacts DEF HaltedStep
  <2> QED
    BY <1>1, <1>2, <1>5, <1>6, <1>7, <1>8, <2>1, LeanFacts DEF BaselineInv, SoldOff
<1>9. CASE ~(market.day < FirstSession)
  <2>1. Baseline!Halted(b.guard) => SoldOff(m)
    BY <1>1, <1>5, <1>6 DEF SoldOff
  <2>2. /\ Covered(d.m) /\ SameSession(m, d.m)
        /\ d.a \in Baselines /\ d.a.last = b.last
        /\ Baseline!Halted(d.a.guard) => SoldOff(d.m)
        /\ Baseline!Halted(d.a.guard) /\ m.quantity > 0 =>
             IF m.orders = <<>>
             THEN d.m.orders = <<[left |-> -m.quantity, cancelling |-> FALSE]>>
             ELSE \A i \in DOMAIN d.m.orders : d.m.orders[i].cancelling
    BY <1>5, <1>6, <2>1, BaselineDecides DEF d
  <2>3. baseline' = d.a /\ market' = d.m
    BY <1>7, <1>9
  <2>4. market'.quantity = market.quantity /\ market'.day = market.day /\ market'.at = "close"
    BY <1>5, <2>2, <2>3 DEF SameSession
  <2>5. HaltedStep
    BY <1>2, <1>5, <2>2, <2>3, <2>4 DEF HaltedStep
  <2> QED
    BY <1>2, <1>6, <2>2, <2>3, <2>4, <2>5 DEF BaselineInv
<1> QED
  BY <1>8, <1>9

LEMMA BaselineEvents ==
    ASSUME BaselineInv, Baseline!Filled \/ Baseline!Rejected
    PROVE  BaselineInv' /\ HaltedStep
<1>1. /\ Covered(market) /\ baseline \in Baselines /\ market.at = "open"
      /\ baseline.last < market.day
      /\ Baseline!Halted(baseline.guard) => SoldOff(market)
  BY DEF BaselineInv, Baseline!Filled, Baseline!Rejected
<1>2. /\ market \in Account /\ market.day \in Nat /\ market.quantity \in Nat
      /\ market.orders \in AtMostOne /\ baseline.guard \in Guards /\ baseline.last \in Nat
  <2>1. baseline.guard \in Guards /\ baseline.last \in Nat
    BY <1>1, LeanFacts DEF Baselines
  <2> QED
    BY <1>1, <2>1, AccountTyped
<1>3. ASSUME NEW i \in Baseline!Live, NEW fee \in Charges, NEW shares \in Baseline!Part(i),
             NEW m, m = Baseline!AfterFill(i, shares, fee),
             NEW b, b = [baseline EXCEPT
                           !.guard = Baseline!Observe(@, m.day, Baseline!EquityOf(m))],
             NEW after, after = Baseline!AfterEvent(b, m),
             baseline' = after.a, market' = after.m
      PROVE  BaselineInv' /\ HaltedStep
  <2>1. /\ Covered(m) /\ market.orders # <<>> /\ ~market.orders[1].cancelling
        /\ m.quantity = market.quantity + shares /\ m.day = market.day /\ m.at = market.at
        /\ market.orders[1].left < 0 => shares < 0
        /\ m.orders # <<>> /\ market.orders[1].left < 0 => m.orders[1].left < 0
    BY <1>1, <1>3, PartIsFilled
  <2>2. Baseline!EquityOf(m) \in Int
    <3>1. 0 \in Nat
      OBVIOUS
    <3> QED
      BY <2>1, <3>1, TargetIsCovered
  <2> DEFINE g == Baseline!Observe(baseline.guard, m.day, Baseline!EquityOf(m))
  <2>3. /\ g \in Guards
        /\ Baseline!Halted(baseline.guard) => Baseline!Halted(g)
    <3>1. m.day \in Int
      BY <1>2, <2>1
    <3> QED
      BY <1>2, <2>2, <3>1, GuardLatches
  <2>4. b = [baseline EXCEPT !.guard = g]
    BY <1>3
  <2> HIDE DEF g
  <2>5. /\ after.a = [b EXCEPT !.liquidate = b.liquidate \/ Baseline!Halted(b.guard)]
        /\ after.m = IF Baseline!Halted(b.guard) THEN Baseline!Cancelled(m) ELSE m
    BY <1>3 DEF Baseline!AfterEvent
  <2>6. b \in Baselines /\ b.guard = g /\ b.last = baseline.last
    BY <1>1, <2>3, <2>4 DEF Baselines
  <2>7. after.a \in Baselines /\ after.a.guard = g /\ after.a.last = baseline.last
    <3>1. Baseline!Halted(b.guard) \in BOOLEAN
      BY DEF Baseline!Halted
    <3>2. (b.liquidate \/ Baseline!Halted(b.guard)) \in BOOLEAN
      OBVIOUS
    <3> QED
      BY <2>5, <2>6, <3>2 DEF Baselines
  <2>8. shares \in Int
    BY <1>1, <1>3, PartIsFilled
  <2>9. /\ Covered(after.m) /\ SameSession(m, after.m)
        /\ Baseline!Halted(g) => SoldOff(after.m)
    <3>1. CASE Baseline!Halted(g)
      <4>1. after.m = Baseline!Cancelled(m)
        BY <2>5, <2>6, <3>1
      <4>2. /\ Covered(after.m) /\ SameSession(m, after.m)
            /\ \A j \in DOMAIN after.m.orders : after.m.orders[j].cancelling
            /\ after.m.orders \in AtMostOne
        BY <2>1, <4>1, OrdersCancelled, AccountTyped
      <4>3. SoldOff(after.m)
        BY <4>2, OneOrNone DEF SoldOff
      <4> QED
        BY <4>2, <4>3
    <3>2. CASE ~Baseline!Halted(g)
      BY <2>1, <2>5, <2>6, <3>2 DEF SameSession
    <3> QED
      BY <3>1, <3>2
  <2>10. /\ market'.quantity = market.quantity + shares /\ market'.day = market.day
         /\ market'.at = "open"
    BY <1>1, <1>3, <2>1, <2>9 DEF SameSession
  <2>11. Baseline!Halted(baseline.guard) => shares < 0
    BY <1>1, <2>1 DEF SoldOff
  <2>12. HaltedStep
    BY <1>2, <2>8, <2>10, <2>11 DEF HaltedStep
  <2> QED
    BY <1>1, <1>2, <1>3, <2>7, <2>9, <2>10, <2>12 DEF BaselineInv
<1>4. CASE Baseline!Filled
  BY <1>3, <1>4 DEF Baseline!Filled
<1>5. CASE Baseline!Rejected
  <2>1. PICK i \in Baseline!Live : market' = Baseline!AfterInvalid(i) /\ baseline' = baseline
    BY <1>5 DEF Baseline!Rejected
  <2>2. /\ Covered(market') /\ market'.orders = <<>> /\ market'.quantity = market.quantity
        /\ market'.day = market.day /\ market'.at = market.at
    BY <1>1, <2>1, OrderInvalid DEF SameSession
  <2>3. HaltedStep
    BY <1>1, <1>2, <2>2 DEF HaltedStep
  <2> QED
    BY <1>1, <1>2, <2>1, <2>2, <2>3 DEF BaselineInv, SoldOff
<1> QED
  BY <1>4, <1>5

LEMMA BaselineEnds ==
    ASSUME BaselineInv, Baseline!EndOfAlgorithm
    PROVE  BaselineInv' /\ HaltedStep
<1>1. /\ Covered(market) /\ baseline \in Baselines /\ market.at = "close"
      /\ baseline.last <= market.day
      /\ market' = Baseline!Cancelled(market)
      /\ baseline' = [baseline EXCEPT !.status = "over"]
  BY DEF BaselineInv, Baseline!EndOfAlgorithm
<1>2. /\ Covered(market') /\ SameSession(market, market') /\ market'.orders \in AtMostOne
      /\ \A i \in DOMAIN market'.orders : market'.orders[i].cancelling
      /\ market.quantity \in Nat
  BY <1>1, OrdersCancelled, AccountTyped
<1>3. SoldOff(market')
  BY <1>2, OneOrNone DEF SoldOff
<1>4. baseline' \in Baselines /\ baseline'.last = baseline.last
  BY <1>1 DEF Baselines
<1>5. HaltedStep
  BY <1>1, <1>2 DEF HaltedStep, SameSession
<1> QED
  BY <1>1, <1>2, <1>3, <1>4, <1>5 DEF BaselineInv, SameSession

LEMMA BaselineInit == Baseline!Init => BaselineInv
<1> SUFFICES ASSUME Baseline!Init PROVE BaselineInv
  OBVIOUS
<1>1. PICK price \in Dollars :
         market = [day |-> 0, at |-> "close", mark |-> price, cash |-> Capital,
                   quantity |-> 0, orders |-> <<>>]
  BY DEF Baseline!Init, Baseline!InitMarket
<1>2. Covered(market) /\ market.day = 0 /\ market.at = "close"
  <2>1. <<>> \in AtMostOne
    <3>1. [left |-> 1, cancelling |-> FALSE] \in Order
      BY DEF Order
    <3> QED
      BY <3>1, OneIsShort
  <2>2. 0 \in 0 .. FinalSession /\ Capital \in Int
    BY LeanFacts
  <2> QED
    BY <1>1, <2>1, <2>2 DEF Covered, Account
<1>3. baseline \in Baselines /\ baseline.last = 0 /\ ~Baseline!Halted(baseline.guard)
  <2>1. Baseline!FreshGuard(Capital) \in Guards /\ ~Baseline!Halted(Baseline!FreshGuard(Capital))
    BY LeanFacts DEF Baseline!FreshGuard, Guards, Baseline!Halted
  <2>2. 0 \in 0 .. FinalSession /\ <<>> \in Seq(Dollars)
    BY LeanFacts
  <2>3. baseline = [status |-> "running", closes |-> <<>>, last |-> 0,
                    guard |-> Baseline!FreshGuard(Capital), liquidate |-> FALSE]
    BY DEF Baseline!Init
  <2> QED
    BY <2>1, <2>2, <2>3 DEF Baselines
<1> QED
  BY <1>2, <1>3 DEF BaselineInv

LEMMA BaselineStep ==
    ASSUME BaselineInv, Baseline!Next \/ UNCHANGED <<market, baseline>>
    PROVE  BaselineInv' /\ HaltedStep
<1>1. CASE UNCHANGED <<market, baseline>>
  <2>1. HaltedStep
    <3>1. market.quantity \in Nat
      BY AccountTyped DEF BaselineInv
    <3> QED
      BY <1>1, <3>1 DEF HaltedStep
  <2> QED
    BY <1>1, <2>1 DEF BaselineInv
<1> QED
  BY <1>1, BaselineMarketSteps, BaselineBar, BaselineEvents, BaselineEnds DEF Baseline!Next

(***************************************************************************)
(* The walk-forward algorithm.  It has the market, the guard and the       *)
(* signal in common with the baseline.                                     *)
(***************************************************************************)
LEMMA OneMarket ==
    /\ \A m : /\ Walk!Cancelled(m) = Baseline!Cancelled(m)
              /\ Walk!EquityOf(m) = Baseline!EquityOf(m)
    /\ \A m, x : /\ Walk!Submitted(m, x) = Baseline!Submitted(m, x)
                 /\ Walk!OrderQuantityOf(m, x) = Baseline!OrderQuantityOf(m, x)
    /\ \A s : Walk!Standing(s) = Baseline!Standing(s)
    /\ Walk!Live = Baseline!Live
    /\ \A i : /\ Walk!Part(i) = Baseline!Part(i)
              /\ Walk!AfterInvalid(i) = Baseline!AfterInvalid(i)
    /\ \A i, x, fee : Walk!AfterFill(i, x, fee) = Baseline!AfterFill(i, x, fee)
<1>1. \A m : Walk!Cancelled(m) = Baseline!Cancelled(m) /\ Walk!EquityOf(m) = Baseline!EquityOf(m)
  BY DEF Walk!Cancelled, Baseline!Cancelled, Walk!EquityOf, Baseline!EquityOf
<1>2. \A m, x : /\ Walk!Submitted(m, x) = Baseline!Submitted(m, x)
                /\ Walk!OrderQuantityOf(m, x) = Baseline!OrderQuantityOf(m, x)
  BY DEF Walk!Submitted, Baseline!Submitted, Walk!OrderQuantityOf, Baseline!OrderQuantityOf,
         Walk!EquityOf, Baseline!EquityOf
<1>3. \A s : Walk!Standing(s) = Baseline!Standing(s)
  BY Zenon DEF Walk!Standing, Baseline!Standing
<1>4. Walk!Live = Baseline!Live /\ \A i : Walk!Part(i) = Baseline!Part(i)
  BY DEF Walk!Live, Baseline!Live, Walk!Part, Baseline!Part
<1>5. \A s, i : Walk!Without(s, i) = Baseline!Without(s, i)
  BY DEF Walk!Without, Baseline!Without
<1>6. \A s, i, x : Walk!Worked(s, i, x) = Baseline!Worked(s, i, x)
  BY <1>5 DEF Walk!Worked, Baseline!Worked
<1>7. \A i : Walk!AfterInvalid(i) = Baseline!AfterInvalid(i)
  BY <1>5 DEF Walk!AfterInvalid, Baseline!AfterInvalid
<1>8. \A i, x, fee : Walk!AfterFill(i, x, fee) = Baseline!AfterFill(i, x, fee)
  BY <1>6 DEF Walk!AfterFill, Baseline!AfterFill
<1> QED
  BY <1>1, <1>2, <1>3, <1>4, <1>7, <1>8

LEMMA OneGuard ==
    /\ \A g : Walk!Halted(g) = Baseline!Halted(g)
    /\ \A g, day, e : /\ Walk!Observe(g, day, e) = Baseline!Observe(g, day, e)
                      /\ Walk!CloseSession(g, day, e) = Baseline!CloseSession(g, day, e)
    /\ \A c : Walk!Recent(c) = Baseline!Recent(c)
    /\ \A cash : Walk!FreshGuard(cash) = Baseline!FreshGuard(cash)
    /\ Walk!HaltReasons = Baseline!Reasons
<1>1. \A g : Walk!Halted(g) = Baseline!Halted(g)
  BY DEF Walk!Halted, Baseline!Halted
<1>2. \A a, b : /\ Walk!Larger(a, b) = Baseline!Larger(a, b)
                /\ Walk!FallPercent(a, b) = Baseline!FallPercent(a, b)
  BY DEF Walk!Larger, Baseline!Larger, Walk!FallPercent, Baseline!FallPercent
<1>3. \A g, day, e : Walk!Observe(g, day, e) = Baseline!Observe(g, day, e)
  <2>1. ASSUME NEW g, NEW day, NEW e PROVE Walk!Observe(g, day, e) = Baseline!Observe(g, day, e)
    BY <1>1, <1>2, Zenon DEF Walk!Observe, Baseline!Observe
  <2> QED
    BY <2>1
<1>4. \A g, day, e : Walk!CloseSession(g, day, e) = Baseline!CloseSession(g, day, e)
  BY <1>3 DEF Walk!CloseSession, Baseline!CloseSession
<1> QED
  BY <1>1, <1>3, <1>4 DEF Walk!Recent, Baseline!Recent, Walk!FreshGuard, Baseline!FreshGuard,
     Walk!HaltReasons, Baseline!Reasons

Sessions == FirstSession .. FinalSession

Phases == {"warming", "warm", "failed", "ended"}
Closes == Seq(Dollars)
MaybeSession == {None} \cup Sessions
MaybeEquity == {None} \cup Int
MaybePrice == {None} \cup Dollars
Peaks == Nat \ {0}
Percents == 0 .. 100
Walks == [status : Phases, closes : Closes, guard : Guards,
          first : MaybeSession, last : MaybeSession, finalClose : BOOLEAN,
          startingEquity : MaybeEquity,
          benchmarkStart : MaybePrice, benchmarkEnd : MaybePrice,
          metricPeak : Peaks, maxDrawdown : Percents,
          fees : Nat, orders : Nat, fills : Nat, rejected : Nat]

\* The metric and the guard, fed by different handlers, have seen the same.
Agrees(a) ==
    /\ ~Baseline!Halted(a.guard) => a.metricPeak = a.guard.peak /\ a.maxDrawdown < DeclineLimit
    /\ "max_drawdown" \in a.guard.reasons => a.maxDrawdown >= DeclineLimit

\* What the bars of the evaluation have left; the close of the last one is in
\* the metric.
Recorded(a, m) ==
    /\ a.first # None /\ a.last # None /\ a.first <= a.last /\ a.last <= m.day
    /\ m.at = "open" => a.last < m.day
    /\ m.at = "close" /\ a.last = m.day =>
         /\ Walk!EquityOf(m) <= a.metricPeak
         /\ Walk!FallPercent(a.metricPeak, Walk!EquityOf(m)) <= a.maxDrawdown
    /\ a.startingEquity = Capital
    /\ a.benchmarkStart \in Dollars /\ a.benchmarkEnd \in Dollars
    /\ a.finalClose => a.last = FinalSession

\* Before the first bar of the evaluation nothing has happened to the account,
\* and after it the evaluation is what its bars were.
Begun(a, m) ==
    IF a.first = None
    THEN /\ m.orders = <<>> /\ m.quantity = 0 /\ m.cash = Capital /\ ~a.finalClose
         /\ ~Baseline!Halted(a.guard) /\ a.guard.peak = Capital /\ a.maxDrawdown = 0
    ELSE Recorded(a, m)

\* After a halt nothing is left that could be filled.
Frozen(a, m) ==
    Baseline!Halted(a.guard) /\ m.orders # <<>> => m.orders[1].cancelling

EmittedInv == emitted = None \/ (Walk!Accepted(emitted) /\ emitted.state.last = FinalSession)

WalkInv ==
    /\ Covered(market) /\ walking \in Walks
    /\ Agrees(walking) /\ Begun(walking, market) /\ Frozen(walking, market)
    /\ EmittedInv

\* What a step of a halted run leaves alone.
FrozenStep ==
    Walk!Halted(walking.guard) => /\ market'.quantity = market.quantity
                                  /\ Len(market'.orders) <= Len(market.orders)
                                  /\ walking'.guard.reasons = walking.guard.reasons

LEMMA WalkTyped ==
    ASSUME NEW a \in Walks
    PROVE  /\ a.status \in Phases /\ a.closes \in Seq(Dollars)
           /\ a.guard \in Guards /\ a.first \in {None} \cup Sessions
           /\ a.last \in {None} \cup Sessions /\ a.finalClose \in BOOLEAN
           /\ a.startingEquity \in {None} \cup Int
           /\ a.benchmarkStart \in {None} \cup Dollars
           /\ a.benchmarkEnd \in {None} \cup Dollars
           /\ a.metricPeak \in Nat \ {0} /\ a.maxDrawdown \in 0 .. 100
           /\ a.fees \in Nat /\ a.orders \in Nat /\ a.fills \in Nat /\ a.rejected \in Nat
<1>1. /\ a.status \in Phases /\ a.closes \in Closes /\ a.guard \in Guards
      /\ a.first \in MaybeSession /\ a.last \in MaybeSession /\ a.finalClose \in BOOLEAN
      /\ a.startingEquity \in MaybeEquity
      /\ a.benchmarkStart \in MaybePrice /\ a.benchmarkEnd \in MaybePrice
      /\ a.metricPeak \in Peaks /\ a.maxDrawdown \in Percents
      /\ a.fees \in Nat /\ a.orders \in Nat /\ a.fills \in Nat /\ a.rejected \in Nat
  BY DEF Walks
<1> QED
  BY <1>1, Zenon DEF Closes, MaybeSession, MaybeEquity, MaybePrice, Peaks, Percents

LEMMA FallIsPercent ==
    ASSUME NEW peak \in Nat \ {0}, NEW e \in Int, 0 < e, e <= peak
    PROVE  Walk!FallPercent(peak, e) \in 0 .. 100
<1> DEFINE fall == Walk!Larger(0, peak - e)
<1>1. fall \in 0 .. peak
  BY DEF Walk!Larger
<1> HIDE DEF fall
<1>2. fall * 100 \in Nat /\ fall * 100 <= 100 * peak
  BY <1>1
<1>3. (fall * 100) \div peak \in Nat /\ (fall * 100) \div peak <= 100
  BY <1>2, Quotient
<1> QED
  BY <1>3 DEF Walk!FallPercent, fall

\* The metric after an equity, beside the guard g after the same equity.
Metering(a, e, g, p, d) ==
    /\ Walk!Metered(a, e) = [a EXCEPT !.metricPeak = p, !.maxDrawdown = d]
    /\ d >= a.maxDrawdown /\ e <= p /\ Walk!FallPercent(p, e) <= d
    /\ ~Baseline!Halted(g) => p = g.peak /\ d < DeclineLimit
    /\ "max_drawdown" \in g.reasons => d >= DeclineLimit

\* An equity that is metered and observed, in either order, leaves them agreed.
LEMMA MeterAgrees ==
    ASSUME NEW a \in Walks, Agrees(a), NEW e \in Int, e > 0, NEW day \in Int,
           NEW g, g = Baseline!Observe(a.guard, day, e) \/ g = Baseline!CloseSession(a.guard, day, e)
    PROVE  \E p \in Nat \ {0}, d \in 0 .. 100 : Metering(a, e, g, p, d)
<1> DEFINE p == Walk!Larger(a.metricPeak, e)
           fall == Walk!FallPercent(p, e)
           d == Walk!Larger(a.maxDrawdown, fall)
           o == Baseline!Observe(a.guard, day, e)
<1>1. /\ a.guard \in Guards /\ a.metricPeak \in Nat \ {0} /\ a.maxDrawdown \in 0 .. 100
      /\ a.guard.peak \in Nat \ {0}
  BY WalkTyped DEF Guards
<1>2. p \in Nat \ {0} /\ e <= p
  BY <1>1 DEF Walk!Larger
<1>3. fall \in 0 .. 100
  <2> HIDE DEF p
  <2> QED
    BY <1>2, FallIsPercent
<1>4. Walk!Metered(a, e) = [a EXCEPT !.metricPeak = p, !.maxDrawdown = d]
  BY DEF Walk!Metered
<1>5. g.reasons = o.reasons /\ g.peak = o.peak
  BY <1>1, GuardLatches
<1>6. /\ Baseline!Halted(a.guard) => o = a.guard
      /\ Baseline!Halted(g) = Baseline!Halted(o)
  BY <1>1, <1>5, GuardLatches DEF Baseline!Halted
<1>7. ASSUME ~Baseline!Halted(a.guard)
      PROVE  /\ o.peak = p
             /\ "max_drawdown" \in o.reasons <=> fall >= DeclineLimit
             /\ ~Baseline!Halted(o) => fall < DeclineLimit
  <2> DEFINE base == IF a.guard.session # day THEN a.guard.lastClose ELSE a.guard.startOfDay
             daily == IF Baseline!FallPercent(base, e) >= DailyLimit THEN {"daily_loss"} ELSE {}
             falls == IF fall >= DeclineLimit THEN {"max_drawdown"} ELSE {}
  <2>1. p = Baseline!Larger(a.guard.peak, e) /\ fall = Baseline!FallPercent(p, e)
    BY <1>7 DEF Agrees, Walk!Larger, Baseline!Larger, Walk!FallPercent, Baseline!FallPercent
  <2> HIDE DEF p, fall
  <2>2. o = [a.guard EXCEPT !.session = day, !.startOfDay = base, !.peak = p,
                            !.reasons = daily \cup falls]
    BY <1>7, <2>1 DEF Baseline!Observe
  <2>3. o.peak = p /\ o.reasons = daily \cup falls
    <3> HIDE DEF daily, falls, base
    <3> QED
      BY <1>1, <2>2 DEF Guards
  <2>4. "max_drawdown" \in o.reasons <=> fall >= DeclineLimit
    BY <2>3
  <2>5. fall \in Int /\ DeclineLimit \in Int
    BY <1>3, LeanFacts
  <2>6. ~Baseline!Halted(o) => ~("max_drawdown" \in o.reasons)
    BY DEF Baseline!Halted
  <2> QED
    BY <2>3, <2>4, <2>5, <2>6
<1> HIDE DEF p, o
<1>12. fall = Walk!FallPercent(p, e)
  OBVIOUS
<1> HIDE DEF fall
<1>8. d \in 0 .. 100 /\ d >= a.maxDrawdown /\ d >= fall /\ (d = fall \/ d = a.maxDrawdown)
  BY <1>1, <1>3 DEF Walk!Larger
<1> HIDE DEF d
<1>9. DeclineLimit \in Int
  BY LeanFacts
<1>10. ~Baseline!Halted(g) => p = g.peak /\ d < DeclineLimit
  BY <1>1, <1>3, <1>5, <1>6, <1>7, <1>8, <1>9, GuardLatches DEF Agrees
<1>11. "max_drawdown" \in g.reasons => d >= DeclineLimit
  <2>1. CASE Baseline!Halted(a.guard)
    BY <1>1, <1>5, <1>6, <1>8, <1>9, <2>1 DEF Agrees
  <2>2. CASE ~Baseline!Halted(a.guard)
    BY <1>3, <1>5, <1>7, <1>8, <1>9, <2>2
  <2> QED
    BY <2>1, <2>2
<1>13. Metering(a, e, g, p, d)
  BY <1>2, <1>3, <1>4, <1>8, <1>10, <1>11, <1>12 DEF Metering
<1> QED
  BY <1>2, <1>8, <1>13

SeenAndGuarded(a, m, closes, g) == [Walk!Seen(a, m) EXCEPT !.closes = closes, !.guard = g]

\* A completed bar of the evaluation with something owned.
LEMMA BarIsSeen ==
    ASSUME WalkInv, market.at = "open", market.day >= FirstSession,
           NEW m, Covered(m), m.at = "close", m.day = market.day, m.cash = market.cash,
           m.quantity = market.quantity, m.orders = market.orders,
           Walk!EquityOf(m) > 0, NEW closes \in Seq(Dollars), NEW g,
           g = Baseline!CloseSession(walking.guard, m.day, Walk!EquityOf(m)), NEW a,
           a = SeenAndGuarded(walking, m, closes, g)
    PROVE  /\ a \in Walks /\ Agrees(a) /\ Recorded(a, m)
           /\ a.guard = g /\ a.closes = closes /\ a.orders = walking.orders
           /\ Baseline!Halted(walking.guard) => g.reasons = walking.guard.reasons
<1> DEFINE e == Walk!EquityOf(m)
           begun == IF walking.first # None THEN walking
                    ELSE [walking EXCEPT !.first = m.day, !.startingEquity = e,
                            !.benchmarkStart = m.mark, !.metricPeak = e]
<1>1. /\ walking \in Walks /\ Agrees(walking) /\ Begun(walking, market) /\ Covered(market)
  BY DEF WalkInv
<1>2. /\ m.day \in Sessions /\ m.day \in Int /\ m.mark \in Dollars /\ m.day # None
      /\ m.day <= FinalSession
  BY AccountTyped, LeanFacts DEF Sessions
<1>3. e \in Int /\ e > 0
  <2>1. 0 \in Nat
    OBVIOUS
  <2> QED
    BY <2>1, TargetIsCovered, OneMarket
<1>4. walking.first = None => e = Capital /\ e \in Nat \ {0}
  <2>1. ASSUME walking.first = None PROVE m.cash = Capital /\ m.quantity = 0
    BY <1>1, <2>1 DEF Begun
  <2>2. m.mark \in Int /\ Capital \in Nat \ {0}
    <3>1. \A price \in Dollars : price \in Int
      BY LeanFacts
    <3> QED
      BY <1>2, <3>1, LeanFacts
  <2> QED
    BY <2>1, <2>2 DEF Walk!EquityOf
<1> HIDE DEF e
<1>5. /\ begun \in Walks /\ begun.guard = walking.guard /\ begun.maxDrawdown = walking.maxDrawdown
      /\ begun.orders = walking.orders /\ begun.finalClose = walking.finalClose
      /\ begun.metricPeak = IF walking.first = None THEN e ELSE walking.metricPeak
      /\ begun.first = IF walking.first = None THEN m.day ELSE walking.first
      /\ begun.startingEquity = IF walking.first = None THEN e ELSE walking.startingEquity
      /\ begun.benchmarkStart = IF walking.first = None THEN m.mark ELSE walking.benchmarkStart
  <2>1. CASE walking.first # None
    BY <1>1, <2>1
  <2>2. CASE walking.first = None
    <3>1. m.day \in MaybeSession /\ e \in MaybeEquity /\ m.mark \in MaybePrice /\ e \in Peaks
      BY <1>2, <1>3, <1>4, <2>2 DEF MaybeSession, MaybeEquity, MaybePrice, Peaks
    <3>2. begun = [walking EXCEPT !.first = m.day, !.startingEquity = e,
                     !.benchmarkStart = m.mark, !.metricPeak = e]
      BY <2>2
    <3> HIDE DEF begun
    <3> QED
      BY <1>1, <2>2, <3>1, <3>2 DEF Walks
  <2> QED
    BY <2>1, <2>2
<1>6. Agrees(begun)
  <2>1. walking.first = None => begun.metricPeak = walking.guard.peak
    BY <1>1, <1>4, <1>5 DEF Begun
  <2> QED
    BY <1>1, <1>5, <2>1 DEF Agrees
<1>7. Walk!Seen(walking, m) =
        [Walk!Metered(begun, e) EXCEPT !.last = m.day, !.benchmarkEnd = m.mark,
           !.finalClose = @ \/ m.day + 1 > FinalSession]
  BY DEF Walk!Seen, e
<1> HIDE DEF begun
<1>8. /\ g = Baseline!CloseSession(begun.guard, m.day, e)
      /\ g = Baseline!CloseSession(walking.guard, m.day, e)
  BY <1>5 DEF e
<1>9. PICK p \in Nat \ {0}, d \in 0 .. 100 : Metering(begun, e, g, p, d)
  BY <1>2, <1>3, <1>5, <1>6, <1>8, MeterAgrees
<1>10. /\ g \in Guards
       /\ Baseline!Halted(walking.guard) => g.reasons = walking.guard.reasons
  <2>1. walking.guard \in Guards
    BY <1>1, WalkTyped
  <2> QED
    BY <1>2, <1>3, <1>8, <2>1, GuardKept
<1> DEFINE final == begun.finalClose \/ m.day + 1 > FinalSession
<1>11. final \in BOOLEAN
  BY <1>5, WalkTyped
<1>12. Walk!Metered(begun, e).finalClose = begun.finalClose
  BY <1>5, <1>9, Zenon DEF Walks, Metering
<1>13. a = [begun EXCEPT !.metricPeak = p, !.maxDrawdown = d, !.last = m.day,
              !.benchmarkEnd = m.mark, !.finalClose = final, !.closes = closes, !.guard = g]
  BY <1>7, <1>9, <1>12 DEF Metering, SeenAndGuarded
<1> HIDE DEF final
<1> DEFINE t == [begun EXCEPT !.metricPeak = p, !.maxDrawdown = d, !.last = m.day]
<1>17. /\ t \in Walks /\ t.guard = begun.guard /\ t.orders = begun.orders
       /\ t.metricPeak = p /\ t.maxDrawdown = d /\ t.last = m.day /\ t.first = begun.first
       /\ t.benchmarkStart = begun.benchmarkStart
       /\ t.startingEquity = begun.startingEquity
  <2>1. m.day \in MaybeSession /\ p \in Peaks /\ d \in Percents
    BY <1>2 DEF MaybeSession, Peaks, Percents
  <2> QED
    BY <1>5, <2>1 DEF Walks
<1>18. a = [t EXCEPT !.benchmarkEnd = m.mark, !.finalClose = final, !.closes = closes,
              !.guard = g]
  BY <1>13
<1> HIDE DEF t
<1>14. /\ a \in Walks /\ a.guard = g /\ a.closes = closes /\ a.orders = begun.orders
       /\ a.metricPeak = p /\ a.maxDrawdown = d /\ a.last = m.day /\ a.first = begun.first
       /\ a.benchmarkEnd = m.mark /\ a.benchmarkStart = begun.benchmarkStart
       /\ a.startingEquity = begun.startingEquity /\ a.finalClose = final
  <2>1. m.mark \in MaybePrice /\ closes \in Closes
    BY <1>2 DEF MaybePrice, Closes
  <2> QED
    BY <1>10, <1>11, <1>17, <1>18, <2>1 DEF Walks
<1>15. Agrees(a)
  BY <1>9, <1>14 DEF Agrees, Metering
<1>16. Recorded(a, m)
  <2>1. /\ a.first # None /\ a.first <= m.day /\ a.startingEquity = Capital
        /\ a.benchmarkStart \in Dollars
    <3>1. CASE walking.first = None
      BY <1>2, <1>4, <1>5, <1>14, <3>1
    <3>2. CASE walking.first # None
      <4>1. Recorded(walking, market)
        BY <1>1, <3>2 DEF Begun
      <4>2. walking.first \in Sessions /\ walking.last \in Sessions
        BY <1>1, <4>1, WalkTyped DEF Recorded
      <4> QED
        BY <1>2, <1>5, <1>14, <3>2, <4>1, <4>2, LeanFacts DEF Recorded, Sessions
    <3> QED
      BY <3>1, <3>2
  <2>2. final => m.day = FinalSession
    <3>1. ASSUME begun.finalClose PROVE m.day = FinalSession
      <4>1. walking.first # None
        BY <1>1, <1>5, <3>1 DEF Begun
      <4>2. Recorded(walking, market) /\ walking.finalClose
        BY <1>1, <1>5, <3>1, <4>1 DEF Begun
      <4> QED
        BY <1>2, <4>2, LeanFacts DEF Recorded
    <3> QED
      BY <1>2, <3>1, LeanFacts DEF final
  <2> QED
    BY <1>2, <1>9, <1>14, <2>1, <2>2 DEF Recorded, Metering, e
<1> QED
  BY <1>5, <1>10, <1>14, <1>15, <1>16

\* The steps that leave the metric, the guard and the record of the evaluation
\* alone, and what they may do to the market.
SameRun(a, b) ==
    /\ b \in Walks /\ b.guard = a.guard /\ b.first = a.first /\ b.last = a.last
    /\ b.finalClose = a.finalClose /\ b.startingEquity = a.startingEquity
    /\ b.benchmarkStart = a.benchmarkStart /\ b.benchmarkEnd = a.benchmarkEnd
    /\ b.metricPeak = a.metricPeak /\ b.maxDrawdown = a.maxDrawdown

Moved(m, n) ==
    /\ Covered(n) /\ n.quantity = m.quantity /\ n.cash = m.cash
    /\ n.orders \in {<<>>, m.orders}
    /\ \/ n.day = m.day + 1 /\ n.at = "open"
       \/ n.day = m.day /\ n.at = m.at /\ n.mark = m.mark
       \/ n.day = m.day /\ m.at = "open" /\ n.at = "close"

LEMMA WalkMoves ==
    ASSUME WalkInv, SameRun(walking, walking'), Moved(market, market'), emitted' = emitted
    PROVE  WalkInv' /\ FrozenStep
<1>1. /\ Covered(market) /\ walking \in Walks /\ Agrees(walking) /\ Begun(walking, market)
      /\ Frozen(walking, market) /\ EmittedInv
  BY DEF WalkInv
<1>2. EmittedInv'
  BY <1>1 DEF EmittedInv
<1>3. Agrees(walking') /\ walking' \in Walks /\ Covered(market')
  BY <1>1 DEF Agrees, SameRun, Moved
<1>4. /\ market'.orders # <<>> => market'.orders = market.orders
      /\ market.orders = <<>> => market'.orders = <<>>
  BY DEF Moved
<1>5. Frozen(walking', market')
  BY <1>1, <1>4 DEF Frozen, SameRun
<1>6. Begun(walking', market')
  <2>1. CASE walking.first = None
    BY <1>1, <1>4, <2>1 DEF Begun, SameRun, Moved
  <2>2. CASE walking.first # None
    <3>1. Recorded(walking, market)
      BY <1>1, <2>2 DEF Begun
    <3>2. /\ market.day \in Int /\ walking.last \in Int /\ walking.first \in Int
          /\ market'.day \in Int
      <4>1. walking.last \in Sessions /\ walking.first \in Sessions
        BY <1>1, <3>1, WalkTyped DEF Recorded
      <4>2. \A d \in Sessions : d \in Int
        BY LeanFacts DEF Sessions
      <4>3. \A d \in Nat : d \in Int
        OBVIOUS
      <4> QED
        BY <1>1, <1>3, <4>1, <4>2, <4>3, AccountTyped
    <3>3. /\ walking.last <= market'.day
          /\ market'.at = "open" => walking.last < market'.day
      BY <3>1, <3>2 DEF Recorded, Moved
    <3>4. market'.at = "close" /\ walking.last = market'.day =>
            /\ market.at = "close" /\ walking.last = market.day
            /\ Walk!EquityOf(market') = Walk!EquityOf(market)
      BY <3>1, <3>2 DEF Recorded, Moved, Walk!EquityOf
    <3>5. Recorded(walking', market')
      <4> HIDE DEF Moved
      <4> QED
        BY <2>2, <3>1, <3>3, <3>4 DEF Recorded, SameRun
    <3> QED
      BY <2>2, <3>5 DEF Begun, SameRun
  <2> QED
    BY <2>1, <2>2
<1>7. FrozenStep
  <2>1. market.orders \in AtMostOne /\ Len(<<>>) = 0 /\ Len(market.orders) \in Nat
    BY <1>1, AccountTyped, OneOrNone
  <2>2. market'.quantity = market.quantity /\ Len(market'.orders) <= Len(market.orders)
    BY <1>4, <2>1 DEF Moved
  <2> QED
    BY <2>2 DEF FrozenStep, SameRun
<1> QED
  BY <1>2, <1>3, <1>5, <1>6, <1>7 DEF WalkInv

LEMMA WalkQuietSteps ==
    ASSUME WalkInv, \/ Walk!MarketOpens \/ Walk!CancellationArrives \/ Walk!NoBar
                    \/ Walk!WarmupFinished \/ Walk!WarmupBar \/ Walk!Rejected \/ Walk!Fails
                    \/ UNCHANGED <<market, walking, emitted>>
    PROVE  WalkInv' /\ FrozenStep
<1>1. Covered(market) /\ walking \in Walks
  BY DEF WalkInv
<1>2. /\ market \in Account /\ market.day \in Nat /\ market.orders \in AtMostOne
      /\ market.at \in {"open", "close"} /\ <<>> \in AtMostOne
  <2>1. <<>> \in AtMostOne
    BY DEF AtMostOne
  <2> QED
    BY <1>1, <2>1, AccountTyped
<1>3. Walk!Standing(market.orders) \in {<<>>, market.orders}
  BY <1>2, StandingOfOne, OneMarket
<1>4. SameRun(walking, walking)
  BY <1>1 DEF SameRun
<1>5. ASSUME NEW status \in Phases PROVE SameRun(walking, [walking EXCEPT !.status = status])
  BY <1>1 DEF SameRun, Walks
<1>6. Moved(market, market)
  BY <1>1 DEF Moved
<1>7. ASSUME Walk!Fails PROVE WalkInv' /\ FrozenStep
  <2>1. /\ walking' = [walking EXCEPT !.status = "failed"] /\ market' = market
        /\ emitted' = emitted /\ "failed" \in Phases
    BY <1>7 DEF Walk!Fails, Phases
  <2> QED
    BY <1>5, <1>6, <2>1, WalkMoves
<1>8. CASE Walk!MarketOpens
  <2>1. PICK price \in Dollars : Walk!Open(price)
    BY <1>8 DEF Walk!MarketOpens
  <2>2. /\ market.day < FinalSession
        /\ market' = [market EXCEPT !.day = @ + 1, !.at = "open", !.mark = price,
                                    !.orders = Walk!Standing(@)]
    BY <2>1 DEF Walk!Open
  <2>3. Covered(market')
    BY <1>1, <2>2, MarketMoves, OneMarket
  <2>4. Moved(market, market')
    BY <1>2, <1>3, <2>2, <2>3 DEF Moved, Account
  <2> QED
    BY <1>4, <1>8, <2>4, WalkMoves DEF Walk!MarketOpens
<1>9. CASE Walk!CancellationArrives
  <2>1. market' = [market EXCEPT !.orders = Walk!Standing(@)]
    BY <1>9 DEF Walk!CancellationArrives, Walk!Confirm
  <2>2. Covered(market')
    BY <1>1, <1>2, <2>1, MarketMoves, OneMarket, AccountTyped
  <2>3. Moved(market, market')
    BY <1>2, <1>3, <2>1, <2>2 DEF Moved, Account
  <2> QED
    BY <1>4, <1>9, <2>3, WalkMoves DEF Walk!CancellationArrives
<1>10. CASE Walk!NoBar
  <2>1. market.at = "open" /\ market' = [market EXCEPT !.at = "close"]
    BY <1>10 DEF Walk!NoBar
  <2>2. Covered(market')
    BY <1>1, <1>2, <2>1, MarketMoves, AccountTyped
  <2>3. Moved(market, market')
    BY <1>2, <2>1, <2>2 DEF Moved, Account
  <2> QED
    BY <1>4, <1>10, <2>3, WalkMoves DEF Walk!NoBar
<1>11. CASE Walk!WarmupFinished
  <2>1. ASSUME walking' = [walking EXCEPT !.status = "warm"], UNCHANGED <<market, emitted>>
        PROVE  WalkInv' /\ FrozenStep
    <3>1. "warm" \in Phases
      BY DEF Phases
    <3> QED
      BY <1>5, <1>6, <2>1, <3>1, WalkMoves
  <2> QED
    BY <1>7, <1>11, <2>1 DEF Walk!WarmupFinished
<1>12. CASE Walk!WarmupBar
  <2>1. PICK close \in Dollars :
           /\ market' = [market EXCEPT !.at = "close", !.mark = close]
           /\ walking' = [walking EXCEPT !.closes = Walk!Recent(Append(@, close))]
    BY <1>12 DEF Walk!WarmupBar
  <2>2. Covered(market') /\ market.at = "open" /\ emitted' = emitted
    BY <1>1, <1>12, <2>1, MarketMoves DEF Walk!WarmupBar
  <2>3. Moved(market, market')
    BY <1>2, <2>1, <2>2 DEF Moved, Account
  <2>4. Walk!Recent(Append(walking.closes, close)) \in Closes
    <3>1. walking.closes \in Seq(Dollars)
      BY <1>1, WalkTyped
    <3> QED
      BY <3>1, ClosesKept, OneGuard DEF Closes
  <2>5. SameRun(walking, walking')
    BY <1>1, <2>1, <2>4 DEF SameRun, Walks
  <2> QED
    BY <2>2, <2>3, <2>5, WalkMoves
<1>13. CASE Walk!Rejected
  <2>1. PICK i \in Baseline!Live : market' = Baseline!AfterInvalid(i)
    BY <1>13, OneMarket DEF Walk!Rejected
  <2>2. /\ walking' = [walking EXCEPT !.rejected = @ + 1] /\ emitted' = emitted
    BY <1>13 DEF Walk!Rejected
  <2>3. Covered(market') /\ market'.orders = <<>> /\ SameSession(market, market')
    BY <1>1, <2>1, OrderInvalid
  <2>4. market'.cash = market.cash /\ market'.mark = market.mark
    BY <1>2, <2>1 DEF Account, Baseline!AfterInvalid
  <2>5. Moved(market, market')
    BY <2>3, <2>4 DEF Moved, SameSession
  <2>6. walking.rejected + 1 \in Nat
    <3>1. walking.rejected \in Nat
      BY <1>1, WalkTyped
    <3> QED
      BY <3>1
  <2>7. SameRun(walking, walking')
    BY <1>1, <2>2, <2>6 DEF SameRun, Walks
  <2> QED
    BY <2>2, <2>5, <2>7, WalkMoves
<1>14. CASE UNCHANGED <<market, walking, emitted>>
  BY <1>4, <1>6, <1>14, WalkMoves
<1> QED
  BY <1>7, <1>8, <1>9, <1>10, <1>11, <1>12, <1>13, <1>14

LEMMA WalkInit == Walk!Init => WalkInv
<1> SUFFICES ASSUME Walk!Init PROVE WalkInv
  OBVIOUS
<1>1. PICK price \in Dollars :
         market = [day |-> 0, at |-> "close", mark |-> price, cash |-> Capital,
                   quantity |-> 0, orders |-> <<>>]
  BY DEF Walk!Init, Walk!InitMarket
<1>2. Covered(market) /\ market.orders = <<>> /\ market.quantity = 0 /\ market.cash = Capital
  <2>1. <<>> \in AtMostOne
    BY DEF AtMostOne
  <2>2. 0 \in 0 .. FinalSession /\ Capital \in Int
    BY LeanFacts
  <2> QED
    BY <1>1, <2>1, <2>2 DEF Covered, Account
<1> DEFINE fresh == Baseline!FreshGuard(Capital)
<1>3. fresh \in Guards /\ ~Baseline!Halted(fresh) /\ fresh.peak = Capital /\ fresh.reasons = {}
  BY LeanFacts DEF Baseline!FreshGuard, Guards, Baseline!Halted
<1>4. walking = [status |-> "warming", closes |-> <<>>, guard |-> fresh,
               first |-> None, last |-> None, finalClose |-> FALSE,
               startingEquity |-> None, benchmarkStart |-> None,
               benchmarkEnd |-> None, metricPeak |-> Capital, maxDrawdown |-> 0,
               fees |-> 0, orders |-> 0, fills |-> 0, rejected |-> 0]
  BY OneGuard DEF Walk!Init
<1> HIDE DEF fresh
<1>5. walking \in Walks
  <2>1. /\ "warming" \in Phases /\ <<>> \in Closes /\ None \in MaybeSession
        /\ None \in MaybeEquity /\ None \in MaybePrice /\ Capital \in Peaks
        /\ 0 \in Percents
    BY LeanFacts DEF Phases, Closes, MaybeSession, MaybeEquity, MaybePrice, Peaks, Percents
  <2> QED
    BY <1>3, <1>4, <2>1 DEF Walks
<1>6. Agrees(walking) /\ Begun(walking, market) /\ Frozen(walking, market)
  BY <1>2, <1>3, <1>4, LeanFacts DEF Agrees, Begun, Frozen
<1>7. EmittedInv
  BY DEF Walk!Init, EmittedInv
<1> QED
  BY <1>2, <1>5, <1>6, <1>7 DEF WalkInv

LEMMA WalkBar ==
    ASSUME WalkInv, Walk!EvaluationBar
    PROVE  WalkInv' /\ FrozenStep
<1>1. /\ Covered(market) /\ walking \in Walks /\ Begun(walking, market) /\ EmittedInv
      /\ market.at = "open" /\ market.day >= FirstSession
  BY DEF WalkInv, Walk!EvaluationBar
<1>2. PICK close \in Dollars :
         LET m == [market EXCEPT !.at = "close", !.mark = close]
             a == [Walk!Seen(walking, m) EXCEPT
                     !.closes = Walk!Recent(Append(@, close)),
                     !.guard = Walk!CloseSession(@, m.day, Walk!EquityOf(m))]
         IN  Walk!Decide(a, m)
  BY DEF Walk!EvaluationBar
<1> DEFINE m == [market EXCEPT !.at = "close", !.mark = close]
           e == Walk!EquityOf(m)
           seen == Walk!Seen(walking, m)
           closes == Baseline!Recent(Append(walking.closes, close))
           g == Baseline!CloseSession(walking.guard, m.day, e)
           a == [seen EXCEPT !.closes = closes, !.guard = g]
           target == IF Walk!Ready(a.closes) THEN Walk!Target(a.closes) ELSE 0
           quantity == Baseline!OrderQuantityOf(m, target)
<1>3. seen.closes = walking.closes /\ seen.guard = walking.guard
  BY <1>1, Zenon DEF Walk!Seen, Walk!Metered, Walks
<1>4. a = [seen EXCEPT !.closes = Walk!Recent(Append(@, close)),
                       !.guard = Walk!CloseSession(@, m.day, Walk!EquityOf(m))]
  BY <1>3, OneGuard
<1>5. /\ Covered(m) /\ m.day = market.day /\ m.at = "close" /\ m.quantity = market.quantity
      /\ m.orders = market.orders /\ m.cash = market.cash
  <2>1. Covered(m)
    BY <1>1, MarketMoves
  <2>2. market \in Account
    BY <1>1, AccountTyped
  <2> QED
    BY <2>1, <2>2 DEF Account
<1>6. closes \in Seq(Dollars)
  <2>1. walking.closes \in Seq(Dollars)
    BY <1>1, WalkTyped
  <2> QED
    BY <2>1, ClosesKept
<1>7. CASE Walk!Fails
  BY <1>7, WalkQuietSteps
<1>8. \/ Walk!Fails
      \/ e > 0 /\ walking' = a /\ market' = Walk!OnHalt(a, m) /\ emitted' = emitted
      \/ /\ e > 0 /\ ~Walk!Halted(a.guard) /\ Walk!MaySubmit(m, quantity)
         /\ ~(m.quantity + quantity < 0)
         /\ walking' = [a EXCEPT !.orders = @ + 1] /\ market' = Walk!Submitted(m, quantity)
         /\ emitted' = emitted
  <2>1. e \in Int
    <3>1. 0 \in Nat
      OBVIOUS
    <3> QED
      BY <1>5, <3>1, TargetIsCovered, OneMarket
  <2>2. quantity = Walk!OrderQuantityOf(m, target)
    BY OneMarket
  <2>3. CASE e <= 0 /\ Walk!Fails
    BY <2>3
  <2>4. CASE ~(e <= 0) /\ Walk!Halted(a.guard) /\ walking' = a /\ market' = Walk!OnHalt(a, m)
             /\ emitted' = emitted
    BY <2>1, <2>4
  <2>5. CASE ~(e <= 0) /\ ~Walk!Halted(a.guard) /\ walking' = a /\ market' = m
             /\ emitted' = emitted
    BY <2>1, <2>5 DEF Walk!OnHalt
  <2>6. CASE /\ ~(e <= 0) /\ ~Walk!Halted(a.guard) /\ Walk!MaySubmit(m, quantity)
             /\ ~(m.quantity + quantity < 0)
             /\ walking' = [a EXCEPT !.orders = @ + 1] /\ market' = Walk!Submitted(m, quantity)
             /\ emitted' = emitted
    BY <2>1, <2>6
  <2>7. Walk!Decide(a, m)
    <3> HIDE DEF a
    <3> QED
      BY <1>2, <1>4
  <2> HIDE DEF m, seen, closes, g, quantity, e, a
  <2> QED
    BY <2>2, <2>3, <2>4, <2>5, <2>6, <2>7 DEF e, Walk!Decide, quantity
<1> HIDE DEF m, seen, closes, g, e
<1>9. ASSUME e > 0
      PROVE  /\ a \in Walks /\ Agrees(a) /\ Recorded(a, m)
             /\ a.guard = g /\ a.closes = closes /\ a.orders = walking.orders
             /\ Baseline!Halted(walking.guard) => g.reasons = walking.guard.reasons
  <2>1. /\ g = Baseline!CloseSession(walking.guard, m.day, Walk!EquityOf(m)) /\ Walk!EquityOf(m) > 0
        /\ a = SeenAndGuarded(walking, m, closes, g)
    BY <1>9 DEF e, g, seen, SeenAndGuarded
  <2> HIDE DEF a
  <2> QED
    BY <1>1, <1>5, <1>6, <2>1, BarIsSeen
<1> HIDE DEF a
<1>10. ASSUME NEW n, Covered(n), SameSession(m, n), n.cash = m.cash, n.mark = m.mark, Recorded(a, m)
       PROVE  Recorded(a, n)
  BY <1>10 DEF Recorded, SameSession, Walk!EquityOf
<1>11. ASSUME emitted' = emitted PROVE EmittedInv'
  BY <1>1, <1>11 DEF EmittedInv
<1>12. CASE e > 0 /\ walking' = a /\ market' = Walk!OnHalt(a, m) /\ emitted' = emitted
  <2>1. /\ Covered(market') /\ SameSession(m, market') /\ market'.cash = m.cash
        /\ market'.mark = m.mark /\ Len(market'.orders) = Len(m.orders)
        /\ Baseline!Halted(a.guard) =>
             \A i \in DOMAIN market'.orders : market'.orders[i].cancelling
    <3>1. CASE Baseline!Halted(a.guard)
      <4>1. market' = Baseline!Cancelled(m)
        BY <1>12, <3>1, OneGuard, OneMarket DEF Walk!OnHalt
      <4>2. m \in Account
        BY <1>5, AccountTyped
      <4>3. market'.cash = m.cash /\ market'.mark = m.mark
        BY <4>1, <4>2 DEF Baseline!Cancelled, Account
      <4>4. DOMAIN market'.orders = DOMAIN m.orders
        BY <1>5, <4>1, OrdersCancelled
      <4> QED
        BY <1>5, <4>1, <4>3, <4>4, OrdersCancelled
    <3>2. CASE ~Baseline!Halted(a.guard)
      <4>1. market' = m
        BY <1>12, <3>2, OneGuard DEF Walk!OnHalt
      <4> QED
        BY <1>5, <3>2, <4>1 DEF SameSession
    <3> QED
      BY <3>1, <3>2
  <2>2. Recorded(walking', market') /\ Agrees(walking') /\ walking' \in Walks
    BY <1>9, <1>10, <1>12, <2>1
  <2>3. Begun(walking', market')
    BY <2>2 DEF Begun, Recorded
  <2>4. Frozen(walking', market')
    <3>1. market'.orders \in AtMostOne
      BY <2>1, AccountTyped
    <3> QED
      BY <1>12, <2>1, <3>1, OneOrNone DEF Frozen
  <2>5. FrozenStep
    <3>1. Len(market'.orders) <= Len(market.orders)
      <4>1. market.orders \in AtMostOne
        BY <1>1, AccountTyped
      <4>2. Len(market.orders) \in Nat
        BY <4>1, OneOrNone
      <4> QED
        BY <1>5, <2>1, <4>2
    <3> QED
      BY <1>5, <1>9, <1>12, <2>1, <3>1, OneGuard DEF FrozenStep, SameSession
  <2> QED
    BY <1>11, <1>12, <2>1, <2>2, <2>3, <2>4, <2>5 DEF WalkInv
<1>13. CASE /\ e > 0 /\ ~Walk!Halted(a.guard) /\ Walk!MaySubmit(m, quantity)
            /\ ~(m.quantity + quantity < 0)
            /\ walking' = [a EXCEPT !.orders = @ + 1] /\ market' = Walk!Submitted(m, quantity)
            /\ emitted' = emitted
  <2>1. quantity # 0 /\ m.orders = <<>>
    BY <1>13 DEF Walk!MaySubmit
  <2>2. target \in Nat
    BY LeanFacts DEF Walk!Target
  <2>3. quantity \in Int /\ m.quantity + quantity >= 0
    <3>1. Baseline!EquityOf(m) > 0
      BY <1>13, OneMarket DEF e
    <3> HIDE DEF target
    <3> QED
      BY <1>5, <2>2, <3>1, TargetIsCovered
  <2> HIDE DEF quantity
  <2>4. market' = Baseline!Submitted(m, quantity)
    BY <1>13, OneMarket
  <2>5. Covered(market') /\ SameSession(m, market')
    BY <1>5, <2>1, <2>3, <2>4, OrderSubmitted
  <2>6. market'.cash = m.cash /\ market'.mark = m.mark
    <3>1. m \in Account
      BY <1>5, AccountTyped
    <3> QED
      BY <2>4, <3>1 DEF Baseline!Submitted, Account
  <2>7. Recorded(a, market') /\ Agrees(a) /\ a \in Walks
    BY <1>9, <1>10, <1>13, <2>5, <2>6
  <2>8. /\ walking' \in Walks /\ SameRun(a, walking')
    <3>1. a.orders + 1 \in Nat
      <4>1. a.orders \in Nat
        BY <2>7, WalkTyped
      <4> QED
        BY <4>1
    <3> QED
      BY <1>13, <2>7, <3>1 DEF SameRun, Walks
  <2>9. Recorded(walking', market') /\ Agrees(walking')
    BY <2>7, <2>8 DEF Recorded, Agrees, SameRun
  <2>10. Begun(walking', market')
    BY <2>9 DEF Begun, Recorded
  <2>11. ~Baseline!Halted(walking'.guard) /\ ~Baseline!Halted(walking.guard)
    BY <1>9, <1>13, <2>8, OneGuard DEF SameRun, Baseline!Halted
  <2> QED
    BY <1>11, <1>13, <2>5, <2>8, <2>9, <2>10, <2>11, OneGuard DEF WalkInv, Frozen, FrozenStep
<1> QED
  BY <1>7, <1>8, <1>12, <1>13

LEMMA WalkFilled ==
    ASSUME WalkInv, Walk!Filled
    PROVE  WalkInv' /\ FrozenStep
<1>1. /\ Covered(market) /\ walking \in Walks /\ Agrees(walking) /\ Begun(walking, market)
      /\ Frozen(walking, market) /\ EmittedInv /\ market.at = "open"
  BY DEF WalkInv, Walk!Filled
<1> SUFFICES ASSUME NEW i \in Baseline!Live, NEW fee \in Charges, NEW shares \in Baseline!Part(i),
                    NEW m, m = Baseline!AfterFill(i, shares, fee), NEW booked,
                    booked = [walking EXCEPT !.fills = @ + 1, !.fees = @ + fee], NEW metered,
                    metered = IF walking.first = None THEN booked
                              ELSE Walk!Metered(booked, Walk!EquityOf(m)),
                    NEW a, a = [metered EXCEPT
                                  !.guard = Walk!Observe(@, m.day, Walk!EquityOf(m))],
                    IF Walk!EquityOf(m) <= 0 THEN Walk!Fails
                    ELSE walking' = a /\ market' = Walk!OnHalt(a, m) /\ UNCHANGED emitted
             PROVE  WalkInv' /\ FrozenStep
  <2>1. PICK i \in Walk!Live, fee \in Charges : \E shares \in Walk!Part(i) :
          LET m == Walk!AfterFill(i, shares, fee)
              booked == [walking EXCEPT !.fills = @ + 1, !.fees = @ + fee]
              metered == IF walking.first = None THEN booked
                         ELSE Walk!Metered(booked, Walk!EquityOf(m))
              a == [metered EXCEPT !.guard = Walk!Observe(@, m.day, Walk!EquityOf(m))]
          IN  IF Walk!EquityOf(m) <= 0 THEN Walk!Fails
              ELSE walking' = a /\ market' = Walk!OnHalt(a, m) /\ UNCHANGED emitted
    BY DEF Walk!Filled
  <2>2. PICK shares \in Walk!Part(i) :
          LET m == Walk!AfterFill(i, shares, fee)
              booked == [walking EXCEPT !.fills = @ + 1, !.fees = @ + fee]
              metered == IF walking.first = None THEN booked
                         ELSE Walk!Metered(booked, Walk!EquityOf(m))
              a == [metered EXCEPT !.guard = Walk!Observe(@, m.day, Walk!EquityOf(m))]
          IN  IF Walk!EquityOf(m) <= 0 THEN Walk!Fails
              ELSE walking' = a /\ market' = Walk!OnHalt(a, m) /\ UNCHANGED emitted
    BY <2>1
  <2>3. /\ i \in Baseline!Live /\ shares \in Baseline!Part(i)
        /\ Walk!AfterFill(i, shares, fee) = Baseline!AfterFill(i, shares, fee)
    BY OneMarket
  <2> QED
    BY <2>2, <2>3
<1>2. /\ Covered(m) /\ market.orders # <<>> /\ ~market.orders[1].cancelling
      /\ m.day = market.day /\ m.at = market.at
  BY <1>1, PartIsFilled
<1>3. walking.first # None /\ ~Baseline!Halted(walking.guard)
  BY <1>1, <1>2 DEF Begun, Frozen
<1> DEFINE e == Walk!EquityOf(m)
           g == Baseline!Observe(walking.guard, m.day, e)
<1>4. e \in Int /\ m.day \in Int /\ fee \in Nat
  <2>1. e \in Int
    <3>1. 0 \in Nat
      OBVIOUS
    <3> QED
      BY <1>2, <3>1, TargetIsCovered, OneMarket
  <2>2. m.day \in Nat
    BY <1>2, AccountTyped
  <2>3. fee \in Nat
    BY LeanFacts
  <2> QED
    BY <2>1, <2>2, <2>3
<1>5. CASE Walk!Fails
  BY <1>5, WalkQuietSteps
<1>6. CASE ~(e <= 0) /\ walking' = a /\ market' = Walk!OnHalt(a, m) /\ emitted' = emitted
  <2>1. metered = Walk!Metered(booked, e)
    BY <1>3
  <2> HIDE DEF e
  <2>2. /\ booked \in Walks /\ SameRun(walking, booked)
    <3>1. walking.fills + 1 \in Nat /\ walking.fees + fee \in Nat
      <4>1. walking.fills \in Nat /\ walking.fees \in Nat
        BY <1>1, WalkTyped
      <4> QED
        BY <1>4, <4>1
    <3> QED
      BY <1>1, <3>1 DEF SameRun, Walks
  <2>3. e > 0 /\ Agrees(booked) /\ booked.guard = walking.guard
    BY <1>1, <1>4, <1>6, <2>2 DEF Agrees, SameRun
  <2>4. g = Baseline!Observe(booked.guard, m.day, e)
    BY <2>3
  <2> HIDE DEF g
  <2>5. PICK p \in Nat \ {0}, d \in 0 .. 100 : Metering(booked, e, g, p, d)
    BY <1>4, <2>2, <2>3, <2>4, MeterAgrees
  <2>6. g \in Guards
    <3>1. walking.guard \in Guards
      BY <1>1, WalkTyped
    <3> QED
      BY <1>4, <3>1, GuardKept DEF g
  <2>7. metered = [booked EXCEPT !.metricPeak = p, !.maxDrawdown = d]
    BY <2>1, <2>5 DEF Metering
  <2>8. /\ metered \in Walks /\ metered.guard = walking.guard /\ metered.first = walking.first
        /\ metered.last = walking.last /\ metered.metricPeak = p /\ metered.maxDrawdown = d
        /\ metered.finalClose = walking.finalClose
        /\ metered.startingEquity = walking.startingEquity
        /\ metered.benchmarkStart = walking.benchmarkStart
        /\ metered.benchmarkEnd = walking.benchmarkEnd
    <3>1. p \in Peaks /\ d \in Percents
      BY DEF Peaks, Percents
    <3> QED
      BY <2>2, <2>7, <3>1 DEF SameRun, Walks
  <2>9. a = [metered EXCEPT !.guard = g]
    BY <2>8, OneGuard DEF g, e
  <2>10. /\ a \in Walks /\ a.guard = g /\ a.first = walking.first
         /\ a.last = walking.last /\ a.metricPeak = p /\ a.maxDrawdown = d
         /\ a.finalClose = walking.finalClose /\ a.startingEquity = walking.startingEquity
         /\ a.benchmarkStart = walking.benchmarkStart /\ a.benchmarkEnd = walking.benchmarkEnd
    BY <2>6, <2>8, <2>9 DEF Walks
  <2>11. Agrees(a)
    BY <2>5, <2>10 DEF Agrees, Metering
  <2>12. /\ Covered(market') /\ market'.day = market.day /\ market'.at = "open"
         /\ Baseline!Halted(g) => \A j \in DOMAIN market'.orders : market'.orders[j].cancelling
    <3>1. CASE Baseline!Halted(g)
      <4>1. market' = Baseline!Cancelled(m)
        BY <1>6, <2>10, <3>1, OneGuard, OneMarket DEF Walk!OnHalt
      <4>2. SameSession(m, market') /\ DOMAIN market'.orders = DOMAIN m.orders
        BY <1>2, <4>1, OrdersCancelled
      <4> QED
        BY <1>1, <1>2, <4>1, <4>2, OrdersCancelled DEF SameSession
    <3>2. CASE ~Baseline!Halted(g)
      <4>1. market' = m
        BY <1>6, <2>10, <3>2, OneGuard DEF Walk!OnHalt
      <4> QED
        BY <1>1, <1>2, <3>2, <4>1
    <3> QED
      BY <3>1, <3>2
  <2>13. Begun(walking', market')
    <3>1. Recorded(walking, market)
      BY <1>1, <1>3 DEF Begun
    <3>2. Recorded(a, market')
      BY <1>1, <2>10, <2>12, <3>1 DEF Recorded
    <3> QED
      BY <1>3, <1>6, <2>10, <3>2 DEF Begun
  <2>14. Frozen(walking', market')
    <3>1. market'.orders \in AtMostOne
      BY <2>12, AccountTyped
    <3> QED
      <4>1. walking'.guard = g
        BY <1>6, <2>10, Zenon
      <4>2. Baseline!Halted(g) /\ market'.orders # <<>> => market'.orders[1].cancelling
        <5> SUFFICES ASSUME Baseline!Halted(g), market'.orders # <<>>
                     PROVE  market'.orders[1].cancelling
          OBVIOUS
        <5>1. DOMAIN market'.orders = {1}
          BY <3>1, OneOrNone, Zenon
        <5> QED
          BY <2>12, <5>1, Zenon
      <4> QED
        BY <4>1, <4>2, Zenon DEF Frozen
  <2>15. FrozenStep
    BY <1>3, OneGuard DEF FrozenStep
  <2>16. EmittedInv'
    BY <1>1, <1>6 DEF EmittedInv
  <2> QED
    BY <1>6, <2>10, <2>11, <2>12, <2>13, <2>14, <2>15, <2>16 DEF WalkInv
<1> QED
  BY <1>5, <1>6

LEMMA WalkEnds ==
    ASSUME WalkInv, Walk!EndOfAlgorithm
    PROVE  WalkInv' /\ FrozenStep
<1>1. /\ Covered(market) /\ walking \in Walks /\ Agrees(walking) /\ Begun(walking, market)
      /\ Frozen(walking, market) /\ EmittedInv
      /\ market.at = "close" /\ market.day = FinalSession /\ walking.status = "warm"
      /\ market' = Baseline!Cancelled(market)
  BY OneMarket DEF WalkInv, Walk!EndOfAlgorithm
<1>2. /\ Covered(market') /\ SameSession(market, market')
      /\ Len(market'.orders) = Len(market.orders)
      /\ market.orders = <<>> => market' = market
      /\ \A i \in DOMAIN market'.orders : market'.orders[i].cancelling
      /\ market'.cash = market.cash /\ market'.mark = market.mark
  <2>1. market \in Account
    BY <1>1, AccountTyped
  <2>2. market'.cash = market.cash /\ market'.mark = market.mark
    BY <1>1, <2>1 DEF Baseline!Cancelled, Account
  <2> QED
    BY <1>1, <2>2, OrdersCancelled
<1>3. /\ market'.orders \in AtMostOne /\ market.orders \in AtMostOne
      /\ Len(market.orders) \in Nat
  <2>1. market'.orders \in AtMostOne /\ market.orders \in AtMostOne
    BY <1>1, <1>2, AccountTyped
  <2> QED
    BY <2>1, OneOrNone
<1>4. Frozen(walking', market')
  BY <1>2, <1>3, OneOrNone DEF Frozen
<1> DEFINE e == Walk!Equity
<1>5. e = Walk!EquityOf(market) /\ e \in Int
  <2>1. e = Walk!EquityOf(market)
    BY DEF Walk!Equity
  <2>2. 0 \in Nat
    OBVIOUS
  <2> QED
    BY <1>1, <2>1, <2>2, TargetIsCovered, OneMarket
<1> HIDE DEF e
<1>6. \/ walking' = [walking EXCEPT !.status = "failed"] /\ emitted' = emitted
      \/ /\ Walk!Complete(walking) /\ e > 0 /\ market.quantity >= 0
         /\ emitted' = Walk!Observation(walking, market)
         /\ walking' = [walking EXCEPT !.status = "ended",
                          !.maxDrawdown = Walk!Metered(walking, e).maxDrawdown]
  BY DEF Walk!EndOfAlgorithm, e
<1>7. ASSUME NEW status \in Phases, walking' = [walking EXCEPT !.status = status]
      PROVE  /\ SameRun(walking, walking') /\ Agrees(walking') /\ Begun(walking', market')
             /\ FrozenStep
  <2>1. SameRun(walking, walking')
    BY <1>1, <1>7 DEF SameRun, Walks
  <2>2. Agrees(walking')
    BY <1>1, <2>1 DEF Agrees, SameRun
  <2>3. Begun(walking', market')
    <3>1. CASE walking.first = None
      BY <1>1, <1>2, <2>1, <3>1 DEF Begun, SameRun
    <3>2. CASE walking.first # None
      <4>1. Recorded(walking, market)
        BY <1>1, <3>2 DEF Begun
      <4>2. Walk!EquityOf(market') = Walk!EquityOf(market)
        BY <1>2 DEF SameSession, Walk!EquityOf
      <4>3. Recorded(walking', market')
        BY <1>2, <2>1, <4>1, <4>2 DEF Recorded, SameRun, SameSession
      <4> QED
        BY <2>1, <3>2, <4>3 DEF Begun, SameRun
    <3> QED
      BY <3>1, <3>2
  <2>4. FrozenStep
    BY <1>2, <1>3, <2>1 DEF FrozenStep, SameRun, SameSession
  <2> QED
    BY <2>1, <2>2, <2>3, <2>4
<1>8. CASE walking' = [walking EXCEPT !.status = "failed"] /\ emitted' = emitted
  <2>1. "failed" \in Phases
    BY DEF Phases
  <2>2. /\ SameRun(walking, walking') /\ Agrees(walking') /\ Begun(walking', market')
        /\ FrozenStep
    BY <1>7, <1>8, <2>1
  <2>3. EmittedInv'
    BY <1>1, <1>8 DEF EmittedInv
  <2> QED
    BY <1>2, <1>4, <2>2, <2>3 DEF WalkInv, SameRun
<1>9. CASE /\ Walk!Complete(walking) /\ e > 0 /\ market.quantity >= 0
           /\ emitted' = Walk!Observation(walking, market)
           /\ walking' = [walking EXCEPT !.status = "ended",
                            !.maxDrawdown = Walk!Metered(walking, e).maxDrawdown]
  <2>1. walking.first # None /\ walking.finalClose /\ Recorded(walking, market)
    BY <1>1, <1>9 DEF Walk!Complete, Begun
  <2>2. /\ walking.last = FinalSession /\ walking.first \in Sessions
        /\ walking.startingEquity = Capital
        /\ walking.benchmarkStart \in Dollars /\ walking.benchmarkEnd \in Dollars
        /\ e <= walking.metricPeak /\ Walk!FallPercent(walking.metricPeak, e) <= walking.maxDrawdown
        /\ walking.metricPeak \in Nat \ {0} /\ walking.maxDrawdown \in 0 .. 100
    BY <1>1, <1>5, <2>1, WalkTyped DEF Recorded
  <2>3. Walk!Metered(walking, e).maxDrawdown = walking.maxDrawdown
    <3>1. Walk!Larger(walking.metricPeak, e) = walking.metricPeak
      BY <1>5, <2>2 DEF Walk!Larger
    <3>2. Walk!FallPercent(walking.metricPeak, e) \in Int
      BY <1>5, <1>9, <2>2, FallIsPercent
    <3>3. Walk!Larger(walking.maxDrawdown, Walk!FallPercent(walking.metricPeak, e))
            = walking.maxDrawdown
      BY <2>2, <3>2 DEF Walk!Larger
    <3>4. Walk!Metered(walking, e) =
            [walking EXCEPT !.metricPeak = walking.metricPeak,
                            !.maxDrawdown = walking.maxDrawdown]
      BY <3>1, <3>3 DEF Walk!Metered
    <3> QED
      BY <1>1, <3>4 DEF Walks
  <2>4. walking' = [walking EXCEPT !.status = "ended"] /\ "ended" \in Phases
    <3>1. walking = [walking EXCEPT !.maxDrawdown = walking.maxDrawdown]
      BY <1>1 DEF Walks
    <3> QED
      BY <1>1, <1>9, <2>3, <3>1 DEF Walks, Phases
  <2>5. /\ SameRun(walking, walking') /\ Agrees(walking') /\ Begun(walking', market')
        /\ FrozenStep
    BY <1>7, <2>4
  <2>6. EmittedInv'
    <3> DEFINE p == Walk!Observation(walking, market)
               E == Walk!EquityOf(market)
               d == Walk!Metered(walking, E).maxDrawdown
    <3>1. /\ p.protocol = "v1" /\ p.fold = ThisFold
          /\ p.window = [start |-> FirstSession, end |-> FinalSession]
          /\ p.metrics.startingEquity = walking.startingEquity /\ p.metrics.endingEquity = E
          /\ p.metrics.benchmarkStart = walking.benchmarkStart
          /\ p.metrics.benchmarkEnd = walking.benchmarkEnd
          /\ p.metrics.totalReturn = Walk!Return(walking.startingEquity, E)
          /\ p.metrics.benchmarkReturn = Walk!Return(walking.benchmarkStart, walking.benchmarkEnd)
          /\ p.metrics.excessReturn = Walk!Minus(p.metrics.totalReturn, p.metrics.benchmarkReturn)
          /\ p.metrics.drawdown = d
          /\ p.metrics.fees = walking.fees /\ p.metrics.orders = walking.orders
          /\ p.metrics.fills = walking.fills /\ p.metrics.rejected = walking.rejected
      BY DEF Walk!Observation
    <3>2. /\ p.state.completion = "completed" /\ p.state.warmup = (walking.status = "warm")
          /\ p.state.finalClose = walking.finalClose
          /\ p.state.reasons = walking.guard.reasons
          /\ p.state.halted = Walk!Halted(walking.guard)
          /\ p.state.first = walking.first /\ p.state.last = walking.last
          /\ p.state.quantity = market.quantity
          /\ p.state.position = IF market.quantity > 0 THEN "long" ELSE "cash"
      BY DEF Walk!Observation
    <3> HIDE DEF p, E, d
    <3>3. E = e /\ d = walking.maxDrawdown
      BY <1>5, <2>3 DEF E, d
    <3>4. Walk!MetricsInRange(p.metrics)
      <4>1. /\ walking.fees \in Nat /\ walking.orders \in Nat /\ walking.fills \in Nat
            /\ walking.rejected \in Nat
        BY <1>1, WalkTyped
      <4>2. \A price \in Dollars : price > 0
        BY LeanFacts
      <4>3. Capital > 0
        BY LeanFacts
      <4> QED
        BY <1>9, <2>2, <3>1, <3>3, <4>1, <4>2, <4>3 DEF Walk!MetricsInRange
    <3>5. Walk!IdentitiesHold(p.metrics)
      <4>1. \A x : Walk!SameFraction(x, x)
        BY DEF Walk!SameFraction
      <4> QED
        BY <2>2, <3>1, <4>1 DEF Walk!IdentitiesHold
    <3>6. Walk!StateAccepted(p.state, p.window)
      <4>1. walking.guard.reasons \subseteq Walk!HaltReasons
        <5>1. walking.guard \in Guards
          BY <1>1, WalkTyped
        <5> QED
          BY <5>1, OneGuard DEF Guards
      <4>2. /\ FirstSession <= walking.first /\ walking.first <= walking.last
            /\ walking.last <= FinalSession
        BY <2>1, <2>2, LeanFacts DEF Recorded, Sessions
      <4>3. market.quantity \in Nat
        BY <1>1, AccountTyped
      <4>4. p.window.start = FirstSession /\ p.window.end = FinalSession
        BY <3>1
      <4>5. p.state.halted <=> p.state.reasons # {}
        BY <3>2 DEF Walk!Halted
      <4>6. /\ p.state.quantity >= 0 /\ p.state.position \in {"cash", "long"}
            /\ p.state.position = "cash" <=> p.state.quantity = 0
        BY <3>2, <4>3
      <4> QED
        BY <1>1, <2>1, <3>2, <4>1, <4>2, <4>4, <4>5, <4>6 DEF Walk!StateAccepted
    <3>7. Walk!IsFold(p.fold)
      <4>1. DOMAIN <<ThisFold>> = {1} /\ <<ThisFold>>[1] = ThisFold
        OBVIOUS
      <4> QED
        BY <3>1, <4>1 DEF Walk!IsFold
    <3>8. Walk!Accepted(p)
      BY <3>1, <3>4, <3>5, <3>6, <3>7 DEF Walk!Accepted
    <3> QED
      BY <1>9, <2>2, <3>2, <3>8 DEF EmittedInv, p
  <2> QED
    BY <1>2, <1>4, <2>5, <2>6 DEF WalkInv, SameRun
<1> QED
  BY <1>6, <1>8, <1>9

LEMMA WalkStep ==
    ASSUME WalkInv, Walk!Next \/ UNCHANGED <<market, walking, emitted>>
    PROVE  WalkInv' /\ FrozenStep
BY WalkQuietSteps, WalkBar, WalkFilled, WalkEnds DEF Walk!Next

(***************************************************************************)
(* The preserved draft may have any number of orders open.  That what the  *)
(* cancellations leave of them is a list of orders again takes an          *)
(* induction along the list.                                               *)
(***************************************************************************)
\* A function of the numbers up to n may be defined by its value at 0 and a step
\* from each value to the next: there is one that the definition unrolls to.
StepsOf(n, V) == [(1 .. n) \X V -> V]

Unrolls(f, n, V, base, turn) ==
    /\ f \in [0 .. n -> V]
    /\ \A i \in 0 .. n : f[i] = IF i = 0 THEN base ELSE turn[<<i, f[i - 1]>>]

LEMMA Recursion ==
    ASSUME NEW n \in Nat, NEW V, NEW base \in V, NEW turn \in StepsOf(n, V)
    PROVE  \E f : Unrolls(f, n, V, base, turn)
<1> DEFINE Good(f, m) == \A i \in 0 .. m : f[i] = IF i = 0 THEN base ELSE turn[<<i, f[i - 1]>>]
           T == {m \in 0 .. n : \E f \in [0 .. n -> V] : Good(f, m)}
<1>1. 0 \in T
  <2>1. [i \in 0 .. n |-> base] \in [0 .. n -> V] /\ Good([i \in 0 .. n |-> base], 0)
    OBVIOUS
  <2> HIDE DEF Good
  <2>2. 0 \in 0 .. n
    OBVIOUS
  <2> QED
    BY <2>1, <2>2
<1>2. ASSUME NEW m \in 1 .. n, m - 1 \in T
      PROVE  m \in T
  <2>1. PICK f \in [0 .. n -> V] : Good(f, m - 1)
    BY <1>2
  <2>2. m - 1 \in 0 .. n /\ f[m - 1] \in V /\ turn[<<m, f[m - 1]>>] \in V
    BY <2>1 DEF StepsOf
  <2> DEFINE g == [f EXCEPT ![m] = turn[<<m, f[m - 1]>>]]
  <2>3. g \in [0 .. n -> V] /\ g[m] = turn[<<m, f[m - 1]>>] /\ \A i \in 0 .. n \ {m} : g[i] = f[i]
    BY <2>1, <2>2
  <2> HIDE DEF g
  <2>4. ASSUME NEW i \in 0 .. m
        PROVE  g[i] = IF i = 0 THEN base ELSE turn[<<i, g[i - 1]>>]
    <3>1. CASE i = m
      <4>1. g[m - 1] = f[m - 1] /\ i # 0
        BY <2>2, <2>3, <3>1
      <4> QED
        BY <2>3, <3>1, <4>1
    <3>2. CASE i # m /\ i = 0
      <4>1. 0 \in 0 .. m - 1 /\ 0 \in 0 .. n \ {m}
        OBVIOUS
      <4>2. f[0] = base
        BY <2>1, <4>1
      <4> QED
        BY <2>3, <3>2, <4>1, <4>2
    <3>3. CASE i # m /\ i # 0
      <4>1. i \in 0 .. m - 1 /\ i \in 0 .. n \ {m} /\ i - 1 \in 0 .. n \ {m}
        BY <3>3
      <4>2. g[i] = f[i] /\ g[i - 1] = f[i - 1]
        BY <2>3, <4>1
      <4> QED
        BY <2>1, <3>3, <4>1, <4>2
    <3> QED
      BY <3>1, <3>2, <3>3
  <2>5. Good(g, m)
    BY <2>4
  <2> HIDE DEF Good
  <2> QED
    BY <2>3, <2>5
<1>3. n \in T
  <2>1. n \in 0 .. n
    OBVIOUS
  <2> HIDE DEF T
  <2> QED
    BY <1>1, <1>2, <2>1, UpTo
<1>4. PICK f \in [0 .. n -> V] : Good(f, n)
  BY <1>3
<1> QED
  BY <1>4 DEF Unrolls

Orders == Seq(Order)

LEMMA OrdersAreLists ==
    /\ <<>> \in Orders
    /\ \A s \in Orders, o \in Order : Append(s, o) \in Orders
    /\ \A s \in Orders : Len(s) \in Nat /\ DOMAIN s = 1 .. Len(s)
                           /\ \A i \in 1 .. Len(s) : s[i] \in Order
<1>1. ASSUME NEW S
      PROVE  /\ <<>> \in Seq(S) /\ \A s \in Seq(S), o \in S : Append(s, o) \in Seq(S)
             /\ \A s \in Seq(S) : Len(s) \in Nat /\ DOMAIN s = 1 .. Len(s)
                                   /\ \A i \in 1 .. Len(s) : s[i] \in S
  OBVIOUS
<1> QED
  BY <1>1, Zenon DEF Orders

LEMMA StandingIsAList ==
    ASSUME NEW s \in Orders
    PROVE  Legacy!Standing(s) \in Orders
<1> DEFINE N == Len(s)
           turn == [p \in (1 .. N) \X Orders |->
                      IF s[p[1]].cancelling THEN p[2] ELSE Append(p[2], s[p[1]])]
           Body(f, n) == IF n = 0 THEN <<>>
                         ELSE IF s[n].cancelling THEN f[n - 1] ELSE Append(f[n - 1], s[n])
           kept == CHOOSE f : f = [n \in 0 .. N |-> Body(f, n)]
<1>1. N \in Nat /\ \A n \in 1 .. N : s[n] \in Order
  BY OrdersAreLists
<1>2. Legacy!Standing(s) = kept[N]
  BY DEF Legacy!Standing
<1>3. turn \in StepsOf(N, Orders)
  <2> SUFFICES ASSUME NEW p \in (1 .. N) \X Orders
               PROVE  (IF s[p[1]].cancelling THEN p[2] ELSE Append(p[2], s[p[1]])) \in Orders
    BY DEF StepsOf
  <2>1. p[1] \in 1 .. N /\ p[2] \in Orders
    OBVIOUS
  <2> QED
    BY <1>1, <2>1, OrdersAreLists
<1> HIDE DEF N
<1>4. PICK f : Unrolls(f, N, Orders, <<>>, turn)
  <2> HIDE DEF turn
  <2> QED
    BY <1>1, <1>3, Recursion, OrdersAreLists
<1>5. ASSUME NEW n \in 0 .. N PROVE f[n] = Body(f, n)
  <2>1. CASE n = 0
    BY <1>4, <2>1 DEF Unrolls
  <2>2. CASE n # 0
    <3>1. n \in 1 .. N /\ n - 1 \in 0 .. N
      BY <1>1, <2>2
    <3>2. f[n - 1] \in Orders /\ f[n] = turn[<<n, f[n - 1]>>]
      <4> HIDE DEF turn
      <4> QED
        BY <1>4, <2>2, <3>1 DEF Unrolls
    <3>3. turn[<<n, f[n - 1]>>]
            = IF s[n].cancelling THEN f[n - 1] ELSE Append(f[n - 1], s[n])
      <4>1. <<n, f[n - 1]>> \in (1 .. N) \X Orders
        BY <3>1, <3>2
      <4> QED
        BY <4>1
    <3> QED
      BY <2>2, <3>2, <3>3
  <2> QED
    BY <2>1, <2>2
<1>6. f = [n \in 0 .. N |-> Body(f, n)]
  BY <1>4, <1>5 DEF Unrolls
<1>7. kept = [n \in 0 .. N |-> Body(kept, n)]
  <2> HIDE DEF Body
  <2> QED
    BY <1>6
<1> HIDE DEF kept
<1>8. \A n \in 0 .. N : kept[n] = Body(kept, n)
  BY <1>7
<1>9. 0 \in 0 .. N /\ \A n \in 1 .. N : n \in 0 .. N /\ n # 0
  BY <1>1
<1> DEFINE T == {n \in 0 .. N : kept[n] \in Orders}
<1>10. \A n \in 0 .. N : n \in T
  <2>1. 0 \in T
    BY <1>8, <1>9, OrdersAreLists
  <2>2. ASSUME NEW n \in 1 .. N, n - 1 \in T PROVE n \in T
    BY <1>1, <1>8, <1>9, <2>2, OrdersAreLists
  <2> HIDE DEF T
  <2> QED
    BY <1>1, <2>1, <2>2, UpTo
<1> QED
  BY <1>1, <1>2, <1>10

\* What a draft's market is, and that a bar of a day is seen once.
Markets == [day : Nat, at : {"open", "close"}, mark : Dollars, cash : Int, quantity : Int,
            orders : Orders]
Drafts == [closes : Closes, session : Nat, startOfDay : Int, equity : Int, peak : Int,
           halted : BOOLEAN]

LegacyInv ==
    /\ market \in Markets /\ legacy \in Drafts
    /\ legacy.session <= market.day /\ (market.at = "open" => legacy.session < market.day)

\* What a bar of a halted run does.
SellingStep ==
    market.at = "open" /\ market'.at = "close" /\ legacy'.session = market.day
      /\ legacy'.halted /\ market.quantity # 0 =>
        \E i \in DOMAIN market'.orders :
           /\ market'.orders[i] = [left |-> -market.quantity, cancelling |-> FALSE]
           /\ \A j \in DOMAIN market'.orders \ {i} : market'.orders[j].cancelling

LEMMA ListsOfOrders ==
    ASSUME NEW s \in Orders, NEW i \in 1 .. Len(s)
    PROVE  /\ Legacy!Without(s, i) \in Orders
           /\ \A left \in Int : [s EXCEPT ![i].left = left] \in Orders
<1>1. ASSUME NEW S, NEW t \in Seq(S), NEW k \in 1 .. Len(t)
      PROVE  /\ SubSeq(t, 1, k - 1) \o SubSeq(t, k + 1, Len(t)) \in Seq(S)
             /\ \A x \in S : [t EXCEPT ![k] = x] \in Seq(S)
  <2>1. SubSeq(t, 1, k - 1) \in Seq(S) /\ SubSeq(t, k + 1, Len(t)) \in Seq(S)
    <3>1. k \in Int /\ Len(t) \in Nat /\ k >= 1 /\ k <= Len(t)
      OBVIOUS
    <3>2. \A a, b \in Int : (a >= 1 /\ b <= Len(t)) => SubSeq(t, a, b) \in Seq(S)
      BY SubSeqProperties
    <3> QED
      BY <3>1, <3>2
  <2> QED
    BY <2>1
<1>2. s \in Seq(Order) /\ s[i] \in Order /\ DOMAIN s = 1 .. Len(s) /\ Len(s) \in Nat
  BY OrdersAreLists DEF Orders
<1>3. Legacy!Without(s, i) \in Orders
  BY <1>1, <1>2 DEF Legacy!Without, Orders
<1>4. ASSUME NEW left \in Int PROVE [s EXCEPT ![i].left = left] \in Orders
  <2>1. [s[i] EXCEPT !.left = left] \in Order
    BY <1>2 DEF Order
  <2>2. [s EXCEPT ![i].left = left] = [s EXCEPT ![i] = [s[i] EXCEPT !.left = left]]
    OBVIOUS
  <2> QED
    BY <1>1, <1>2, <2>1, <2>2 DEF Orders
<1> QED
  BY <1>3, <1>4

LEMMA CancelledIsAList ==
    ASSUME NEW s \in Orders
    PROVE  /\ [j \in DOMAIN s |-> [s[j] EXCEPT !.cancelling = TRUE]] \in Orders
           /\ DOMAIN [j \in DOMAIN s |-> [s[j] EXCEPT !.cancelling = TRUE]] = DOMAIN s
           /\ \A j \in DOMAIN s : [s[j] EXCEPT !.cancelling = TRUE].cancelling
<1>1. \A j \in 1 .. Len(s) : /\ [s[j] EXCEPT !.cancelling = TRUE] \in Order
                             /\ [s[j] EXCEPT !.cancelling = TRUE].cancelling
  BY OrdersAreLists, ZenonT(60) DEF Order
<1>2. ASSUME NEW S, NEW n \in Nat, NEW g, \A j \in 1 .. n : g[j] \in S
      PROVE  [j \in 1 .. n |-> g[j]] \in Seq(S)
  BY <1>2
<1>3. Len(s) \in Nat /\ DOMAIN s = 1 .. Len(s)
  BY OrdersAreLists
<1> DEFINE g == [j \in 1 .. Len(s) |-> [s[j] EXCEPT !.cancelling = TRUE]]
<1>4. /\ \A j \in 1 .. Len(s) : g[j] \in Order
      /\ g = [j \in 1 .. Len(s) |-> g[j]]
      /\ g = [j \in DOMAIN s |-> [s[j] EXCEPT !.cancelling = TRUE]]
  BY <1>1, <1>3
<1> HIDE DEF g
<1>5. g \in Seq(Order)
  BY <1>2, <1>3, <1>4
<1> QED
  BY <1>1, <1>3, <1>4, <1>5 DEF Orders

LEMMA LegacyInit == Legacy!Init => LegacyInv
<1> SUFFICES ASSUME Legacy!Init PROVE LegacyInv
  OBVIOUS
<1>1. PICK price \in Dollars :
         market = [day |-> 0, at |-> "close", mark |-> price, cash |-> Capital,
                   quantity |-> 0, orders |-> <<>>]
  BY DEF Legacy!Init, Legacy!InitMarket
<1>2. <<>> \in Orders /\ Capital \in Int /\ <<>> \in Closes
  BY OrdersAreLists, LeanFacts DEF Closes
<1>3. market \in Markets /\ market.day = 0 /\ market.at = "close"
  BY <1>1, <1>2 DEF Markets
<1>4. legacy \in Drafts /\ legacy.session = 0
  BY <1>2 DEF Legacy!Init, Drafts
<1> QED
  BY <1>3, <1>4 DEF LegacyInv

LEMMA LegacyMarketSteps ==
    ASSUME LegacyInv, \/ Legacy!MarketOpens \/ Legacy!CancellationArrives \/ Legacy!NoBar
                      \/ UNCHANGED <<market, legacy, before>>
    PROVE  LegacyInv' /\ SellingStep
<1>1. /\ market \in Markets /\ legacy \in Drafts /\ legacy' = legacy
      /\ legacy.session <= market.day /\ (market.at = "open" => legacy.session < market.day)
  BY DEF LegacyInv, Legacy!MarketOpens, Legacy!CancellationArrives, Legacy!NoBar
<1>2. /\ market.day \in Nat /\ market.at \in {"open", "close"} /\ market.orders \in Orders
      /\ legacy.session \in Nat
  BY <1>1 DEF Markets, Drafts
<1>3. Legacy!Standing(market.orders) \in Orders
  BY <1>2, StandingIsAList
<1>4. CASE Legacy!MarketOpens
  <2>1. PICK price \in Dollars : Legacy!Open(price)
    BY <1>4 DEF Legacy!MarketOpens
  <2>2. market' = [market EXCEPT !.day = @ + 1, !.at = "open", !.mark = price,
                                !.orders = Legacy!Standing(@)]
    BY <2>1 DEF Legacy!Open
  <2>3. market' \in Markets /\ market'.day = market.day + 1 /\ market'.at = "open"
    <3>1. market.day + 1 \in Nat
      BY <1>2
    <3> QED
      BY <1>1, <1>2, <1>3, <2>1, <2>2, <3>1 DEF Markets
  <2> QED
    BY <1>1, <1>2, <2>3 DEF LegacyInv, SellingStep
<1>5. CASE Legacy!CancellationArrives
  <2>1. market' = [market EXCEPT !.orders = Legacy!Standing(@)]
    BY <1>5 DEF Legacy!CancellationArrives, Legacy!Confirm
  <2>2. market' \in Markets /\ market'.day = market.day /\ market'.at = market.at
    BY <1>1, <1>3, <2>1 DEF Markets
  <2> QED
    BY <1>1, <2>2 DEF LegacyInv, SellingStep
<1>6. CASE Legacy!NoBar
  <2>1. market' = [market EXCEPT !.at = "close"]
    BY <1>6 DEF Legacy!NoBar
  <2>2. market' \in Markets /\ market'.day = market.day /\ market'.at = "close"
    BY <1>1, <2>1 DEF Markets
  <2>3. SellingStep
    BY <1>1, <1>2 DEF SellingStep
  <2> QED
    BY <1>1, <2>2, <2>3 DEF LegacyInv
<1>7. CASE UNCHANGED <<market, legacy, before>>
  BY <1>1, <1>7 DEF LegacyInv, SellingStep
<1> QED
  BY <1>4, <1>5, <1>6, <1>7

LEMMA LegacyFilled ==
    ASSUME LegacyInv, Legacy!Filled
    PROVE  LegacyInv' /\ SellingStep
<1>1. /\ market \in Markets /\ legacy \in Drafts /\ legacy' = legacy /\ market.at = "open"
      /\ legacy.session <= market.day /\ (market.at = "open" => legacy.session < market.day)
  BY DEF LegacyInv, Legacy!Filled
<1>2. PICK i \in Legacy!Live, fee \in Charges : \E shares \in Legacy!Part(i) :
         market' = Legacy!AfterFill(i, shares, fee)
  BY DEF Legacy!Filled
<1>3. PICK shares \in Legacy!Part(i) : market' = Legacy!AfterFill(i, shares, fee)
  BY <1>2
<1> DEFINE s == market.orders
<1>4. /\ s \in Orders /\ i \in 1 .. Len(s) /\ s[i] \in Order
      /\ market.cash \in Int /\ market.quantity \in Int /\ market.mark \in Dollars
  <2>1. i \in DOMAIN s
    BY DEF Legacy!Live
  <2>2. /\ s \in Orders /\ market.cash \in Int /\ market.quantity \in Int
        /\ market.mark \in Dollars
    BY <1>1 DEF Markets
  <2> QED
    BY <2>1, <2>2, OrdersAreLists
<1>5. s[i].left \in Int /\ shares \in Int
  <2>1. s[i].left \in Int
    BY <1>4 DEF Order
  <2> QED
    BY <2>1 DEF Legacy!Part
<1>6. Legacy!Worked(s, i, shares) \in Orders
  <2>1. s[i].left - shares \in Int
    BY <1>5
  <2>2. [s EXCEPT ![i].left = s[i].left - shares] \in Orders
    BY <1>4, <2>1, ListsOfOrders
  <2>3. Legacy!Without(s, i) \in Orders
    BY <1>4, ListsOfOrders
  <2> QED
    BY <2>2, <2>3 DEF Legacy!Worked
<1>7. market.cash - shares * market.mark - fee \in Int /\ market.quantity + shares \in Int
  <2>1. market.mark \in Int /\ fee \in Int
    <3>1. Dollars \subseteq Int /\ Charges \subseteq Int
      BY LeanFacts
    <3> QED
      BY <1>4, <3>1
  <2>2. shares * market.mark \in Int
    BY <1>5, <2>1
  <2> QED
    BY <1>4, <1>5, <2>1, <2>2
<1>8. market' \in Markets /\ market'.day = market.day /\ market'.at = market.at
  <2>1. market' = [market EXCEPT !.cash = market.cash - shares * market.mark - fee,
                                 !.quantity = market.quantity + shares,
                                 !.orders = Legacy!Worked(s, i, shares)]
    BY <1>3 DEF Legacy!AfterFill
  <2> QED
    BY <1>1, <1>6, <1>7, <2>1 DEF Markets
<1> QED
  BY <1>1, <1>8 DEF LegacyInv, SellingStep

LEMMA LegacyBar ==
    ASSUME LegacyInv, Legacy!OnData
    PROVE  LegacyInv' /\ SellingStep
<1>1. /\ market \in Markets /\ legacy \in Drafts /\ market.at = "open"
      /\ legacy.session < market.day
  BY DEF LegacyInv, Legacy!OnData
<1>2. PICK close \in Dollars :
         LET m == [market EXCEPT !.at = "close", !.mark = close]
             seen == [legacy EXCEPT !.closes = Legacy!Recent(Append(@, close))]
             a == Legacy!Updated(seen, m.day, Legacy!EquityOf(m))
         IN  IF m.day < FirstSession
             THEN legacy' = seen /\ market' = m /\ UNCHANGED before
             ELSE legacy' = a /\ market' = Legacy!Decide(a, m) /\ before' = legacy.equity
  BY DEF Legacy!OnData
<1> DEFINE m == [market EXCEPT !.at = "close", !.mark = close]
           seen == [legacy EXCEPT !.closes = Legacy!Recent(Append(@, close))]
           e == Legacy!EquityOf(m)
           a == Legacy!Updated(seen, m.day, e)
<1>3. /\ m \in Markets /\ m.at = "close" /\ m.day = market.day /\ m.orders = market.orders
      /\ m.quantity = market.quantity /\ m.mark = close /\ m.cash = market.cash
  BY <1>1 DEF Markets
<1>4. /\ m.day \in Nat /\ m.orders \in Orders /\ m.quantity \in Int /\ m.cash \in Int
      /\ close \in Nat \ {0}
  <2>1. m.day \in Nat /\ m.orders \in Orders /\ m.quantity \in Int /\ m.cash \in Int
    BY <1>1, <1>3 DEF Markets
  <2> QED
    BY <2>1, LeanFacts
<1>5. seen \in Drafts /\ seen.session = legacy.session
  <2>1. Legacy!Recent(Append(legacy.closes, close)) \in Closes
    <3>1. legacy.closes \in Seq(Dollars)
      BY <1>1 DEF Drafts, Closes
    <3>2. \A c : Legacy!Recent(c) = Baseline!Recent(c)
      BY DEF Legacy!Recent, Baseline!Recent
    <3> QED
      BY <3>1, <3>2, ClosesKept DEF Closes
  <2> QED
    BY <1>1, <2>1 DEF Drafts
<1> HIDE DEF m, seen
<1>6. e \in Int
  BY <1>3, <1>4 DEF Legacy!EquityOf
<1> HIDE DEF e
<1>7. a \in Drafts /\ a.session = m.day
  <2> DEFINE base == IF seen.session # m.day THEN e ELSE seen.startOfDay
             peak == Legacy!Larger(seen.peak, e)
             stops == seen.halted \/ Legacy!FallPercent(base, e) >= DailyLimit
                                 \/ Legacy!FallPercent(peak, e) >= DeclineLimit
  <2>1. base \in Int /\ peak \in Int
    BY <1>5, <1>6 DEF Drafts, Legacy!Larger
  <2>2. stops \in BOOLEAN
    OBVIOUS
  <2>3. a = [seen EXCEPT !.session = m.day, !.startOfDay = base, !.equity = e, !.peak = peak,
                         !.halted = stops]
    BY DEF Legacy!Updated
  <2> HIDE DEF base, peak, stops
  <2> QED
    BY <1>4, <1>5, <1>6, <2>1, <2>2, <2>3 DEF Drafts
<1> DEFINE c == Legacy!Cancelled(m)
           n == Legacy!Decide(a, m)
<1>8. /\ c \in Markets /\ c.day = m.day /\ c.at = m.at /\ c.orders \in Orders
      /\ \A j \in DOMAIN c.orders : c.orders[j].cancelling
  <2> DEFINE s == [j \in DOMAIN m.orders |-> [m.orders[j] EXCEPT !.cancelling = TRUE]]
  <2>1. /\ s \in Orders /\ DOMAIN s = DOMAIN m.orders
        /\ \A j \in DOMAIN m.orders : s[j] = [m.orders[j] EXCEPT !.cancelling = TRUE]
                                     /\ s[j].cancelling
    <3>1. \A j \in DOMAIN m.orders : s[j] = [m.orders[j] EXCEPT !.cancelling = TRUE]
      OBVIOUS
    <3> QED
      BY <1>4, <3>1, CancelledIsAList
  <2>2. c = [m EXCEPT !.orders = s]
    BY DEF Legacy!Cancelled
  <2> HIDE DEF s
  <2> QED
    BY <1>3, <2>1, <2>2 DEF Markets
<1>9. ASSUME NEW k \in Markets, NEW x \in Int, NEW sent, sent = Legacy!Submitted(k, x)
      PROVE  /\ sent \in Markets /\ sent.day = k.day /\ sent.at = k.at
             /\ sent.orders = Append(k.orders, [left |-> x, cancelling |-> FALSE])
  <2> DEFINE o == [left |-> x, cancelling |-> FALSE]
  <2>1. o \in Order /\ k.orders \in Orders
    BY DEF Order, Markets
  <2> HIDE DEF o
  <2>2. Append(k.orders, o) \in Orders
    BY <2>1, OrdersAreLists
  <2>3. sent = [k EXCEPT !.orders = Append(k.orders, o)]
    BY <1>9 DEF Legacy!Submitted, o
  <2> QED
    BY <2>2, <2>3 DEF Markets, o
<1>10. Legacy!OrderQuantityOf(m, LongWeight) \in Int
  <2>1. LongWeight * e \in Int /\ 100 * m.mark \in Nat \ {0}
    BY <1>3, <1>4, <1>6, LeanFacts
  <2>2. \A p \in Int, q \in Nat \ {0} : p \div q \in Int
    OBVIOUS
  <2>3. (LongWeight * e) \div (100 * m.mark) \in Int
    BY <2>1, <2>2
  <2> QED
    BY <1>4, <2>3 DEF Legacy!OrderQuantityOf, e
<1>11. -m.quantity \in Int
  BY <1>4
<1>12. n \in {m, Legacy!Submitted(c, -m.quantity),
               Legacy!Submitted(m, Legacy!OrderQuantityOf(m, LongWeight))}
  BY DEF Legacy!Decide, Legacy!Liquidate, Legacy!SetHoldings
<1>13. a.halted /\ m.quantity # 0 => n = Legacy!Submitted(c, -m.quantity)
  BY DEF Legacy!Decide, Legacy!Liquidate
<1> HIDE DEF c, n, a
<1>14. n \in Markets /\ n.day = m.day /\ n.at = m.at
  BY <1>3, <1>8, <1>9, <1>10, <1>11, <1>12
<1>15. \/ m.day < FirstSession /\ legacy' = seen /\ market' = m
       \/ legacy' = a /\ market' = n
  BY <1>2 DEF m, seen, a, n, e
<1>16. CASE legacy' = seen /\ market' = m
  <2>1. legacy.session \in Nat
    BY <1>1 DEF Drafts
  <2>2. SellingStep
    BY <1>1, <1>3, <1>4, <1>5, <1>16, <2>1 DEF SellingStep
  <2> QED
    BY <1>1, <1>3, <1>4, <1>5, <1>16, <2>1, <2>2 DEF LegacyInv
<1>17. CASE legacy' = a /\ market' = n
  <2>1. ASSUME a.halted, m.quantity # 0
        PROVE  \E i \in DOMAIN n.orders :
                  /\ n.orders[i] = [left |-> -m.quantity, cancelling |-> FALSE]
                  /\ \A j \in DOMAIN n.orders \ {i} : n.orders[j].cancelling
    <3> DEFINE o == [left |-> -m.quantity, cancelling |-> FALSE]
    <3>1. n.orders = Append(c.orders, o)
      BY <1>8, <1>9, <1>11, <1>13, <2>1
    <3>2. ASSUME NEW S, NEW t \in Seq(S), NEW x, NEW u, u = Append(t, x)
          PROVE  /\ DOMAIN t = 1 .. Len(t) /\ DOMAIN u = 1 .. Len(t) + 1 /\ Len(t) \in Nat
                 /\ u[Len(t) + 1] = x /\ \A j \in 1 .. Len(t) : u[j] = t[j]
      BY <3>2
    <3> DEFINE N == Len(c.orders)
    <3> HIDE DEF o
    <3>3. /\ DOMAIN c.orders = 1 .. N /\ DOMAIN n.orders = 1 .. N + 1 /\ N \in Nat
          /\ n.orders[N + 1] = o /\ \A j \in 1 .. N : n.orders[j] = c.orders[j]
      BY <1>8, <3>1, <3>2 DEF Orders
    <3> HIDE DEF N
    <3>4. N + 1 \in DOMAIN n.orders
      BY <3>3
    <3>5. \A j \in DOMAIN n.orders \ {N + 1} : j \in 1 .. N
      BY <3>3
    <3> QED
      BY <1>8, <3>3, <3>4, <3>5 DEF o
  <2>2. SellingStep
    BY <1>3, <1>17, <2>1 DEF SellingStep
  <2> QED
    BY <1>3, <1>4, <1>7, <1>14, <1>17, <2>2 DEF LegacyInv
<1> QED
  BY <1>15, <1>16, <1>17

LEMMA LegacyStep ==
    ASSUME LegacyInv, Legacy!Next \/ UNCHANGED <<market, legacy, before>>
    PROVE  LegacyInv' /\ SellingStep
BY LegacyMarketSteps, LegacyFilled, LegacyBar DEF Legacy!Next

-----------------------------------------------------------------------------
(***************************************************************************)
(* The parity fixture.  Its amounts are exact, so rounding to a quantum    *)
(* changes nothing but a fee.                                              *)
(***************************************************************************)
Weights == {0, TargetWeight}

LEMMA ContractFacts ==
    /\ Quantum = 1 /\ MinimumFee = 0
    /\ BpsScale \in Nat \ {0} /\ FeeBps \in Nat /\ SlippageBps \in Nat
    /\ FeeBps + SlippageBps < BpsScale
    /\ WeightScale \in Nat \ {0} /\ WeightScale <= BpsScale
    /\ Prices \subseteq Nat \ {0} /\ InitialCash \in Nat \ {0}
    /\ TargetWeight \in Nat \ {0} /\ TargetWeight < MaxTotalExposure
    /\ MaxTotalExposure \in Nat /\ MaxTotalExposure <= WeightScale
    /\ TargetWeight = MaxPosition /\ MaxOrderNotional = TargetWeight
    /\ Weights \subseteq Fraction
    /\ Buy # Sell
<1>1. MaxPosition \in Fraction /\ MaxTotalExposure \in Fraction
  BY ProposalAssumption
<1>2. TargetWeight \in 1 .. 100
  BY SignalAssumption
<1> QED
  BY <1>1, <1>2, MoneyAssumption, FixtureAssumption DEF Fraction, Weights, Buy, Sell

\* A whole number is its own rounding.
LEMMA ExactMoney ==
    ASSUME NEW raw \in Int
    PROVE  MoneyOf(raw) = raw
<1>1. raw \div 1 = raw /\ raw % 1 = 0
  BY Z3
<1>2. RoundHalfEven(raw, 1) = raw
  BY <1>1 DEF RoundHalfEven
<1> QED
  BY <1>2, ContractFacts DEF MoneyOf

\* A holding is worth its price, to the unit.
LEMMA ExactValue ==
    ASSUME NEW quantity \in Nat, NEW ticks \in Nat \ {0}
    PROVE  /\ MarketValue(quantity, ticks) = quantity * (ticks * BpsScale)
           /\ MarketValue(quantity, ticks) \in Nat
           /\ quantity > 0 => MarketValue(quantity, ticks) >= BpsScale
<1>1. ticks * BpsScale \in Nat \ {0} /\ ticks * BpsScale >= BpsScale
  BY ContractFacts, Z3
<1> DEFINE price == ticks * BpsScale
<1> HIDE DEF price
<1>2. price \in Nat \ {0} /\ price >= BpsScale
  BY <1>1 DEF price
<1>3. quantity * price \in Nat /\ (quantity > 0 => quantity * price >= price)
  BY <1>2, Z3
<1>4. MarketValue(quantity, ticks) = quantity * price
  BY <1>3, ExactMoney DEF MarketValue, ReferencePrice, price
<1> QED
  BY <1>2, <1>3, <1>4, ContractFacts DEF price

\* The estimated fee is within half a quantum of the exact one.
LEMMA FeeNear ==
    ASSUME NEW notional \in Nat
    PROVE  /\ TradeFee(notional) \in Nat
           /\ TradeFee(notional) = RoundHalfEven(notional * FeeBps, BpsScale)
           /\ Within(BpsScale * TradeFee(notional) - notional * FeeBps, BpsScale)
           /\ notional * FeeBps \in Nat
<1>1. notional * FeeBps \in Nat
  BY ContractFacts, Z3
<1>2. Larger(notional * FeeBps, MinimumFee * Quantum * BpsScale) = notional * FeeBps
  BY <1>1, ContractFacts DEF Larger
<1>3. Quantum * BpsScale = BpsScale
  BY ContractFacts
<1>4. TradeFee(notional) = RoundHalfEven(notional * FeeBps, BpsScale)
  BY <1>2, <1>3 DEF TradeFee
<1> QED
  BY <1>1, <1>4, FeeTyped, RoundedNear, ContractFacts

-----------------------------------------------------------------------------
(***************************************************************************)
(* Sizing.  The fixture's search and the engine's probe the same           *)
(* candidates with the same test.                                          *)
(***************************************************************************)
\* An account at an open that the fixture may size from.
SolventAt(a) == a.cash \in Nat /\ a.quantity \in Nat /\ (a.cash > 0 \/ a.quantity > 0)
Solvent == SolventAt(account)

\* An account that can be sized from is worth something at every open.
LEMMA SolventEquity ==
    ASSUME Solvent, NEW ticks \in Prices
    PROVE  EquityAt(account, ticks) \in Nat \ {0}
<1>1. ticks \in Nat \ {0}
  BY ContractFacts
<1>2. /\ MarketValue(account.quantity, ticks) \in Nat
      /\ account.quantity > 0 => MarketValue(account.quantity, ticks) >= BpsScale
  BY <1>1, ExactValue DEF Solvent, SolventAt
<1> QED
  BY <1>2, ContractFacts DEF EquityAt, Solvent, SolventAt

\* The fixture's test of a candidate and the engine's: there is no minimum fee and
\* the target is at the order limit, so what the fixture leaves out never decides.
LEMMA TestsAgree ==
    ASSUME Solvent, open \in Prices, NEW weight \in Weights, NEW units \in Nat,
           NEW equity, equity = EquityAt(account, open)
    PROVE  UnitsAreSafe(units, weight, equity)
              <=> CandidateIsSafe(units, account, open, weight, equity)
<1> DEFINE isBuy == units > account.quantity
           side  == IF isBuy THEN Buy ELSE Sell
           delta == Magnitude(units - account.quantity)
           notional == delta * ExecutionPrice(open, side)
           value == MarketValue(units, open)
<1>1. open \in Nat \ {0} /\ equity \in Nat
  BY ContractFacts, SolventEquity
<1>2. /\ delta \in Nat /\ (units = account.quantity => delta = 0)
      /\ side \in Sides
  BY DEF Magnitude, Solvent, SolventAt, Sides
<1>3. ExecutionPrice(open, side) \in Nat
  BY <1>1, <1>2, PricesTyped
<1>4. notional \in Nat /\ (delta = 0 => notional = 0)
  <2> DEFINE price == ExecutionPrice(open, side)
  <2>1. price \in Nat
    BY <1>3
  <2> HIDE DEF price, delta
  <2>2. delta * price \in Nat /\ (delta = 0 => delta * price = 0)
    BY <1>2, <2>1, Z3
  <2> QED
    BY <2>2 DEF price
<1>5. value \in Nat
  BY <1>1, ExactValue
<1> HIDE DEF delta, value
<1>6. MoneyOf(notional) = notional /\ TradeFee(notional) \in Nat
  BY <1>4, ExactMoney, FeeNear
<1>7. notional = 0 => TradeFee(notional) = 0
  <2>1. RoundHalfEven(0, BpsScale) = 0
    <3>1. 0 \div BpsScale = 0 /\ 0 % BpsScale = 0
      BY ContractFacts, Z3
    <3> QED
      BY <3>1, ContractFacts DEF RoundHalfEven
  <2>2. notional = 0 => notional * FeeBps = 0
    BY ContractFacts, Z3
  <2> QED
    BY <1>4, <2>1, <2>2, FeeNear
<1>8. ~(weight > MaxOrderNotional)
  BY ContractFacts DEF Weights
<1>9. MaxOrderNotional * equity * Quantum = MaxOrderNotional * equity
  <2>1. MaxOrderNotional * equity \in Int
    BY <1>1, ContractFacts, Z3
  <2> QED
    BY <2>1, ContractFacts
<1> DEFINE after == account.cash + value - TradeFee(notional)
                      + (IF isBuy THEN -MoneyOf(notional) ELSE MoneyOf(notional))
           projected == account.cash
                          + (IF isBuy THEN -MoneyOf(notional) - TradeFee(notional)
                             ELSE IF units < account.quantity
                               THEN MoneyOf(notional) - TradeFee(notional)
                             ELSE 0)
                          + value
<1>10. after = projected
  <2> HIDE DEF notional
  <2>1. ~isBuy /\ ~(units < account.quantity) => notional = 0
    BY <1>2, <1>4 DEF Solvent, SolventAt
  <2> QED
    BY <1>4, <1>5, <1>6, <1>7, <2>1 DEF Solvent, SolventAt
<1>11. UnitsAreSafe(units, weight, equity) <=>
          /\ after > 0 /\ value * WeightScale <= weight * after
          /\ isBuy => /\ notional * WeightScale <= MaxOrderNotional * equity
                      /\ value > 0 /\ notional > 0
  BY DEF UnitsAreSafe, delta, value
<1>12. CandidateIsSafe(units, account, open, weight, equity) <=>
          /\ projected > 0
          /\ value * WeightScale <= weight * projected
          /\ weight > MaxOrderNotional \/ ~isBuy
                \/ notional * WeightScale <= MaxOrderNotional * equity * Quantum
          /\ isBuy => value > 0 /\ MoneyOf(notional) > 0
  BY DEF CandidateIsSafe, delta, value
<1> HIDE DEF after, projected, isBuy, notional
<1> QED
  BY <1>6, <1>8, <1>9, <1>10, <1>11, <1>12

\* One search function that starts from nothing and one that starts from zero: the
\* second is the first with what it does not find as zero.
FromZero(f, safe, interval) ==
    LET low   == interval[1]
        high  == interval[2]
        units == (low + high) \div 2
    IN  IF low > high THEN 0
        ELSE IF units \in safe THEN Larger(units, f[<<units + 1, high>>])
        ELSE f[<<low, units - 1>>]

OrZero(g, best, first, last) ==
    \A interval \in Left(first, last) : g[interval] = Larger(0, best[interval])

\* Such a search is the fixture's.
LEMMA FromZeroFinds ==
    ASSUME NEW first \in Nat, NEW last \in Nat, first <= last,
           NEW safe \in SUBSET Nat,
           NEW best, IsBest(best, first, last, safe),
           NEW g, OrZero(g, best, first, last),
           NEW interval, interval \in Left(first, last)
    PROVE  g[interval] = FromZero(g, safe, interval)
<1> DEFINE D == Left(first, last)
<1>1. best[interval] = BestOf(best, safe, interval)
  BY DEF IsBest
<1>2. \A left \in D : best[left] \in Int
  <2>1. first \in Int /\ last \in Int /\ safe \subseteq Int
    OBVIOUS
  <2> SUFFICES ASSUME NEW left \in D PROVE best[left] \in Int
    OBVIOUS
  <2>2. best[left] = NoUnits \/ best[left] \in safe
    BY <2>1, BestIsSafe
  <2>3. NoUnits \in Int
    BY DEF NoUnits
  <2> QED
    BY <2>1, <2>2, <2>3
<1> DEFINE low == interval[1]
           high == interval[2]
           units == (low + high) \div 2
<1>3. low \in Int /\ high \in Int /\ low >= 0
  BY DEF Left
<1>o. g[interval] = Larger(0, best[interval])
  BY DEF OrZero
<1>4. CASE low > high
  <2>1. best[interval] = NoUnits
    BY <1>1, <1>4 DEF BestOf
  <2>2. FromZero(g, safe, interval) = 0
    BY <1>4 DEF FromZero
  <2> QED
    BY <2>1, <2>2, <1>o DEF NoUnits, Larger
<1>5. CASE low <= high
  <2>1. /\ units \in first .. last
        /\ <<units + 1, high>> \in D
        /\ <<low, units - 1>> \in D
    BY <1>5, ProbeShrinks
  <2> DEFINE up == <<units + 1, high>>
             down == <<low, units - 1>>
  <2>2. g[up] = Larger(0, best[up]) /\ g[down] = Larger(0, best[down])
    BY <2>1 DEF OrZero
  <2>3. best[up] \in Int /\ best[down] \in Int
    BY <1>2, <2>1
  <2>4. best[interval] = IF units \in safe THEN Larger(units, best[up]) ELSE best[down]
    BY <1>1, <1>3, <1>5 DEF BestOf
  <2>5. FromZero(g, safe, interval) = IF units \in safe THEN Larger(units, g[up]) ELSE g[down]
    BY <1>3, <1>5 DEF FromZero
  <2> HIDE DEF up, down, units
  <2>6. units \in Nat
    BY <2>1
  <2>7. \A n \in Nat, m \in Int : Larger(0, Larger(n, m)) = Larger(n, Larger(0, m))
    BY DEF Larger
  <2> QED
    BY <1>o, <2>2, <2>3, <2>4, <2>5, <2>6, <2>7
<1> QED
  BY <1>3, <1>4, <1>5

\* Two functions that follow the same recursion are equal, by induction on what is
\* left of the interval.
LEMMA SearchIsUnique ==
    ASSUME NEW first \in Nat, NEW last \in Nat, first <= last, NEW safe,
           NEW f, f = [interval \in Left(first, last) |-> FromZero(f, safe, interval)],
           NEW g, g = [interval \in Left(first, last) |-> FromZero(g, safe, interval)]
    PROVE  f[<<first, last>>] = g[<<first, last>>]
<1> DEFINE D == Left(first, last)
           n == last - first + 1
           T == {m \in 0 .. n : \A interval \in D :
                    interval[2] - interval[1] < m => f[interval] = g[interval]}
<1>t. \A interval \in D : interval[1] \in Int /\ interval[2] \in Int
  BY DEF Left
<1>u. \A interval \in D : /\ f[interval] = FromZero(f, safe, interval)
                          /\ g[interval] = FromZero(g, safe, interval)
  OBVIOUS
<1>0. ASSUME NEW interval \in D, interval[1] > interval[2]
      PROVE  f[interval] = g[interval]
  BY <1>0, <1>u DEF FromZero
<1>1. 0 \in T
  <2>1. ASSUME NEW interval \in D, interval[2] - interval[1] < 0
        PROVE  f[interval] = g[interval]
    <3>1. interval[1] > interval[2]
      BY <1>t, <2>1
    <3> QED
      BY <1>0, <3>1
  <2>2. 0 \in 0 .. n
    OBVIOUS
  <2> QED
    BY <2>1, <2>2
<1>2. ASSUME NEW m \in 1 .. n, m - 1 \in T
      PROVE  m \in T
  <2>1. ASSUME NEW interval \in D, interval[2] - interval[1] < m
        PROVE  f[interval] = g[interval]
    <3> DEFINE low == interval[1]
               high == interval[2]
               units == (low + high) \div 2
    <3>1. CASE low > high
      BY <1>0, <3>1
    <3>2. CASE ~(low > high)
      <4>1. low \in Int /\ high \in Int /\ low <= high
        BY <1>t, <3>2
      <4>2. /\ units \in low .. high
            /\ <<units + 1, high>> \in D
            /\ <<low, units - 1>> \in D
        BY <4>1, ProbeShrinks
      <4>3. units \in Int
        BY <4>1, <4>2
      <4> HIDE DEF units
      <4>4. high - (units + 1) < m - 1 /\ (units - 1) - low < m - 1
        BY <2>1, <4>1, <4>2, <4>3
      <4>5. <<units + 1, high>>[1] = units + 1 /\ <<units + 1, high>>[2] = high
              /\ <<low, units - 1>>[1] = low /\ <<low, units - 1>>[2] = units - 1
        OBVIOUS
      <4>6. /\ f[<<units + 1, high>>] = g[<<units + 1, high>>]
            /\ f[<<low, units - 1>>] = g[<<low, units - 1>>]
        BY <1>2, <4>2, <4>4, <4>5
      <4>7. FromZero(f, safe, interval) = FromZero(g, safe, interval)
        BY <4>6 DEF FromZero, units
      <4> QED
        BY <1>u, <4>7
    <3> QED
      BY <3>1, <3>2
  <2>2. m \in 0 .. n
    OBVIOUS
  <2> QED
    BY <2>1, <2>2
<1>3. n \in Nat /\ n \in 0 .. n
  OBVIOUS
<1>4. n \in T
  <2> HIDE DEF T, n
  <2> QED
    BY <1>1, <1>2, <1>3, UpTo
<1>5. <<first, last>> \in D /\ <<first, last>>[1] = first /\ <<first, last>>[2] = last
  BY DEF Left
<1> QED
  BY <1>4, <1>5

\* The fixture trades towards the quantity the engine gives.
LEMMA SizesAgree ==
    ASSUME Solvent, open \in Prices, NEW weight \in Weights,
           NEW equity, equity = EquityAt(account, open)
    PROVE  TargetQuantity(weight) = TargetUnits(account, open, weight, equity)
<1> DEFINE raw == (weight * EquityAt(account, open)) \div (WeightScale * ReferencePrice(open))
           below == MarketValue(account.quantity, open) * WeightScale
                      <= weight * EquityAt(account, open)
           first == IF below THEN account.quantity ELSE 0
           last == IF below THEN Larger(account.quantity, raw) ELSE account.quantity
           safe == {units \in first .. last :
                        CandidateIsSafe(units, account, open, weight, equity)}
           D == Left(first, last)
           Body(f, interval) ==
               IF interval[1] > interval[2] THEN 0
               ELSE IF UnitsAreSafe((interval[1] + interval[2]) \div 2, weight, EquityAt(account, open))
                 THEN Larger((interval[1] + interval[2]) \div 2,
                             f[<<(interval[1] + interval[2]) \div 2 + 1, interval[2]>>])
                 ELSE f[<<interval[1], (interval[1] + interval[2]) \div 2 - 1>>]
           found == CHOOSE f : f = [interval \in D |-> Body(f, interval)]
<1>1. /\ open \in Nat \ {0} /\ equity \in Nat \ {0} /\ account.quantity \in Nat
      /\ weight \in Nat
  BY ContractFacts, SolventEquity, MoneyAssumption DEF Solvent, SolventAt, Fraction
<1>2. weight * equity * Quantum = weight * equity
  <2>1. weight * equity \in Int
    BY <1>1, Z3
  <2> QED
    BY <2>1, ContractFacts
<1>3. raw \in Int /\ raw = RawTargetUnits(open, weight, equity)
  <2>1. WeightScale * (open * BpsScale) \in Nat \ {0}
    BY <1>1, ContractFacts, Z3
  <2>2. weight * equity * Quantum \in Int
    BY <1>1, <1>2, Z3
  <2>3. \A n \in Int, d \in Nat \ {0} : n \div d \in Int
    BY Z3
  <2> QED
    BY <1>2, <2>1, <2>2, <2>3 DEF RawTargetUnits, ReferencePrice
<1> HIDE DEF raw
<1>4. first \in Nat /\ last \in Nat /\ first <= last
  BY <1>1, <1>3 DEF Larger
<1>a. /\ first = SearchLow(account, open, weight, equity)
      /\ last = SearchHigh(account, open, weight, equity)
  BY <1>3 DEF SearchLow, SearchHigh, AtOrBelowTarget
<1>5. TargetQuantity(weight) = IF weight = 0 THEN 0 ELSE found[<<first, last>>]
  <2>1. ~(EquityAt(account, open) <= 0)
    BY <1>1
  <2>2. TargetQuantity(weight) =
            IF weight = 0 \/ EquityAt(account, open) <= 0 THEN 0 ELSE found[<<first, last>>]
    BY DEF TargetQuantity, Left, raw
  <2> HIDE DEF found, first, last
  <2> QED
    BY <2>1, <2>2
<1> HIDE DEF first, last
<1>6. ASSUME NEW f, NEW interval \in D
      PROVE  Body(f, interval) = FromZero(f, safe, interval)
  <2>1. interval[1] \in Int /\ interval[2] \in Int
    BY DEF Left
  <2>2. CASE interval[1] > interval[2]
    BY <2>2 DEF FromZero
  <2>3. CASE ~(interval[1] > interval[2])
    <3> DEFINE units == (interval[1] + interval[2]) \div 2
    <3>0. interval[1] <= interval[2]
      BY <2>1, <2>3
    <3>a. first \in Int /\ last \in Int
      BY <1>4
    <3>b. units \in first .. last
      BY <3>0, <3>a, ProbeShrinks
    <3>1. units \in first .. last /\ units \in Nat
      BY <1>4, <3>b
    <3> HIDE DEF units
    <3>2. units \in safe <=> UnitsAreSafe(units, weight, equity)
      BY <3>1, TestsAgree
    <3> QED
      BY <2>3, <3>2 DEF FromZero, units
  <2> QED
    BY <2>2, <2>3
<1>7. safe \subseteq Nat /\ \A units \in first .. last :
          units \in safe <=> CandidateIsSafe(units, account, open, weight, equity)
  BY <1>4
<1> HIDE DEF safe, Body
<1>8. PICK best : /\ IsBest(best, first, last, safe)
                  /\ Bisection(first, last, account, open, weight, equity)
                       = best[<<first, last>>]
  BY <1>4, <1>7, BisectionUnfolds
<1> DEFINE g == [interval \in D |-> Larger(0, best[interval])]
<1>9. g = [interval \in D |-> FromZero(g, safe, interval)]
  <2>1. \A interval \in D : g[interval] = Larger(0, best[interval])
    OBVIOUS
  <2>2. ASSUME NEW interval \in D PROVE Larger(0, best[interval]) = FromZero(g, safe, interval)
    <3> HIDE DEF g
    <3>0. /\ IsBest(best, first, last, safe) /\ safe \in SUBSET Nat
          /\ interval \in Left(first, last)
          /\ OrZero(g, best, first, last)
      BY <1>7, <1>8, <2>1 DEF OrZero
    <3>1. g[interval] = FromZero(g, safe, interval)
      <4> HIDE DEF D
      <4> QED
        BY ONLY <1>4, <3>0, FromZeroFinds
    <3> QED
      BY <2>1, <3>1
  <2> QED
    BY <2>2
<1>10. g[<<first, last>>] = Larger(0, best[<<first, last>>])
  BY <1>4 DEF Left
<1> HIDE DEF g
<1>11. [interval \in D |-> FromZero(g, safe, interval)] = [interval \in D |-> Body(g, interval)]
  BY <1>6
<1>12. found = [interval \in D |-> Body(found, interval)]
  BY <1>9, <1>11
<1> HIDE DEF found
<1>13. [interval \in D |-> FromZero(found, safe, interval)]
           = [interval \in D |-> Body(found, interval)]
  BY <1>6
<1>14. found[<<first, last>>] = g[<<first, last>>]
  BY <1>4, <1>9, <1>12, <1>13, SearchIsUnique
<1> QED
  BY <1>5, <1>8, <1>10, <1>14, <1>a DEF TargetUnits

-----------------------------------------------------------------------------
(***************************************************************************)
(* Filling.  What LEAN charges is at most what was estimated for a buy,    *)
(* and never all a sale brings.                                            *)
(***************************************************************************)
\* The account once an order is filled.
Settled(side, quantity) ==
    LET paid == quantity * FillPrice(side)
    IN  [cash |-> account.cash - FillFee(quantity) + (IF side = Buy THEN -paid ELSE paid),
         quantity |-> account.quantity + (IF side = Buy THEN quantity ELSE -quantity)]

\* What an account within its target is worth at the open.
OnTarget(a, weight) ==
    MarketValue(a.quantity, open) * WeightScale <= weight * EquityAt(a, open)

\* The fee LEAN charges on the open is at most the one estimated for a purchase.
LEMMA FeeCovered ==
    ASSUME NEW quantity \in Nat, open \in Prices
    PROVE  /\ quantity * ExecutionPrice(open, Buy) \in Nat
           /\ FillFee(quantity) \in Nat
           /\ FillFee(quantity) <= TradeFee(quantity * ExecutionPrice(open, Buy))
<1> DEFINE notional == quantity * ExecutionPrice(open, Buy)
           fee == FillFee(quantity)
           shares == open * quantity
<1>0. open \in Nat \ {0}
  BY ContractFacts
<1>1. shares \in Nat
  BY <1>0, Z3
<1>2. fee = shares * FeeBps
  BY DEF FillFee
<1>3. notional = shares * (BpsScale + SlippageBps)
  <2>1. notional = quantity * (open * (BpsScale + SlippageBps))
    BY DEF ExecutionPrice
  <2>2. \A a, b, c \in Nat : a * (b * c) = (b * a) * c
    BY Z3
  <2>3. BpsScale + SlippageBps \in Nat
    BY ContractFacts
  <2> QED
    BY <1>0, <2>1, <2>2, <2>3
<1> HIDE DEF notional, fee, shares
<1>4. fee \in Nat /\ notional \in Nat
  <2>1. shares * FeeBps \in Nat /\ shares * (BpsScale + SlippageBps) \in Nat
    BY <1>1, ContractFacts, Z3
  <2> QED
    BY <1>2, <1>3, <2>1
<1>5. notional * FeeBps >= BpsScale * fee
  <2>1. notional * FeeBps = BpsScale * (shares * FeeBps) + SlippageBps * (shares * FeeBps)
    <3>1. \A a, b, c, d \in Nat : (a * (b + c)) * d = b * (a * d) + c * (a * d)
      BY Z3
    <3> QED
      BY <1>1, <1>3, <3>1, ContractFacts
  <2>2. SlippageBps * fee \in Nat /\ BpsScale * fee \in Nat
    BY <1>4, ContractFacts, Z3
  <2> QED
    BY <1>2, <2>1, <2>2
<1>6. fee <= TradeFee(notional)
  <2> DEFINE estimate == TradeFee(notional)
  <2>1. estimate \in Nat /\ Within(BpsScale * estimate - notional * FeeBps, BpsScale)
        /\ notional * FeeBps \in Nat
    BY <1>4, FeeNear
  <2> HIDE DEF estimate
  <2>2. BpsScale * estimate \in Int /\ BpsScale * fee \in Int
    BY <1>4, <2>1, ContractFacts, Z3
  <2>3. 2 * (BpsScale * estimate) >= 2 * (BpsScale * fee) - BpsScale
    BY <1>5, <2>1, <2>2, ContractFacts DEF Within
  <2>4. \A b \in Nat \ {0}, m, n \in Nat : 2 * (b * m) >= 2 * (b * n) - b => n <= m
    <3> SUFFICES ASSUME NEW b \in Nat \ {0}, NEW m \in Nat, NEW n \in Nat, m + 1 <= n
                 PROVE  ~(2 * (b * m) >= 2 * (b * n) - b)
      OBVIOUS
    <3>1. b * n >= b * (m + 1) /\ b * (m + 1) = b * m + b /\ b * m \in Int /\ b * n \in Int
      BY Z3
    <3> QED
      BY <3>1
  <2>5. fee <= estimate
    BY <1>4, <2>1, <2>3, <2>4, ContractFacts
  <2> QED
    BY <2>5 DEF estimate
<1> QED
  BY <1>4, <1>6 DEF notional, fee

\* A sale brings more than either fee.
LEMMA SaleBrings ==
    ASSUME NEW quantity \in Nat \ {0}, open \in Prices
    PROVE  LET notional == quantity * ExecutionPrice(open, Sell)
           IN  /\ notional \in Nat \ {0}
               /\ FillFee(quantity) \in Nat /\ FillFee(quantity) < notional
               /\ TradeFee(notional) < notional
               /\ notional * BpsScale - notional * FeeBps > 0
<1> DEFINE notional == quantity * ExecutionPrice(open, Sell)
           fee == FillFee(quantity)
           shares == open * quantity
           rest == BpsScale - SlippageBps
           kept == BpsScale - FeeBps
<1>0. open \in Nat \ {0}
  BY ContractFacts
<1>1. shares \in Nat \ {0}
  BY <1>0, Z3
<1>2. fee = shares * FeeBps
  BY DEF FillFee
<1>a. rest \in Nat \ {0} /\ kept \in Nat \ {0} /\ rest > FeeBps
  BY ContractFacts
<1>3. notional = shares * rest
  <2>1. notional = quantity * (open * rest)
    BY DEF ExecutionPrice, Buy, Sell
  <2>2. \A a, b, c \in Nat : a * (b * c) = (b * a) * c
    BY Z3
  <2> QED
    BY <1>0, <1>a, <2>1, <2>2
<1>b. rest * kept >= BpsScale
  <2>1. \A b \in Nat \ {0}, m, n \in Nat : m + n < b => (b - m) * (b - n) >= b
    <3> SUFFICES ASSUME NEW b \in Nat \ {0}, NEW m \in Nat, NEW n \in Nat, m + n < b
                 PROVE  (b - m) * (b - n) >= b
      OBVIOUS
    <3>1. (b - m) * (b - n) = b * (b - m - n) + m * n
      BY Z3
    <3>2. b * (b - m - n) >= b /\ m * n >= 0
      BY Z3
    <3>3. b * (b - m - n) \in Int /\ m * n \in Int
      BY Z3
    <3> QED
      BY <3>1, <3>2, <3>3
  <2> QED
    BY <2>1, ContractFacts
<1> HIDE DEF notional, fee, shares
<1>4. fee \in Nat /\ notional \in Nat \ {0}
  <2> HIDE DEF rest
  <2>1. shares * FeeBps \in Nat /\ shares * rest \in Nat \ {0}
    BY <1>1, <1>a, ContractFacts, Z3
  <2> QED
    BY <1>2, <1>3, <2>1
<1>5. fee < notional
  <2> HIDE DEF rest
  <2>1. shares * FeeBps < shares * rest
    BY <1>1, <1>a, ContractFacts, Z3
  <2> QED
    BY <1>2, <1>3, <2>1
<1>6. notional * BpsScale - notional * FeeBps >= BpsScale
  <2>1. notional * BpsScale - notional * FeeBps = notional * kept
    BY <1>4, ContractFacts, Z3
  <2>2. notional * kept = shares * (rest * kept)
    <3> HIDE DEF rest, kept
    <3> QED
      BY <1>1, <1>3, <1>a, Z3
  <2>3. \A a \in Nat \ {0}, b \in Int : b >= 0 => a * b >= b
    BY Z3
  <2>4. rest * kept \in Int
    BY <1>a, Z3
  <2>5. shares * (rest * kept) >= rest * kept
    <3> HIDE DEF rest, kept
    <3> QED
      BY <1>1, <1>b, <2>3, <2>4, ContractFacts
  <2> HIDE DEF rest, kept
  <2>6. shares * (rest * kept) \in Int
    BY <1>1, <2>4, Z3
  <2> QED
    BY <1>b, <2>1, <2>2, <2>4, <2>5, <2>6, ContractFacts
<1>7. TradeFee(notional) < notional
  <2> DEFINE estimate == TradeFee(notional)
  <2>1. estimate \in Nat /\ Within(BpsScale * estimate - notional * FeeBps, BpsScale)
        /\ notional * FeeBps \in Nat
    BY <1>4, FeeNear
  <2> HIDE DEF estimate
  <2>2. BpsScale * estimate \in Int /\ notional * BpsScale \in Int
    BY <1>4, <2>1, ContractFacts, Z3
  <2>3. 2 * (BpsScale * estimate) <= 2 * (notional * BpsScale) - BpsScale
    BY <1>6, <2>1, <2>2, ContractFacts DEF Within
  <2>4. \A b \in Nat \ {0}, m, n \in Nat : 2 * (b * m) <= 2 * (n * b) - b => m < n
    <3> SUFFICES ASSUME NEW b \in Nat \ {0}, NEW m \in Nat, NEW n \in Nat, n <= m
                 PROVE  ~(2 * (b * m) <= 2 * (n * b) - b)
      OBVIOUS
    <3>1. b * m >= n * b /\ b * m \in Int /\ n * b \in Int
      BY Z3
    <3> QED
      BY <3>1
  <2>5. estimate < notional
    BY <1>4, <2>1, <2>3, <2>4, ContractFacts
  <2> QED
    BY <2>5 DEF estimate
<1>8. notional * BpsScale - notional * FeeBps > 0
  <2>1. notional * BpsScale \in Int /\ notional * FeeBps \in Int
    BY <1>4, ContractFacts, Z3
  <2> QED
    BY <1>6, <2>1, ContractFacts
<1> QED
  BY <1>4, <1>5, <1>7, <1>8 DEF notional, fee

\* An order to the target, filled whole, leaves a solvent account, and a bought
\* holding is within the target.
LEMMA FillIsFunded ==
    ASSUME Solvent, open \in Prices, NEW weight \in Weights,
           NEW target, target = TargetQuantity(weight), target # account.quantity,
           NEW side, side = IF target > account.quantity THEN Buy ELSE Sell,
           NEW quantity, quantity = Magnitude(target - account.quantity)
    PROVE  /\ target \in Nat /\ quantity \in Nat \ {0} /\ side \in Sides
           /\ SolventAt(Settled(side, quantity))
           /\ Settled(side, quantity).quantity = target
           /\ side = Buy => OnTarget(Settled(side, quantity), weight)
<1> DEFINE equity == EquityAt(account, open)
           after == Settled(side, quantity)
           order == OrderTo(target, account, open)
<1>1. /\ open \in Nat \ {0} /\ equity \in Nat /\ account.quantity \in Nat
      /\ account.cash \in Nat /\ weight \in Fraction /\ weight \in Nat
  BY ContractFacts, SolventEquity, MoneyAssumption DEF Solvent, SolventAt, Fraction
<1>2. target \in Nat /\ (target = 0 \/ CandidateIsSafe(target, account, open, weight, equity))
  <2>1. target = TargetUnits(account, open, weight, equity)
    BY SizesAgree
  <2>2. equity \in Int
    BY <1>1
  <2> HIDE DEF equity
  <2> QED
    BY <1>1, <2>1, <2>2, SizedIsSafe
<1>3. quantity \in Nat \ {0} /\ side \in Sides
  BY <1>1, <1>2 DEF Magnitude, Sides
<1>4. after.quantity = target
  BY <1>1, <1>2, ContractFacts DEF Settled, Magnitude
<1>5. CASE target > account.quantity
  <2>1. side = Buy /\ target # 0
    BY <1>1, <1>2, <1>5
  <2> DEFINE notional == quantity * ExecutionPrice(open, Buy)
             fee == FillFee(quantity)
             estimate == TradeFee(notional)
             cash == account.cash - MoneyOf(notional) - estimate
             value == MarketValue(target, open)
  <2>2. notional \in Nat /\ fee \in Nat /\ fee <= estimate /\ estimate \in Nat
    BY <1>3, FeeCovered, FeeNear
  <2>3. order.side = Buy /\ order.notional = notional /\ order.estimated_fee = estimate
    BY <1>5 DEF OrderTo
  <2>4. /\ cash \in Int
        /\ value * WeightScale <= weight * (cash + value)
        /\ value <= cash + value
    <3>1. cash = IF order.side = Buy
                   THEN account.cash - MoneyOf(order.notional) - order.estimated_fee
                   ELSE account.cash + MoneyOf(order.notional) - order.estimated_fee
      BY <2>3
    <3>2. equity \in Int
      BY <1>1
    <3> HIDE DEF cash, equity, order
    <3>3. order = OrderTo(target, account, open)
      BY DEF order
    <3> QED
      BY <1>1, <1>2, <2>1, <3>1, <3>2, <3>3, SizedAsFilled
  <2>5. value \in Nat
    BY <1>1, <1>2, ExactValue
  <2>6. MoneyOf(notional) = notional
    BY <2>2, ExactMoney
  <2>7. after.cash = account.cash - fee - notional
    <3>1. after.cash = account.cash - fee + (-notional)
      BY <2>1 DEF Settled, FillPrice
    <3> HIDE DEF notional, fee, after
    <3> QED
      BY <1>1, <2>2, <3>1
  <2> HIDE DEF notional, fee, estimate, value, after
  <2>8. after.cash \in Nat /\ after.cash >= cash
    BY <1>1, <2>2, <2>4, <2>5, <2>6, <2>7
  <2>9. value * WeightScale <= weight * (after.cash + value)
    <3> HIDE DEF cash
    <3>1. \A k \in Nat, m, n \in Int : m <= n => k * m <= k * n
      BY Z3
    <3>2. weight * (cash + value) <= weight * (after.cash + value)
      BY <1>1, <2>4, <2>5, <2>8, <3>1
    <3>3. value * WeightScale \in Int /\ weight * (cash + value) \in Int
          /\ weight * (after.cash + value) \in Int
      BY <1>1, <2>4, <2>5, <2>8, ContractFacts, Z3
    <3> QED
      BY <2>4, <3>2, <3>3
  <2>10. OnTarget(after, weight)
    BY <1>4, <2>9 DEF OnTarget, EquityAt, value
  <2> QED
    BY <1>1, <1>2, <1>3, <1>4, <1>5, <2>8, <2>10 DEF SolventAt, after
<1>6. CASE ~(target > account.quantity)
  <2>1. side = Sell /\ side # Buy
    BY <1>6, ContractFacts
  <2> DEFINE notional == quantity * ExecutionPrice(open, Sell)
             fee == FillFee(quantity)
  <2>2. notional \in Nat \ {0} /\ fee \in Nat /\ fee < notional
    BY <1>3, SaleBrings
  <2>3. after.cash = account.cash - fee + notional
    BY <2>1 DEF Settled, FillPrice
  <2> HIDE DEF notional, fee, after
  <2>4. after.cash \in Nat /\ after.cash > 0
    BY <1>1, <2>2, <2>3
  <2> QED
    BY <1>2, <1>3, <1>4, <2>1, <2>4 DEF SolventAt, after
<1> QED
  BY <1>5, <1>6

-----------------------------------------------------------------------------
(***************************************************************************)
(* Vetoes.  The fixture's fee is not rounded, the engine's is; the target  *)
(* is under the exposure allowed by more than that can change.             *)
(***************************************************************************)
\* Cash c and a value v within the weight w, seen with an error x of at most half
\* of the scale b, keep the cash positive and the value within the weight m.
StillFits(b, s, m, v, c, x) ==
    /\ c > 0 /\ b * c + x > 0
    /\ (v * b) * s <= m * (b * c + x + v * b)

FitsWithMargin(b, s, m, w, v, c, x) ==
    /\ Within(x, b) /\ c + v > 0 /\ v * s <= w * (c + v)
    /\ s <= b /\ m <= s /\ w < m /\ v >= b

\* What rounding the fee can cost is less than the margin.
LEMMA MarginHolds ==
    ASSUME NEW b \in Nat \ {0}, NEW s \in Nat \ {0}, NEW m \in Nat, NEW w \in Nat,
           NEW v \in Nat, NEW c \in Int, NEW x \in Int,
           FitsWithMargin(b, s, m, w, v, c, x)
    PROVE  StillFits(b, s, m, v, c, x)
<1>0. /\ Within(x, b) /\ c + v > 0 /\ v * s <= w * (c + v)
      /\ s <= b /\ m <= s /\ w < m /\ v >= b
  BY DEF FitsWithMargin
<1> DEFINE a == c + v
<1>1. a \in Nat \ {0} /\ c = a - v
  BY <1>0
<1> HIDE DEF a
<1>2. v < a
  <2> SUFFICES ASSUME a <= v PROVE FALSE
    BY <1>1
  <2>1. w * a < s * a
    BY <1>0, <1>1, Z3
  <2>2. s * a <= s * v
    BY <1>1, Z3
  <2>3. v * s = s * v /\ s * v \in Int /\ w * a \in Int /\ s * a \in Int
    BY <1>1, Z3
  <2> QED
    BY <1>0, <2>1, <2>2, <2>3 DEF a
<1>3. c > 0 /\ b * c >= b /\ b * c \in Int
  <2>1. c \in Nat \ {0}
    BY <1>1, <1>2
  <2>2. b * c >= b /\ b * c \in Int
    BY <2>1, Z3
  <2> QED
    BY <2>1, <2>2
<1>4. b * c + x > 0
  BY <1>0, <1>3 DEF Within
<1>5. b * c + x + v * b = b * a + x
  BY <1>1, Z3
<1>6. (v * b) * s <= b * (w * a)
  <2>1. (v * b) * s = b * (v * s)
    BY Z3
  <2>2. v * s \in Nat /\ w * a \in Nat /\ v * s <= w * a
    <3>1. v * s \in Nat /\ w * a \in Nat
      BY <1>1, Z3
    <3> QED
      BY <1>0, <3>1 DEF a
  <2>3. \A k, p, q \in Nat : p <= q => k * p <= k * q
    BY Z3
  <2> QED
    BY <2>1, <2>2, <2>3
<1>7. 2 * (b * (w * a)) <= 2 * (m * (b * a)) - m * b
  <2> DEFINE d == m - w
  <2>1. d \in Nat \ {0} /\ m = w + d
    BY <1>0
  <2> HIDE DEF d
  <2>2. m * (b * a) = b * (w * a) + b * (d * a)
    BY <1>1, <2>1, Z3
  <2>3. d * a >= a /\ d * a \in Nat
    BY <1>1, <2>1, Z3
  <2>4. m <= a
    BY <1>0, <1>1, <1>2
  <2>5. b * (d * a) >= b * m
    BY <1>1, <2>3, <2>4, Z3
  <2>6. m * b = b * m /\ b * m \in Nat /\ b * (d * a) \in Int /\ b * (w * a) \in Int
    BY <1>1, <2>3, Z3
  <2> QED
    BY <2>2, <2>5, <2>6
<1>8. m * (b * a + x) = m * (b * a) + m * x /\ 2 * (m * x) >= -(m * b)
  <2>1. m * (b * a + x) = m * (b * a) + m * x
    BY <1>1, Z3
  <2>2. -b <= 2 * x
    BY <1>0 DEF Within
  <2>3. m * (-b) <= m * (2 * x)
    BY <2>2, Z3
  <2>4. m * (-b) = -(m * b) /\ m * (2 * x) = 2 * (m * x)
    BY Z3
  <2> QED
    BY <2>1, <2>3, <2>4
<1>9. /\ (v * b) * s \in Int /\ b * (w * a) \in Int /\ m * (b * a) \in Int
      /\ m * x \in Int /\ m * b \in Int
  BY <1>1, Z3
<1>10. (v * b) * s <= m * (b * a + x)
  BY <1>6, <1>7, <1>8, <1>9
<1> QED
  BY <1>3, <1>4, <1>5, <1>10 DEF StillFits

\* The fixture vetoes no sale, and a buy for a loss only.
LEMMA VetoIsForLosses ==
    ASSUME Solvent, open \in Prices, NEW weight \in Weights,
           NEW target \in Nat, target # account.quantity,
           target = 0 \/ CandidateIsSafe(target, account, open, weight, EquityAt(account, open)),
           NEW change, change = target - account.quantity
    PROVE  Veto(weight, change) =
               IF change < 0 THEN {}
               ELSE Breaches(OpenSnapshot.equity, OpenSnapshot.base, OpenSnapshot.peak)
<1> DEFINE equity == EquityAt(account, open)
           side == IF change > 0 THEN Buy ELSE Sell
           delta == Magnitude(change)
           price == ExecutionPrice(open, side)
           paid == delta * price
           quantity == account.quantity + change
           cash == (account.cash + (IF change > 0 THEN -paid ELSE paid)) * BpsScale
                     - paid * FeeBps
           exposure == quantity * ReferencePrice(open) * BpsScale
           reduces == Magnitude(quantity) < Magnitude(account.quantity)
           value == MarketValue(target, open)
           estimate == TradeFee(paid)
           left == account.cash + (IF change > 0 THEN -paid ELSE paid) - estimate
           error == BpsScale * estimate - paid * FeeBps
           order == OrderTo(target, account, open)
           Sound == /\ cash > 0 /\ cash + exposure > 0 /\ cash \in Int /\ exposure \in Int
                    /\ ~(exposure * WeightScale > MaxTotalExposure * (cash + exposure))
<1>1. /\ open \in Nat \ {0} /\ equity \in Nat /\ account.quantity \in Nat
      /\ account.cash \in Nat /\ weight \in Fraction /\ weight \in Nat
      /\ weight <= MaxPosition /\ change \in Int /\ change # 0
  BY ContractFacts, SolventEquity, MoneyAssumption DEF Solvent, SolventAt, Fraction, Weights
<1>2. /\ quantity = target /\ (reduces <=> change < 0)
      /\ delta \in Nat \ {0} /\ delta = Magnitude(target - account.quantity)
      /\ side \in Sides /\ (change > 0 <=> target > account.quantity)
      /\ side = IF target > account.quantity THEN Buy ELSE Sell
  BY <1>1 DEF Magnitude, Sides
<1>3. price \in Nat \ {0}
  BY <1>1, <1>2, PricesTyped
<1>4. paid \in Nat
  <2> HIDE DEF delta, price
  <2> QED
    BY <1>2, <1>3, Z3
<1>5. value = target * (open * BpsScale) /\ value \in Nat /\ (target > 0 => value >= BpsScale)
  BY <1>1, ExactValue
<1>6. exposure = value * BpsScale
  <2> HIDE DEF quantity
  <2> QED
    BY <1>2, <1>5 DEF ReferencePrice
<1>7. estimate \in Nat /\ Within(error, BpsScale) /\ paid * FeeBps \in Nat
  BY <1>4, FeeNear
<1>8. left \in Int /\ error \in Int /\ cash = BpsScale * left + error
  <2> DEFINE gross == account.cash + (IF change > 0 THEN -paid ELSE paid)
  <2> HIDE DEF paid, estimate
  <2>3. left = gross - estimate /\ cash = gross * BpsScale - paid * FeeBps
    <3>1. left = gross - estimate
      BY <1>1, <1>4, <1>7
    <3>2. cash = gross * BpsScale - paid * FeeBps
      OBVIOUS
    <3> QED
      BY <3>1, <3>2
  <2>1. gross \in Int
    BY <1>1, <1>4
  <2> HIDE DEF gross, cash, left
  <2>2. BpsScale * estimate \in Int
    BY <1>7, ContractFacts, Z3
  <2>4. BpsScale * (gross - estimate) = gross * BpsScale - BpsScale * estimate
    BY <1>7, <2>1, ContractFacts, Z3
  <2>5. gross * BpsScale \in Int
    BY <2>1, ContractFacts, Z3
  <2> QED
    BY <1>7, <2>1, <2>2, <2>3, <2>4, <2>5
<1>10. ASSUME target # 0 PROVE Sound
  <2>1. /\ left + value > 0
        /\ value * WeightScale <= weight * (left + value)
    <3>1. /\ order.side = side /\ order.notional = paid /\ order.estimated_fee = estimate
      BY <1>2 DEF OrderTo
    <3>2. MoneyOf(paid) = paid
      BY <1>4, ExactMoney
    <3>3. side = Buy <=> change > 0
      BY ContractFacts
    <3>4. left = IF order.side = Buy
                   THEN account.cash - MoneyOf(order.notional) - order.estimated_fee
                   ELSE account.cash + MoneyOf(order.notional) - order.estimated_fee
      <4> HIDE DEF order, paid, estimate, side
      <4> QED
        BY <1>1, <1>4, <1>7, <3>1, <3>2, <3>3
    <3>5. equity \in Int /\ order = OrderTo(target, account, open)
      BY <1>1
    <3>6. CandidateIsSafe(target, account, open, weight, equity)
      BY <1>10
    <3> HIDE DEF left, equity, order
    <3> QED
      BY <1>1, <1>10, <3>4, <3>5, <3>6, SizedAsFilled
  <2>2. value >= BpsScale
    BY <1>5, <1>10
  <2> HIDE DEF value, left, error, cash, exposure
  <2>3. /\ left > 0 /\ BpsScale * left + error > 0
        /\ (value * BpsScale) * WeightScale
              <= MaxTotalExposure * (BpsScale * left + error + value * BpsScale)
    <3>1. weight < MaxTotalExposure
      BY <1>1, ContractFacts
    <3>2. FitsWithMargin(BpsScale, WeightScale, MaxTotalExposure, weight, value, left, error)
      BY <1>7, <2>1, <2>2, <3>1, ContractFacts DEF FitsWithMargin, error
    <3>3. StillFits(BpsScale, WeightScale, MaxTotalExposure, value, left, error)
      BY <1>1, <1>5, <1>8, <3>2, ContractFacts, MarginHolds
    <3> QED
      BY <3>3 DEF StillFits
  <2>4. cash > 0 /\ cash \in Int /\ value * BpsScale \in Nat
    <3>1. value * BpsScale \in Nat /\ BpsScale * left \in Int
      BY <1>5, <1>8, ContractFacts, Z3
    <3> QED
      BY <1>8, <2>3, <3>1
  <2>5. exposure * WeightScale \in Int /\ MaxTotalExposure * (cash + exposure) \in Int
        /\ exposure \in Nat
    <3>1. exposure \in Nat
      BY <1>6, <2>4
    <3>2. exposure * WeightScale \in Int /\ MaxTotalExposure * (cash + exposure) \in Int
      BY <2>4, <3>1, ContractFacts, Z3
    <3> QED
      BY <3>1, <3>2
  <2>6. exposure * WeightScale <= MaxTotalExposure * (cash + exposure)
    BY <1>6, <1>8, <2>3
  <2> QED
    BY <2>4, <2>5, <2>6
<1>11. ASSUME target = 0 PROVE Sound
  <2>1. change < 0 /\ side = Sell
    BY <1>1, <1>2, <1>11
  <2>2. paid * BpsScale - paid * FeeBps > 0 /\ paid * BpsScale \in Int
    <3>1. paid = delta * ExecutionPrice(open, Sell)
      BY <2>1
    <3> HIDE DEF delta
    <3>2. paid * BpsScale - paid * FeeBps > 0
      BY <1>2, <3>1, SaleBrings
    <3> HIDE DEF paid
    <3>3. paid * BpsScale \in Int
      BY <1>4, ContractFacts, Z3
    <3> QED
      BY <3>2, <3>3
  <2>3. cash > 0 /\ cash \in Int
    <3>1. cash = (account.cash + paid) * BpsScale - paid * FeeBps
      BY <2>1
    <3> HIDE DEF cash, paid
    <3>2. (account.cash + paid) * BpsScale = account.cash * BpsScale + paid * BpsScale
          /\ account.cash * BpsScale \in Nat
      BY <1>1, <1>4, ContractFacts, Z3
    <3> QED
      BY <1>7, <2>2, <3>1, <3>2
  <2>4. exposure = 0
    <3>1. value = 0
      BY <1>1, <1>5, <1>11, ContractFacts
    <3> QED
      BY <1>6, <3>1, ContractFacts
  <2> HIDE DEF cash, exposure
  <2>5. MaxTotalExposure * (cash + exposure) \in Nat
    BY <2>3, <2>4, ContractFacts, Z3
  <2> QED
    BY <2>3, <2>4, <2>5, ContractFacts
<1>12. Sound
  <2> HIDE DEF Sound
  <2> QED
    BY <1>10, <1>11
<1>13. ~(paid * WeightScale > MaxOrderNotional * equity) \/ reduces
  <2>1. CASE change > 0
    <3>1. target # 0 /\ target > account.quantity
      BY <1>1, <1>2, <2>1
    <3>2. ~(weight > MaxOrderNotional)
      BY <1>1, ContractFacts
    <3>3. paid = Magnitude(target - account.quantity) * ExecutionPrice(open, Buy)
      BY <2>1
    <3> HIDE DEF paid
    <3>4. paid * WeightScale <= MaxOrderNotional * equity * Quantum
      BY <3>1, <3>2, <3>3 DEF CandidateIsSafe
    <3>5. MaxOrderNotional * equity * Quantum = MaxOrderNotional * equity
          /\ MaxOrderNotional * equity \in Int /\ paid * WeightScale \in Int
      <4>1. MaxOrderNotional * equity \in Int /\ paid * WeightScale \in Int
        BY <1>1, <1>4, ContractFacts, Z3
      <4> QED
        BY <4>1, ContractFacts
    <3> QED
      BY <3>4, <3>5
  <2>2. CASE ~(change > 0)
    BY <1>1, <1>2, <2>2
  <2> QED
    BY <2>1, <2>2
<1>14. /\ OpenSnapshot.equity = equity
       /\ ~(weight < 0) /\ ~(weight > MaxPosition) /\ ~(quantity < 0)
       /\ ~(cash < 0) /\ ~(cash + exposure <= 0)
  <2>1. OpenSnapshot.equity = equity
    BY DEF OpenSnapshot
  <2>2. MaxPosition \in Int
    BY ContractFacts
  <2> HIDE DEF cash, exposure, quantity
  <2> QED
    BY <1>1, <1>2, <1>12, <2>1, <2>2
<1>15. Veto(weight, change) =
          When(weight < 0, "shorting_forbidden")
          \cup When(weight > MaxPosition, "max_position_weight")
          \cup When(cash + exposure <= 0
                    \/ exposure * WeightScale > MaxTotalExposure * (cash + exposure),
                    "max_total_exposure")
          \cup When(paid * WeightScale > MaxOrderNotional * OpenSnapshot.equity /\ ~reduces,
                    "max_order_notional")
          \cup When(quantity < 0, "negative_quantity")
          \cup When(cash < 0, "negative_cash")
          \cup (IF reduces THEN {}
                ELSE Breaches(OpenSnapshot.equity, OpenSnapshot.base, OpenSnapshot.peak))
  BY DEF Veto
<1>16. reduces <=> change < 0
  BY <1>2
<1> HIDE DEF cash, exposure, quantity, paid, reduces, equity
<1> QED
  BY <1>12, <1>13, <1>14, <1>15, <1>16 DEF When

\* The engine's policy on the same account and marks: it refuses what was sized for
\* a loss only.
LEMMA PolicyIsTheContracts ==
    /\ EffectivePolicy.max_asset_weight = MaxPosition
    /\ EffectivePolicy.max_total_gross_exposure = MaxTotalExposure
    /\ EffectivePolicy.max_order_notional_weight = MaxOrderNotional
    /\ EffectivePolicy.max_daily_loss_pct = MaxDailyLoss
    /\ EffectivePolicy.max_drawdown_pct = MaxDrawdown
    /\ EffectivePolicy.max_open_positions \in Nat \ {0}
    /\ ~(DataAge > EffectivePolicy.max_data_age_seconds)
    /\ Symbol \in EffectivePolicy.allowed_symbols
    /\ MaxDailyLoss \in Nat \ {0} /\ MaxDrawdown \in Nat \ {0}
<1>1. \A n : Smaller(n, n) = n
  BY DEF Smaller
<1>2. Policy = ContractPolicy /\ DataAge <= Policy.max_data_age_seconds
      /\ MaxDailyLoss > 0 /\ MaxDrawdown > 0
  BY FixtureAssumption
<1>3. DataAge \in Nat /\ Policy.max_data_age_seconds = 1
  BY <1>2, ProposalAssumption DEF ContractPolicy
<1>4. MaxDailyLoss \in Nat \ {0} /\ MaxDrawdown \in Nat \ {0}
  BY <1>2, ProposalAssumption, ContractFacts DEF Fraction
<1> QED
  BY <1>1, <1>2, <1>3, <1>4, ProposalAssumption DEF EffectivePolicy, ContractPolicy, Stricter

\* The losses are measured alike: a gain is no loss, clamped or not.
LEMMA LossesAgree ==
    ASSUME NEW shown, shown.equity \in Nat \ {0},
           shown.start_of_day_equity \in Nat \ {0}, shown.peak_equity \in Nat \ {0}
    PROVE  LossLimits(EffectivePolicy, shown)
              = Breaches(shown.equity, shown.start_of_day_equity, shown.peak_equity)
<1> DEFINE equity == shown.equity
           base == shown.start_of_day_equity
           peak == shown.peak_equity
<1>1. equity \in Nat \ {0} /\ base \in Nat \ {0} /\ peak \in Nat \ {0}
  OBVIOUS
<1>0. equity = shown.equity /\ base = shown.start_of_day_equity /\ peak = shown.peak_equity
  OBVIOUS
<1> HIDE DEF equity, base, peak
<1>2. \A mark \in Nat \ {0}, limit \in Nat \ {0} :
         Larger(0, mark - equity) * WeightScale >= limit * mark
            <=> (mark - equity) * WeightScale >= limit * mark
  <2> SUFFICES ASSUME NEW mark \in Nat \ {0}, NEW limit \in Nat \ {0}
               PROVE  Larger(0, mark - equity) * WeightScale >= limit * mark
                         <=> (mark - equity) * WeightScale >= limit * mark
    OBVIOUS
  <2>0. mark \in Int /\ equity \in Int
    BY <1>1
  <2>1. CASE mark >= equity
    <3>1. Larger(0, mark - equity) = mark - equity
      BY <1>1, <2>1 DEF Larger
    <3> QED
      BY <3>1
  <2>2. CASE mark < equity
    <3>1. Larger(0, mark - equity) = 0
      BY <1>1, <2>2 DEF Larger
    <3>2. limit * mark > 0 /\ limit * mark \in Int
      BY Z3
    <3>3. (mark - equity) * WeightScale < 0 /\ (mark - equity) * WeightScale \in Int
      BY <1>1, <2>2, ContractFacts, Z3
    <3>4. 0 * WeightScale = 0
      BY ContractFacts
    <3> QED
      BY <3>1, <3>2, <3>3, <3>4
  <2> QED
    BY <2>0, <2>1, <2>2
<1>3. IsPositive(base) /\ IsPositive(peak) /\ IsFinite(equity)
  BY <1>1 DEF IsPositive, IsFinite
<1>4. /\ Larger(0, base - equity) * WeightScale >= MaxDailyLoss * base
            <=> (base - equity) * WeightScale >= MaxDailyLoss * base
      /\ Larger(0, peak - equity) * WeightScale >= MaxDrawdown * peak
            <=> (peak - equity) * WeightScale >= MaxDrawdown * peak
  BY <1>1, <1>2, PolicyIsTheContracts
<1> QED
  BY <1>0, <1>3, <1>4, PolicyIsTheContracts DEF LossLimits, Breaches, When

\* What the engine shows its risk policy at an open.
ShownAt(equity, mark) == Snapshot(account, equity, mark, FALSE)

LEMMA ShownAtTheOpen ==
    ASSUME NEW equity \in Nat \ {0}, NEW mark, mark.start_of_day \in Nat \ {0},
           mark.peak \in Nat \ {0}, mark.peak >= equity,
           NEW shown, shown = ShownAt(equity, mark)
    PROVE  /\ shown.equity = equity /\ shown.start_of_day_equity = mark.start_of_day
           /\ shown.peak_equity = mark.peak /\ shown.daily_pnl = equity - mark.start_of_day
           /\ shown.cash = account.cash /\ shown.open_positions = OpenPositions(account)
<1>1. Larger(mark.start_of_day, 1) = mark.start_of_day
  BY DEF Larger
<1>2. Larger(mark.peak, equity) = mark.peak
  BY DEF Larger
<1> QED
  BY <1>1, <1>2 DEF ShownAt, Snapshot

\* The engine refuses the order made of a safe target for losses, and for nothing else.
LEMMA RefusedForLosses ==
    ASSUME Solvent, open \in Prices, NEW weight \in Weights,
           NEW equity \in Nat \ {0}, equity = EquityAt(account, open),
           NEW target \in Nat, target # account.quantity,
           target = 0 \/ CandidateIsSafe(target, account, open, weight, equity),
           NEW order, order = OrderTo(target, account, open),
           NEW mark, mark.start_of_day \in Nat \ {0},
           mark.peak \in Nat \ {0}, mark.peak >= equity,
           NEW shown, shown = ShownAt(equity, mark)
    PROVE  EvaluateOrder(EffectivePolicy, order, shown)
              = Breaches(equity, mark.start_of_day, mark.peak)
<1>1. /\ open \in Nat \ {0} /\ equity \in Nat \ {0} /\ account.quantity \in Nat
      /\ account.cash \in Nat /\ weight \in Fraction
      /\ weight <= MaxPosition /\ weight <= MaxOrderNotional
  BY ContractFacts, SolventEquity DEF Solvent, SolventAt, Weights
<1>2. /\ shown.equity = equity /\ shown.start_of_day_equity = mark.start_of_day
      /\ shown.peak_equity = mark.peak /\ shown.daily_pnl = equity - mark.start_of_day
      /\ shown.cash = account.cash /\ shown.open_positions = OpenPositions(account)
  BY ShownAtTheOpen
<1>3. InvalidPortfolio(shown) = {}
  <2>1. OpenPositions(account) \in Nat
    BY DEF OpenPositions
  <2>2. shown.trading_enabled /\ ~shown.kill_switch_active /\ ~shown.halted
    BY FixtureAssumption DEF ShownAt, Snapshot
  <2>3. IsFinite(shown.equity) /\ ~(shown.equity <= 0)
    BY <1>1, <1>2 DEF IsFinite
  <2>4. IsPositive(shown.start_of_day_equity) /\ IsPositive(shown.peak_equity)
        /\ IsFinite(shown.daily_pnl) /\ IsNonNegative(shown.cash)
    BY <1>1, <1>2 DEF IsFinite, IsPositive, IsNonNegative
  <2>5. IsNonNegative(shown.open_positions)
    BY <1>2, <2>1 DEF IsFinite, IsNonNegative
  <2>6. shown.daily_pnl = shown.equity - shown.start_of_day_equity
    BY <1>2
  <2> QED
    BY <2>2, <2>3, <2>4, <2>5, <2>6 DEF InvalidPortfolio, When
<1>4. LeftToCheck(order, shown, account, target, open, weight, equity)
  BY <1>1, <1>3, SafeOrderIsStated DEF ShownAt
<1>5. InvalidRequest(EffectivePolicy, order) = {}
  BY <1>4, PolicyIsTheContracts DEF LeftToCheck, When
<1>6. /\ order.side \in Sides /\ order.notional \in Nat
      /\ order.notional = order.quantity * order.execution_price
      /\ order.quantity = Magnitude(target - account.quantity)
      /\ order.estimated_fee \in Nat
      /\ order.side = IF target > account.quantity THEN Buy ELSE Sell
  BY <1>1, OrderTyped
<1>7. Stated(order, account, target, open)
  BY <1>1, OrderStated
<1>8. TooManyPositions(EffectivePolicy, order, shown) = {}
  <2>1. shown.open_positions = OpenPositions(account)
    BY <1>2
  <2>2. order.current_symbol_exposure = 0 => account.quantity = 0
    <3>1. order.current_symbol_exposure = account.quantity * order.reference_price
          /\ order.reference_price \in Nat \ {0}
      BY <1>1, <1>7, OrderTyped DEF Stated
    <3> DEFINE price == order.reference_price
    <3>2. price \in Nat \ {0}
      BY <3>1
    <3> HIDE DEF price
    <3>3. account.quantity * price = 0 => account.quantity = 0
      BY <1>1, <3>2, Z3
    <3> QED
      BY <3>1, <3>3 DEF price
  <2>3. account.quantity = 0 => ~(shown.open_positions >= EffectivePolicy.max_open_positions)
    <3> DEFINE most == EffectivePolicy.max_open_positions
    <3>1. most \in Nat \ {0}
      BY PolicyIsTheContracts
    <3> HIDE DEF most
    <3>2. ~(0 >= most)
      BY <3>1
    <3> QED
      BY <2>1, <3>2 DEF OpenPositions, most
  <2> QED
    BY <2>2, <2>3 DEF TooManyPositions, When
<1>9. /\ UnaffordableOrder(order, shown) = {}
      /\ BreachedCaps(EffectivePolicy, order, shown) = {}
  <2>1. CASE order.side = Buy
    BY <1>1, <1>4, <2>1, PolicyIsTheContracts, NoCapBreached DEF ShownAt
  <2>2. CASE order.side = Sell
    <3>1. ReducesRisk(order)
      BY <1>4, <2>2 DEF LeftToCheck
    <3>2. BreachedCaps(EffectivePolicy, order, shown) = {}
      BY <3>1 DEF BreachedCaps
    <3>3. ProjectedCash(order, shown) > 0 /\ ProjectedCash(order, shown) \in Int
      <4> DEFINE paid == order.quantity * ExecutionPrice(open, Sell)
      <4>0. ~(target > account.quantity)
        BY <1>6, <2>2, ContractFacts
      <4>1. order.execution_price = ExecutionPrice(open, Sell)
            /\ order.estimated_fee = TradeFee(order.notional)
        BY <4>0 DEF OrderTo
      <4>2. order.quantity \in Nat \ {0}
        BY <1>1, OrderTyped
      <4>3. order.notional = paid /\ order.estimated_fee = TradeFee(paid)
        BY <1>6, <4>1
      <4>4. paid \in Nat \ {0} /\ TradeFee(paid) < paid
        BY <4>2, SaleBrings
      <4>5. CashNotional(order) = paid
        BY <1>6, <4>3, <4>4, ExactMoney DEF CashNotional
      <4>6. shown.cash = account.cash
        BY <1>2
      <4> HIDE DEF paid
      <4>7. TradeFee(paid) \in Nat
        BY <1>6, <4>3
      <4>8. ProjectedCash(order, shown) = account.cash + paid - TradeFee(paid)
        BY <2>2, <4>3, <4>5, <4>6, ContractFacts DEF ProjectedCash
      <4> DEFINE fee == TradeFee(paid)
                 cash == account.cash
      <4>9. cash \in Nat /\ fee \in Nat /\ fee < paid
        BY <1>1, <4>4, <4>7
      <4> HIDE DEF fee, cash
      <4>10. cash + paid - fee > 0 /\ cash + paid - fee \in Int
        BY <4>4, <4>9
      <4> QED
        BY <4>8, <4>10 DEF fee, cash
    <3>4. ProjectedEquity(order, shown) > 0 /\ ProjectedEquity(order, shown) \in Int
      <4> DEFINE worth == MoneyOf(order.resulting_total_gross_exposure)
                 cash == ProjectedCash(order, shown)
      <4>1. worth \in Nat
        BY <1>1, <1>7, ValueTyped DEF Stated
      <4>2. cash \in Int /\ cash > 0
        BY <3>3
      <4> HIDE DEF worth, cash
      <4>3. cash + worth > 0 /\ cash + worth \in Int
        BY <4>1, <4>2
      <4> QED
        BY <4>3 DEF ProjectedEquity, worth, cash
    <3>5. UnaffordableOrder(order, shown)
              \subseteq {"insufficient_cash", "projected_equity_non_positive"}
      BY <1>4 DEF LeftToCheck
    <3>6. ~(ProjectedCash(order, shown) < 0) /\ ~(ProjectedEquity(order, shown) <= 0)
      <4> DEFINE worth == ProjectedEquity(order, shown)
                 cash == ProjectedCash(order, shown)
      <4>1. cash \in Int /\ cash > 0 /\ worth \in Int /\ worth > 0
        BY <3>3, <3>4
      <4> HIDE DEF worth, cash
      <4>2. ~(cash < 0) /\ ~(worth <= 0)
        BY <4>1
      <4> QED
        BY <4>2 DEF worth, cash
    <3>7. "insufficient_cash" \notin UnaffordableOrder(order, shown)
          /\ "projected_equity_non_positive" \notin UnaffordableOrder(order, shown)
      BY <3>6 DEF UnaffordableOrder, When
    <3> QED
      BY <3>2, <3>5, <3>7
  <2> QED
    BY <1>6, <2>1, <2>2 DEF Sides
<1>10. EvaluateOrder(EffectivePolicy, order, shown) = LossLimits(EffectivePolicy, shown)
  <2> HIDE DEF EffectivePolicy
  <2> QED
    BY <1>4, <1>5, <1>8, <1>9 DEF LeftToCheck
<1>11. LossLimits(EffectivePolicy, shown) = Breaches(equity, mark.start_of_day, mark.peak)
  <2>1. /\ shown.equity \in Nat \ {0} /\ shown.start_of_day_equity \in Nat \ {0}
        /\ shown.peak_equity \in Nat \ {0}
    BY <1>2
  <2>2. LossLimits(EffectivePolicy, shown)
           = Breaches(shown.equity, shown.start_of_day_equity, shown.peak_equity)
    BY <2>1, LossesAgree
  <2> QED
    BY <1>2, <2>2
<1> QED
  BY <1>10, <1>11

\* The fixture vetoes as the engine refuses, and lets every sale through.
LEMMA VetoesAgree ==
    ASSUME Solvent, open \in Prices, executing.weight \in Weights, Change # 0,
           risk.last_close \in Nat \ {0}, risk.peak \in Nat \ {0}
    PROVE  /\ Change < 0 => Veto(executing.weight, Change) = {}
           /\ pc = "execute" => VetoMirrors
<1> DEFINE weight == executing.weight
           equity == EquityAt(account, open)
           target == TargetQuantity(weight)
           base == risk.last_close
           peak == Larger(risk.peak, equity)
           mark == [peak |-> peak, start_of_day |-> base]
           shown == ShownAt(equity, mark)
           order == OrderTo(target, account, open)
<1>0. weight \in Weights /\ weight \in Fraction
  BY ContractFacts
<1>1. equity \in Nat \ {0} /\ open \in Nat \ {0} /\ account.quantity \in Nat
      /\ weight \in Nat
  BY <1>0, SolventEquity, ContractFacts, MoneyAssumption DEF Solvent, SolventAt, Fraction
<1>2. peak \in Nat \ {0} /\ peak >= equity
  BY <1>1 DEF Larger
<1>3. OpenSnapshot.equity = equity /\ OpenSnapshot.base = base /\ OpenSnapshot.peak = peak
  BY DEF OpenSnapshot
<1>4. target \in Nat /\ (target = 0 \/ CandidateIsSafe(target, account, open, weight, equity))
  <2>1. target = TargetUnits(account, open, weight, equity)
    BY SizesAgree
  <2>2. equity \in Int
    BY <1>1
  <2> HIDE DEF equity, target, weight
  <2> QED
    BY <1>1, <2>1, <2>2, SizedIsSafe
<1>5. Change = target - account.quantity /\ target # account.quantity
  BY <1>1, <1>4 DEF Change
<1> HIDE DEF target, equity
<1>6. Veto(weight, Change) = IF Change < 0 THEN {} ELSE Breaches(equity, base, peak)
  <2>1. Veto(weight, Change) =
            IF Change < 0 THEN {}
            ELSE Breaches(OpenSnapshot.equity, OpenSnapshot.base, OpenSnapshot.peak)
    BY <1>4, <1>5, VetoIsForLosses DEF equity
  <2> QED
    BY <1>3, <2>1
<1>7. EvaluateOrder(EffectivePolicy, order, shown) = Breaches(equity, base, peak)
  <2>1. equity = EquityAt(account, open)
    BY DEF equity
  <2> HIDE DEF peak, order, mark, shown
  <2>2. order = OrderTo(target, account, open) /\ mark.peak = peak /\ mark.start_of_day = base
        /\ shown = ShownAt(equity, mark)
    BY DEF order, mark, shown
  <2> QED
    BY <1>0, <1>1, <1>2, <1>4, <1>5, <2>1, <2>2, RefusedForLosses
<1>8. Breaches(equity, base, peak) \subseteq LossReason
  BY DEF Breaches, When, LossReason
<1>9. EvaluateOrder(EffectivePolicy, OrderTo(TargetQuantity(executing.weight), account, open),
         Snapshot(account, OpenSnapshot.equity,
                  [peak |-> OpenSnapshot.peak, start_of_day |-> OpenSnapshot.base], FALSE))
      = Breaches(equity, base, peak)
  BY <1>3, <1>7 DEF target, ShownAt
<1>10. pc = "execute" => VetoMirrors
  BY <1>6, <1>8, <1>9 DEF VetoMirrors
<1> QED
  BY <1>6, <1>10

-----------------------------------------------------------------------------
(***************************************************************************)
(* The fixture's invariant.  The account is solvent and follows from the   *)
(* fills that are noted, but for the one LEAN has reported and the fixture *)
(* has not noted; an order that stands is one the account can fund; and    *)
(* the approved intents are those filled, but for the one that stands.     *)
(* Once the fixture has raised only the account is promised anything.      *)
(***************************************************************************)
Signals == [row : Nat, weight : Weights]
Point == [cash : Nat, quantity : Nat, equity : Nat, peak : Nat, start_of_day : Nat,
          halted : BOOLEAN, target : Weights]
Intent == [signal : Int, row : Nat, weight : Weights, side : Sides, quantity : Nat, open : Prices]
Fill == [intent : Nat, price : Nat, quantity : Nat, fee : Nat]
Trade == [fill : Nat, cash : Nat, quantity : Nat]
Trails == [bars : Seq(Point), intents : Seq(Intent), decisions : Seq(SUBSET LossReason),
           fills : Seq(Fill), trades : Seq(Trade)]

\* What a fill adds to the cash and to the holding, and the books after i fills.
Proceeds(side, f) == (IF side = Buy THEN -1 ELSE 1) * f.quantity * f.price - f.fee
Gained(side, f) == IF side = Buy THEN f.quantity ELSE -f.quantity
Books(t, i) == IF i = 0 THEN [cash |-> InitialCash, quantity |-> 0] ELSE t.trades[i]

Entry(t, i) ==
    LET f == t.fills[i]
        side == t.intents[f.intent].side
    IN  /\ f.intent \in 1 .. Len(t.intents) /\ f.quantity = t.intents[f.intent].quantity
        /\ t.trades[i].cash = Books(t, i - 1).cash + Proceeds(side, f)
        /\ t.trades[i].quantity = Books(t, i - 1).quantity + Gained(side, f)

\* A trail whose fills account for its trades.
Whole(t) ==
    /\ t \in Trails
    /\ Len(t.decisions) = Len(t.intents) /\ Len(t.trades) = Len(t.fills)
    /\ \A i \in 1 .. Len(t.intents) : t.intents[i].signal = t.intents[i].row - 1
    /\ \A i \in 1 .. Len(t.fills) : Entry(t, i)
    /\ \A i, j \in 1 .. Len(t.fills) : i < j => t.fills[i].intent < t.fills[j].intent

Approved(t) == {i \in DOMAIN t.intents : t.decisions[i] = {}}
Executed(t) == {t.fills[i].intent : i \in DOMAIN t.fills}

\* The account is what the last fill left.
Balanced == /\ account.cash = Books(trail, Len(trail.fills)).cash
            /\ account.quantity = Books(trail, Len(trail.fills)).quantity

\* An order LEAN has been given: not filled yet, or filled and not noted.
Standing(x) ==
    /\ active = Len(trail.intents) /\ active \in Nat \ {0}
    /\ Approved(trail) = Executed(trail) \cup {active}
    /\ \A i \in 1 .. Len(trail.fills) : trail.fills[i].intent < active
    /\ IF callback = None
         THEN /\ Balanced
              /\ SolventAt(Settled(x.side, x.quantity))
              /\ x.side = Buy => OnTarget(Settled(x.side, x.quantity), executing.weight)
         ELSE /\ callback \in [price : Nat, quantity : Nat, fee : Nat]
              /\ callback.quantity = x.quantity
              /\ account.cash = Books(trail, Len(trail.fills)).cash + Proceeds(x.side, callback)
              /\ account.quantity
                    = Books(trail, Len(trail.fills)).quantity + Gained(x.side, callback)

OrderInv ==
    IF pc = "ordered" THEN \E x \in Intent : x = trail.intents[active] /\ Standing(x)
    ELSE active = None /\ callback = None /\ Approved(trail) = Executed(trail) /\ Balanced

RowInv ==
    /\ pc \in {"idle", "execute", "ordered", "close", "traced"}
    /\ signal \in [closes : Seq(Prices), pending : Signals \cup {None}]
    /\ pc \in {"execute", "ordered", "close"} => open \in Prices /\ signal.pending = None
    /\ pc \in {"idle", "traced"} /\ signal.pending # None => signal.pending.row = Len(trail.bars)
    /\ pc \in {"execute", "ordered"} =>
         executing \in Signals /\ executing.row = Len(trail.bars)
    /\ pc = "traced" => TraceIsComplete

Marked == risk \in [peak : Nat \ {0}, last_close : Nat \ {0}, reasons : SUBSET LossReason]

FixtureInv ==
    /\ Solvent /\ Marked /\ FillsAreFunded
    /\ pc = "raised" \/ (RowInv /\ Whole(trail) /\ OrderInv)

LEMMA FixtureBegins == Init => FixtureInv
<1> SUFFICES ASSUME Init PROVE FixtureInv
  OBVIOUS
<1>1. Solvent /\ Marked /\ FillsAreFunded
  BY ContractFacts DEF Init, Solvent, SolventAt, Marked, FillsAreFunded
<1>2. /\ trail.bars = <<>> /\ trail.intents = <<>> /\ trail.decisions = <<>>
      /\ trail.fills = <<>> /\ trail.trades = <<>> /\ trail \in Trails
  BY DEF Init, Trails
<1>3. RowInv
  BY <1>2 DEF Init, RowInv
<1>4. Whole(trail)
  BY <1>2 DEF Whole
<1>5. OrderInv
  <2>1. Approved(trail) = {} /\ Executed(trail) = {}
    BY <1>2 DEF Approved, Executed
  <2>2. Balanced
    BY <1>2 DEF Init, Balanced, Books
  <2> QED
    BY <2>1, <2>2 DEF Init, OrderInv
<1> QED
  BY <1>1, <1>3, <1>4, <1>5 DEF FixtureInv

\* What is left behind when the fixture raises.
LEMMA Raised ==
    ASSUME FixtureInv, Raise
    PROVE  FixtureInv'
BY DEF FixtureInv, Raise, Solvent, SolventAt, Marked, FillsAreFunded, MarketValue, EquityAt

\* on_data up to the pending signal.
LEMMA RowOpens ==
    ASSUME FixtureInv, NEW ticks \in Prices, OpenRow(ticks)
    PROVE  FixtureInv'
<1>1. /\ pc = "idle" /\ RowInv /\ Whole(trail) /\ OrderInv /\ callback = None /\ active = None
      /\ account' = account /\ trail' = trail /\ active' = active /\ callback' = callback
  BY DEF FixtureInv, OpenRow, OrderInv
<1>2. Solvent' /\ FillsAreFunded'
  BY <1>1 DEF FixtureInv, Solvent, SolventAt, FillsAreFunded
<1>3. CASE pc' = "raised" /\ UNCHANGED <<signal, executing, risk>>
  BY <1>2, <1>3 DEF FixtureInv, Marked
<1>4. CASE /\ pc' = IF signal.pending # None /\ ~Halted THEN "execute" ELSE "close"
           /\ executing' = signal.pending
           /\ signal' = [signal EXCEPT !.pending = None]
           /\ risk' = [risk EXCEPT !.peak = Larger(@, EquityAt(account, ticks))]
  <2>1. Marked'
    <3>1. EquityAt(account, ticks) \in Nat \ {0}
      BY SolventEquity DEF FixtureInv
    <3>2. Larger(risk.peak, EquityAt(account, ticks)) \in Nat \ {0}
      BY <3>1 DEF FixtureInv, Marked, Larger
    <3> QED
      BY <1>4, <3>2 DEF FixtureInv, Marked
  <2>2. RowInv'
    <3>1. signal' \in [closes : Seq(Prices), pending : Signals \cup {None}]
          /\ signal'.pending = None
      BY <1>1, <1>4 DEF RowInv
    <3>2. open' = ticks
      BY DEF OpenRow
    <3>3. pc' = "execute" \/ pc' = "close"
      BY <1>4
    <3>4. pc' = "execute" =>
            executing' \in Signals /\ executing'.row = Len(trail.bars)
      BY <1>1, <1>4 DEF RowInv
    <3> QED
      BY <1>1, <3>1, <3>2, <3>3, <3>4 DEF RowInv
  <2>3. Whole(trail)'
    BY <1>1
  <2>4. OrderInv'
    BY <1>1, <1>4 DEF OrderInv, Balanced
  <2> QED
    BY <1>2, <2>1, <2>2, <2>3, <2>4 DEF FixtureInv
<1> QED
  BY <1>3, <1>4 DEF OpenRow

\* An intent and what was decided of it are noted.
Noted(t, x, reasons) ==
    [t EXCEPT !.intents = Append(@, x), !.decisions = Append(@, reasons)]

LEMMA IntentNoted ==
    ASSUME NEW t, Whole(t), NEW x \in Intent, x.signal = x.row - 1,
           NEW reasons \in SUBSET LossReason,
           NEW u, u = Noted(t, x, reasons)
    PROVE  /\ Whole(u) /\ u.bars = t.bars /\ u.fills = t.fills /\ u.trades = t.trades
           /\ u.intents = Append(t.intents, x) /\ Len(u.intents) = Len(t.intents) + 1
           /\ u.intents[Len(u.intents)] = x
           /\ Executed(u) = Executed(t)
           /\ Approved(u) = Approved(t)
                 \cup (IF reasons = {} THEN {Len(u.intents)} ELSE {})
           /\ \A i \in 1 .. Len(t.fills) : t.fills[i].intent < Len(u.intents)
<1> DEFINE n == Len(t.intents)
<1>1. /\ t \in Trails /\ n \in Nat /\ Len(t.decisions) = n
      /\ t.intents \in Seq(Intent) /\ t.decisions \in Seq(SUBSET LossReason)
  BY DEF Whole, Trails
<1>2. /\ u.bars = t.bars /\ u.fills = t.fills /\ u.trades = t.trades
      /\ u.intents = Append(t.intents, x) /\ u.decisions = Append(t.decisions, reasons)
      /\ u \in Trails
  <2> DEFINE v == [t EXCEPT !.intents = Append(t.intents, x)]
  <2>0. Append(t.intents, x) \in Seq(Intent)
    BY <1>1
  <2>1. /\ v \in Trails /\ v.bars = t.bars /\ v.fills = t.fills /\ v.trades = t.trades
        /\ v.intents = Append(t.intents, x) /\ v.decisions = t.decisions
    BY <1>1, <2>0 DEF Trails
  <2>2. u = [v EXCEPT !.decisions = Append(v.decisions, reasons)]
    BY <1>1 DEF Trails, Noted
  <2> HIDE DEF v
  <2>3. Append(v.decisions, reasons) \in Seq(SUBSET LossReason)
    BY <1>1, <2>1
  <2> QED
    BY <2>1, <2>2, <2>3 DEF Trails
<1>3. /\ Len(u.intents) = n + 1 /\ Len(u.decisions) = n + 1
      /\ \A i \in 1 .. n : u.intents[i] = t.intents[i] /\ u.decisions[i] = t.decisions[i]
      /\ u.intents[n + 1] = x /\ u.decisions[n + 1] = reasons
  BY <1>1, <1>2
<1>4. Len(u.trades) = Len(u.fills) /\ Len(t.fills) \in Nat
  BY <1>1, <1>2 DEF Whole, Trails
<1>5. \A i \in 1 .. Len(u.intents) : u.intents[i].signal = u.intents[i].row - 1
  <2> SUFFICES ASSUME NEW i \in 1 .. Len(u.intents)
               PROVE  u.intents[i].signal = u.intents[i].row - 1
    OBVIOUS
  <2>1. CASE i = n + 1
    BY <1>3, <2>1
  <2>2. CASE i # n + 1
    <3>1. i \in 1 .. n
      BY <1>1, <1>3, <2>2
    <3>2. u.intents[i] = t.intents[i]
      BY <1>3, <3>1
    <3> QED
      BY <3>1, <3>2 DEF Whole
  <2> QED
    BY <2>1, <2>2
<1>6. \A i \in 1 .. Len(t.fills) : t.fills[i].intent \in 1 .. n
  BY DEF Whole, Entry
<1>7. \A i \in 1 .. Len(u.fills) : Entry(u, i)
  <2> SUFFICES ASSUME NEW i \in 1 .. Len(u.fills) PROVE Entry(u, i)
    OBVIOUS
  <2>1. i \in 1 .. Len(t.fills) /\ Entry(t, i) /\ u.fills[i] = t.fills[i]
        /\ u.trades[i] = t.trades[i]
    BY <1>2 DEF Whole
  <2>2. Books(u, i - 1) = Books(t, i - 1)
    BY <1>2 DEF Books
  <2>3. u.intents[t.fills[i].intent] = t.intents[t.fills[i].intent]
        /\ t.fills[i].intent \in 1 .. Len(u.intents)
    BY <1>1, <1>3, <1>6, <2>1
  <2> QED
    BY <2>1, <2>2, <2>3 DEF Entry
<1>8. \A i, j \in 1 .. Len(u.fills) : i < j => u.fills[i].intent < u.fills[j].intent
  BY <1>2 DEF Whole
<1>9. Whole(u)
  BY <1>2, <1>3, <1>4, <1>5, <1>7, <1>8 DEF Whole
<1>10. Executed(u) = Executed(t)
  BY <1>2 DEF Executed
<1>11. Approved(u) = Approved(t) \cup (IF reasons = {} THEN {n + 1} ELSE {})
  <2>1. DOMAIN u.intents = 1 .. n + 1 /\ DOMAIN t.intents = 1 .. n
    BY <1>1, <1>2, <1>3
  <2>2. 1 .. n + 1 = (1 .. n) \cup {n + 1} /\ n + 1 \notin 1 .. n
    BY <1>1
  <2> QED
    BY <1>3, <2>1, <2>2 DEF Approved
<1>12. \A i \in 1 .. Len(t.fills) : t.fills[i].intent < n + 1
  BY <1>1, <1>6
<1> QED
  BY <1>2, <1>3, <1>9, <1>10, <1>11, <1>12

\* _execute_pending up to market_order.
LEMMA OrderIsPlaced ==
    ASSUME FixtureInv, Execute
    PROVE  FixtureInv'
<1>1. /\ pc = "execute" /\ RowInv /\ Whole(trail) /\ OrderInv /\ callback = None /\ active = None
      /\ account' = account /\ open' = open /\ signal' = signal /\ executing' = executing
      /\ risk' = risk /\ open \in Prices /\ signal.pending = None
      /\ executing \in Signals /\ executing.row = Len(trail.bars)
      /\ Approved(trail) = Executed(trail) /\ Balanced
  BY DEF FixtureInv, Execute, OrderInv, RowInv
<1>2. Solvent' /\ Marked'
  BY <1>1 DEF FixtureInv, Solvent, SolventAt, Marked
<1>3. ASSUME Change = 0 PROVE FixtureInv'
  <2>1. pc' = "close" /\ UNCHANGED <<trail, active, callback>>
    BY <1>3 DEF Execute
  <2>2. FillsAreFunded'
    BY <1>1, <2>1 DEF FixtureInv, FillsAreFunded
  <2>3. RowInv'
    BY <1>1, <2>1 DEF RowInv
  <2>4. OrderInv'
    BY <1>1, <2>1 DEF OrderInv, Balanced
  <2> QED
    BY <1>1, <1>2, <2>1, <2>2, <2>3, <2>4 DEF FixtureInv
<1>4. ASSUME Change # 0 PROVE FixtureInv'
  <2> DEFINE weight == executing.weight
             side == IF Change > 0 THEN Buy ELSE Sell
             quantity == Magnitude(Change)
             x == [signal |-> executing.row, row |-> Row, weight |-> weight,
                   side |-> side, quantity |-> quantity, open |-> open]
             reasons == Veto(weight, Change)
             u == [trail EXCEPT !.intents = Append(@, x), !.decisions = Append(@, reasons)]
  <2>1. /\ trail' = u
        /\ pc' = IF reasons = {} THEN "ordered" ELSE "close"
        /\ active' = IF reasons = {} THEN Len(trail'.intents) ELSE active
        /\ callback' = IF reasons = {} THEN None ELSE callback
    BY <1>4 DEF Execute
  <2>2. weight \in Weights /\ executing.row \in Nat /\ Row = executing.row + 1
    BY <1>1 DEF Signals, Row
  <2>3. Solvent
    BY DEF FixtureInv
  <2>a. weight \in Nat
    BY <2>2, ContractFacts DEF Weights
  <2>b. EquityAt(account, open) \in Int /\ open \in Nat \ {0}
    BY <1>1, <2>3, SolventEquity, ContractFacts
  <2> DEFINE target == TargetQuantity(weight)
  <2>4. /\ Change = target - account.quantity /\ account.quantity \in Nat
        /\ target \in Int
    <3>2. account.quantity \in Nat /\ account.cash \in Nat
      BY <2>3 DEF Solvent, SolventAt
    <3>3. TargetUnits(account, open, weight, EquityAt(account, open)) \in Nat
      <4> HIDE DEF weight
      <4> QED
        BY <2>a, <2>b, <3>2, SizedIsSafe
    <3>4. target = TargetUnits(account, open, weight, EquityAt(account, open))
      BY <1>1, <2>2, <2>3, SizesAgree
    <3> QED
      BY <3>2, <3>3, <3>4 DEF Change
  <2> HIDE DEF target
  <2>5. target # account.quantity /\ quantity = Magnitude(target - account.quantity)
        /\ side = IF target > account.quantity THEN Buy ELSE Sell
    BY <1>4, <2>4
  <2>6. /\ target \in Nat /\ quantity \in Nat \ {0} /\ side \in Sides
        /\ SolventAt(Settled(side, quantity))
        /\ side = Buy => OnTarget(Settled(side, quantity), weight)
    <3>1. target = TargetQuantity(weight)
      BY DEF target
    <3> HIDE DEF weight, side, quantity
    <3> QED
      BY <1>1, <2>2, <2>3, <2>5, <3>1, FillIsFunded
  <2>7. reasons \in SUBSET LossReason
    <3>1. target = 0 \/ CandidateIsSafe(target, account, open, weight, EquityAt(account, open))
      <4>2. account.quantity \in Nat /\ account.cash \in Nat
        BY <2>3 DEF Solvent, SolventAt
      <4>3. target = TargetUnits(account, open, weight, EquityAt(account, open))
        BY <1>1, <2>2, <2>3, SizesAgree DEF target
      <4> HIDE DEF weight
      <4> QED
        BY <2>a, <2>b, <4>2, <4>3, SizedIsSafe
    <3>2. reasons = IF Change < 0 THEN {}
                    ELSE Breaches(OpenSnapshot.equity, OpenSnapshot.base, OpenSnapshot.peak)
      <4> HIDE DEF weight
      <4> QED
        BY <1>1, <2>2, <2>3, <2>4, <2>5, <2>6, <3>1, VetoIsForLosses
    <3>3. \A e, b, p : Breaches(e, b, p) \in SUBSET LossReason
      BY DEF Breaches, When, LossReason
    <3> HIDE DEF reasons
    <3> QED
      BY <3>2, <3>3
  <2>8. x \in Intent /\ x.signal = x.row - 1 /\ x.side = side /\ x.quantity = quantity
    <3> HIDE DEF side, quantity, weight
    <3> QED
      BY <1>1, <2>2, <2>6 DEF Intent
  <2> HIDE DEF x, reasons, side, quantity, weight
  <2>9. /\ Whole(u) /\ u.bars = trail.bars /\ u.fills = trail.fills /\ u.trades = trail.trades
        /\ u.intents = Append(trail.intents, x) /\ Len(u.intents) = Len(trail.intents) + 1
        /\ u.intents[Len(u.intents)] = x
        /\ Executed(u) = Executed(trail)
        /\ Approved(u) = Approved(trail) \cup (IF reasons = {} THEN {Len(u.intents)} ELSE {})
        /\ \A i \in 1 .. Len(trail.fills) : trail.fills[i].intent < Len(u.intents)
    <3>1. u = Noted(trail, x, reasons)
      BY DEF Noted
    <3> HIDE DEF u
    <3> QED
      BY <1>1, <2>7, <2>8, <3>1, IntentNoted
  <2> HIDE DEF u
  <2>10. callback' = None /\ FillsAreFunded'
    BY <1>1, <2>1 DEF FixtureInv, FillsAreFunded
  <2>11. RowInv'
    BY <1>1, <2>1, <2>9 DEF RowInv
  <2>12. Balanced'
    BY <1>1, <2>1, <2>9 DEF Balanced, Books
  <2>13. OrderInv'
    <3>1. CASE reasons = {}
      <4>1. pc' = "ordered" /\ active' = Len(u.intents) /\ trail' = u
        BY <2>1, <3>1
      <4>2. trail'.intents[active'] = x /\ active' \in Nat \ {0}
        <5>1. Len(trail.intents) \in Nat
          BY <1>1 DEF Whole, Trails
        <5> QED
          BY <2>9, <4>1, <5>1
      <4>3. PICK y \in Intent : y = x
        BY <2>8
      <4>4. Settled(y.side, y.quantity)' = Settled(y.side, y.quantity)
        BY <1>1 DEF Settled, FillFee, FillPrice
      <4>5. /\ SolventAt(Settled(y.side, y.quantity))
            /\ y.side = Buy => OnTarget(Settled(y.side, y.quantity), executing.weight)
        BY <2>6, <2>8, <4>3 DEF weight
      <4>6. SolventAt(Settled(y.side, y.quantity))'
        BY <4>4, <4>5 DEF SolventAt
      <4>7. y.side = Buy => OnTarget(Settled(y.side, y.quantity), executing.weight)'
        BY <1>1, <4>4, <4>5 DEF OnTarget, EquityAt
      <4>8. Approved(trail)' = Executed(trail)' \cup {active'}
            /\ \A i \in 1 .. Len(trail'.fills) : trail'.fills[i].intent < active'
        BY <1>1, <2>9, <3>1, <4>1
      <4>9. Standing(y)'
        BY <2>10, <2>12, <4>1, <4>2, <4>6, <4>7, <4>8 DEF Standing
      <4> QED
        BY <4>1, <4>2, <4>3, <4>9 DEF OrderInv
    <3>2. CASE reasons # {}
      <4>1. pc' = "close" /\ active' = None /\ trail' = u
        BY <1>1, <2>1, <3>2
      <4>2. Approved(trail)' = Executed(trail)'
        BY <1>1, <2>9, <3>2, <4>1
      <4> QED
        BY <2>10, <2>12, <4>1, <4>2 DEF OrderInv
    <3> QED
      BY <3>1, <3>2
  <2> QED
    BY <1>2, <2>1, <2>9, <2>10, <2>11, <2>13 DEF FixtureInv
<1> QED
  BY <1>3, <1>4

\* on_order_event for a whole fill, once or again.
LEMMA OrderIsFilled ==
    ASSUME FixtureInv, OrderFilled
    PROVE  FixtureInv'
<1>1. CASE Unexpected
  <2>1. Raise
    BY <1>1 DEF OrderFilled, Filled
  <2> QED
    BY <2>1, Raised
<1>2. ASSUME ~Unexpected PROVE FixtureInv'
  <2>1. active # None /\ callback = None /\ pc # "raised"
    BY <1>2 DEF Unexpected, OrderFilled
  <2>2. RowInv /\ Whole(trail) /\ OrderInv /\ pc = "ordered" /\ open \in Prices
    BY <2>1 DEF FixtureInv, OrderInv, RowInv
  <2>3. PICK x \in Intent : x = trail.intents[active] /\ Standing(x)
    BY <2>2 DEF OrderInv
  <2>4. /\ active = Len(trail.intents) /\ Balanced
        /\ SolventAt(Settled(x.side, x.quantity))
        /\ x.side = Buy => OnTarget(Settled(x.side, x.quantity), executing.weight)
    BY <2>1, <2>3 DEF Standing
  <2>5. x.side \in Sides /\ x.quantity \in Nat
    BY DEF Intent
  <2>6. FillPrice(x.side) \in Nat /\ FillFee(x.quantity) \in Nat
    <3>1. open \in Nat \ {0}
      BY <2>2, ContractFacts
    <3> QED
      BY <2>2, <2>5, <3>1, PricesTyped, FeeCovered DEF FillPrice
  <2>7. Filled(x)
    BY <2>3, <2>4 DEF OrderFilled
  <2> DEFINE c == [price |-> FillPrice(x.side), quantity |-> x.quantity,
                   fee |-> FillFee(x.quantity)]
  <2>8. /\ callback' = c
        /\ account' = Settled(x.side, x.quantity)
        /\ UNCHANGED <<pc, open, signal, executing, risk, trail, active>>
    BY <1>2, <2>7 DEF Filled, Settled
  <2>9. callback' # None /\ c \in [price : Nat, quantity : Nat, fee : Nat]
    BY <2>5, <2>6, <2>8, FixtureAssumption
  <2>10. Solvent' /\ Marked'
    BY <2>4, <2>8 DEF FixtureInv, Solvent, SolventAt, Marked
  <2>11. FillsAreFunded'
    <3>1. account'.cash >= 0
      BY <2>10 DEF Solvent, SolventAt
    <3>2. trail'.intents[active'].side = Buy =>
             MarketValue(account'.quantity, open') * WeightScale
                 <= executing'.weight * EquityAt(account', open')
      BY <2>3, <2>4, <2>8 DEF OnTarget
    <3> QED
      BY <3>1, <3>2 DEF FillsAreFunded, EquityAt
  <2>12. RowInv'
    <3>1. TraceIsComplete' <=> TraceIsComplete
      BY <2>8 DEF TraceIsComplete
    <3> QED
      BY <2>2, <2>8, <3>1 DEF RowInv
  <2>13. /\ account'.cash = Books(trail, Len(trail.fills)).cash + Proceeds(x.side, c)
         /\ account'.quantity = Books(trail, Len(trail.fills)).quantity + Gained(x.side, c)
    <3> DEFINE paid == x.quantity * FillPrice(x.side)
    <3>1. paid \in Nat
      BY <2>5, <2>6, Z3
    <3>2. Proceeds(x.side, c) = (IF x.side = Buy THEN -paid ELSE paid) - FillFee(x.quantity)
      <4>1. (-1) * x.quantity * FillPrice(x.side) = -paid
            /\ 1 * x.quantity * FillPrice(x.side) = paid
        BY <2>5, <2>6, Z3
      <4> QED
        BY <4>1 DEF Proceeds
    <3>3. /\ account'.cash = account.cash - FillFee(x.quantity)
                                + (IF x.side = Buy THEN -paid ELSE paid)
          /\ account'.quantity = account.quantity
                                + (IF x.side = Buy THEN x.quantity ELSE -x.quantity)
      BY <2>8 DEF Settled
    <3>4. account.cash \in Nat
      BY DEF FixtureInv, Solvent, SolventAt
    <3> HIDE DEF paid
    <3>5. account'.cash = account.cash + Proceeds(x.side, c)
      BY <2>6, <3>1, <3>2, <3>3, <3>4
    <3>6. account'.quantity = account.quantity + Gained(x.side, c)
      BY <3>3 DEF Gained
    <3> QED
      BY <2>4, <3>5, <3>6 DEF Balanced
  <2>14. Standing(x)'
    <3>1. /\ active' = active /\ trail' = trail /\ callback' = c /\ callback' # None
          /\ callback'.quantity = x.quantity
      BY <2>8, <2>9
    <3> HIDE DEF c
    <3> QED
      BY <2>3, <2>9, <2>13, <3>1 DEF Standing, Books, Proceeds, Gained
  <2>15. OrderInv'
    BY <2>2, <2>3, <2>8, <2>14 DEF OrderInv
  <2> QED
    BY <2>2, <2>8, <2>10, <2>11, <2>12, <2>15 DEF FixtureInv
<1> QED
  BY <1>1, <1>2

\* A fill and the trade it makes are noted.
Entered(t, f, r) == [t EXCEPT !.fills = Append(@, f), !.trades = Append(@, r)]

LEMMA FillNoted ==
    ASSUME NEW t, Whole(t), NEW f \in Fill, NEW r \in Trade,
           f.intent \in 1 .. Len(t.intents), f.quantity = t.intents[f.intent].quantity,
           \A i \in 1 .. Len(t.fills) : t.fills[i].intent < f.intent,
           r.cash = Books(t, Len(t.fills)).cash + Proceeds(t.intents[f.intent].side, f),
           r.quantity = Books(t, Len(t.fills)).quantity + Gained(t.intents[f.intent].side, f),
           NEW u, u = Entered(t, f, r)
    PROVE  /\ Whole(u) /\ u.bars = t.bars /\ u.intents = t.intents
           /\ Books(u, Len(u.fills)) = r
           /\ Executed(u) = Executed(t) \cup {f.intent}
           /\ Approved(u) = Approved(t)
<1> DEFINE n == Len(t.fills)
<1>1. /\ t \in Trails /\ n \in Nat /\ Len(t.trades) = n
      /\ t.fills \in Seq(Fill) /\ t.trades \in Seq(Trade)
  BY DEF Whole, Trails
<1>2. /\ u.bars = t.bars /\ u.intents = t.intents /\ u.decisions = t.decisions
      /\ u.fills = Append(t.fills, f) /\ u.trades = Append(t.trades, r)
      /\ u \in Trails
  <2> DEFINE v == [t EXCEPT !.fills = Append(t.fills, f)]
  <2>0. Append(t.fills, f) \in Seq(Fill)
    BY <1>1
  <2>1. /\ v \in Trails /\ v.bars = t.bars /\ v.intents = t.intents /\ v.decisions = t.decisions
        /\ v.fills = Append(t.fills, f) /\ v.trades = t.trades
    BY <1>1, <2>0 DEF Trails
  <2>2. u = [v EXCEPT !.trades = Append(v.trades, r)]
    BY <1>1 DEF Trails, Entered
  <2> HIDE DEF v
  <2>3. Append(v.trades, r) \in Seq(Trade)
    BY <1>1, <2>1
  <2> QED
    BY <2>1, <2>2, <2>3 DEF Trails
<1>3. /\ Len(u.fills) = n + 1 /\ Len(u.trades) = n + 1
      /\ \A i \in 1 .. n : u.fills[i] = t.fills[i] /\ u.trades[i] = t.trades[i]
      /\ u.fills[n + 1] = f /\ u.trades[n + 1] = r
  BY <1>1, <1>2
<1>4. \A i \in 0 .. n : Books(u, i) = Books(t, i)
  BY <1>1, <1>3 DEF Books
<1>5. \A i \in 1 .. Len(u.fills) : Entry(u, i)
  <2> SUFFICES ASSUME NEW i \in 1 .. Len(u.fills) PROVE Entry(u, i)
    OBVIOUS
  <2>1. CASE i = n + 1
    <3>1. i - 1 = n /\ Books(u, i - 1) = Books(t, n) /\ u.fills[i] = f /\ u.trades[i] = r
      BY <1>1, <1>3, <1>4, <2>1
    <3> QED
      BY <1>2, <3>1 DEF Entry
  <2>2. CASE i # n + 1
    <3>1. i \in 1 .. n /\ i - 1 \in 0 .. n
      BY <1>1, <1>3, <2>2
    <3>2. u.fills[i] = t.fills[i] /\ u.trades[i] = t.trades[i]
          /\ Books(u, i - 1) = Books(t, i - 1) /\ Entry(t, i)
      BY <1>3, <1>4, <3>1 DEF Whole
    <3> QED
      BY <1>2, <3>2 DEF Entry
  <2> QED
    BY <2>1, <2>2
<1>6. \A i, j \in 1 .. Len(u.fills) : i < j => u.fills[i].intent < u.fills[j].intent
  <2> SUFFICES ASSUME NEW i \in 1 .. Len(u.fills), NEW j \in 1 .. Len(u.fills), i < j
               PROVE  u.fills[i].intent < u.fills[j].intent
    OBVIOUS
  <2>1. i \in 1 .. n /\ u.fills[i] = t.fills[i]
    BY <1>1, <1>3
  <2>2. CASE j = n + 1
    BY <1>3, <2>1, <2>2
  <2>3. CASE j # n + 1
    <3>1. j \in 1 .. n /\ u.fills[j] = t.fills[j]
      BY <1>1, <1>3, <2>3
    <3> QED
      BY <2>1, <3>1 DEF Whole
  <2> QED
    BY <2>2, <2>3
<1>7. Whole(u)
  BY <1>2, <1>3, <1>5, <1>6 DEF Whole
<1>8. Executed(u) = Executed(t) \cup {f.intent}
  <2>1. DOMAIN u.fills = 1 .. n + 1 /\ DOMAIN t.fills = 1 .. n
    BY <1>1, <1>2, <1>3
  <2>2. 1 .. n + 1 = (1 .. n) \cup {n + 1}
    BY <1>1
  <2> DEFINE indices == 1 .. n
  <2>3. \A e : e \in Executed(u) <=> \E i \in indices \cup {n + 1} : e = u.fills[i].intent
    BY <2>1, <2>2 DEF Executed
  <2>4. \A e : e \in Executed(t) <=> \E i \in indices : e = t.fills[i].intent
    BY <2>1 DEF Executed
  <2>5. \A i \in indices : u.fills[i].intent = t.fills[i].intent
    BY <1>3
  <2> HIDE DEF indices
  <2>6. u.fills[n + 1].intent = f.intent
    BY <1>3
  <2>7. \A e : e \in Executed(u) <=>
              (\E i \in indices : e = u.fills[i].intent) \/ e = u.fills[n + 1].intent
    BY <2>3
  <2>8. \A e : e \in Executed(u) <=> e \in Executed(t) \/ e = f.intent
    BY <2>4, <2>5, <2>6, <2>7
  <2> QED
    BY <2>8
<1>9. Approved(u) = Approved(t)
  BY <1>2 DEF Approved
<1>10. Books(u, n + 1) = r
  BY <1>1, <1>3 DEF Books
<1> QED
  BY <1>2, <1>3, <1>7, <1>8, <1>9, <1>10

\* _execute_pending once market_order has returned.
LEMMA OrderIsEntered ==
    ASSUME FixtureInv, OrderReturns
    PROVE  FixtureInv'
<1>1. /\ pc = "ordered" /\ RowInv /\ Whole(trail) /\ OrderInv /\ open \in Prices
      /\ signal.pending = None
      /\ active' = None /\ callback' = None
      /\ account' = account /\ open' = open /\ signal' = signal /\ executing' = executing
      /\ risk' = risk
  BY DEF FixtureInv, OrderReturns, OrderInv, RowInv
<1>2. Solvent' /\ Marked' /\ FillsAreFunded'
  BY <1>1 DEF FixtureInv, Solvent, SolventAt, Marked, FillsAreFunded
<1>3. CASE callback = None
  <2>1. pc' = "raised"
    BY <1>3 DEF OrderReturns
  <2> QED
    BY <1>2, <2>1 DEF FixtureInv
<1>4. ASSUME callback # None PROVE FixtureInv'
  <2> DEFINE f == [intent |-> active, price |-> callback.price,
                   quantity |-> callback.quantity, fee |-> callback.fee]
             r == [fill |-> Len(trail.fills) + 1, cash |-> account.cash,
                   quantity |-> account.quantity]
             u == Entered(trail, f, r)
  <2>1. pc' = "close" /\ trail' = u
    BY <1>4 DEF OrderReturns, FinalizeFill, Entered
  <2>2. PICK x \in Intent : x = trail.intents[active] /\ Standing(x)
    BY <1>1 DEF OrderInv
  <2>3. /\ active = Len(trail.intents) /\ active \in Nat \ {0}
        /\ Approved(trail) = Executed(trail) \cup {active}
        /\ \A i \in 1 .. Len(trail.fills) : trail.fills[i].intent < active
        /\ callback \in [price : Nat, quantity : Nat, fee : Nat]
        /\ callback.quantity = x.quantity
        /\ account.cash = Books(trail, Len(trail.fills)).cash + Proceeds(x.side, callback)
        /\ account.quantity
              = Books(trail, Len(trail.fills)).quantity + Gained(x.side, callback)
    BY <1>4, <2>2 DEF Standing
  <2>4. /\ f \in Fill /\ f.intent = active /\ f.quantity = callback.quantity
        /\ f.price = callback.price /\ f.fee = callback.fee
    BY <2>3 DEF Fill
  <2>5. r \in Trade /\ r.cash = account.cash /\ r.quantity = account.quantity
    <3>1. Len(trail.fills) \in Nat
      BY <1>1 DEF Whole, Trails
    <3> QED
      BY <3>1 DEF FixtureInv, Solvent, SolventAt, Trade
  <2>6. u = Entered(trail, f, r)
    OBVIOUS
  <2> HIDE DEF f, r, u
  <2>7. Proceeds(x.side, f) = Proceeds(x.side, callback) /\ Gained(x.side, f) = Gained(x.side, callback)
    BY <2>4 DEF Proceeds, Gained
  <2>8. /\ f.intent \in 1 .. Len(trail.intents)
        /\ f.quantity = trail.intents[f.intent].quantity
        /\ \A i \in 1 .. Len(trail.fills) : trail.fills[i].intent < f.intent
        /\ r.cash = Books(trail, Len(trail.fills)).cash
                       + Proceeds(trail.intents[f.intent].side, f)
        /\ r.quantity = Books(trail, Len(trail.fills)).quantity
                           + Gained(trail.intents[f.intent].side, f)
    <3>1. f.intent \in 1 .. Len(trail.intents)
      BY <2>3, <2>4
    <3> QED
      BY <2>2, <2>3, <2>4, <2>5, <2>7, <3>1
  <2>9. /\ Whole(u) /\ u.bars = trail.bars /\ u.intents = trail.intents
        /\ Books(u, Len(u.fills)) = r
        /\ Executed(u) = Executed(trail) \cup {f.intent}
        /\ Approved(u) = Approved(trail)
    BY <1>1, <2>4, <2>5, <2>6, <2>8, FillNoted
  <2>10. RowInv'
    BY <1>1, <2>1, <2>9 DEF RowInv
  <2>11. Balanced'
    BY <1>1, <2>1, <2>5, <2>9 DEF Balanced
  <2>12. OrderInv'
    BY <1>1, <2>1, <2>3, <2>4, <2>9, <2>11 DEF OrderInv
  <2> QED
    BY <1>2, <2>1, <2>9, <2>10, <2>12 DEF FixtureInv
<1> QED
  BY <1>3, <1>4

\* A closed row is noted.
LEMMA BarNoted ==
    ASSUME NEW t, Whole(t), NEW p \in Point,
           NEW u, u = [t EXCEPT !.bars = Append(@, p)]
    PROVE  /\ Whole(u) /\ Len(u.bars) = Len(t.bars) + 1
           /\ u.intents = t.intents /\ u.decisions = t.decisions
           /\ u.fills = t.fills /\ u.trades = t.trades
<1>1. t \in Trails /\ t.bars \in Seq(Point)
  BY DEF Whole, Trails
<1>2. Append(t.bars, p) \in Seq(Point) /\ Len(Append(t.bars, p)) = Len(t.bars) + 1
  BY <1>1
<1>3. /\ u \in Trails /\ u.bars = Append(t.bars, p)
      /\ u.intents = t.intents /\ u.decisions = t.decisions
      /\ u.fills = t.fills /\ u.trades = t.trades
  BY <1>1, <1>2 DEF Trails
<1>4. \A i \in 1 .. Len(t.fills) : Entry(u, i)
  BY <1>3 DEF Whole, Entry, Books
<1>5. Whole(u)
  BY <1>3, <1>4 DEF Whole
<1> QED
  BY <1>2, <1>3, <1>5

\* The rest of on_data.
LEMMA RowCloses ==
    ASSUME FixtureInv, NEW ticks \in Prices, CloseRow(ticks)
    PROVE  FixtureInv'
<1>1. /\ pc = "close" /\ RowInv /\ Whole(trail) /\ OrderInv /\ open \in Prices
      /\ signal.pending = None /\ active = None /\ callback = None
      /\ Approved(trail) = Executed(trail) /\ Balanced
      /\ pc' = "idle" /\ account' = account /\ active' = active /\ callback' = callback
      /\ Solvent /\ Marked
  BY DEF FixtureInv, CloseRow, OrderInv, RowInv
<1>2. Solvent' /\ FillsAreFunded'
  BY <1>1 DEF FixtureInv, Solvent, SolventAt, FillsAreFunded
<1> DEFINE equity == EquityAt(account, ticks)
           peak   == Larger(risk.peak, equity)
           target == IF Ready(signal'.closes) THEN Target(signal'.closes) ELSE 0
           p == [cash |-> account.cash, quantity |-> account.quantity, equity |-> equity,
                 peak |-> peak, start_of_day |-> risk.last_close,
                 halted |-> risk'.reasons # {}, target |-> target]
<1>3. equity \in Nat \ {0} /\ peak \in Nat \ {0}
  <2>1. equity \in Nat \ {0}
    BY <1>1, SolventEquity
  <2> HIDE DEF equity
  <2> QED
    BY <1>1, <2>1 DEF Marked, Larger
<1>4. Marked'
  <2>1. risk' = [peak |-> peak, last_close |-> equity,
                 reasons |-> IF Halted THEN risk.reasons
                             ELSE Breaches(equity, risk.last_close, peak)]
    BY DEF CloseRow, RecordClose
  <2>2. \A e, b, h : Breaches(e, b, h) \in SUBSET LossReason
    BY DEF Breaches, When, LossReason
  <2> HIDE DEF equity, peak
  <2> QED
    BY <1>1, <1>3, <2>1, <2>2 DEF Marked
<1>5. target \in Weights
  BY DEF Target, Weights
<1>6. trail' = [trail EXCEPT !.bars = Append(@, p)]
  BY DEF CloseRow, RecordClose
<1>7. p \in Point
  <2>1. account.cash \in Nat /\ account.quantity \in Nat /\ risk.last_close \in Nat
    BY <1>1 DEF Solvent, SolventAt, Marked
  <2>2. (risk'.reasons # {}) \in BOOLEAN
    OBVIOUS
  <2> HIDE DEF equity, peak, target
  <2> QED
    BY <1>3, <1>5, <2>1, <2>2 DEF Point
<1> HIDE DEF p
<1>8. /\ Whole(trail)' /\ Len(trail'.bars) = Len(trail.bars) + 1
      /\ trail'.intents = trail.intents /\ trail'.decisions = trail.decisions
      /\ trail'.fills = trail.fills /\ trail'.trades = trail.trades
  <2>1. PICK u : u = trail'
    OBVIOUS
  <2>2. /\ Whole(u) /\ Len(u.bars) = Len(trail.bars) + 1
        /\ u.intents = trail.intents /\ u.decisions = trail.decisions
        /\ u.fills = trail.fills /\ u.trades = trail.trades
    BY <1>1, <1>6, <1>7, <2>1, BarNoted
  <2> QED
    BY <2>1, <2>2
<1>9. RowInv'
  <2> DEFINE closes == Recent(Append(signal.closes, ticks))
  <2>1. signal' = [closes |-> closes,
                   pending |-> IF ~Ready(closes) THEN signal.pending
                               ELSE [row |-> Row, weight |-> Target(closes)]]
    BY DEF CloseRow, FinishBar
  <2>2. closes \in Seq(Prices)
    <3>1. Append(signal.closes, ticks) \in Seq(Prices)
      BY <1>1 DEF RowInv
    <3>2. Slow \in Nat
      BY SignalAssumption
    <3>3. \A s \in Seq(Prices) : Len(s) > Slow => Tail(s) \in Seq(Prices)
      BY <3>2
    <3> QED
      BY <3>1, <3>3 DEF Recent
  <2>3. Row \in Nat /\ Row = Len(trail'.bars) /\ Target(closes) \in Weights
    <3>1. Len(trail.bars) \in Nat
      BY <1>1 DEF Whole, Trails
    <3> QED
      BY <1>8, <3>1 DEF Row, Target, Weights
  <2> HIDE DEF closes
  <2>4. signal'.closes = closes /\ (signal'.pending = None \/
           (signal'.pending \in Signals /\ signal'.pending.row = Len(trail'.bars)))
    BY <1>1, <2>1, <2>3 DEF Signals
  <2>5. signal' \in [closes : Seq(Prices), pending : Signals \cup {None}]
    BY <2>1, <2>2, <2>4
  <2> QED
    BY <1>1, <2>4, <2>5 DEF RowInv
<1>10. OrderInv'
  <2>1. Approved(trail)' = Approved(trail) /\ Executed(trail)' = Executed(trail)
    BY <1>8 DEF Approved, Executed
  <2>2. Balanced'
    BY <1>1, <1>8 DEF Balanced, Books
  <2> QED
    BY <1>1, <2>1, <2>2 DEF OrderInv
<1> QED
  BY <1>2, <1>4, <1>8, <1>9, <1>10 DEF FixtureInv

\* on_end_of_algorithm.
LEMMA RunEnds ==
    ASSUME FixtureInv, EndOfAlgorithm
    PROVE  FixtureInv'
<1>1. /\ pc = "idle" /\ RowInv /\ Whole(trail) /\ OrderInv
      /\ UNCHANGED <<account, open, signal, executing, risk, trail, active, callback>>
  BY DEF FixtureInv, EndOfAlgorithm
<1>2. Solvent' /\ Marked' /\ FillsAreFunded'
  BY <1>1 DEF FixtureInv, Solvent, SolventAt, Marked, FillsAreFunded, EquityAt
<1>3. CASE pc' = "raised"
  BY <1>2, <1>3 DEF FixtureInv
<1>4. CASE pc' = "traced" /\ TraceIsComplete
  <2>1. TraceIsComplete'
    BY <1>1, <1>4 DEF TraceIsComplete
  <2>2. RowInv'
    BY <1>1, <1>4, <2>1 DEF RowInv
  <2>3. OrderInv'
    BY <1>1, <1>4 DEF OrderInv, Balanced
  <2> QED
    BY <1>1, <1>2, <2>2, <2>3 DEF FixtureInv
<1> QED
  BY <1>3, <1>4 DEF EndOfAlgorithm

\* The fixture waits while the local engine works.
LEMMA FixtureStill ==
    ASSUME FixtureInv, UNCHANGED vars
    PROVE  FixtureInv'
<1>1. /\ pc' = pc /\ account' = account /\ open' = open /\ signal' = signal
      /\ executing' = executing /\ risk' = risk /\ trail' = trail /\ active' = active
      /\ callback' = callback
  BY DEF vars
<1>2. Solvent' /\ Marked' /\ FillsAreFunded'
  BY <1>1 DEF FixtureInv, Solvent, SolventAt, Marked, FillsAreFunded, EquityAt
<1>3. CASE pc = "raised"
  BY <1>1, <1>2, <1>3 DEF FixtureInv
<1>4. CASE pc # "raised"
  <2>1. RowInv /\ Whole(trail) /\ OrderInv
    BY <1>4 DEF FixtureInv
  <2>2. RowInv'
    BY <1>1, <2>1 DEF RowInv, TraceIsComplete
  <2>3. CASE pc = "ordered"
    <3>1. PICK x \in Intent : x = trail.intents[active] /\ Standing(x)
      BY <2>1, <2>3 DEF OrderInv
    <3>2. Settled(x.side, x.quantity)' = Settled(x.side, x.quantity)
      BY <1>1 DEF Settled, FillFee, FillPrice
    <3>3. Standing(x)'
      BY <1>1, <3>1, <3>2 DEF Standing, Balanced, SolventAt, OnTarget, EquityAt
    <3>4. OrderInv'
      BY <1>1, <2>3, <3>1, <3>3 DEF OrderInv
    <3> QED
      BY <1>1, <1>2, <2>1, <2>2, <3>4 DEF FixtureInv
  <2>4. CASE pc # "ordered"
    <3>1. OrderInv'
      BY <1>1, <2>1, <2>4 DEF OrderInv, Balanced
    <3> QED
      BY <1>1, <1>2, <2>1, <2>2, <3>1 DEF FixtureInv
  <2> QED
    BY <2>3, <2>4
<1> QED
  BY <1>3, <1>4

\* Every step keeps the invariant.
LEMMA FixtureStepped ==
    ASSUME FixtureInv, Next \/ UNCHANGED vars
    PROVE  FixtureInv'
<1>1. PartiallyFilled \/ Misdelivered => Raise
  BY DEF PartiallyFilled, Misdelivered
<1> QED
  BY <1>1, RowOpens, RowCloses, OrderIsPlaced, OrderIsFilled, OrderIsEntered, RunEnds, Raised,
     FixtureStill DEF Next


\* The invariant says what FixtureMirrors asks.
LEMMA MirrorsKept ==
    ASSUME FixtureInv
    PROVE  SizingMirrors /\ VetoMirrors /\ FillsAreFunded /\ TraceIsWhole
<1>1. Solvent /\ Marked /\ FillsAreFunded
  BY DEF FixtureInv
<1>2. pc = "execute" => open \in Prices /\ executing.weight \in Weights
  BY DEF FixtureInv, RowInv, Signals
<1>3. SizingMirrors
  BY <1>1, <1>2, SizesAgree DEF SizingMirrors
<1>4. VetoMirrors
  <2>1. ASSUME pc = "execute", Change # 0 PROVE VetoMirrors
    BY <1>1, <1>2, <2>1, VetoesAgree DEF Marked
  <2>2. ASSUME ~(pc = "execute" /\ Change # 0) PROVE VetoMirrors
    BY <2>2 DEF VetoMirrors
  <2> QED
    BY <2>1, <2>2
<1>5. ASSUME pc = "traced" PROVE TraceIsWhole
  <2>1. RowInv /\ Whole(trail) /\ OrderInv /\ TraceIsComplete
        /\ Approved(trail) = Executed(trail) /\ Balanced
    BY <1>5 DEF FixtureInv, RowInv, OrderInv
  <2> DEFINE n == Len(trail.fills)
  <2>2. /\ trail \in Trails /\ n \in Nat /\ DOMAIN trail.fills = 1 .. n
        /\ Len(trail.trades) = n /\ trail.trades \in Seq(Trade)
    BY <2>1 DEF Whole, Trails
  <2>3. /\ {trail.fills[i].intent : i \in DOMAIN trail.fills}
              = {i \in DOMAIN trail.intents : trail.decisions[i] = {}}
        /\ \A i, j \in DOMAIN trail.fills :
              i < j => trail.fills[i].intent < trail.fills[j].intent
    BY <2>1, <2>2 DEF Approved, Executed, Whole
  <2>4. \A i \in DOMAIN trail.fills :
              LET f == trail.fills[i]
                  t == trail.trades[i]
                  earlier == IF i = 1 THEN [cash |-> InitialCash, quantity |-> 0]
                            ELSE trail.trades[i - 1]
                  intent == trail.intents[f.intent]
              IN  /\ intent.signal = intent.row - 1 /\ f.quantity = intent.quantity
                  /\ t.cash = earlier.cash + CashOf(f)
                  /\ t.quantity = earlier.quantity
                        + (IF intent.side = Buy THEN f.quantity ELSE -f.quantity)
    <3> SUFFICES ASSUME NEW i \in DOMAIN trail.fills
                 PROVE  LET f == trail.fills[i]
                            t == trail.trades[i]
                            earlier == IF i = 1 THEN [cash |-> InitialCash, quantity |-> 0]
                                      ELSE trail.trades[i - 1]
                            intent == trail.intents[f.intent]
                        IN  /\ intent.signal = intent.row - 1 /\ f.quantity = intent.quantity
                            /\ t.cash = earlier.cash + CashOf(f)
                            /\ t.quantity = earlier.quantity
                                  + (IF intent.side = Buy THEN f.quantity ELSE -f.quantity)
      OBVIOUS
    <3>1. i \in 1 .. n /\ Entry(trail, i)
      BY <2>1, <2>2 DEF Whole
    <3>2. Books(trail, i - 1) = IF i = 1 THEN [cash |-> InitialCash, quantity |-> 0]
                                ELSE trail.trades[i - 1]
      BY <3>1, <2>2 DEF Books
    <3>3. trail.fills[i].intent \in 1 .. Len(trail.intents)
      BY <3>1 DEF Entry
    <3>4. trail.intents[trail.fills[i].intent].signal
             = trail.intents[trail.fills[i].intent].row - 1
      BY <2>1, <3>3 DEF Whole
    <3>5. Proceeds(trail.intents[trail.fills[i].intent].side, trail.fills[i])
             = CashOf(trail.fills[i])
      BY DEF Proceeds, CashOf
    <3> QED
      BY <3>1, <3>2, <3>4, <3>5 DEF Entry, Gained
  <2>5. trail.trades # <<>> =>
              /\ account.cash = trail.trades[Len(trail.trades)].cash
              /\ account.quantity = trail.trades[Len(trail.trades)].quantity
    <3>1. trail.trades # <<>> => n # 0
      BY <2>2
    <3> QED
      BY <2>1, <2>2, <3>1 DEF Balanced, Books
  <2>6. Len(trail.bars) = NumBars /\ signal.pending.row = NumBars
    BY <2>1 DEF TraceIsComplete
  <2> QED
    BY <2>3, <2>4, <2>5, <2>6 DEF TraceIsWhole
<1>6. TraceIsWhole
  BY <1>5 DEF TraceIsWhole, Published
<1> QED
  BY <1>1, <1>3, <1>4, <1>6

-----------------------------------------------------------------------------
(***************************************************************************)
(* The algorithms together: the one that runs keeps its invariant, and     *)
(* those that do not are as they were initialized, halted by nothing.      *)
(***************************************************************************)
AllInv ==
    /\ algorithm = "baseline" => BaselineInv
    /\ algorithm = "walkforward" => WalkInv
    /\ algorithm = "legacy" => LegacyInv
    /\ algorithm \notin {"baseline", "walkforward", "legacy"} => market.quantity = 0
    /\ algorithm # "baseline" => ~Baseline!Halted(baseline.guard)
    /\ algorithm # "walkforward" =>
         walking.guard.reasons = {} /\ walking.maxDrawdown = 0 /\ emitted = None
    /\ algorithm # "legacy" => ~legacy.halted

LEMMA AllBegin == AllInit => AllInv
<1> SUFFICES ASSUME AllInit PROVE AllInv
  OBVIOUS
<1>1. Baseline!Init /\ Walk!Init /\ Legacy!Init
  BY DEF AllInit
<1>2. BaselineInv /\ WalkInv /\ LegacyInv
  BY <1>1, BaselineInit, WalkInit, LegacyInit
<1>3. market.quantity = 0
  BY <1>1 DEF Baseline!Init, Baseline!InitMarket
<1>4. ~Baseline!Halted(baseline.guard)
  BY <1>1 DEF Baseline!Init, Baseline!FreshGuard, Baseline!Halted
<1>5. walking.guard.reasons = {} /\ walking.maxDrawdown = 0 /\ emitted = None
  BY <1>1 DEF Walk!Init, Walk!FreshGuard
<1>6. ~legacy.halted
  BY <1>1 DEF Legacy!Init
<1> QED
  BY <1>2, <1>3, <1>4, <1>5, <1>6 DEF AllInv

LEMMA AllSteps ==
    ASSUME AllInv, [AllNext]_all
    PROVE  AllInv' /\ HaltedStep /\ FrozenStep /\ SellingStep
<1>1. algorithm' = algorithm
  BY DEF AllNext, all
<1>2. CASE algorithm = "baseline"
  <2>1. Baseline!Next \/ UNCHANGED <<market, baseline>>
    BY <1>2 DEF AllNext, all, lean
  <2>2. UNCHANGED <<walking, emitted, legacy>>
    BY <1>2 DEF AllNext, all, lean
  <2>3. BaselineInv' /\ HaltedStep
    BY <1>2, <2>1, BaselineStep DEF AllInv
  <2>4. FrozenStep
    BY <1>2 DEF AllInv, FrozenStep, Walk!Halted
  <2>5. SellingStep
    BY <1>2, <2>2 DEF AllInv, SellingStep
  <2> QED
    BY <1>1, <1>2, <2>2, <2>3, <2>4, <2>5 DEF AllInv
<1>3. CASE algorithm = "walkforward"
  <2>1. Walk!Next \/ UNCHANGED <<market, walking, emitted>>
    BY <1>3 DEF AllNext, all, lean
  <2>2. UNCHANGED <<baseline, legacy>>
    BY <1>3 DEF AllNext, all, lean
  <2>3. WalkInv' /\ FrozenStep
    BY <1>3, <2>1, WalkStep DEF AllInv
  <2>4. ~Baseline!Halted(baseline.guard) /\ ~Baseline!Halted(baseline'.guard) /\ ~legacy'.halted
    BY <1>3, <2>2 DEF AllInv
  <2>5. HaltedStep /\ SellingStep
    BY <2>4 DEF HaltedStep, SellingStep
  <2> QED
    BY <1>1, <1>3, <2>3, <2>4, <2>5 DEF AllInv, Baseline!Halted
<1>4. CASE algorithm = "legacy"
  <2>1. Legacy!Next \/ UNCHANGED <<market, legacy, before>>
    BY <1>4 DEF AllNext, all, lean
  <2>2. UNCHANGED <<baseline, walking, emitted>>
    BY <1>4 DEF AllNext, all, lean
  <2>3. LegacyInv' /\ SellingStep
    BY <1>4, <2>1, LegacyStep DEF AllInv
  <2>4. ~Baseline!Halted(baseline.guard) /\ ~Baseline!Halted(baseline'.guard)
    BY <1>4, <2>2 DEF AllInv
  <2>5. HaltedStep
    BY <2>4 DEF HaltedStep
  <2>6. FrozenStep
    BY <1>4 DEF AllInv, FrozenStep, Walk!Halted
  <2> QED
    BY <1>1, <1>4, <2>2, <2>3, <2>4, <2>5, <2>6 DEF AllInv, Baseline!Halted
<1>5. CASE algorithm \notin {"baseline", "walkforward", "legacy"}
  <2>1. UNCHANGED lean
    BY <1>5 DEF AllNext, all
  <2>2. UNCHANGED <<market, baseline, walking, emitted, legacy>>
    BY <2>1 DEF lean
  <2>3. HaltedStep
    BY <1>5, <2>2 DEF AllInv, HaltedStep
  <2>4. FrozenStep
    BY <1>5 DEF AllInv, FrozenStep, Walk!Halted
  <2>5. SellingStep
    BY <1>5, <2>2 DEF AllInv, SellingStep
  <2> QED
    BY <1>1, <1>5, <2>2, <2>3, <2>4, <2>5 DEF AllInv, Baseline!Halted
<1> QED
  BY <1>2, <1>3, <1>4, <1>5

(***************************************************************************)
(* Whatever the prices, the fees, the windows and the weight, and however  *)
(* the fills arrive, neither moving-average algorithm sells more than it   *)
(* holds.                                                                  *)
(***************************************************************************)
THEOREM PositionNeverShort == AllSpec => []NeverShort
<1>1. AllInv => NeverShort
  <2> SUFFICES ASSUME AllInv, algorithm # "legacy" PROVE market.quantity >= 0
    BY DEF NeverShort
  <2>1. (algorithm = "baseline" \/ algorithm = "walkforward") => Covered(market)
    BY DEF AllInv, BaselineInv, WalkInv
  <2>2. algorithm \notin {"baseline", "walkforward"} => market.quantity = 0
    BY DEF AllInv
  <2> QED
    BY <2>1, <2>2 DEF Covered
<1>2. AllInv /\ [AllNext]_all => AllInv'
  BY AllSteps
<1> QED
  BY <1>1, <1>2, AllBegin, PTL DEF AllSpec

(***************************************************************************)
(* The drawdown a fold reports and the one that halts it agree, and the    *)
(* observation it emits is one the repository's extraction accepts, for    *)
(* the whole window, on every market.                                      *)
(***************************************************************************)
THEOREM ObservationHolds == AllSpec => []ObservationIsSound
<1>1. AllInv => ObservationIsSound
  <2> SUFFICES ASSUME AllInv
               PROVE  /\ walking.maxDrawdown >= DeclineLimit => Walk!Halted(walking.guard)
                      /\ "max_drawdown" \in walking.guard.reasons =>
                           walking.maxDrawdown >= DeclineLimit
                      /\ emitted # None => Walk!Accepted(emitted) /\ emitted.state.last = FinalSession
    BY DEF ObservationIsSound, Walk!ReportedDrawdownHalts, Walk!EmittedIsAccepted,
           Walk!OutageEmitsNothing
  <2>1. CASE algorithm = "walkforward"
    <3>1. walking \in Walks /\ Agrees(walking) /\ EmittedInv
      BY <2>1 DEF AllInv, WalkInv
    <3>2. walking.maxDrawdown \in Int /\ DeclineLimit \in Int
      <4>1. walking.maxDrawdown \in 0 .. 100
        BY <3>1, WalkTyped
      <4> QED
        BY <4>1, LeanFacts
    <3> QED
      BY <3>1, <3>2, OneGuard DEF Agrees, EmittedInv
  <2>2. CASE algorithm # "walkforward"
    <3>1. walking.guard.reasons = {} /\ walking.maxDrawdown = 0 /\ emitted = None
      BY <2>2 DEF AllInv
    <3> QED
      BY <3>1, LeanFacts
  <2> QED
    BY <2>1, <2>2
<1>2. AllInv /\ [AllNext]_all => AllInv'
  BY AllSteps
<1> QED
  BY <1>1, <1>2, AllBegin, PTL DEF AllSpec

(***************************************************************************)
(* A latched halt is honoured to the last share: the fold's position is    *)
(* frozen, the baseline only sells and asks for the rest at every bar, and *)
(* so does the draft.                                                      *)
(***************************************************************************)
THEOREM HaltsAreHonoured == AllSpec => HaltIsHonoured
<1>1. AllInv /\ [AllNext]_all => AllInv'
  BY AllSteps
<1>2. AllInv /\ [AllNext]_all =>
        [Walk!Halted(walking.guard) =>
            /\ market'.quantity = market.quantity
            /\ Len(market'.orders) <= Len(market.orders)
            /\ walking'.guard.reasons = walking.guard.reasons]_<<market, walking, emitted>>
  BY AllSteps DEF FrozenStep
<1>3. AllInv /\ [AllNext]_all =>
        [Baseline!Halted(baseline.guard) =>
            market'.quantity <= market.quantity]_<<market, baseline>>
  BY AllSteps DEF HaltedStep
<1>4. AllInv /\ [AllNext]_all =>
        [market.at = "open" /\ market'.at = "close" /\ baseline'.last = market.day
         /\ market.day >= FirstSession /\ Baseline!Halted(baseline'.guard)
         /\ market.quantity > 0 =>
           IF market.orders = <<>>
           THEN market'.orders = <<[left |-> -market.quantity, cancelling |-> FALSE]>>
           ELSE \A i \in DOMAIN market'.orders : market'.orders[i].cancelling]_<<market, baseline>>
  BY AllSteps DEF HaltedStep
<1>5. AllInv /\ [AllNext]_all =>
        [market.at = "open" /\ market'.at = "close" /\ legacy'.session = market.day
         /\ legacy'.halted /\ market.quantity # 0 =>
           \E i \in DOMAIN market'.orders :
              /\ market'.orders[i] = [left |-> -market.quantity, cancelling |-> FALSE]
              /\ \A j \in DOMAIN market'.orders \ {i} :
                    market'.orders[j].cancelling]_<<market, legacy, before>>
  BY AllSteps DEF SellingStep
<1> QED
  BY <1>1, <1>2, <1>3, <1>4, <1>5, AllBegin, PTL
  DEF AllSpec, HaltIsHonoured, Walk!HaltFreezesPosition, Baseline!HaltOnlySells,
      Baseline!LiquidationRequested, Legacy!HaltSellsAll, Walk!vars, Baseline!vars, Legacy!vars

(***************************************************************************)
(* Whatever LEAN delivers twice, late, in part or never, for every series  *)
(* of prices and all windows, costs and loss limits the contract's shape   *)
(* allows: the parity fixture sizes and vetoes as the local engine does on *)
(* the same account, LEAN can fund what it orders, and the trace it        *)
(* publishes accounts for every fill.                                      *)
(***************************************************************************)
THEOREM FixtureIsTheEngine == AllSpec => []FixtureMirrors
<1>1. AllInit => FixtureInv
  BY FixtureBegins DEF AllInit, AgreementInit
<1>2. FixtureInv /\ [AllNext]_all => FixtureInv'
  <2> SUFFICES ASSUME FixtureInv, [AllNext]_all PROVE FixtureInv'
    OBVIOUS
  <2>1. AgreementNext => Next \/ UNCHANGED vars
    BY DEF AgreementNext, FixtureStep, CloseBoth, EngineStep, Next
  <2>2. Next \/ UNCHANGED vars
    BY <2>1 DEF AllNext, all
  <2> QED
    BY <2>2, FixtureStepped
<1>3. FixtureInv => FixtureMirrors
  BY MirrorsKept DEF FixtureMirrors
<1> QED
  BY <1>1, <1>2, <1>3, PTL DEF AllSpec
=============================================================================
