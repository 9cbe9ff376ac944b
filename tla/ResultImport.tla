---------------------------- MODULE ResultImport ----------------------------
(***************************************************************************)
(* trading_bot_lab.walk_forward.result_json: the import of one Download    *)
(* Results file of the LEAN cloud.  A fold trades (external), the service  *)
(* exports it with or without order events, rounding what it displays; one *)
(* part of the file may be lost, doubled or stale; the importer then       *)
(* derives the evidence or refuses it.  Money is in mills, so that a ratio *)
(* to the starting capital has the same unit as money.                     *)
(***************************************************************************)
EXTENDS Integers, Sequences, FiniteSets, FiniteSetsExt, SequencesExt, TLC

CONSTANTS MaxOrders, MaxQuantity, \* bounds of the fold that trades
          Days,                  \* the fold's dates are 1 .. Days
          Fees, Equities,        \* fees of one fill, equities a fold may end with
          StartEquity,           \* 100000 dollars
          RatioTolerance,        \* _ROUNDED_RATIO_TOLERANCE, of StartEquity
          BoundaryTolerance,     \* _BENCHMARK_BOUNDARY_TOLERANCE, in days

          None, Refused          \* no value yet; the importer raised

\* What the parameters have to be.
ImportAssumption ==
    /\ {MaxOrders, MaxQuantity, Days, StartEquity, RatioTolerance, BoundaryTolerance} \subseteq Nat
    /\ Fees \subseteq Nat /\ \A fee \in Fees : fee > 2 * 10   \* a dollar and more in LEAN
    /\ Equities \subseteq Nat \ {0}

VARIABLES clock, orders, events, position, equity,   \* the fold, as it was
          download,                                  \* the file, with what is wrong in it
          observation

fold == <<clock, orders, events, position, equity>>
vars == <<fold, download, observation>>

Cent == 10                       \* _ROUNDED_CURRENCY_TOLERANCE and the displays' unit
Abs(x) == IF x < 0 THEN -x ELSE x
ToCent(x) == ((x + Cent \div 2) \div Cent) * Cent
SumOver(S, f(_)) == MapThenSumSet(f, S)
Ids == DOMAIN orders
TrueFees == SumOver(DOMAIN events, LAMBDA i : events[i].fee)
Live(i) == orders[i].status = "live"

-----------------------------------------------------------------------------
\* The fold (external): one order at a time, never more sold than held.
Init ==
    /\ clock = 1 /\ orders = <<>> /\ events = <<>> /\ position = 0 /\ equity = None
    /\ download = None /\ observation = None

Trading == download = None /\ equity = None
Kept == UNCHANGED <<download, observation>>

Day == Trading /\ clock < Days /\ clock' = clock + 1 /\ UNCHANGED <<orders, events, position, equity>> /\ Kept

Submit(q) ==
    /\ Trading /\ Len(orders) < MaxOrders /\ q # 0 /\ position + q \in 0 .. MaxQuantity
    /\ \A i \in Ids : ~Live(i)
    /\ orders' = Append(orders, [time |-> clock, quantity |-> q, status |-> "live", lastFill |-> None])
    /\ UNCHANGED <<clock, events, position, equity>> /\ Kept

Event(i, status, q, fee) == [order |-> i, status |-> status, fill |-> q, fee |-> fee, time |-> clock]
FilledOf(i) == SumOver({e \in DOMAIN events : events[e].order = i}, LAMBDA e : events[e].fill)

Fill(i, q, fee) ==
    LET rest == orders[i].quantity - FilledOf(i)
        status == IF q = rest THEN "filled" ELSE "partial"
    IN  /\ Trading /\ Live(i) /\ q # 0 /\ Abs(q) <= Abs(rest) /\ (q > 0) = (rest > 0)
        /\ orders' = [orders EXCEPT ![i].status = IF status = "filled" THEN status ELSE @, ![i].lastFill = clock]
        /\ events' = Append(events, Event(i, status, q, fee))
        /\ position' = position + q
        /\ UNCHANGED <<clock, equity>> /\ Kept

Ends(i, status) ==
    /\ Trading /\ Live(i)
    /\ status = "invalid" => FilledOf(i) = 0
    /\ orders' = [orders EXCEPT ![i].status = status]
    /\ events' = Append(events, Event(i, status, 0, 0))
    /\ UNCHANGED <<clock, position, equity>> /\ Kept

Finish(e) ==
    /\ Trading /\ clock = Days /\ \A i \in Ids : ~Live(i)
    /\ equity' = e /\ UNCHANGED <<clock, orders, events, position>> /\ Kept

-----------------------------------------------------------------------------
\* The file the service offers (external).  Displays are rounded; the chart
\* is sampled, also outside the fold; orders come in any sequence.
FileOrder(i) == [id |-> i, quantity |-> orders[i].quantity, status |-> orders[i].status,
                 time |-> orders[i].time, lastFill |-> orders[i].lastFill]

Exported(inFile, withEvents) ==
    [name |-> "wf", parameter |-> "wf", status |-> "Completed",
     orders |-> [k \in DOMAIN inFile |-> FileOrder(inFile[k])],
     events |-> IF withEvents THEN events ELSE None,
     chart |-> [k \in 1 .. Days + 2 |-> k - 1], startEquity |-> StartEquity,
     endEquity |-> equity, netProfit |-> ToCent(equity - StartEquity),
     totalOrders |-> Len(orders), orderCount |-> Len(orders),
     shownEquity |-> ToCent(equity), shownReturn |-> ToCent(equity - StartEquity),
     totalFees |-> ToCent(TrueFees), runtimeFees |-> -ToCent(TrueFees),
     holdings |-> position, flaw |-> "none"]

Lost(s, k) == SubSeq(s, 1, k - 1) \o SubSeq(s, k + 1, Len(s))
Doubled(s, k) == Append(s, s[k])
With(d, flaw) == [d EXCEPT !.flaw = flaw]

\* One thing is wrong: a record is gone or there twice, or a value is that of
\* another state of the run.
Flawed(d) ==
    LET inOrders == {[d EXCEPT !.orders = Lost(@, k)] : k \in DOMAIN d.orders}
                \cup {[d EXCEPT !.orders = Doubled(@, k)] : k \in DOMAIN d.orders}
        inEvents == IF d.events = None THEN {} ELSE
                     {[d EXCEPT !.events = Lost(@, k)] : k \in DOMAIN d.events}
                \cup {[d EXCEPT !.events = Doubled(@, k)] : k \in DOMAIN d.events}
        stale == {[d EXCEPT !.parameter = "other"], [d EXCEPT !.status = "Running"],
                  [d EXCEPT !.totalOrders = @ + 1], [d EXCEPT !.orderCount = @ + 1],
                  [d EXCEPT !.orderCount = None], [d EXCEPT !.holdings = 0]}
            \cup UNION {{[d EXCEPT !.endEquity = e], [d EXCEPT !.shownEquity = e]} : e \in Equities}
            \cup UNION {{[d EXCEPT !.totalFees = f], [d EXCEPT !.runtimeFees = -f]} : f \in {0, d.totalFees + Cent}}
        sparse == {[d EXCEPT !.chart = SubSeq(@, j, k)] : j, k \in DOMAIN d.chart}
    IN  {With(x, "one") : x \in (inOrders \cup inEvents \cup stale \cup sparse) \ {d}}

Export(p, withEvents) ==
    LET d == Exported(p, withEvents)
    IN  /\ equity # None /\ download = None
        /\ download' \in {d} \cup Flawed(d)
        /\ UNCHANGED <<fold, observation>>

-----------------------------------------------------------------------------
\* The importer.
Close(a, b, tolerance) == Abs(a - b) <= tolerance

\* _normalize_download_result: a completed run of one fold, named for it.
IdentityAccepted(d) == d.parameter = "wf" /\ d.name = d.parameter /\ d.status = "Completed"

\* _extract_metrics: the equities are authoritative, what is displayed is
\* close to them.
MetricsAccepted(d) ==
    LET return == d.endEquity - d.startEquity
    IN  /\ d.startEquity = StartEquity /\ d.endEquity > 0
        /\ Close(d.netProfit, return, RatioTolerance)
        /\ Close(d.shownEquity, d.endEquity, Cent)

\* _extract_benchmark: the points inside the fold, from near its first date
\* to near its last.
ChartOf(d) == SelectSeq(d.chart, LAMBDA day : day \in 1 .. Days)
BenchmarkAccepted(d) ==
    LET points == ChartOf(d)
    IN  /\ Len(points) >= 2
        /\ points[1] <= 1 + BoundaryTolerance
        /\ points[Len(points)] >= Days - BoundaryTolerance

HasEvents(d) == d.events # None
IdsOf(d) == {d.orders[k].id : k \in DOMAIN d.orders}
FillsOf(d, i) ==
    SumOver({e \in DOMAIN d.events : d.events[e].order = i /\ d.events[e].status \in {"partial", "filled"}},
            LAMBDA e : d.events[e].fill)

OrdersAccepted(d) ==
    /\ Cardinality(IdsOf(d)) = Len(d.orders)
    /\ \A k \in DOMAIN d.orders :
          /\ d.orders[k].quantity # 0 /\ d.orders[k].time \in 1 .. Days
          /\ d.orders[k].status \in {"partial", "filled", "cancelled", "invalid"}

\* _validate_orders_and_events: what an order filled is what its events say,
\* and an order that did not end filled has filled nothing.
EventsAccepted(d) ==
    /\ \A e \in DOMAIN d.events :
          /\ d.events[e].order \in IdsOf(d) /\ d.events[e].time \in 1 .. Days /\ d.events[e].fee >= 0
          /\ (d.events[e].status \in {"partial", "filled"}) = (d.events[e].fill # 0)
    /\ \A k \in DOMAIN d.orders :
          FillsOf(d, d.orders[k].id) = IF d.orders[k].status = "filled" THEN d.orders[k].quantity ELSE 0

\* _validate_completed_orders_without_events
CompletedAccepted(d) ==
    \A k \in DOMAIN d.orders : d.orders[k].status = "filled" /\ d.orders[k].lastFill \in 1 .. Days

\* The order in which the fills happened: by time, then by number.
TimeOf(d, k) == IF HasEvents(d) THEN d.orders[k].time ELSE d.orders[k].lastFill
\* A mutant of NotLater: rows are taken in the order of the file.
NotLaterByRow(d, j, k) == j <= k
NotLater(d, j, k) ==
    \/ TimeOf(d, j) < TimeOf(d, k)
    \/ TimeOf(d, j) = TimeOf(d, k) /\ d.orders[j].id <= d.orders[k].id

FilledRows(d) == {k \in DOMAIN d.orders : d.orders[k].status = "filled"}
PositionAfter(d, k) == SumOver({j \in FilledRows(d) : NotLater(d, j, k)}, LAMBDA j : d.orders[j].quantity)
FinalPosition(d) == SumOver(FilledRows(d), LAMBDA k : d.orders[k].quantity)
NeverShort(d) == \A k \in FilledRows(d) : PositionAfter(d, k) >= 0

\* _extract_fee_evidence: the events' fees where there are any, else the
\* overview; each display agrees with them.
EventFees(d) == SumOver(DOMAIN d.events, LAMBDA e : d.events[e].fee)
FeesOf(d) == IF HasEvents(d) THEN EventFees(d) ELSE d.totalFees
FeesAccepted(d) ==
    /\ d.totalFees >= 0 /\ d.totalFees % Cent = 0 /\ Abs(d.runtimeFees) % Cent = 0
    /\ Close(d.totalFees, FeesOf(d), Cent) /\ Close(Abs(d.runtimeFees), FeesOf(d), Cent)

\* A mutant of CountsAccepted: the counts are compared where events are.
CountsWithEvents(d) == HasEvents(d) => d.totalOrders = Len(d.orders)
CountsAccepted(d) ==
    /\ d.totalOrders = Len(d.orders)
    /\ IF d.orderCount = None THEN HasEvents(d) ELSE d.orderCount = Len(d.orders)

\* _validate_available_position_state
StateAgrees(d) ==
    /\ d.holdings >= 0 /\ (FinalPosition(d) = 0) = (d.holdings = 0)
    /\ Close(d.shownReturn, d.endEquity - d.startEquity, RatioTolerance)

Accepted(d) ==
    /\ IdentityAccepted(d) /\ MetricsAccepted(d) /\ BenchmarkAccepted(d)
    /\ OrdersAccepted(d)
    /\ IF HasEvents(d) THEN EventsAccepted(d) ELSE CompletedAccepted(d)
    /\ NeverShort(d) /\ FeesAccepted(d) /\ CountsAccepted(d) /\ StateAgrees(d)

Evidence(d) ==
    [orders |-> Len(d.orders), completed |-> Cardinality(FilledRows(d)), position |-> FinalPosition(d),
     source |-> IF HasEvents(d) THEN "order_events" ELSE "completed_orders",
     feePrecision |-> IF HasEvents(d) THEN "event" ELSE "cent",
     fees |-> FeesOf(d), equity |-> d.endEquity, return |-> d.endEquity - StartEquity,
     benchmark |-> <<Head(ChartOf(d)), Last(ChartOf(d))>>]

\* normalize_result_observation: what it requires of an observation, also of
\* one read back from a file.
Normalised(o) ==
    /\ o.source \in {"order_events", "completed_orders"}
    /\ o.feePrecision = IF o.source = "order_events" THEN "event" ELSE "cent"
    /\ o.feePrecision = "cent" => o.fees % Cent = 0
    /\ o.fees >= 0 /\ o.position >= 0 /\ o.orders >= 0 /\ o.completed >= 0
    /\ o.equity > 0 /\ o.return = o.equity - StartEquity

Import ==
    /\ download # None /\ observation = None
    /\ observation' = IF Accepted(download) /\ Normalised(Evidence(download))
                        THEN Evidence(download) ELSE Refused
    /\ UNCHANGED <<fold, download>>

Done == observation # None /\ UNCHANGED vars

Next ==
    \/ Day \/ Import \/ Done
    \/ \E q \in -MaxQuantity .. MaxQuantity : Submit(q)
    \/ \E i \in Ids, q \in -MaxQuantity .. MaxQuantity, fee \in Fees : Fill(i, q, fee)
    \/ \E i \in Ids, status \in {"cancelled", "invalid"} : Ends(i, status)
    \/ \E e \in Equities : Finish(e)
    \/ \E p \in Permutations(Ids), withEvents \in BOOLEAN : Export(p, withEvents)

Spec == Init /\ [][Next]_vars

-----------------------------------------------------------------------------
(* Correctness. *)

Accepts == observation \notin {None, Refused}
Displayed == Cent + Cent \div 2

\* The types of the state (result_json.py 62-86: an observation or an error).
TypeOK ==
    /\ clock \in 1 .. Days /\ position \in 0 .. MaxQuantity
    /\ \A i \in Ids : orders[i].status \in {"live", "filled", "cancelled", "invalid"}
    /\ \A e \in DOMAIN events : events[e].status \in {"partial", "filled", "cancelled", "invalid"}
    /\ equity \in Equities \cup {None}
    /\ Accepts => /\ observation.source \in {"order_events", "completed_orders"}
                  /\ observation.position \in 0 .. MaxQuantity /\ observation.fees \in Nat

\* Whatever single record the file lost or holds twice, and whichever single
\* value in it is stale, evidence that is accepted counts the orders and
\* names the position of the fold as it traded; its fees are the fees paid, or
\* without order events at most a display's rounding and one tolerance from
\* them.  That no fill is so cheap that its loss hides in the tolerance is
\* assumed: the lost fill of a cancelled order would pass (result_json.py 433-450, 756-781, 787-809).
EvidenceIsTrue ==
    Accepts =>
        /\ observation.orders = Len(orders)
        /\ observation.completed = Cardinality({i \in Ids : orders[i].status = "filled"})
        /\ observation.position = position
        /\ Close(observation.fees, TrueFees, IF observation.source = "order_events" THEN 0 ELSE Displayed)

\* The same for the ending equity: it is the fold's to a cent and a
\* half, so the return that is compared between the folds is too (result_json.py 525-562).
EquityIsTrue == Accepts => Close(observation.equity, equity, Displayed)

\* The benchmark of accepted evidence is measured inside the fold and over all
\* of it but the tolerated days at either end, whatever the chart's service
\* sampled before, in and after the fold (result_json.py 669-677).
BenchmarkSpansFold ==
    Accepts => /\ observation.benchmark[1] \in 1 .. 1 + BoundaryTolerance
               /\ observation.benchmark[2] \in Days - BoundaryTolerance .. Days

\* A run is importable when no order that was cancelled had filled a part, and
\* without order events when every order filled.
Importable ==
    /\ \A i \in Ids : orders[i].status = "filled" \/ FilledOf(i) = 0
    /\ download.events = None => \A i \in Ids : orders[i].status = "filled"

\* A file that says what happened is refused only for a run of that kind: in
\* whichever sequence the file lists the orders, and however the displays
\* were rounded (result_json.py 762-780, 787-802).
TruthIsAccepted == download # None /\ download.flaw = "none" /\ observation = Refused => ~Importable
TruthIsImported == download # None /\ download.flaw = "none" /\ Accepts => Importable
=============================================================================
