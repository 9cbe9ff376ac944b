---------------------- MODULE SimulationEngine_proofs ----------------------
(***************************************************************************)
(* What holds of the engine for every value of its constants.  First its   *)
(* type, and that what the risk policy approves the ledger can book.  Then *)
(* its histories: orders execute on the bar after their signal, and none   *)
(* is proposed once the engine is halted; no bar closes beyond a loss      *)
(* limit with the engine still trading; and what a driver of the engine    *)
(* sees are bars processed whole or not at all, as EngineContract          *)
(* promises.  Last its orders, its audit trail and its books: a fill keeps *)
(* to its target, no order is refused for how the engine stated it, every  *)
(* intent has its decision and every approval its fill, the sink hears     *)
(* only of what is committed, what is booked fill by fill is what the      *)
(* fills add up to, and the profits explain the equity within the          *)
(* roundings.  Account is recursive, so what it holds after n fills is     *)
(* shown by induction on n (UpTo); that the engine keeps to it, by the     *)
(* invariant LedgerInv.                                                    *)
(***************************************************************************)
EXTENDS ProfitAccounting, OrderProposal_proofs

\* What the engine records of a call of the policy, one that raised included, are
\* reasons of the taxonomy.
LEMMA OutcomesTyped ==
    ASSUME NEW ledger, NEW equity, NEW mark, NEW order
    PROVE  /\ HaltOutcomes(ledger, equity, mark) \subseteq SUBSET Reason
           /\ OrderOutcomes(order) \subseteq SUBSET Reason
<1>1. "risk_evaluation_error" \in Reason
  BY DEF Reason
<1>2. \A reasons \in SUBSET Reason : Outcomes(reasons) \subseteq SUBSET Reason
  BY <1>1 DEF Outcomes
<1>3. {} \in SUBSET Reason
  OBVIOUS
<1>4. HaltOutcomes(ledger, equity, mark) \subseteq SUBSET Reason
  <2>1. PortfolioHalt(EffectivePolicy, Snapshot(ledger, equity, mark, FALSE)) \in SUBSET Reason
    BY ReasonsTyped
  <2> QED
    BY <1>2, <1>3, <2>1 DEF HaltOutcomes
<1>5. OrderOutcomes(order) \subseteq SUBSET Reason
  <2>1. EvaluateOrder(EffectivePolicy, order,
            Snapshot(book, EquityAt(book, bar.open), marks, halt.active)) \in SUBSET Reason
    BY ReasonsTyped
  <2> QED
    BY <1>2, <2>1 DEF OrderOutcomes
<1> QED
  BY <1>4, <1>5

\* A latched halt, its decision and its event kinds are of their types.
LEMMA HaltTyped ==
    ASSUME halt \in HaltRecord, NEW reasons \in SUBSET Reason, NEW number \in Nat
    PROVE  /\ Latched(reasons, number) \in HaltRecord
           /\ HaltDecision(reasons, number) \in Seq(DecisionRecord)
           /\ HaltKinds(reasons) \in Seq(EventKind)
<1>1. Latched(reasons, number) \in HaltRecord
  BY DEF Latched, HaltRecord
<1>2. HaltDecision(reasons, number) \in Seq(DecisionRecord)
  <2>1. [about |-> "portfolio", bar |-> number, reasons |-> reasons] \in DecisionRecord
    BY DEF DecisionRecord
  <2>2. <<>> \in Seq(DecisionRecord)
    OBVIOUS
  <2>3. <<[about |-> "portfolio", bar |-> number, reasons |-> reasons]>> \in Seq(DecisionRecord)
    BY <2>1
  <2> QED
    BY <2>2, <2>3 DEF HaltDecision
<1>3. HaltKinds(reasons) \in Seq(EventKind)
  <2>1. "risk_rejected" \in EventKind
    BY DEF EventKind
  <2>2. <<>> \in Seq(EventKind) /\ <<"risk_rejected">> \in Seq(EventKind)
    BY <2>1
  <2> QED
    BY <2>2 DEF HaltKinds
<1> QED
  BY <1>1, <1>2, <1>3

\* What _emit builds are events of the known kinds.
LEMMA EmittedTyped ==
    ASSUME NEW kinds \in Seq(EventKind), NEW number \in Nat
    PROVE  Emitted(kinds, number) \in Seq(EventRecord)
<1>1. \A i \in 1 .. Len(kinds) : [kind |-> kinds[i], bar |-> number] \in EventRecord
  BY DEF EventRecord
<1>2. [i \in 1 .. Len(kinds) |-> [kind |-> kinds[i], bar |-> number]] \in Seq(EventRecord)
  BY <1>1
<1> QED
  BY <1>2 DEF Emitted

\* The weights a strategy signals, and the flat target, are fractions.
LEMMA FractionTyped ==
    /\ Fraction \subseteq Nat
    /\ 0 \in Fraction
    /\ Weights \subseteq Fraction
BY MoneyAssumption, EngineAssumption DEF Fraction

\* TypeOK, read variable by variable.
LEMMA StateTyped ==
    TypeOK => /\ book \in Ledger
              /\ marks \in MarkRecord
              /\ pending \in SignalRecord \cup {NoSignal}
              /\ halt \in HaltRecord
              /\ bars \in Seq(BarRecord)
              /\ trail \in Trail
              /\ bar.open \in Nat \ {0}
              /\ bar.close \in Nat \ {0}
              /\ Len(bars) \in Nat
              /\ EquityAt(book, bar.open) \in Nat
              /\ EquityAt(book, bar.close) \in Nat
<1> SUFFICES ASSUME TypeOK
             PROVE  /\ book \in Ledger
                    /\ marks \in MarkRecord
                    /\ pending \in SignalRecord \cup {NoSignal}
                    /\ halt \in HaltRecord
                    /\ bars \in Seq(BarRecord)
                    /\ trail \in Trail
                    /\ bar.open \in Nat \ {0}
                    /\ bar.close \in Nat \ {0}
                    /\ Len(bars) \in Nat
                    /\ EquityAt(book, bar.open) \in Nat
                    /\ EquityAt(book, bar.close) \in Nat
  OBVIOUS
<1>1. /\ Protected.book \in Ledger
      /\ Protected.marks \in MarkRecord
      /\ Protected.pending \in SignalRecord \cup {NoSignal}
      /\ Protected.halt \in HaltRecord
      /\ Protected.bars \in Seq(BarRecord)
      /\ Protected.trail \in Trail
  BY DEF TypeOK, ProtectedState
<1>2. bar.open \in Prices /\ bar.close \in Prices
  BY DEF TypeOK, BarRecord
<1>3. bar.open \in Nat \ {0} /\ bar.close \in Nat \ {0}
  BY <1>2, EngineAssumption
<1>4. /\ book \in Ledger
      /\ marks \in MarkRecord
      /\ pending \in SignalRecord \cup {NoSignal}
      /\ halt \in HaltRecord
      /\ bars \in Seq(BarRecord)
      /\ trail \in Trail
  BY <1>1 DEF Protected
<1>5. book.quantity \in Nat /\ book.cash \in Nat
  BY <1>4 DEF Ledger
<1>6. EquityAt(book, bar.open) \in Nat /\ EquityAt(book, bar.close) \in Nat
  BY <1>3, <1>5, EquityTyped
<1> QED
  BY <1>3, <1>4, <1>6

\* A record whose fields are replaced by values of their own types keeps its
\* type: the four shapes in which the engine's steps update the trail.
LEMMA TrailUpdate ==
    ASSUME NEW A, NEW B, NEW C, NEW D,
           NEW t \in [intents : A, decisions : B, fills : C, points : D],
           NEW i \in A, NEW d \in B, NEW f \in C, NEW p \in D
    PROVE  /\ [t EXCEPT !.decisions = d] \in [intents : A, decisions : B, fills : C, points : D]
           /\ [t EXCEPT !.points = p] \in [intents : A, decisions : B, fills : C, points : D]
           /\ [t EXCEPT !.intents = i, !.decisions = d]
                  \in [intents : A, decisions : B, fills : C, points : D]
           /\ [t EXCEPT !.intents = i, !.decisions = d, !.fills = f]
                  \in [intents : A, decisions : B, fills : C, points : D]
  OBVIOUS

\* What the engine appends to the trail (intents, decisions, fills, points) keeps
\* the trail's type.
LEMMA TrailTyped ==
    ASSUME NEW t \in Trail
    PROVE  /\ \A new \in Seq(DecisionRecord) :
                [t EXCEPT !.decisions = @ \o new] \in Trail
           /\ \A new \in PointRecord : [t EXCEPT !.points = Append(@, new)] \in Trail
           /\ \A intent \in IntentRecord, decision \in DecisionRecord :
                [t EXCEPT !.intents = Append(@, intent),
                          !.decisions = Append(@, decision)] \in Trail
           /\ \A intent \in IntentRecord, decision \in DecisionRecord,
                 new \in Seq(DecisionRecord), fill \in FillRecord :
                [t EXCEPT !.intents = Append(@, intent),
                          !.decisions = Append(@, decision) \o new,
                          !.fills = Append(@, fill)] \in Trail
<1>1. /\ t.intents \in Seq(IntentRecord) /\ t.decisions \in Seq(DecisionRecord)
      /\ t.fills \in Seq(FillRecord) /\ t.points \in Seq(PointRecord)
  BY DEF Trail
<1>2. \A i \in Seq(IntentRecord), d \in Seq(DecisionRecord),
        f \in Seq(FillRecord), p \in Seq(PointRecord) :
          /\ [t EXCEPT !.decisions = d] \in Trail
          /\ [t EXCEPT !.points = p] \in Trail
          /\ [t EXCEPT !.intents = i, !.decisions = d] \in Trail
          /\ [t EXCEPT !.intents = i, !.decisions = d, !.fills = f] \in Trail
  BY TrailUpdate DEF Trail
<1>3. ASSUME NEW new \in Seq(DecisionRecord)
      PROVE  [t EXCEPT !.decisions = @ \o new] \in Trail
  <2>1. t.decisions \o new \in Seq(DecisionRecord)
    BY <1>1
  <2> QED
    BY <1>1, <1>2, <2>1
<1>4. ASSUME NEW new \in PointRecord
      PROVE  [t EXCEPT !.points = Append(@, new)] \in Trail
  <2>1. Append(t.points, new) \in Seq(PointRecord)
    BY <1>1
  <2> QED
    BY <1>1, <1>2, <2>1
<1>5. ASSUME NEW intent \in IntentRecord, NEW decision \in DecisionRecord
      PROVE  [t EXCEPT !.intents = Append(@, intent),
                       !.decisions = Append(@, decision)] \in Trail
  <2>1. /\ Append(t.intents, intent) \in Seq(IntentRecord)
        /\ Append(t.decisions, decision) \in Seq(DecisionRecord)
    BY <1>1
  <2> QED
    BY <1>1, <1>2, <2>1
<1>6. ASSUME NEW intent \in IntentRecord, NEW decision \in DecisionRecord,
             NEW new \in Seq(DecisionRecord), NEW fill \in FillRecord
      PROVE  [t EXCEPT !.intents = Append(@, intent),
                       !.decisions = Append(@, decision) \o new,
                       !.fills = Append(@, fill)] \in Trail
  <2>1. Append(t.decisions, decision) \in Seq(DecisionRecord)
    BY <1>1
  <2>2. /\ Append(t.intents, intent) \in Seq(IntentRecord)
        /\ Append(t.decisions, decision) \o new \in Seq(DecisionRecord)
        /\ Append(t.fills, fill) \in Seq(FillRecord)
    BY <1>1, <2>1
  <2> QED
    BY <1>1, <1>2, <2>2
<1> QED
  BY <1>3, <1>4, <1>5, <1>6

\* The intent of an order is of its type, and so are the ledger and the fill when
\* the order can be booked.
LEMMA FillTyped ==
    ASSUME TypeOK, pending # NoSignal,
           NEW target \in TargetQuantities, target # book.quantity,
           NEW order, order = OrderTo(target, book, bar.open)
    PROVE  /\ Intent(order) \in IntentRecord
           /\ CashAfter(order) \in Int
           /\ ~Unbookable(order) => Filled(order) \in Ledger /\ FillOf(order) \in FillRecord
<1>1. /\ book.quantity \in Nat /\ book.cash \in Nat
      /\ book.fees \in Int /\ book.slippage \in Int
      /\ bar.open \in Nat \ {0}
      /\ pending.bar \in Nat /\ pending.weight \in Fraction
      /\ Len(bars) + 1 \in Nat
  BY StateTyped DEF Ledger, SignalRecord, Amount
<1>2. target \in Nat
  BY DEF TargetQuantities
<1>3. /\ order.side \in Sides
      /\ order.quantity \in Nat \ {0}
      /\ order.reference_price \in Nat
      /\ order.execution_price \in Nat
      /\ order.notional \in Nat
      /\ order.estimated_fee \in Nat
  BY <1>1, <1>2, OrderTyped
<1>4. MoneyOf(order.notional) \in Int
  BY <1>3, MoneyTyped
<1>5. CashAfter(order) \in Int
  <2>1. book.cash \in Int /\ order.estimated_fee \in Int
    BY <1>1, <1>3
  <2>2. /\ book.cash - MoneyOf(order.notional) - order.estimated_fee \in Int
        /\ book.cash + MoneyOf(order.notional) - order.estimated_fee \in Int
    <3> DEFINE cash == book.cash
               fee == order.estimated_fee
               money == MoneyOf(order.notional)
    <3>1. cash \in Int /\ fee \in Int /\ money \in Int
      BY <1>4, <2>1, Zenon
    <3> HIDE DEF cash, fee, money
    <3>2. cash - money - fee \in Int /\ cash + money - fee \in Int
      BY <3>1
    <3> QED
      BY <3>2, Zenon DEF cash, fee, money
  <2> QED
    BY <2>2, Zenon DEF CashAfter
<1>6. MoneyOf(order.quantity * Magnitude(order.execution_price - order.reference_price)) \in Int
  <2>1. Magnitude(order.execution_price - order.reference_price) \in Int
    BY <1>3 DEF Magnitude
  <2>2. order.quantity * Magnitude(order.execution_price - order.reference_price) \in Int
    BY <1>3, <2>1
  <2> QED
    BY <2>2, MoneyTyped
<1>7. Intent(order) \in IntentRecord
  BY <1>1, <1>3 DEF Intent, IntentRecord
<1>8. ASSUME ~Unbookable(order)
      PROVE  Filled(order) \in Ledger /\ FillOf(order) \in FillRecord
  <2>1. /\ Filled(order).cash = CashAfter(order)
        /\ Filled(order).quantity = IF order.side = Buy
                                      THEN book.quantity + order.quantity
                                      ELSE book.quantity - order.quantity
        /\ Filled(order).fees = book.fees + order.estimated_fee
    BY DEF Filled
  <2>2. Filled(order).cash \in Nat /\ Filled(order).quantity \in Nat
    <3>1. /\ ~(order.side = Sell /\ order.quantity > book.quantity)
          /\ ~(Filled(order).cash < 0)
          /\ ~(Filled(order).quantity < 0)
      BY <1>8, Zenon DEF Unbookable
    <3>2. Filled(order).cash \in Int
      BY <1>5, <2>1
    <3>3. Filled(order).quantity \in Int
      <4>1. /\ book.quantity + order.quantity \in Int
            /\ book.quantity - order.quantity \in Int
        BY <1>1, <1>3
      <4> QED
        BY <2>1, <4>1, Zenon
    <3> QED
      BY <3>1, <3>2, <3>3
  <2>3. Filled(order) \in Ledger
    <3>1. Filled(order).fees \in Int
      BY <1>1, <1>3, <2>1
    <3>2. Filled(order).slippage \in Int
      BY <1>1, <1>6 DEF Filled
    <3> QED
      BY <2>2, <3>1, <3>2 DEF Filled, Ledger, Amount
  <2>4. FillOf(order) \in FillRecord
    BY <1>1, <1>3, <2>2 DEF FillOf, FillRecord, Amount
  <2> QED
    BY <2>3, <2>4
<1> QED
  BY <1>5, <1>7, <1>8

(***************************************************************************)
(* TypeOK alone is not inductive: Tail(events) has a type only because the *)
(* sink is called with an event at the head of the queue.                  *)
(***************************************************************************)
TypeInv == TypeOK /\ (pc = "sink" => events # <<>>)

\* The engine starts in its type.
LEMMA TypeInit == Init => TypeInv
<1> SUFFICES ASSUME Init PROVE TypeInv
  OBVIOUS
<1> USE EngineAssumption
<1>1. book \in Ledger /\ marks \in MarkRecord
  BY DEF Init, Ledger, MarkRecord, Amount
<1>2. halt \in HaltRecord
  BY DEF Init, NotHalted, HaltRecord
<1>3. trail \in Trail
  BY DEF Init, Trail
<1>4. Protected \in ProtectedState
  BY <1>1, <1>2, <1>3 DEF Init, Protected, ProtectedState
<1>5. bar \in BarRecord
  <2>1. (CHOOSE price \in Prices : TRUE) \in Prices
    OBVIOUS
  <2> QED
    BY <2>1 DEF Init, BarRecord
<1>6. events \in Seq(EventRecord)
  BY DEF Init
<1> QED
  BY <1>4, <1>5, <1>6 DEF Init, TypeOK, TypeInv

\* Every step of the engine, its caller and its callbacks keeps the type.
LEMMA TypeStep == TypeInv /\ [Next]_vars => TypeInv'
<1> SUFFICES ASSUME TypeInv, [Next]_vars PROVE TypeInv'
  OBVIOUS
<1>o. TypeOK /\ (pc = "sink" => events # <<>>)
  BY DEF TypeInv
<1> DEFINE Parts == /\ book' \in Ledger
                    /\ marks' \in MarkRecord
                    /\ pending' \in SignalRecord \cup {NoSignal}
                    /\ halt' \in HaltRecord
                    /\ bars' \in Seq(BarRecord)
                    /\ trail' \in Trail
<1>p. ASSUME Parts PROVE Protected' \in ProtectedState
  BY <1>p DEF Protected, ProtectedState
<1>r. ASSUME NEW snapshot \in ProtectedState, Restore(snapshot) PROVE Parts
  BY <1>r DEF Restore, ProtectedState
<1>s. /\ book \in Ledger
      /\ marks \in MarkRecord
      /\ pending \in SignalRecord \cup {NoSignal}
      /\ halt \in HaltRecord
      /\ bars \in Seq(BarRecord)
      /\ trail \in Trail
      /\ bar.open \in Nat \ {0}
      /\ bar.close \in Nat \ {0}
      /\ Len(bars) \in Nat
      /\ EquityAt(book, bar.close) \in Int
  BY <1>o, StateTyped
<1>t. /\ Protected \in ProtectedState
      /\ barSnapshot \in ProtectedState
      /\ callSnapshot \in ProtectedState
      /\ processingFailed \in BOOLEAN
      /\ warned \in BOOLEAN
      /\ pc \in {"idle", "opened", "executed", "flat", "strategy", "deliver", "sink"}
      /\ bar \in BarRecord
      /\ events \in Seq(EventRecord)
      /\ latching \in BOOLEAN
  BY <1>o DEF TypeOK
<1> HIDE DEF Parts
<1>1. CASE RefuseBar
  <2>1. Parts
    BY <1>1, <1>s DEF RefuseBar, Parts
  <2>2. Protected' \in ProtectedState
    BY <2>1, <1>p
  <2> QED
    BY <1>1, <1>t, <2>2 DEF RefuseBar, TypeOK, TypeInv
<1>2. CASE SkipTarget \/ HoldTarget \/ Return
  <2>1. Parts
    BY <1>2, <1>s DEF SkipTarget, HoldTarget, Return, Parts
  <2>2. Protected' \in ProtectedState
    BY <2>1, <1>p
  <2> QED
    BY <1>2, <1>t, <2>2 DEF SkipTarget, HoldTarget, Return, TypeOK, TypeInv
<1>b. ASSUME BarFails PROVE TypeInv'
  <2>2. Protected' \in ProtectedState
    BY <1>b, <1>t, <1>r, <1>p DEF BarFails
  <2> QED
    BY <1>b, <1>t, <2>2 DEF BarFails, TypeOK, TypeInv
<1>3. CASE StrategyFails
  BY <1>3, <1>b DEF StrategyFails
<1>4. CASE SinkReturns
  <2>1. Protected' \in ProtectedState
    BY <1>4, <1>t, <1>r, <1>p DEF SinkReturns
  <2>2. warned' \in BOOLEAN
    BY <1>4, <1>t DEF SinkReturns
  <2>3. events' \in Seq(EventRecord)
    BY <1>4, <1>t, <1>o DEF SinkReturns
  <2> QED
    BY <1>4, <1>t, <2>1, <2>2, <2>3 DEF SinkReturns, TypeOK, TypeInv
<1>5. CASE CallSink
  <2>1. Parts
    BY <1>5, <1>s DEF CallSink, Parts
  <2>2. Protected' \in ProtectedState
    BY <2>1, <1>p
  <2> QED
    BY <1>5, <1>t, <2>2 DEF CallSink, TypeOK, TypeInv
<1>6. CASE ExpirePendingSignal \/ ActivateKillSwitch
  <2>1. Expire /\ latching' \in BOOLEAN
    BY <1>6, <1>t DEF ExpirePendingSignal, ActivateKillSwitch
  <2>2. Parts
    BY <2>1, <1>s DEF Expire, Parts
  <2>3. Protected' \in ProtectedState
    BY <2>2, <1>p
  <2>4. <<"pending_signal_expired">> \in Seq(EventKind)
    <3>1. "pending_signal_expired" \in EventKind
      BY DEF EventKind
    <3> QED
      BY <3>1
  <2>5. Emitted(<<"pending_signal_expired">>, Len(bars)) \in Seq(EventRecord)
    BY <2>4, <1>s, EmittedTyped
  <2>6. events' \in Seq(EventRecord)
    BY <2>1, <2>5 DEF Expire
  <2> QED
    BY <2>1, <1>t, <2>3, <2>6 DEF Expire, TypeOK, TypeInv
<1>7. CASE LatchKillSwitch
  <2>1. {"kill_switch"} \in SUBSET Reason
    BY DEF Reason, PortfolioReason
  <2>2. halt' \in HaltRecord
    BY <1>7, <1>s, <2>1, HaltTyped DEF LatchKillSwitch
  <2>3. Parts
    BY <1>7, <1>s, <2>2 DEF LatchKillSwitch, Parts
  <2>4. Protected' \in ProtectedState
    BY <2>3, <1>p
  <2>5. <<"risk_rejected">> \in Seq(EventKind)
    <3>1. "risk_rejected" \in EventKind
      BY DEF EventKind
    <3> QED
      BY <3>1
  <2>6. Emitted(<<"risk_rejected">>, Len(bars)) \in Seq(EventRecord)
    BY <2>5, <1>s, EmittedTyped
  <2>7. events' \in Seq(EventRecord)
    BY <1>7, <2>6 DEF LatchKillSwitch
  <2> QED
    BY <1>7, <1>t, <2>4, <2>7 DEF LatchKillSwitch, TypeOK, TypeInv
<1>8. CASE StrategyTampers \/ SinkTampers
  <2>1. Tamper
    BY <1>8 DEF StrategyTampers, SinkTampers
  <2>2. book' \in Ledger
    BY <2>1, <1>s DEF Tamper, Ledger
  <2>3. halt' \in HaltRecord
    <3>1. {"kill_switch"} \in SUBSET Reason
      BY DEF Reason, PortfolioReason
    <3>2. NotHalted \in HaltRecord
      BY DEF NotHalted, HaltRecord
    <3>3. [active |-> TRUE, bar |-> Len(bars), reasons |-> {"kill_switch"}] \in HaltRecord
      BY <3>1, <1>s DEF HaltRecord
    <3> QED
      BY <2>1, <3>2, <3>3, <1>s DEF Tamper
  <2>4. Parts
    BY <2>1, <2>2, <2>3, <1>s DEF Tamper, Parts
  <2>5. Protected' \in ProtectedState
    BY <2>4, <1>p
  <2> QED
    BY <2>1, <1>t, <1>o, <2>5 DEF Tamper, TypeOK, TypeInv
<1>9. CASE ReceiveBar
  <2> DEFINE number == Len(bars) + 1
             equity(open) == EquityAt(book, open)
             rolled(open, day) ==
                [marks EXCEPT !.day = day, !.start_of_day = StartOfDay(day),
                              !.peak = PeakAfter(equity(open))]
  <2>1. PICK open \in Prices, close \in Prices, day \in NextDays :
            /\ bar' = [open |-> open, close |-> close, day |-> day]
            /\ marks' = rolled(open, day)
            /\ \E reasons \in HaltOutcomes(book, equity(open), rolled(open, day)) :
                /\ halt' = Latched(reasons, number)
                /\ trail' = [trail EXCEPT
                               !.decisions = @ \o HaltDecision(reasons, number)]
                /\ events' = Emitted(<<"bar_received">> \o HaltKinds(reasons), number)
    BY <1>9 DEF ReceiveBar
  <2>2. PICK reasons \in SUBSET Reason :
            /\ halt' = Latched(reasons, number)
            /\ trail' = [trail EXCEPT
                           !.decisions = @ \o HaltDecision(reasons, number)]
            /\ events' = Emitted(<<"bar_received">> \o HaltKinds(reasons), number)
    <3>1. HaltOutcomes(book, equity(open), rolled(open, day)) \subseteq SUBSET Reason
      BY OutcomesTyped
    <3> QED
      BY <2>1, <3>1
  <2>3. open \in Nat /\ day \in Nat /\ number \in Nat
    BY <1>s, EngineAssumption DEF NextDays
  <2>4. equity(open) \in Int
    BY <1>s, <2>3, EquityTyped DEF Ledger
  <2>5. marks' \in MarkRecord
    <3>1. PeakAfter(equity(open)) \in Int /\ StartOfDay(day) \in Int
      BY <1>s, <2>4 DEF PeakAfter, Larger, StartOfDay, MarkRecord, Amount
    <3> QED
      BY <1>s, <2>1, <2>3, <3>1 DEF MarkRecord, Amount
  <2>6. /\ halt' \in HaltRecord
        /\ HaltDecision(reasons, number) \in Seq(DecisionRecord)
        /\ HaltKinds(reasons) \in Seq(EventKind)
    BY <1>s, <2>2, <2>3, HaltTyped
  <2>7. trail' \in Trail
    BY <1>s, <2>2, <2>6, TrailTyped
  <2>8. Parts
    BY <1>9, <1>s, <2>5, <2>6, <2>7 DEF ReceiveBar, Parts
  <2>9. Protected' \in ProtectedState
    BY <2>8, <1>p
  <2>10. events' \in Seq(EventRecord)
    <3>1. "bar_received" \in EventKind
      BY DEF EventKind
    <3>2. <<"bar_received">> \o HaltKinds(reasons) \in Seq(EventKind)
      BY <2>6, <3>1
    <3> QED
      BY <2>2, <2>3, <3>2, EmittedTyped
  <2>11. bar' \in BarRecord
    BY <2>1, <2>3 DEF BarRecord
  <2> QED
    BY <1>9, <1>t, <2>9, <2>10, <2>11 DEF ReceiveBar, TypeOK, TypeInv
<1>10. CASE RejectOrder
  <2>1. PICK target \in TargetQuantities \ {book.quantity} :
            \E reasons \in OrderOutcomes(OrderTo(target, book, bar.open)) \ {{}} :
                trail' = [trail EXCEPT
                    !.intents = Append(@, Intent(OrderTo(target, book, bar.open))),
                    !.decisions = Append(@, OrderDecision(reasons))]
    BY <1>10 DEF RejectOrder
  <2> DEFINE order == OrderTo(target, book, bar.open)
  <2>2. PICK reasons \in SUBSET Reason :
            trail' = [trail EXCEPT !.intents = Append(@, Intent(order)),
                                   !.decisions = Append(@, OrderDecision(reasons))]
    BY <2>1, OutcomesTyped
  <2>3. Intent(order) \in IntentRecord
    BY <1>o, <1>10, FillTyped DEF RejectOrder
  <2>4. OrderDecision(reasons) \in DecisionRecord
    BY <1>s DEF OrderDecision, DecisionRecord
  <2>5. trail' \in Trail
    BY <1>s, <2>2, <2>3, <2>4, TrailTyped
  <2>6. Parts
    BY <1>10, <1>s, <2>5 DEF RejectOrder, Parts
  <2>7. Protected' \in ProtectedState
    BY <2>6, <1>p
  <2>8. Emitted(<<"intent_created", "risk_rejected">>, Len(bars) + 1) \in Seq(EventRecord)
    <3>1. "intent_created" \in EventKind /\ "risk_rejected" \in EventKind
      BY DEF EventKind
    <3>2. <<"intent_created", "risk_rejected">> \in Seq(EventKind)
      BY <3>1
    <3>3. Len(bars) + 1 \in Nat
      BY <1>s
    <3> QED
      BY <3>2, <3>3, EmittedTyped
  <2>9. events' \in Seq(EventRecord)
    BY <1>10, <1>t, <2>8 DEF RejectOrder
  <2> QED
    BY <1>10, <1>t, <2>7, <2>9 DEF RejectOrder, TypeOK, TypeInv
<1>11. CASE FillOrder
  <2>1. PICK target \in TargetQuantities \ {book.quantity} :
            IF Unbookable(OrderTo(target, book, bar.open))
              THEN BarFails
              ELSE BookFill(OrderTo(target, book, bar.open))
    BY <1>11 DEF FillOrder
  <2> DEFINE order == OrderTo(target, book, bar.open)
             number == Len(bars) + 1
  <2>2. CASE BarFails
    BY <2>2, <1>b
  <2>3. CASE ~Unbookable(order) /\ BookFill(order)
    <3>1. PICK reasons \in SUBSET Reason :
            /\ book' = Filled(order)
            /\ halt' = Latched(reasons, number)
            /\ trail' =
                [trail EXCEPT
                    !.intents = Append(@, Intent(order)),
                    !.decisions = Append(@, OrderDecision({}))
                                     \o HaltDecision(reasons, number),
                    !.fills = Append(@, FillOf(order))]
            /\ events' = events \o Emitted(
                    <<"intent_created", "risk_accepted", "fill_created">>
                        \o HaltKinds(reasons), number)
      <4>1. HaltOutcomes(Filled(order), EquityAt(Filled(order), bar.open), marks)
                \subseteq SUBSET Reason
        BY OutcomesTyped
      <4> QED
        BY <2>3, <4>1 DEF BookFill
    <3>2. /\ Intent(order) \in IntentRecord
          /\ Filled(order) \in Ledger
          /\ FillOf(order) \in FillRecord
      BY <1>o, <1>11, <2>3, FillTyped DEF FillOrder
    <3>3. OrderDecision({}) \in DecisionRecord
      BY <1>s DEF OrderDecision, DecisionRecord
    <3>4. /\ number \in Nat
          /\ halt' \in HaltRecord
          /\ HaltDecision(reasons, number) \in Seq(DecisionRecord)
          /\ HaltKinds(reasons) \in Seq(EventKind)
      BY <1>s, <3>1, HaltTyped
    <3>5. trail' \in Trail
      BY <1>s, <3>1, <3>2, <3>3, <3>4, TrailTyped
    <3>6. Parts
      BY <2>3, <1>s, <3>1, <3>2, <3>4, <3>5 DEF BookFill, Parts
    <3>7. Protected' \in ProtectedState
      BY <3>6, <1>p
    <3>8. events' \in Seq(EventRecord)
      <4>1. /\ "intent_created" \in EventKind
            /\ "risk_accepted" \in EventKind
            /\ "fill_created" \in EventKind
        BY DEF EventKind
      <4>2. <<"intent_created", "risk_accepted", "fill_created">> \in Seq(EventKind)
        BY <4>1
      <4>3. <<"intent_created", "risk_accepted", "fill_created">>
                \o HaltKinds(reasons) \in Seq(EventKind)
        BY <3>4, <4>2
      <4>4. Emitted(<<"intent_created", "risk_accepted", "fill_created">>
                        \o HaltKinds(reasons), number) \in Seq(EventRecord)
        BY <3>4, <4>3, EmittedTyped
      <4> QED
        BY <1>t, <3>1, <4>4
    <3> QED
      BY <2>3, <1>t, <3>7, <3>8 DEF BookFill, TypeOK, TypeInv
  <2> QED
    BY <2>1, <2>2, <2>3
<1>12. CASE MarkClose
  <2> DEFINE number == Len(bars) + 1
             equity == EquityAt(book, bar.close)
             marked == [marks EXCEPT !.peak = PeakAfter(equity)]
  <2>1. PICK reasons \in SUBSET Reason :
            /\ halt' = Latched(reasons, number)
            /\ trail' = [trail EXCEPT
                           !.decisions = @ \o HaltDecision(reasons, number)]
            /\ events' = events \o Emitted(HaltKinds(reasons), number)
    <3>1. HaltOutcomes(book, equity, marked) \subseteq SUBSET Reason
      BY OutcomesTyped
    <3> QED
      BY <1>12, <3>1 DEF MarkClose
  <2>2. marks' = marked /\ bars' = Append(bars, bar)
    BY <1>12 DEF MarkClose
  <2>3. equity \in Int
    BY <1>s
  <2>4. marks' \in MarkRecord
    <3>1. PeakAfter(equity) \in Int
      BY <1>s, <2>3 DEF PeakAfter, Larger, MarkRecord, Amount
    <3> QED
      BY <1>s, <2>2, <3>1 DEF MarkRecord, Amount
  <2>5. /\ number \in Nat
        /\ halt' \in HaltRecord
        /\ HaltDecision(reasons, number) \in Seq(DecisionRecord)
        /\ HaltKinds(reasons) \in Seq(EventKind)
    BY <1>s, <2>1, HaltTyped
  <2>6. trail' \in Trail
    BY <1>s, <2>1, <2>5, TrailTyped
  <2>7. bars' \in Seq(BarRecord)
    BY <1>s, <1>t, <2>2
  <2>8. Parts
    BY <1>12, <1>s, <2>4, <2>5, <2>6, <2>7 DEF MarkClose, Parts
  <2>9. Protected' \in ProtectedState
    BY <2>8, <1>p
  <2>10. callSnapshot' \in ProtectedState
    BY <1>12, <2>9 DEF MarkClose
  <2>11. events' \in Seq(EventRecord)
    BY <1>t, <2>1, <2>5, EmittedTyped
  <2>12. pc' \in {"flat", "strategy"}
    BY <1>12 DEF MarkClose
  <2> QED
    BY <1>12, <1>t, <2>9, <2>10, <2>11, <2>12 DEF MarkClose, TypeOK, TypeInv
<1>13. ASSUME NEW weight \in Fraction, Commit(weight) PROVE TypeInv'
  <2> DEFINE equity == EquityAt(book, bar.close)
             point == [equity |-> equity, cash |-> book.cash, quantity |-> book.quantity,
                       peak |-> marks.peak, start_of_day |-> marks.start_of_day,
                       halted |-> halt.active, target |-> weight]
  <2>1. /\ pending' = [bar |-> Len(bars), weight |-> weight]
        /\ marks' = [marks EXCEPT !.previous_close = equity]
        /\ trail' = [trail EXCEPT !.points = Append(@, point)]
        /\ events' = events
                \o Emitted(<<"signal_generated", "portfolio_updated">>, Len(bars))
    BY <1>13 DEF Commit, NextSignal
  <2>2. equity \in Int
    BY <1>s
  <2>3. point \in PointRecord
    BY <1>s, <1>13, <2>2 DEF PointRecord, Ledger, MarkRecord, HaltRecord, Amount
  <2>4. trail' \in Trail
    BY <1>s, <2>1, <2>3, TrailTyped
  <2>5. marks' \in MarkRecord
    BY <1>s, <2>1, <2>2 DEF MarkRecord, Amount
  <2>6. pending' \in SignalRecord
    BY <1>s, <1>13, <2>1 DEF SignalRecord
  <2>7. Parts
    BY <1>13, <1>s, <2>4, <2>5, <2>6 DEF Commit, Parts
  <2>8. Protected' \in ProtectedState
    BY <2>7, <1>p
  <2>9. events' \in Seq(EventRecord)
    <3>1. "signal_generated" \in EventKind /\ "portfolio_updated" \in EventKind
      BY DEF EventKind
    <3>2. <<"signal_generated", "portfolio_updated">> \in Seq(EventKind)
      BY <3>1
    <3>3. Emitted(<<"signal_generated", "portfolio_updated">>, Len(bars)) \in Seq(EventRecord)
      BY <1>s, <3>2, EmittedTyped
    <3> QED
      BY <1>t, <2>1, <3>3
  <2> QED
    BY <1>13, <1>t, <2>8, <2>9 DEF Commit, TypeOK, TypeInv
<1>14. CASE CommitFlat \/ StrategySignals
  BY <1>13, <1>14, FractionTyped DEF CommitFlat, StrategySignals
<1>15. CASE UNCHANGED vars
  BY <1>15, <1>o DEF vars, TypeOK, TypeInv, Protected
<1> QED
  BY <1>1, <1>2, <1>3, <1>4, <1>5, <1>6, <1>7, <1>8, <1>9, <1>10, <1>11, <1>12,
     <1>14, <1>15
  DEF Next, EngineStep, CallReturns

(***************************************************************************)
(* Every variable keeps its type, cash and quantity above all: they never  *)
(* go negative, whatever the prices, fees, strategy, sink and policy do.   *)
(***************************************************************************)
THEOREM TypeCorrect == Spec => []TypeOK
<1>1. Spec => []TypeInv
  BY TypeInit, TypeStep, PTL DEF Spec
<1>2. TypeInv => TypeOK
  BY DEF TypeInv
<1> QED
  BY <1>1, <1>2, PTL

(***************************************************************************)
(* An order the risk policy approves can be booked: the cash it projects   *)
(* is the cash the ledger computes, to the rounded notional and fee, and a *)
(* sale is of no more than is held.                                        *)
(***************************************************************************)
LEMMA ApprovedIsBookable ==
    ASSUME TypeOK, pending # NoSignal,
           NEW target \in TargetQuantities, target # book.quantity,
           NEW order, order = OrderTo(target, book, bar.open),
           NEW snapshot,
           snapshot = Snapshot(book, EquityAt(book, bar.open), marks, halt.active),
           EvaluateOrder(EffectivePolicy, order, snapshot) = {}
    PROVE  ~Unbookable(order)
<1>1. /\ book.quantity \in Nat /\ book.cash \in Nat
      /\ bar.open \in Nat \ {0}
      /\ EquityAt(book, bar.open) \in Int
  BY StateTyped DEF Ledger
<1>2. target \in Nat
  BY DEF TargetQuantities
<1>3. /\ order.side = IF target > book.quantity THEN Buy ELSE Sell
      /\ order.side \in Sides
      /\ order.quantity \in Nat \ {0}
      /\ order.quantity = Magnitude(target - book.quantity)
      /\ order.reference_price \in Nat \ {0}
      /\ order.execution_price \in Nat \ {0}
      /\ order.notional \in Nat
      /\ order.notional = order.quantity * order.execution_price
      /\ order.estimated_fee \in Nat
      /\ order.resulting_total_gross_exposure \in Nat
  BY <1>1, <1>2, OrderTyped
<1>4. snapshot.cash = book.cash /\ snapshot.equity = EquityAt(book, bar.open)
  BY DEF Snapshot
<1>5. UnaffordableOrder(order, snapshot) = {}
  BY DEF EvaluateOrder
<1>6. Projectable(order, snapshot)
  BY <1>1, <1>3, <1>4 DEF Projectable, Priced, IsPositive, IsNonNegative, IsFinite
<1>7. ~(ProjectedCash(order, snapshot) < 0)
  BY <1>3, <1>5, <1>6 DEF UnaffordableOrder, When, IsFinite
<1>8. CashAfter(order) = ProjectedCash(order, snapshot) /\ CashAfter(order) \in Int
  <2>1. MoneyOf(order.notional) \in Int /\ CashNotional(order) = MoneyOf(order.notional)
    BY <1>3, MoneyTyped DEF CashNotional
  <2> QED
    BY <1>1, <1>3, <1>4, <2>1 DEF CashAfter, ProjectedCash
<1>9. Filled(order).cash = CashAfter(order)
  BY DEF Filled
<1>10. order.side = Sell => order.quantity <= book.quantity
  BY <1>1, <1>2, <1>3 DEF Magnitude, Buy, Sell
<1>11. Filled(order).quantity \in Nat
  BY <1>1, <1>3, <1>10 DEF Filled, Buy, Sell, Sides
<1> QED
  BY <1>1, <1>3, <1>7, <1>8, <1>9, <1>10, <1>11 DEF Unbookable

(***************************************************************************)
(* While a bar is being processed the engine has not failed: process_bar   *)
(* refuses to start on a failed engine, and a failure ends the bar.        *)
(***************************************************************************)
RunsUnfailed == InBar => ~processingFailed

\* The engine starts unfailed.
LEMMA UnfailedInit == Init => RunsUnfailed
BY DEF Init, RunsUnfailed

\* No step leaves a bar in process with the engine failed.
LEMMA UnfailedStep == RunsUnfailed /\ [Next]_vars => RunsUnfailed'
<1> SUFFICES ASSUME RunsUnfailed, [Next]_vars PROVE RunsUnfailed'
  OBVIOUS
<1> USE DEF RunsUnfailed, InBar
<1>1. CASE ReceiveBar
  BY <1>1 DEF ReceiveBar
<1>2. CASE RefuseBar
  BY <1>2 DEF RefuseBar
<1>3. CASE ExpirePendingSignal \/ ActivateKillSwitch
  BY <1>3 DEF ExpirePendingSignal, ActivateKillSwitch, Expire
<1>4. CASE SkipTarget \/ HoldTarget \/ RejectOrder
  BY <1>4 DEF SkipTarget, HoldTarget, RejectOrder
<1>5. CASE FillOrder
  <2>1. processingFailed' = processingFailed \/ pc' = "idle"
    BY <1>5 DEF FillOrder, BarFails, BookFill
  <2>2. pc = "opened"
    BY <1>5 DEF FillOrder
  <2> QED
    BY <2>1, <2>2
<1>6. CASE MarkClose
  BY <1>6 DEF MarkClose
<1>7. CASE CommitFlat \/ StrategySignals
  BY <1>7 DEF CommitFlat, StrategySignals, Commit
<1>8. CASE StrategyFails
  BY <1>8 DEF StrategyFails, BarFails
<1>9. CASE StrategyTampers \/ SinkTampers
  BY <1>9 DEF StrategyTampers, SinkTampers, Tamper
<1>10. CASE CallSink \/ SinkReturns \/ LatchKillSwitch \/ Return
  BY <1>10 DEF CallSink, SinkReturns, LatchKillSwitch, Return
<1>11. CASE UNCHANGED vars
  BY <1>11 DEF vars
<1> QED
  BY <1>1, <1>2, <1>3, <1>4, <1>5, <1>6, <1>7, <1>8, <1>9, <1>10, <1>11
  DEF Next, EngineStep, CallReturns

\* No step of the order at the open fails the engine.
LEMMA GuardedStep ==
    TypeOK /\ RunsUnfailed /\ [Next]_vars
        => [pc = "opened" => ~processingFailed']_vars
<1> SUFFICES ASSUME TypeOK, RunsUnfailed, Next, pc = "opened"
             PROVE  ~processingFailed'
  OBVIOUS
<1>1. ~processingFailed
  BY DEF RunsUnfailed, InBar
<1>2. SkipTarget \/ HoldTarget \/ RejectOrder \/ FillOrder
  BY DEF Next, EngineStep, CallReturns, ReceiveBar, RefuseBar, ExpirePendingSignal,
         ActivateKillSwitch, Expire, MarkClose, CommitFlat, CallSink, LatchKillSwitch,
         Return, StrategySignals, StrategyFails, SinkReturns, StrategyTampers,
         SinkTampers
<1>3. CASE SkipTarget \/ HoldTarget \/ RejectOrder
  BY <1>1, <1>3 DEF SkipTarget, HoldTarget, RejectOrder
<1>4. CASE FillOrder
  <2>1. PICK target \in TargetQuantities \ {book.quantity} :
            /\ {} \in OrderOutcomes(OrderTo(target, book, bar.open))
            /\ IF Unbookable(OrderTo(target, book, bar.open))
                 THEN BarFails
                 ELSE BookFill(OrderTo(target, book, bar.open))
    BY <1>4 DEF FillOrder
  <2>2. EvaluateOrder(EffectivePolicy, OrderTo(target, book, bar.open),
            Snapshot(book, EquityAt(book, bar.open), marks, halt.active)) = {}
    BY <2>1 DEF OrderOutcomes, Outcomes
  <2>3. pending # NoSignal
    BY <1>4 DEF FillOrder
  <2>4. ~Unbookable(OrderTo(target, book, bar.open))
    BY <2>2, <2>3, ApprovedIsBookable
  <2>5. BookFill(OrderTo(target, book, bar.open))
    BY <2>1, <2>4
  <2> QED
    BY <1>1, <2>5 DEF BookFill
<1> QED
  BY <1>2, <1>3, <1>4

(***************************************************************************)
(* The two RuntimeErrors of _apply_pending_target are unreachable, for all *)
(* prices, fees, weights, limits and roundings: whatever evaluate_order    *)
(* approves, the ledger can book.                                          *)
(***************************************************************************)
THEOREM ApprovalsAreBooked == Spec => PolicyGuardsLedger
<1>1. Spec => [](TypeOK /\ RunsUnfailed)
  BY TypeCorrect, UnfailedInit, UnfailedStep, PTL DEF Spec
<1> QED
  BY <1>1, GuardedStep, PTL DEF Spec, PolicyGuardsLedger

-----------------------------------------------------------------------------

\* Every intent executes on the bar after its signal, the last one by bar number.
Timely(intents, number) ==
    \A i \in DOMAIN intents : /\ intents[i].bar = intents[i].signal_bar + 1
                              /\ intents[i].bar <= number

\* No intent is of a bar after the one that latched the halt.
NoneAfter(latch, intents) ==
    latch.active => \A i \in DOMAIN intents : intents[i].bar <= latch.bar

\* A state between two bars: its signal is of the last bar, and flat if halted.
Settled(s) ==
    /\ Timely(s.trail.intents, Len(s.bars))
    /\ NoneAfter(s.halt, s.trail.intents)
    /\ s.pending # NoSignal => s.pending.bar = Len(s.bars)
    /\ s.halt.active => s.pending = NoSignal \/ s.pending.weight = 0

(***************************************************************************)
(* The two properties speak of Committed; that they survive a bar needs    *)
(* what the bar under way has done so far, up to the strategy's call: while *)
(* it runs, only the snapshot taken before the call can be relied on.      *)
(***************************************************************************)
HistoryInv ==
    /\ Settled(Committed)
    /\ latching => pc \in {"deliver", "sink"} /\ Committed.pending = NoSignal
    /\ pc \in {"opened", "executed"} =>
            /\ Timely(trail.intents, Len(bars) + 1)
            /\ NoneAfter(halt, trail.intents)
            /\ pending # NoSignal => pending.bar = Len(bars)
    /\ pc = "flat" =>
            /\ Timely(trail.intents, Len(bars))
            /\ NoneAfter(halt, trail.intents)
    /\ pc = "strategy" =>
            /\ Timely(callSnapshot.trail.intents, Len(callSnapshot.bars))
            /\ ~callSnapshot.halt.active

-----------------------------------------------------------------------------
\* What the appends of the engine's steps leave of the trail's intents.
LEMMA IntentsKept ==
    ASSUME NEW t \in Trail, NEW i, NEW d, NEW f
    PROVE  /\ [t EXCEPT !.decisions = d].intents = t.intents
           /\ [t EXCEPT !.points = d].intents = t.intents
           /\ [t EXCEPT !.intents = i, !.decisions = d].intents = i
           /\ [t EXCEPT !.intents = i, !.decisions = d, !.fills = f].intents = i
BY DEF Trail

\* A new intent on the bar after its signal keeps the intents timely, and is not
\* after the bar it is of.
LEMMA IntentAdded ==
    ASSUME NEW intents \in Seq(IntentRecord), NEW number \in Nat, Timely(intents, number),
           NEW intent \in IntentRecord,
           intent.bar = number, intent.bar = intent.signal_bar + 1
    PROVE  Timely(Append(intents, intent), number)
<1> SUFFICES ASSUME NEW i \in DOMAIN Append(intents, intent)
             PROVE  /\ Append(intents, intent)[i].bar
                            = Append(intents, intent)[i].signal_bar + 1
                    /\ Append(intents, intent)[i].bar <= number
  BY DEF Timely
<1>1. CASE i = Len(intents) + 1
  <2>1. Append(intents, intent)[i] = intent
    BY <1>1
  <2> QED
    BY <2>1
<1>2. CASE i # Len(intents) + 1
  <2>1. i \in DOMAIN intents /\ Append(intents, intent)[i] = intents[i]
    BY <1>2
  <2> QED
    BY <2>1 DEF Timely
<1> QED
  BY <1>1, <1>2

\* A halt latched on a bar no intent is after is after every intent.
LEMMA LatchedAfter ==
    ASSUME NEW intents, NEW number \in Nat, NEW reasons,
           Timely(intents, number), NoneAfter(halt, intents)
    PROVE  NoneAfter(Latched(reasons, number), intents)
BY DEF Timely, NoneAfter, Latched

\* One more bar does not make the intents any less timely.
LEMMA TimelyGrows ==
    ASSUME NEW intents \in Seq(IntentRecord), NEW number \in Nat, Timely(intents, number)
    PROVE  Timely(intents, number + 1)
<1>1. \A i \in DOMAIN intents : intents[i] \in IntentRecord
  OBVIOUS
<1>2. \A i \in DOMAIN intents : intents[i].bar \in Nat
  BY <1>1 DEF IntentRecord
<1> QED
  BY <1>2 DEF Timely

\* The history starts empty.
LEMMA HistoryInit == Init => HistoryInv
<1> SUFFICES ASSUME Init PROVE HistoryInv
  OBVIOUS
<1>1. Committed = Protected /\ pc = "idle" /\ ~latching
  BY DEF Init, Committed, InBar
<1>2. /\ Protected.trail.intents = <<>> /\ Protected.bars = <<>>
      /\ ~Protected.halt.active /\ Protected.pending = NoSignal
  BY DEF Init, Protected, NotHalted
<1>3. Settled(Protected)
  BY <1>2 DEF Settled, Timely, NoneAfter
<1> QED
  BY <1>1, <1>3 DEF HistoryInv

\* What the steps rest on, read from the two invariants.
LEMMA HistoryReads ==
    ASSUME TypeOK, HistoryInv
    PROVE  /\ Settled(Committed)
           /\ trail \in Trail /\ trail.intents \in Seq(IntentRecord)
           /\ Len(bars) \in Nat
           /\ pc \notin {"deliver", "sink"} => ~latching
           /\ InBar => Committed = barSnapshot
           /\ pc = "sink" => Committed = callSnapshot
           /\ pc \in {"idle", "deliver"} => Committed = Protected
           /\ pc \in {"idle", "deliver"} =>
                  /\ Timely(trail.intents, Len(bars))
                  /\ NoneAfter(halt, trail.intents)
                  /\ pending # NoSignal => pending.bar = Len(bars)
                  /\ halt.active => pending = NoSignal \/ pending.weight = 0
<1>1. Settled(Committed) /\ (latching => pc \in {"deliver", "sink"})
  BY DEF HistoryInv
<1>2. /\ InBar => Committed = barSnapshot
      /\ pc = "sink" => Committed = callSnapshot
      /\ pc \in {"idle", "deliver"} => Committed = Protected
  BY DEF Committed, InBar
<1>3. trail \in Trail /\ trail.intents \in Seq(IntentRecord) /\ Len(bars) \in Nat
  BY StateTyped DEF Trail
<1>4. ASSUME Settled(Protected)
      PROVE  /\ Timely(trail.intents, Len(bars))
             /\ NoneAfter(halt, trail.intents)
             /\ pending # NoSignal => pending.bar = Len(bars)
             /\ halt.active => pending = NoSignal \/ pending.weight = 0
  BY <1>4 DEF Settled, Protected
<1> QED
  BY <1>1, <1>2, <1>3, <1>4

\* A failed bar, or a sink's call that is over, leaves the state it found.
LEMMA RestoredIs ==
    ASSUME NEW snapshot \in ProtectedState, Restore(snapshot)
    PROVE  Protected' = snapshot
BY DEF Restore, Protected, ProtectedState

\* Only a commit and the two calls between bars change what is committed.
LEMMA CommittedKept ==
    ASSUME TypeOK, HistoryInv,
           \/ ReceiveBar \/ RefuseBar \/ SkipTarget \/ HoldTarget \/ RejectOrder
           \/ FillOrder \/ MarkClose \/ CallSink \/ Return \/ StrategyFails
           \/ SinkReturns \/ StrategyTampers \/ SinkTampers \/ UNCHANGED vars
    PROVE  Committed' = Committed
<1>r. /\ InBar => Committed = barSnapshot
      /\ pc = "sink" => Committed = callSnapshot
      /\ pc \in {"idle", "deliver"} => Committed = Protected
  BY HistoryReads
<1>t. barSnapshot \in ProtectedState /\ callSnapshot \in ProtectedState
  BY DEF TypeOK
<1>b. ASSUME BarFails, InBar PROVE Committed' = Committed
  <2>1. Protected' = barSnapshot
    BY <1>b, <1>t, RestoredIs DEF BarFails
  <2> QED
    BY <1>b, <1>r, <2>1 DEF BarFails, Committed, InBar
<1>1. CASE RefuseBar \/ Return
  BY <1>1, <1>r DEF RefuseBar, Return, Committed, InBar, Protected
<1>2. CASE ReceiveBar
  BY <1>2, <1>r DEF ReceiveBar, Committed, InBar
<1>3. CASE SkipTarget \/ HoldTarget \/ RejectOrder
  BY <1>3, <1>r DEF SkipTarget, HoldTarget, RejectOrder, Committed, InBar
<1>4. CASE FillOrder
  <2>1. pc = "opened"
    BY <1>4 DEF FillOrder
  <2>2. BarFails \/ (pc' = "executed" /\ barSnapshot' = barSnapshot)
    BY <1>4 DEF FillOrder, BookFill
  <2> QED
    BY <1>b, <1>r, <2>1, <2>2 DEF Committed, InBar
<1>5. CASE MarkClose
  <2>1. pc = "executed" /\ pc' \in {"flat", "strategy"} /\ barSnapshot' = barSnapshot
    BY <1>5 DEF MarkClose
  <2> QED
    BY <1>r, <2>1 DEF Committed, InBar
<1>6. CASE CallSink
  BY <1>6, <1>r DEF CallSink, Committed, InBar
<1>7. CASE StrategyFails
  BY <1>7, <1>b DEF StrategyFails, InBar
<1>8. CASE SinkReturns
  <2>1. Protected' = callSnapshot
    BY <1>8, <1>t, RestoredIs DEF SinkReturns
  <2> QED
    BY <1>8, <1>r, <2>1 DEF SinkReturns, Committed, InBar
<1>9. CASE StrategyTampers \/ SinkTampers
  BY <1>9, <1>r DEF StrategyTampers, SinkTampers, Tamper, Committed, InBar
<1>10. CASE UNCHANGED vars
  BY <1>10 DEF vars, Committed, InBar, Protected
<1> QED
  BY <1>1, <1>2, <1>3, <1>4, <1>5, <1>6, <1>7, <1>8, <1>9, <1>10

\* A commit settles the bar, provided that a halted engine commits a flat target.
LEMMA CommitSettles ==
    ASSUME TypeOK, NEW weight, Commit(weight), ~latching,
           Timely(trail.intents, Len(bars)), NoneAfter(halt, trail.intents),
           halt.active => weight = 0
    PROVE  HistoryInv'
<1>1. trail \in Trail
  BY StateTyped
<1>2. /\ trail'.intents = trail.intents
      /\ halt' = halt /\ bars' = bars /\ latching' = latching /\ pc' = "deliver"
      /\ pending' = [bar |-> Len(bars), weight |-> weight]
  BY <1>1, IntentsKept DEF Commit, NextSignal
<1>3. Committed' = Protected'
  BY <1>2 DEF Committed, InBar
<1>4. Settled(Protected')
  BY <1>2 DEF Settled, Protected
<1> QED
  BY <1>2, <1>3, <1>4 DEF HistoryInv

\* Every step of the engine, its caller and its callbacks keeps the history.
LEMMA HistoryStep == TypeOK /\ HistoryInv /\ [Next]_vars => HistoryInv'
<1> SUFFICES ASSUME TypeOK, HistoryInv, [Next]_vars PROVE HistoryInv'
  OBVIOUS
<1>r. /\ Settled(Committed)
      /\ trail \in Trail /\ trail.intents \in Seq(IntentRecord)
      /\ Len(bars) \in Nat
      /\ pc \notin {"deliver", "sink"} => ~latching
      /\ InBar => Committed = barSnapshot
      /\ pc = "sink" => Committed = callSnapshot
      /\ pc \in {"idle", "deliver"} => Committed = Protected
      /\ pc \in {"idle", "deliver"} =>
             /\ Timely(trail.intents, Len(bars))
             /\ NoneAfter(halt, trail.intents)
             /\ pending # NoSignal => pending.bar = Len(bars)
             /\ halt.active => pending = NoSignal \/ pending.weight = 0
  BY HistoryReads
<1>h. /\ latching => Committed.pending = NoSignal
      /\ pc \in {"opened", "executed"} =>
              /\ Timely(trail.intents, Len(bars) + 1)
              /\ NoneAfter(halt, trail.intents)
              /\ pending # NoSignal => pending.bar = Len(bars)
      /\ pc = "flat" =>
              /\ Timely(trail.intents, Len(bars))
              /\ NoneAfter(halt, trail.intents)
      /\ pc = "strategy" =>
              /\ Timely(callSnapshot.trail.intents, Len(callSnapshot.bars))
              /\ ~callSnapshot.halt.active
  BY DEF HistoryInv
<1>1. CASE RefuseBar
  <2>1. /\ pc = "idle" /\ pc' = "idle" /\ ~latching' /\ Protected' = Protected
    BY <1>1, <1>r DEF RefuseBar, Protected
  <2>2. Committed' = Committed
    BY <1>1, CommittedKept
  <2> QED
    BY <2>1, <2>2, <1>r DEF HistoryInv
<1>2. CASE ReceiveBar
  <2>1. /\ pc = "idle" /\ pc' = "opened" /\ latching' = latching
        /\ barSnapshot' = Protected /\ pending' = pending /\ bars' = bars
    BY <1>2 DEF ReceiveBar
  <2>2. PICK reasons :
            /\ halt' = Latched(reasons, Len(bars) + 1)
            /\ trail' = [trail EXCEPT
                           !.decisions = @ \o HaltDecision(reasons, Len(bars) + 1)]
    BY <1>2 DEF ReceiveBar
  <2>3. trail'.intents = trail.intents
    BY <2>2, <1>r, IntentsKept
  <2>4. Timely(trail.intents, Len(bars) + 1) /\ NoneAfter(halt, trail.intents)
    BY <2>1, <1>r, TimelyGrows
  <2>5. NoneAfter(halt', trail.intents)
    BY <2>2, <2>4, <1>r, LatchedAfter
  <2>6. Committed' = Committed
    BY <1>2, CommittedKept
  <2> QED
    BY <2>1, <2>3, <2>4, <2>5, <2>6, <1>r DEF HistoryInv
<1>3. CASE SkipTarget \/ HoldTarget
  <2>1. /\ pc = "opened" /\ pc' = "executed"
        /\ UNCHANGED <<pending, halt, bars, trail, latching, barSnapshot>>
    BY <1>3 DEF SkipTarget, HoldTarget
  <2>2. Committed' = Committed
    BY <1>3, CommittedKept
  <2> QED
    BY <2>1, <2>2, <1>r, <1>h DEF HistoryInv
<1>o. ASSUME pc = "opened", pending # NoSignal, ~halt.active, pc' = "executed",
             UNCHANGED <<pending, bars, latching, barSnapshot>>,
             NEW target \in TargetQuantities, target # book.quantity,
             trail'.intents = Append(trail.intents, Intent(OrderTo(target, book, bar.open))),
             NEW reasons, halt' = Latched(reasons, Len(bars) + 1),
             Committed' = Committed
      PROVE  HistoryInv'
  <2> DEFINE intent == Intent(OrderTo(target, book, bar.open))
  <2>1. /\ intent \in IntentRecord
        /\ intent.bar = Len(bars) + 1 /\ intent.signal_bar = Len(bars)
    BY <1>o, <1>h, FillTyped DEF Intent
  <2> HIDE DEF intent
  <2>2. Timely(Append(trail.intents, intent), Len(bars) + 1)
    BY <1>o, <1>r, <1>h, <2>1, IntentAdded
  <2>3. NoneAfter(halt', Append(trail.intents, intent))
    <3>1. NoneAfter(halt, Append(trail.intents, intent))
      BY <1>o DEF NoneAfter
    <3> QED
      BY <3>1, <2>2, <1>o, <1>r, LatchedAfter
  <2> QED
    BY <1>o, <1>r, <1>h, <2>2, <2>3 DEF HistoryInv, intent
<1>b. ASSUME BarFails, InBar, Committed' = Committed PROVE HistoryInv'
  <2>1. pc' = "idle" /\ ~latching'
    BY <1>b, <1>r DEF BarFails, InBar
  <2> QED
    BY <1>b, <2>1, <1>r DEF HistoryInv
<1>4. CASE RejectOrder
  <2>1. PICK target \in TargetQuantities \ {book.quantity} :
            \E reasons : trail' = [trail EXCEPT
                !.intents = Append(@, Intent(OrderTo(target, book, bar.open))),
                !.decisions = Append(@, OrderDecision(reasons))]
    BY <1>4 DEF RejectOrder
  <2>2. trail'.intents = Append(trail.intents, Intent(OrderTo(target, book, bar.open)))
    BY <2>1, <1>r, IntentsKept
  <2>3. halt' = Latched({}, Len(bars) + 1)
    BY <1>4 DEF RejectOrder, Latched
  <2> QED
    BY <1>4, <2>2, <2>3, <1>o, CommittedKept DEF RejectOrder
<1>5. CASE FillOrder
  <2>1. PICK target \in TargetQuantities \ {book.quantity} :
            BarFails \/ BookFill(OrderTo(target, book, bar.open))
    BY <1>5 DEF FillOrder
  <2>2. CASE BarFails
    BY <2>2, <1>5, <1>b, CommittedKept DEF FillOrder, InBar
  <2>3. CASE BookFill(OrderTo(target, book, bar.open))
    <3>1. PICK reasons :
            /\ halt' = Latched(reasons, Len(bars) + 1)
            /\ trail' =
                [trail EXCEPT
                    !.intents = Append(@, Intent(OrderTo(target, book, bar.open))),
                    !.decisions = Append(@, OrderDecision({}))
                                     \o HaltDecision(reasons, Len(bars) + 1),
                    !.fills = Append(@, FillOf(OrderTo(target, book, bar.open)))]
      BY <2>3 DEF BookFill
    <3>2. trail'.intents
                = Append(trail.intents, Intent(OrderTo(target, book, bar.open)))
      BY <3>1, <1>r, IntentsKept
    <3> QED
      BY <1>5, <2>3, <3>1, <3>2, <1>o, CommittedKept DEF FillOrder, BookFill
  <2> QED
    BY <2>1, <2>2, <2>3
<1>6. CASE MarkClose
  <2>1. PICK reasons :
            /\ halt' = Latched(reasons, Len(bars) + 1)
            /\ trail' = [trail EXCEPT
                           !.decisions = @ \o HaltDecision(reasons, Len(bars) + 1)]
    BY <1>6 DEF MarkClose
  <2>2. /\ pc = "executed" /\ pc' \in {"flat", "strategy"}
        /\ pc' = "strategy" => ~halt'.active
        /\ bars' = Append(bars, bar) /\ callSnapshot' = Protected'
        /\ barSnapshot' = barSnapshot /\ latching' = latching
    BY <1>6 DEF MarkClose, NeedsFlatSignal
  <2>3. trail'.intents = trail.intents
    BY <2>1, <1>r, IntentsKept
  <2>4. Len(bars') = Len(bars) + 1
    <3>1. bars \in Seq(BarRecord) /\ bar \in BarRecord
      BY StateTyped DEF TypeOK
    <3> QED
      BY <3>1, <2>2
  <2>5. NoneAfter(halt', trail.intents)
    BY <2>1, <2>2, <1>r, <1>h, LatchedAfter
  <2>6. Committed' = Committed
    BY <1>6, CommittedKept
  <2>7. callSnapshot'.trail = trail' /\ callSnapshot'.bars = bars'
            /\ callSnapshot'.halt = halt'
    BY <2>2 DEF Protected
  <2>8. Timely(trail'.intents, Len(bars')) /\ NoneAfter(halt', trail'.intents)
    BY <2>2, <2>3, <2>4, <2>5, <1>h
  <2> QED
    BY <2>2, <2>6, <2>7, <2>8, <1>r DEF HistoryInv
<1>7. CASE CommitFlat
  <2>1. pc = "flat" /\ Commit(0)
    BY <1>7 DEF CommitFlat
  <2> QED
    BY <2>1, <1>r, <1>h, CommitSettles
<1>8. CASE StrategySignals
  <2>1. pc = "strategy" /\ Protected = callSnapshot
    BY <1>8 DEF StrategySignals, Changed
  <2>2. callSnapshot.trail = trail /\ callSnapshot.bars = bars /\ callSnapshot.halt = halt
    BY <2>1 DEF Protected
  <2>3. Timely(trail.intents, Len(bars)) /\ ~halt.active
    BY <2>1, <2>2, <1>h
  <2>4. NoneAfter(halt, trail.intents)
    BY <2>3 DEF NoneAfter
  <2>5. PICK weight \in Weights : Commit(weight)
    BY <1>8 DEF StrategySignals
  <2> QED
    BY <2>1, <2>3, <2>4, <2>5, <1>r, CommitSettles
<1>9. CASE StrategyFails
  BY <1>9, <1>b, CommittedKept DEF StrategyFails, InBar
<1>10. CASE StrategyTampers \/ SinkTampers
  <2>1. /\ pc \in {"strategy", "sink"}
        /\ UNCHANGED <<pc, latching, barSnapshot, callSnapshot>>
    BY <1>10 DEF StrategyTampers, SinkTampers, Tamper
  <2>2. Committed' = Committed
    BY <1>10, CommittedKept
  <2> QED
    BY <2>1, <2>2, <1>r, <1>h DEF HistoryInv
<1>11. CASE CallSink
  <2>1. /\ pc = "deliver" /\ pc' = "sink" /\ callSnapshot' = Protected
        /\ latching' = latching
    BY <1>11 DEF CallSink
  <2>2. Committed' = Committed
    BY <1>11, CommittedKept
  <2> QED
    BY <2>1, <2>2, <1>r, <1>h DEF HistoryInv
<1>12. CASE SinkReturns
  <2>1. pc = "sink" /\ pc' = "deliver" /\ latching' = latching
    BY <1>12 DEF SinkReturns
  <2>2. Committed' = Committed
    BY <1>12, CommittedKept
  <2> QED
    BY <2>1, <2>2, <1>r, <1>h DEF HistoryInv
<1>13. CASE Return
  <2>1. /\ pc = "deliver" /\ pc' = "idle" /\ ~latching' /\ Protected' = Protected
    BY <1>13 DEF Return, Protected
  <2>2. Committed' = Committed
    BY <1>13, CommittedKept
  <2> QED
    BY <2>1, <2>2, <1>r DEF HistoryInv
<1>14. CASE LatchKillSwitch
  <2>1. /\ pc = "deliver" /\ pc' = "deliver" /\ latching /\ ~latching'
        /\ halt' = Latched({"kill_switch"}, Len(bars))
        /\ UNCHANGED <<pending, bars, trail>>
    BY <1>14 DEF LatchKillSwitch
  <2>2. pending = NoSignal
    BY <2>1, <1>r, <1>h DEF Protected
  <2>3. NoneAfter(halt', trail.intents)
    BY <2>1, <1>r, LatchedAfter
  <2>4. Settled(Protected')
    BY <2>1, <2>2, <2>3, <1>r DEF Settled, Protected
  <2>5. Committed' = Protected'
    BY <2>1 DEF Committed, InBar
  <2> QED
    BY <2>1, <2>4, <2>5 DEF HistoryInv
<1>15. CASE ExpirePendingSignal \/ ActivateKillSwitch
  <2>1. /\ pc = "idle" /\ pc' = "deliver" /\ pending' = NoSignal
        /\ UNCHANGED <<halt, bars, trail>>
    BY <1>15 DEF ExpirePendingSignal, ActivateKillSwitch, Expire
  <2>2. Committed' = Protected'
    BY <2>1 DEF Committed, InBar
  <2>3. Settled(Protected') /\ Protected'.pending = NoSignal
    BY <2>1, <1>r DEF Settled, Protected
  <2> QED
    BY <2>1, <2>2, <2>3 DEF HistoryInv
<1>16. CASE UNCHANGED vars
  BY <1>16 DEF vars, HistoryInv, Settled, Committed, InBar, Protected
<1> QED
  BY <1>1, <1>2, <1>3, <1>4, <1>5, <1>6, <1>7, <1>8, <1>9, <1>10, <1>11, <1>12,
     <1>13, <1>14, <1>15, <1>16
  DEF Next, EngineStep, CallReturns

(***************************************************************************)
(* The history invariant holds of every behaviour of the engine.           *)
(***************************************************************************)
THEOREM HistoryCorrect == Spec => []HistoryInv
BY TypeCorrect, HistoryInit, HistoryStep, PTL DEF Spec

(***************************************************************************)
(* _apply_pending_target executes every signal at the open of the very     *)
(* next bar: no order looks ahead or acts on an older signal, whatever     *)
(* failed or was rolled back in between.                                   *)
(***************************************************************************)
THEOREM SignalsExecuteNextBar == Spec => []NextBarOpen
<1>1. HistoryInv => NextBarOpen
  BY DEF HistoryInv, Settled, Timely, NextBarOpen
<1> QED
  BY <1>1, HistoryCorrect, PTL

(***************************************************************************)
(* After _latch_halt no order is proposed and the pending target is flat   *)
(* or gone: strategies, sinks and failed bars cannot lift the latch.       *)
(***************************************************************************)
THEOREM HaltsFreeze == Spec => []HaltFreezes
<1>1. HistoryInv => HaltFreezes
  BY DEF HistoryInv, Settled, NoneAfter, HaltFreezes
<1> QED
  BY <1>1, HistoryCorrect, PTL

-----------------------------------------------------------------------------
\* Bar j is the first of the date of bar i.
FirstOfDate(history, i, j) ==
    /\ j \in 1 .. i
    /\ history[j].day = history[i].day
    /\ j = 1 \/ history[j - 1].day # history[i].day

\* What the loss of a date that begins with bar j is measured from.
DayBase(points, j) == IF j = 1 THEN InitialCash ELSE points[j - 1].equity

\* The engine is halted, or the close is within the loss limits.
WithinLimits(halted, equity, peak, startOfDay) ==
    \/ halted
    \/ LossLimits(EffectivePolicy, [equity |-> equity, peak_equity |-> peak,
                                    start_of_day_equity |-> startOfDay]) = {}

\* The curve: what its points say of each other and of the bars they are of.
CurveHolds(points, history) ==
    /\ Len(points) = Len(history)
    /\ \A i \in DOMAIN points :
        /\ WithinLimits(points[i].halted, points[i].equity, points[i].peak,
                        points[i].start_of_day)
        /\ points[i].peak >= InitialCash
        /\ points[i].peak >= points[i].equity
        /\ \A j \in 1 .. i : points[i].peak >= points[j].peak
        /\ \E j \in 1 .. i : FirstOfDate(history, i, j)
        /\ \A j \in 1 .. i : FirstOfDate(history, i, j) =>
                points[i].start_of_day = DayBase(points, j)

\* The marks are those of the last point of the curve, or the initial ones.
MarksHold(s) ==
    LET last == Len(s.bars)
    IN  /\ s.marks.peak >= InitialCash
        /\ \A i \in DOMAIN s.trail.points : s.marks.peak >= s.trail.points[i].peak
        /\ \A i \in DOMAIN s.bars : s.bars[i].day <= s.marks.day
        /\ last = 0 => s.marks.day = 0 /\ s.marks.previous_close = InitialCash
        /\ last > 0 => /\ s.marks.day = s.bars[last].day
                       /\ s.marks.previous_close = s.trail.points[last].equity
                       /\ s.marks.start_of_day = s.trail.points[last].start_of_day

Measured(s) == CurveHolds(s.trail.points, s.bars) /\ MarksHold(s)

\* The open of the bar is marked in s: the date has rolled, the curve has not grown.
Rolled(before, s) ==
    /\ s.trail.points = before.trail.points
    /\ s.marks.previous_close = before.marks.previous_close
    /\ s.marks.peak >= before.marks.peak
    /\ s.marks.day = bar.day
    /\ bar.day > 0 /\ bar.day >= before.marks.day
    /\ s.marks.start_of_day = IF bar.day # before.marks.day
                                THEN before.marks.previous_close
                                ELSE before.marks.start_of_day

\* The close of the bar is marked in s too.
Closed(before, s) ==
    LET equity == EquityAt(s.book, bar.close)
    IN  /\ Rolled(before, s)
        /\ s.bars = Append(before.bars, bar)
        /\ s.marks.peak >= equity
        /\ WithinLimits(s.halt.active, equity, s.marks.peak, s.marks.start_of_day)

LimitsInv ==
    /\ Measured(Committed)
    /\ pc \in {"opened", "executed"} =>
            Rolled(barSnapshot, Protected) /\ bars = barSnapshot.bars
    /\ pc = "flat" => Closed(barSnapshot, Protected)
    /\ pc = "strategy" => Closed(barSnapshot, callSnapshot)

-----------------------------------------------------------------------------
\* A mark that _check_and_latch_portfolio_halt lets pass is within the loss limits:
\* the floors of the snapshot it builds do not hide a breach.
LEMMA MarkIsChecked ==
    ASSUME NEW ledger, NEW equity \in Int, NEW mark \in MarkRecord, mark.peak >= equity,
           NEW reasons \in HaltOutcomes(ledger, equity, mark), NEW number
    PROVE  WithinLimits(Latched(reasons, number).active, equity, mark.peak,
                        mark.start_of_day)
<1>1. CASE halt.active \/ reasons # {}
  BY <1>1 DEF Latched, WithinLimits
<1>2. CASE ~halt.active /\ reasons = {}
  <2> DEFINE shown == Snapshot(ledger, equity, mark, FALSE)
             real == [equity |-> equity, peak_equity |-> mark.peak,
                      start_of_day_equity |-> mark.start_of_day]
  <2>1. PortfolioHalt(EffectivePolicy, shown) = {}
    BY <1>2 DEF HaltOutcomes, Outcomes
  <2>2. LossLimits(EffectivePolicy, shown) = {}
    BY <2>1 DEF PortfolioHalt
  <2>3. mark.peak \in Int /\ mark.start_of_day \in Int
    BY DEF MarkRecord, Amount
  <2>4. /\ shown.equity = equity
        /\ shown.peak_equity = mark.peak
        /\ mark.start_of_day > 0 => shown.start_of_day_equity = mark.start_of_day
    BY <2>3 DEF Snapshot, Larger
  <2>5. /\ real.equity = equity
        /\ real.peak_equity = mark.peak
        /\ real.start_of_day_equity = mark.start_of_day
    OBVIOUS
  <2> HIDE DEF shown, real
  <2> DEFINE Daily(start) ==
                 Larger(0, start - equity) * WeightScale
                        >= EffectivePolicy.max_daily_loss_pct * start
             Fallen == Larger(0, mark.peak - equity) * WeightScale
                        >= EffectivePolicy.max_drawdown_pct * mark.peak
  <2>6. ~(IsPositive(shown.start_of_day_equity) /\ Daily(shown.start_of_day_equity))
    BY <2>2, <2>4 DEF LossLimits, When, IsFinite
  <2>7. ~(IsPositive(mark.peak) /\ Fallen)
    BY <2>2, <2>4 DEF LossLimits, When, IsFinite
  <2>8. ~(IsPositive(mark.start_of_day) /\ Daily(mark.start_of_day))
    <3> SUFFICES ASSUME IsPositive(mark.start_of_day) PROVE ~Daily(mark.start_of_day)
      OBVIOUS
    <3>1. shown.start_of_day_equity = mark.start_of_day
      BY <2>4 DEF IsPositive
    <3> HIDE DEF Daily
    <3> QED
      BY <2>6, <3>1
  <2>9. LossLimits(EffectivePolicy, real) = {}
    BY <2>5, <2>7, <2>8 DEF LossLimits, When
  <2> QED
    BY <2>9 DEF WithinLimits, real
<1> QED
  BY <1>1, <1>2

\* The curve starts empty, at the initial marks.
LEMMA LimitsInit == Init => LimitsInv
<1> SUFFICES ASSUME Init PROVE LimitsInv
  OBVIOUS
<1>1. Committed = Protected /\ pc = "idle"
  BY DEF Init, Committed, InBar
<1>2. /\ Protected.trail.points = <<>> /\ Protected.bars = <<>>
      /\ Protected.marks.peak = InitialCash /\ Protected.marks.day = 0
      /\ Protected.marks.previous_close = InitialCash
  BY DEF Init, Protected
<1>3. CurveHolds(<<>>, <<>>)
  BY DEF CurveHolds
<1>4. MarksHold(Protected)
  BY <1>2, EngineAssumption DEF MarksHold
<1> QED
  BY <1>1, <1>2, <1>3, <1>4 DEF LimitsInv, Measured

\* The elements of a history and of a curve, field by field.
LEMMA ElementsTyped ==
    /\ \A history \in Seq(BarRecord) : \A i \in 1 .. Len(history) :
            history[i].day \in Nat
    /\ \A points \in Seq(PointRecord) : \A i \in 1 .. Len(points) :
            points[i].peak \in Int /\ points[i].equity \in Int
<1>1. ASSUME NEW history \in Seq(BarRecord), NEW i \in 1 .. Len(history)
      PROVE  history[i].day \in Nat
  <2>1. history[i] \in BarRecord
    OBVIOUS
  <2> QED
    BY <2>1 DEF BarRecord
<1>2. ASSUME NEW points \in Seq(PointRecord), NEW i \in 1 .. Len(points)
      PROVE  points[i].peak \in Int /\ points[i].equity \in Int
  <2>1. points[i] \in PointRecord
    OBVIOUS
  <2> QED
    BY <2>1 DEF PointRecord, Amount
<1> QED
  BY <1>1, <1>2

\* A commit puts the closed bar on the curve.
LEMMA CommitMeasures ==
    ASSUME NEW before \in ProtectedState, NEW s \in ProtectedState, NEW after,
           bar \in BarRecord, Measured(before), Closed(before, s),
           NEW point \in PointRecord,
           point.equity = EquityAt(s.book, bar.close), point.peak = s.marks.peak,
           point.start_of_day = s.marks.start_of_day, point.halted = s.halt.active,
           NEW history, history = Append(before.bars, bar), after.bars = history,
           NEW last, last = Len(before.bars), after.trail.points = Append(s.trail.points, point),
           after.marks = [s.marks EXCEPT !.previous_close = point.equity]
    PROVE  Measured(after)
<1> DEFINE points == before.trail.points
           curve == after.trail.points
<1>1. /\ before.bars \in Seq(BarRecord) /\ last \in Nat
      /\ points \in Seq(PointRecord)
      /\ before.marks \in MarkRecord /\ s.marks \in MarkRecord
  BY DEF ProtectedState, Trail
<1>2. /\ Rolled(before, s)
      /\ s.bars = Append(before.bars, bar)
      /\ s.marks.peak >= point.equity
      /\ WithinLimits(point.halted, point.equity, point.peak, point.start_of_day)
  BY DEF Closed
<1>3. /\ s.trail.points = points
      /\ s.marks.previous_close = before.marks.previous_close
      /\ s.marks.peak >= before.marks.peak
      /\ s.marks.day = bar.day
      /\ bar.day > 0 /\ bar.day >= before.marks.day
      /\ point.start_of_day = IF bar.day # before.marks.day
                                THEN before.marks.previous_close
                                ELSE before.marks.start_of_day
  BY <1>2 DEF Rolled
<1>4. CurveHolds(points, before.bars) /\ MarksHold(before)
  BY DEF Measured
<1>5. Len(points) = last
  BY <1>4 DEF CurveHolds
<1>6. /\ Len(curve) = last + 1 /\ DOMAIN curve = 1 .. last + 1
      /\ curve[last + 1] = point
      /\ \A i \in 1 .. last : curve[i] = points[i]
  BY <1>1, <1>3, <1>5
<1>7. /\ Len(history) = last + 1 /\ DOMAIN history = 1 .. last + 1
      /\ history[last + 1] = bar
      /\ \A i \in 1 .. last : history[i] = before.bars[i]
  BY <1>1, <1>2
<1>8. /\ after.marks.peak = s.marks.peak
      /\ after.marks.day = bar.day
      /\ after.marks.previous_close = point.equity
      /\ after.marks.start_of_day = point.start_of_day
  BY <1>1, <1>3 DEF MarkRecord
<1>9. /\ before.marks.peak \in Int /\ s.marks.peak \in Int /\ point.peak \in Int
      /\ before.marks.day \in Nat /\ bar.day \in Nat /\ InitialCash \in Int
      /\ \A i \in 1 .. last : points[i].peak \in Int
  <2>1. \A i \in 1 .. last : points[i].peak \in Int
    BY <1>1, <1>5, ElementsTyped
  <2>2. before.marks.peak \in Int /\ s.marks.peak \in Int /\ before.marks.day \in Nat
    BY <1>1 DEF MarkRecord, Amount
  <2>3. point.peak \in Int
    BY DEF PointRecord, Amount
  <2>4. bar.day \in Nat
    BY DEF BarRecord
  <2>5. InitialCash \in Int
    BY EngineAssumption
  <2> QED
    BY <2>1, <2>2, <2>3, <2>4, <2>5, Zenon
<1>10. \A i \in 1 .. last : points[i].peak <= s.marks.peak
  <2>1. \A i \in 1 .. last : points[i].peak <= before.marks.peak
    BY <1>1, <1>4, <1>5 DEF MarksHold
  <2> QED
    BY <1>3, <1>9, <2>1, SMTT(30)
<1>11. s.marks.peak >= InitialCash
  BY <1>3, <1>4, <1>9 DEF MarksHold
<1>d. \A i \in 1 .. last : before.bars[i].day \in Nat
                           /\ before.bars[i].day <= before.marks.day
  <2>1. \A i \in 1 .. last : before.bars[i].day <= before.marks.day
    BY <1>1, <1>4 DEF MarksHold
  <2> QED
    BY <1>1, <2>1, ElementsTyped
<1>e. \A i \in 1 .. last, j \in 1 .. last :
          FirstOfDate(history, i, j) <=> FirstOfDate(before.bars, i, j)
  BY <1>1, <1>7 DEF FirstOfDate
<1>f. ASSUME bar.day # before.marks.day
      PROVE  \A j \in 1 .. last + 1 : FirstOfDate(history, last + 1, j) <=> j = last + 1
  <2>1. \A i \in 1 .. last : history[i].day # bar.day
    BY <1>3, <1>7, <1>9, <1>d, <1>f
  <2> QED
    BY <1>1, <1>7, <2>1 DEF FirstOfDate
<1>g. ASSUME bar.day = before.marks.day
      PROVE  /\ last > 0
             /\ ~FirstOfDate(history, last + 1, last + 1)
             /\ \A j \in 1 .. last : FirstOfDate(history, last + 1, j)
                                        <=> FirstOfDate(before.bars, last, j)
  <2>1. last > 0
    BY <1>1, <1>3, <1>4, <1>g DEF MarksHold
  <2>2. history[last].day = bar.day /\ before.bars[last].day = bar.day
    BY <1>1, <1>4, <1>7, <1>g, <2>1 DEF MarksHold
  <2> QED
    BY <1>1, <1>7, <2>1, <2>2 DEF FirstOfDate
<1>b. \A j \in 1 .. last : DayBase(curve, j) = DayBase(points, j)
  <2> SUFFICES ASSUME NEW j \in 1 .. last PROVE DayBase(curve, j) = DayBase(points, j)
    OBVIOUS
  <2>1. j # 1 => j - 1 \in 1 .. last
    BY <1>1
  <2> QED
    BY <1>6, <2>1 DEF DayBase
<1> HIDE DEF points, curve
<1>12. MarksHold(after)
  <2>1. \A i \in DOMAIN curve : s.marks.peak >= curve[i].peak
    <3>1. \A i \in DOMAIN curve : i \in 1 .. last \/ i = last + 1
      BY <1>1, <1>6
    <3>2. s.marks.peak >= point.peak
      BY <1>9
    <3> QED
      BY <1>6, <1>9, <1>10, <3>1, <3>2
  <2>2. \A i \in DOMAIN history : history[i].day <= bar.day
    <3>3. \A i \in 1 .. last : before.bars[i].day <= bar.day
      BY <1>3, <1>9, <1>d
    <3>4. \A i \in DOMAIN history : i \in 1 .. last \/ i = last + 1
      BY <1>1, <1>7
    <3>5. \A i \in 1 .. last : history[i].day <= bar.day
      BY <1>7, <3>3
    <3>6. history[last + 1].day <= bar.day
      BY <1>7, <1>9
    <3> QED
      BY <3>4, <3>5, <3>6
  <2> QED
    BY <1>1, <1>6, <1>7, <1>8, <1>11, <2>1, <2>2 DEF MarksHold, curve
<1>13. ASSUME NEW i \in 1 .. last
       PROVE  /\ WithinLimits(curve[i].halted, curve[i].equity, curve[i].peak,
                              curve[i].start_of_day)
              /\ curve[i].peak >= InitialCash
              /\ curve[i].peak >= curve[i].equity
              /\ \A j \in 1 .. i : curve[i].peak >= curve[j].peak
              /\ \E j \in 1 .. i : FirstOfDate(history, i, j)
              /\ \A j \in 1 .. i : FirstOfDate(history, i, j) =>
                      curve[i].start_of_day = DayBase(curve, j)
  <2>1. i \in DOMAIN points /\ curve[i] = points[i]
    BY <1>1, <1>5, <1>6 DEF points
  <2>2. \A j \in 1 .. i : j \in 1 .. last /\ curve[j] = points[j]
    BY <1>1, <1>6
  <2>3. /\ WithinLimits(points[i].halted, points[i].equity, points[i].peak,
                        points[i].start_of_day)
        /\ points[i].peak >= InitialCash
        /\ points[i].peak >= points[i].equity
        /\ \A j \in 1 .. i : points[i].peak >= points[j].peak
        /\ \E j \in 1 .. i : FirstOfDate(before.bars, i, j)
        /\ \A j \in 1 .. i : FirstOfDate(before.bars, i, j) =>
                points[i].start_of_day = DayBase(points, j)
    BY <1>4, <2>1 DEF CurveHolds
  <2> QED
    BY <1>e, <1>b, <2>1, <2>2, <2>3
<1>14. ASSUME NEW i, i = last + 1
       PROVE  /\ WithinLimits(curve[i].halted, curve[i].equity, curve[i].peak,
                              curve[i].start_of_day)
              /\ curve[i].peak >= InitialCash
              /\ curve[i].peak >= curve[i].equity
              /\ \A j \in 1 .. i : curve[i].peak >= curve[j].peak
              /\ \E j \in 1 .. i : FirstOfDate(history, i, j)
              /\ \A j \in 1 .. i : FirstOfDate(history, i, j) =>
                      curve[i].start_of_day = DayBase(curve, j)
  <2>1. \A j \in 1 .. i : point.peak >= curve[j].peak
    <3>1. \A j \in 1 .. i : j \in 1 .. last \/ j = last + 1
      BY <1>1, <1>14
    <3>2. \A j \in 1 .. last : point.peak >= curve[j].peak
      BY <1>6, <1>9, <1>10
    <3>3. point.peak >= curve[last + 1].peak
      BY <1>6, <1>9
    <3> QED
      BY <3>1, <3>2, <3>3
  <2>2. CASE bar.day # before.marks.day
    <3>1. \A j \in 1 .. i : FirstOfDate(history, i, j) <=> j = i
      BY <1>f, <1>14, <2>2
    <3>2. point.start_of_day = DayBase(curve, i)
      <4>1. CASE last = 0
        BY <1>3, <1>4, <1>14, <2>2, <4>1 DEF MarksHold, DayBase
      <4>2. CASE last > 0
        <5>1. before.marks.previous_close = points[last].equity
          BY <1>4, <4>2 DEF MarksHold, points
        <5>2. DayBase(curve, i) = points[last].equity
          BY <1>1, <1>6, <1>14, <4>2 DEF DayBase
        <5> QED
          BY <1>3, <2>2, <5>1, <5>2
      <4> QED
        BY <1>1, <4>1, <4>2
    <3>3. i \in 1 .. i
      BY <1>1, <1>14
    <3> QED
      BY <1>2, <1>6, <1>11, <1>14, <2>1, <3>1, <3>2, <3>3
  <2>3. CASE bar.day = before.marks.day
    <3>1. /\ last > 0
          /\ ~FirstOfDate(history, i, i)
          /\ \A j \in 1 .. last : FirstOfDate(history, i, j)
                                     <=> FirstOfDate(before.bars, last, j)
      BY <1>g, <1>14, <2>3
    <3>2. point.start_of_day = points[last].start_of_day
      BY <1>3, <1>4, <2>3, <3>1 DEF MarksHold, points
    <3>3. last \in DOMAIN points
      BY <1>1, <1>5, <3>1 DEF points
    <3>4. /\ \E j \in 1 .. last : FirstOfDate(before.bars, last, j)
          /\ \A j \in 1 .. last : FirstOfDate(before.bars, last, j) =>
                points[last].start_of_day = DayBase(points, j)
      BY <1>4, <3>3 DEF CurveHolds
    <3>5. \A j \in 1 .. i : j = i \/ j \in 1 .. last
      BY <1>1, <1>14
    <3>6. \A j \in 1 .. last : j \in 1 .. i
      BY <1>1, <1>14
    <3>7. \E j \in 1 .. i : FirstOfDate(history, i, j)
      BY <3>1, <3>4, <3>6
    <3>8. \A j \in 1 .. i : FirstOfDate(history, i, j) =>
                point.start_of_day = DayBase(curve, j)
      BY <1>b, <3>1, <3>2, <3>4, <3>5
    <3> QED
      BY <1>2, <1>6, <1>11, <1>14, <2>1, <3>7, <3>8
  <2> QED
    BY <2>2, <2>3
<1>15. CurveHolds(curve, history)
  <2>1. \A i \in DOMAIN curve : i \in 1 .. last \/ i = last + 1
    BY <1>1, <1>6
  <2> QED
    BY <1>6, <1>7, <1>13, <1>14, <2>1 DEF CurveHolds
<1> QED
  BY <1>12, <1>15 DEF Measured, curve

\* What the appends of the engine's steps, but a commit's, leave of the curve.
LEMMA PointsKept ==
    ASSUME NEW t \in Trail, NEW i, NEW d, NEW f
    PROVE  /\ [t EXCEPT !.decisions = d].points = t.points
           /\ [t EXCEPT !.intents = i, !.decisions = d].points = t.points
           /\ [t EXCEPT !.intents = i, !.decisions = d, !.fills = f].points = t.points
BY DEF Trail

\* An order at the open leaves the curve and the marks alone.
LEMMA OrderKeepsRolled ==
    ASSUME LimitsInv, pc = "opened", pc' = "executed", Committed' = Committed,
           trail'.points = trail.points, UNCHANGED <<marks, bars, bar, barSnapshot>>
    PROVE  LimitsInv'
<1>1. Rolled(barSnapshot, Protected) /\ bars = barSnapshot.bars
  BY DEF LimitsInv
<1>2. Rolled(barSnapshot, Protected)'
  BY <1>1 DEF Rolled, Protected
<1> QED
  BY <1>1, <1>2 DEF LimitsInv

\* The date rolls and the open is marked.
LEMMA ReceiveRolls ==
    ASSUME TypeOK, ReceiveBar
    PROVE  Rolled(barSnapshot, Protected)' /\ bars' = barSnapshot'.bars
<1>1. /\ marks \in MarkRecord /\ trail \in Trail
      /\ EquityAt(book, bar.open) \in Int
  BY StateTyped
<1>2. PICK open \in Prices, close \in Prices, day \in NextDays :
          /\ bar' = [open |-> open, close |-> close, day |-> day]
          /\ marks' = [marks EXCEPT !.day = day, !.start_of_day = StartOfDay(day),
                                    !.peak = PeakAfter(EquityAt(book, open))]
          /\ \E d : trail' = [trail EXCEPT !.decisions = d]
  BY DEF ReceiveBar
<1>3. barSnapshot' = Protected /\ bars' = bars
  BY DEF ReceiveBar
<1>4. trail'.points = trail.points
  BY <1>1, <1>2, PointsKept
<1>5. /\ marks'.day = day /\ marks'.start_of_day = StartOfDay(day)
      /\ marks'.peak = PeakAfter(EquityAt(book, open))
      /\ marks'.previous_close = marks.previous_close
  BY <1>1, <1>2 DEF MarkRecord
<1>6. EquityAt(book, open) \in Int
  <2>1. book.quantity \in Nat /\ book.cash \in Nat
    BY StateTyped DEF Ledger
  <2>2. open \in Nat
    BY EngineAssumption
  <2> QED
    BY <2>1, <2>2, EquityTyped
<1>7. marks'.peak >= marks.peak
  BY <1>1, <1>5, <1>6 DEF PeakAfter, Larger, MarkRecord, Amount
<1>8. bar'.day = day /\ day > 0 /\ day >= marks.day
  BY <1>1, <1>2, EngineAssumption DEF NextDays, MarkRecord
<1> QED
  BY <1>3, <1>4, <1>5, <1>7, <1>8 DEF Rolled, Protected, StartOfDay

\* The close is marked, and a breach at it latched.
LEMMA CloseCloses ==
    ASSUME TypeOK, LimitsInv, MarkClose
    PROVE  Closed(barSnapshot, Protected)'
<1> DEFINE equity == EquityAt(book, bar.close)
           marked == [marks EXCEPT !.peak = PeakAfter(equity)]
<1>1. /\ marks \in MarkRecord /\ trail \in Trail /\ equity \in Int
  BY StateTyped
<1>2. Rolled(barSnapshot, Protected) /\ bars = barSnapshot.bars
  BY DEF LimitsInv, MarkClose
<1>3. PICK reasons \in HaltOutcomes(book, equity, marked) :
          /\ halt' = Latched(reasons, Len(bars) + 1)
          /\ \E d : trail' = [trail EXCEPT !.decisions = d]
  BY DEF MarkClose
<1>4. /\ marks' = marked /\ bars' = Append(bars, bar)
      /\ UNCHANGED <<book, bar, barSnapshot>>
  BY DEF MarkClose
<1>5. PeakAfter(equity) \in Int /\ PeakAfter(equity) >= equity
          /\ PeakAfter(equity) >= marks.peak
  BY <1>1 DEF PeakAfter, Larger, MarkRecord, Amount
<1>6. /\ marked \in MarkRecord
      /\ marked.peak = PeakAfter(equity)
      /\ marked.start_of_day = marks.start_of_day
      /\ marked.day = marks.day
      /\ marked.previous_close = marks.previous_close
  BY <1>1, <1>5 DEF MarkRecord, Amount
<1> HIDE DEF equity, marked
<1>7. WithinLimits(halt'.active, equity, marked.peak, marked.start_of_day)
  BY <1>1, <1>3, <1>5, <1>6, MarkIsChecked
<1>8. trail'.points = trail.points
  BY <1>1, <1>3, PointsKept
<1>9. /\ Protected.trail.points = barSnapshot.trail.points
      /\ Protected.marks = marks /\ Protected.trail = trail
  BY <1>2 DEF Rolled, Protected
<1>10. marks.peak >= barSnapshot.marks.peak /\ barSnapshot.marks.peak \in Int
  BY <1>2, <1>9 DEF Rolled, TypeOK, ProtectedState, MarkRecord, Amount
<1>11. marks'.peak >= barSnapshot.marks.peak
  BY <1>1, <1>4, <1>5, <1>6, <1>10 DEF MarkRecord, Amount
<1>12. Rolled(barSnapshot, Protected)'
  BY <1>2, <1>4, <1>6, <1>8, <1>9, <1>11 DEF Rolled, Protected
<1> QED
  BY <1>2, <1>4, <1>5, <1>6, <1>7, <1>12 DEF Closed, Protected, equity

\* A commit measures the bar that was closed.
LEMMA CommitKeepsLimits ==
    ASSUME TypeOK, LimitsInv, NEW weight \in Fraction, Commit(weight), InBar,
           Committed = barSnapshot, Closed(barSnapshot, Protected)
    PROVE  LimitsInv'
<1> DEFINE point ==
        [equity |-> EquityAt(book, bar.close), cash |-> book.cash,
         quantity |-> book.quantity, peak |-> marks.peak,
         start_of_day |-> marks.start_of_day, halted |-> halt.active, target |-> weight]
<1>1. /\ Protected \in ProtectedState /\ barSnapshot \in ProtectedState
      /\ bar \in BarRecord
      /\ trail \in Trail
  BY StateTyped DEF TypeOK
<1>2. /\ Protected.book = book /\ Protected.marks = marks /\ Protected.halt = halt
      /\ Protected.trail = trail /\ Protected.bars = bars
  BY DEF Protected
<1>3. point \in PointRecord
  BY StateTyped DEF PointRecord, Ledger, MarkRecord, HaltRecord, Amount
<1>4. trail' = [trail EXCEPT !.points = Append(trail.points, point)]
  BY DEF Commit
<1>5. /\ bars' = bars /\ pc' = "deliver"
      /\ marks' = [marks EXCEPT !.previous_close = point.equity]
  BY DEF Commit
<1>6. Protected'.bars = bars' /\ Protected'.trail = trail' /\ Protected'.marks = marks'
  BY DEF Protected
<1>7. trail'.points = Append(trail.points, point)
  BY <1>1, <1>4 DEF Trail
<1>8. /\ point.equity = EquityAt(book, bar.close) /\ point.peak = marks.peak
      /\ point.start_of_day = marks.start_of_day /\ point.halted = halt.active
  OBVIOUS
<1>9. bars = Append(barSnapshot.bars, bar)
  BY <1>2 DEF Closed
<1>10. Measured(barSnapshot)
  BY DEF LimitsInv
<1> HIDE DEF point
<1>11. Measured(Protected')
  <2>1. /\ point.equity = EquityAt(Protected.book, bar.close)
        /\ point.peak = Protected.marks.peak
        /\ point.start_of_day = Protected.marks.start_of_day
        /\ point.halted = Protected.halt.active
    BY <1>2, <1>8
  <2>2. /\ Protected'.bars = Append(barSnapshot.bars, bar)
        /\ Protected'.trail.points = Append(Protected.trail.points, point)
        /\ Protected'.marks = [Protected.marks EXCEPT !.previous_close = point.equity]
    BY <1>2, <1>5, <1>6, <1>7, <1>9
  <2> QED
    BY <1>1, <1>3, <1>10, <2>1, <2>2, CommitMeasures
<1>12. Committed' = Protected'
  BY <1>5 DEF Committed, InBar
<1> QED
  BY <1>5, <1>11, <1>12 DEF LimitsInv

\* Only the bars, the curve and the marks are measured.
LEMMA MeasuredAlike ==
    ASSUME NEW s, NEW t, Measured(s), t.bars = s.bars, t.marks = s.marks,
           t.trail.points = s.trail.points
    PROVE  Measured(t)
BY DEF Measured, MarksHold

\* Every step of the engine, its caller and its callbacks keeps the limits.
LEMMA LimitsStep ==
    TypeOK /\ HistoryInv /\ LimitsInv /\ [Next]_vars => LimitsInv'
<1> SUFFICES ASSUME TypeOK, HistoryInv, LimitsInv, [Next]_vars PROVE LimitsInv'
  OBVIOUS
<1>r. /\ trail \in Trail
      /\ InBar => Committed = barSnapshot
      /\ pc = "sink" => Committed = callSnapshot
      /\ pc \in {"idle", "deliver"} => Committed = Protected
  BY HistoryReads
<1>m. Measured(Committed)
  BY DEF LimitsInv
<1>1. CASE RefuseBar \/ Return
  <2>1. Committed' = Committed /\ pc' = "idle"
    BY <1>1, CommittedKept DEF RefuseBar, Return
  <2> QED
    BY <1>m, <2>1 DEF LimitsInv
<1>2. CASE ReceiveBar
  <2>1. Committed' = Committed /\ pc' = "opened"
    BY <1>2, CommittedKept DEF ReceiveBar
  <2> QED
    BY <1>2, <1>m, <2>1, ReceiveRolls DEF LimitsInv
<1>3. CASE SkipTarget \/ HoldTarget
  <2>1. /\ pc = "opened" /\ pc' = "executed"
        /\ UNCHANGED <<trail, marks, bars, bar, barSnapshot>>
    BY <1>3 DEF SkipTarget, HoldTarget
  <2>2. Committed' = Committed
    BY <1>3, CommittedKept
  <2> QED
    BY <2>1, <2>2, OrderKeepsRolled
<1>b. ASSUME BarFails, Committed' = Committed PROVE LimitsInv'
  <2>1. pc' = "idle"
    BY <1>b DEF BarFails
  <2> QED
    BY <1>m, <1>b, <2>1 DEF LimitsInv
<1>4. CASE RejectOrder
  <2>1. \E i, d : trail' = [trail EXCEPT !.intents = i, !.decisions = d]
    BY <1>4 DEF RejectOrder
  <2>2. trail'.points = trail.points
    BY <1>r, <2>1, PointsKept
  <2>3. /\ pc = "opened" /\ pc' = "executed"
        /\ UNCHANGED <<marks, bars, bar, barSnapshot>>
    BY <1>4 DEF RejectOrder
  <2>4. Committed' = Committed
    BY <1>4, CommittedKept
  <2> QED
    BY <2>2, <2>3, <2>4, OrderKeepsRolled
<1>5. CASE FillOrder
  <2>1. Committed' = Committed /\ pc = "opened"
    BY <1>5, CommittedKept DEF FillOrder
  <2>2. PICK order : BarFails \/ BookFill(order)
    BY <1>5 DEF FillOrder
  <2>3. CASE BookFill(order)
    <3>1. \E i, d, f : trail' = [trail EXCEPT !.intents = i, !.decisions = d, !.fills = f]
      BY <2>3 DEF BookFill
    <3>2. trail'.points = trail.points
      BY <1>r, <3>1, PointsKept
    <3>3. pc' = "executed" /\ UNCHANGED <<marks, bars, bar, barSnapshot>>
      BY <2>3 DEF BookFill
    <3> QED
      BY <2>1, <3>2, <3>3, OrderKeepsRolled
  <2> QED
    BY <1>b, <2>1, <2>2, <2>3
<1>6. CASE MarkClose
  <2>1. Committed' = Committed
    BY <1>6, CommittedKept
  <2>2. pc' \in {"flat", "strategy"} /\ callSnapshot' = Protected'
    BY <1>6 DEF MarkClose
  <2>3. Closed(barSnapshot, Protected)'
    BY <1>6, CloseCloses
  <2>4. Closed(barSnapshot, callSnapshot)'
    BY <2>2, <2>3 DEF Closed, Rolled
  <2> QED
    BY <1>m, <2>1, <2>2, <2>3, <2>4 DEF LimitsInv
<1>7. CASE CommitFlat
  <2>1. pc = "flat" /\ Commit(0)
    BY <1>7 DEF CommitFlat
  <2>2. Closed(barSnapshot, Protected)
    BY <2>1 DEF LimitsInv
  <2>3. InBar
    BY <2>1 DEF InBar
  <2> QED
    BY <1>r, <2>1, <2>2, <2>3, FractionTyped, CommitKeepsLimits
<1>8. CASE StrategySignals
  <2>1. pc = "strategy" /\ Protected = callSnapshot
    BY <1>8 DEF StrategySignals, Changed
  <2>2. Closed(barSnapshot, Protected)
    BY <2>1 DEF LimitsInv
  <2>3. PICK weight \in Weights : Commit(weight)
    BY <1>8 DEF StrategySignals
  <2>4. InBar
    BY <2>1 DEF InBar
  <2> QED
    BY <1>r, <2>2, <2>3, <2>4, FractionTyped, CommitKeepsLimits
<1>9. CASE StrategyFails
  BY <1>9, <1>b, CommittedKept DEF StrategyFails
<1>10. CASE StrategyTampers \/ SinkTampers
  <2>1. /\ pc \in {"strategy", "sink"}
        /\ UNCHANGED <<pc, bar, barSnapshot, callSnapshot>>
    BY <1>10 DEF StrategyTampers, SinkTampers, Tamper
  <2>2. Committed' = Committed
    BY <1>10, CommittedKept
  <2>3. pc = "strategy" => Closed(barSnapshot, callSnapshot)'
    BY <2>1 DEF LimitsInv, Closed, Rolled
  <2> QED
    BY <1>m, <2>1, <2>2, <2>3 DEF LimitsInv
<1>11. CASE CallSink \/ SinkReturns
  <2>1. pc' \in {"sink", "deliver"}
    BY <1>11 DEF CallSink, SinkReturns
  <2>2. Committed' = Committed
    BY <1>11, CommittedKept
  <2> QED
    BY <1>m, <2>1, <2>2 DEF LimitsInv
<1>12. CASE LatchKillSwitch \/ ExpirePendingSignal \/ ActivateKillSwitch
  <2>1. /\ pc \in {"idle", "deliver"} /\ pc' = "deliver"
        /\ UNCHANGED <<marks, bars, trail>>
    BY <1>12 DEF LatchKillSwitch, ExpirePendingSignal, ActivateKillSwitch, Expire
  <2>2. Committed' = Protected' /\ Committed = Protected
    BY <1>r, <2>1 DEF Committed, InBar
  <2>3. Measured(Protected')
    BY <1>m, <2>1, <2>2, MeasuredAlike DEF Protected
  <2> QED
    BY <2>1, <2>2, <2>3 DEF LimitsInv
<1>13. CASE UNCHANGED vars
  BY <1>13 DEF vars, LimitsInv, Committed, InBar, Protected, Closed, Rolled
<1> QED
  BY <1>1, <1>2, <1>3, <1>4, <1>5, <1>6, <1>7, <1>8, <1>9, <1>10, <1>11, <1>12, <1>13
  DEF Next, EngineStep, CallReturns

\* What the invariant says of the committed history is what the property does.
LEMMA MeasuredSuffices == TypeOK /\ HistoryInv /\ LimitsInv => LossLimitsLatch
<1> SUFFICES ASSUME TypeOK, HistoryInv, LimitsInv
             PROVE  BreachLatches /\ DailyLossBase /\ PeakCovers
  BY DEF LossLimitsLatch
<1> DEFINE points == Committed.trail.points
           history == Committed.bars
<1>1. CurveHolds(points, history)
  BY DEF LimitsInv, Measured
<1>2. BreachLatches
  BY <1>1 DEF CurveHolds, WithinLimits, BreachLatches
<1>3. PeakCovers
  <2>1. points \in Seq(PointRecord)
    <3>1. Committed \in ProtectedState
      BY DEF Committed, TypeOK
    <3> QED
      BY <3>1 DEF ProtectedState, Trail
  <2> HIDE DEF points
  <2>2. InitialCash \in Int
    BY EngineAssumption
  <2> SUFFICES ASSUME NEW i \in DOMAIN points
               PROVE  /\ points[i].peak >= InitialCash
                      /\ \A j \in 1 .. i : /\ points[i].peak >= points[j].equity
                                           /\ points[i].peak >= points[j].peak
    BY DEF PeakCovers, points
  <2>3. ASSUME NEW j \in 1 .. i
        PROVE  points[i].peak >= points[j].equity /\ points[i].peak >= points[j].peak
    <3>1. i \in 1 .. Len(points) /\ j \in 1 .. Len(points) /\ j \in DOMAIN points
      BY <2>1
    <3>2. /\ points[i].peak \in Int /\ points[j].peak \in Int
          /\ points[j].equity \in Int
      BY <2>1, <3>1, ElementsTyped
    <3>3. points[i].peak >= points[j].peak /\ points[j].peak >= points[j].equity
      BY <1>1, <3>1 DEF CurveHolds
    <3> QED
      BY <3>2, <3>3
  <2> QED
    BY <1>1, <2>3 DEF CurveHolds
<1>4. DailyLossBase
  <2> SUFFICES ASSUME NEW i \in DOMAIN points
               PROVE  LET first == CHOOSE j \in 1 .. i :
                                      /\ history[j].day = history[i].day
                                      /\ j = 1 \/ history[j - 1].day # history[i].day
                      IN  points[i].start_of_day =
                            IF first = 1 THEN InitialCash ELSE points[first - 1].equity
    BY DEF DailyLossBase
  <2> DEFINE first == CHOOSE j \in 1 .. i :
                          /\ history[j].day = history[i].day
                          /\ j = 1 \/ history[j - 1].day # history[i].day
  <2>1. /\ \E j \in 1 .. i : FirstOfDate(history, i, j)
        /\ \A j \in 1 .. i : FirstOfDate(history, i, j) =>
                points[i].start_of_day = DayBase(points, j)
    BY <1>1 DEF CurveHolds
  <2>2. first \in 1 .. i /\ FirstOfDate(history, i, first)
    BY <2>1 DEF FirstOfDate
  <2> HIDE DEF first
  <2>3. points[i].start_of_day = DayBase(points, first)
    BY <2>1, <2>2
  <2> QED
    BY <2>3 DEF DayBase, first
<1> QED
  BY <1>2, <1>3, <1>4

(***************************************************************************)
(* _check_and_latch_portfolio_halt: no bar closes beyond a loss limit with *)
(* the engine still trading, the daily loss measured from the last close   *)
(* of the date before and the drawdown from a peak that covers every close *)
(* so far; failed evaluations, rollbacks and tampering callbacks included. *)
(***************************************************************************)
THEOREM LossLimitsHold == Spec => []LossLimitsLatch
<1>1. Spec => [](TypeOK /\ HistoryInv)
  BY TypeCorrect, HistoryCorrect, PTL
<1>2. Spec => [](TypeOK /\ HistoryInv /\ LimitsInv)
  BY <1>1, LimitsInit, LimitsStep, PTL DEF Spec
<1> QED
  BY <1>2, MeasuredSuffices, PTL

-----------------------------------------------------------------------------
\* What a bar may have done to the state before it, up to the strategy's call:
\* latched a halt, and traded towards a target that was pending.
Advanced(before, s) ==
    /\ before.halt.active => s.halt.active
    /\ \/ s.book = before.book
       \/ /\ ~before.halt.active
          /\ before.pending # NoSignal
          /\ s.book.quantity # before.book.quantity
          /\ before.pending.weight = 0 => s.book.quantity < before.book.quantity

(***************************************************************************)
(* A commit is one step of the contract from the state before the bar: so  *)
(* the invariant relates the bar under way to that state.                  *)
(***************************************************************************)
BarInv ==
    /\ InBar => Len(barSnapshot.bars) < NumBars
    /\ pc \in {"opened", "executed"} =>
            /\ bars = barSnapshot.bars
            /\ pending = barSnapshot.pending
            /\ Advanced(barSnapshot, Protected)
    /\ pc = "opened" => book = barSnapshot.book
    /\ pc = "flat" =>
            /\ Len(bars) = Len(barSnapshot.bars) + 1
            /\ Advanced(barSnapshot, Protected)
    /\ pc = "strategy" =>
            /\ Len(callSnapshot.bars) = Len(barSnapshot.bars) + 1
            /\ Len(callSnapshot.bars) > WarmupBars
            /\ Advanced(barSnapshot, callSnapshot)

\* No bar is under way at the start.
LEMMA BarInit == Init => BarInv
BY DEF Init, BarInv, InBar

\* A latched halt stays latched, whatever else would latch it.
LEMMA LatchStays ==
    ASSUME NEW reasons, NEW number
    PROVE  halt.active => Latched(reasons, number).active
BY DEF Latched

\* A flat target sells.
LEMMA FlatSells ==
    ASSUME TypeOK, NEW target \in TargetQuantities, target # book.quantity,
           pending.weight = 0
    PROVE  target < book.quantity
<1>1. book.quantity \in Nat
  BY StateTyped DEF Ledger
<1>2. target = 0
  BY DEF TargetQuantities, TargetUnits
<1> QED
  BY <1>1, <1>2

\* A fill moves the holding to its target.
LEMMA FillReaches ==
    ASSUME TypeOK, NEW target \in TargetQuantities, target # book.quantity,
           NEW order, order = OrderTo(target, book, bar.open)
    PROVE  Filled(order).quantity = target
<1>1. book.quantity \in Nat /\ book.cash \in Nat /\ bar.open \in Nat \ {0}
  BY StateTyped DEF Ledger
<1>2. target \in Nat
  BY DEF TargetQuantities
<1>3. /\ order.side = IF target > book.quantity THEN Buy ELSE Sell
      /\ order.quantity = Magnitude(target - book.quantity)
  BY <1>1, <1>2, OrderTyped
<1> QED
  BY <1>1, <1>2, <1>3 DEF Filled, Magnitude, Buy, Sell

\* Every step of the engine, its caller and its callbacks keeps the relation.
LEMMA BarStep == TypeOK /\ HistoryInv /\ BarInv /\ [Next]_vars => BarInv'
<1> SUFFICES ASSUME TypeOK, HistoryInv, BarInv, [Next]_vars PROVE BarInv'
  OBVIOUS
<1>t. /\ Len(bars) \in Nat
      /\ barSnapshot \in ProtectedState
  BY StateTyped DEF TypeOK
<1>1. CASE ReceiveBar
  <2>1. PICK reasons : halt' = Latched(reasons, Len(bars) + 1)
    BY <1>1 DEF ReceiveBar
  <2>2. /\ pc' = "opened" /\ barSnapshot' = Protected /\ Len(bars) < NumBars
        /\ UNCHANGED <<book, pending, bars>>
    BY <1>1 DEF ReceiveBar
  <2>3. /\ barSnapshot'.bars = bars /\ barSnapshot'.pending = pending
        /\ barSnapshot'.book = book /\ barSnapshot'.halt = halt
        /\ Protected'.book = book' /\ Protected'.halt = halt'
    BY <2>2 DEF Protected
  <2>4. Advanced(barSnapshot', Protected')
    BY <2>1, <2>2, <2>3, LatchStays DEF Advanced
  <2> QED
    BY <2>2, <2>3, <2>4 DEF BarInv
<1>2. CASE SkipTarget \/ HoldTarget \/ RejectOrder
  <2>1. /\ pc = "opened" /\ pc' = "executed"
        /\ UNCHANGED <<book, pending, halt, bars, barSnapshot>>
    BY <1>2 DEF SkipTarget, HoldTarget, RejectOrder
  <2>2. Advanced(barSnapshot', Protected')
    BY <2>1 DEF BarInv, Advanced, Protected
  <2> QED
    BY <2>1, <2>2 DEF BarInv, InBar
<1>3. CASE FillOrder
  <2>1. /\ pc = "opened" /\ pending # NoSignal /\ ~halt.active
        /\ Len(barSnapshot.bars) < NumBars
        /\ bars = barSnapshot.bars /\ pending = barSnapshot.pending
        /\ book = barSnapshot.book /\ Advanced(barSnapshot, Protected)
    BY <1>3 DEF FillOrder, BarInv, InBar
  <2>2. PICK target \in TargetQuantities \ {book.quantity} :
            BarFails \/ BookFill(OrderTo(target, book, bar.open))
    BY <1>3 DEF FillOrder
  <2>3. CASE BarFails
    BY <2>3 DEF BarFails, BarInv, InBar
  <2>4. CASE BookFill(OrderTo(target, book, bar.open))
    <3>1. /\ book' = Filled(OrderTo(target, book, bar.open))
          /\ pc' = "executed"
          /\ UNCHANGED <<pending, bars, barSnapshot>>
      BY <2>4 DEF BookFill
    <3>2. book'.quantity = target
      BY <3>1, FillReaches
    <3>3. ~barSnapshot.halt.active
      BY <2>1 DEF Advanced, Protected
    <3>4. barSnapshot.pending.weight = 0 => target < book.quantity
      BY <2>1, FlatSells
    <3>5. Advanced(barSnapshot', Protected')
      BY <2>1, <3>1, <3>2, <3>3, <3>4 DEF Advanced, Protected
    <3> QED
      BY <2>1, <3>1, <3>5 DEF BarInv, InBar
  <2> QED
    BY <2>2, <2>3, <2>4
<1>4. CASE MarkClose
  <2>1. PICK reasons : halt' = Latched(reasons, Len(bars) + 1)
    BY <1>4 DEF MarkClose
  <2>2. /\ pc = "executed" /\ pc' \in {"flat", "strategy"}
        /\ pc' = "strategy" => ~(Len(bars) + 1 <= WarmupBars)
        /\ bars' = Append(bars, bar) /\ callSnapshot' = Protected'
        /\ UNCHANGED <<book, pending, barSnapshot>>
    BY <1>4 DEF MarkClose, NeedsFlatSignal
  <2>3. /\ Len(barSnapshot.bars) < NumBars
        /\ bars = barSnapshot.bars
        /\ Advanced(barSnapshot, Protected)
    BY <2>2 DEF BarInv, InBar
  <2>4. Len(bars') = Len(bars) + 1
    <3>1. bars \in Seq(BarRecord) /\ bar \in BarRecord
      BY StateTyped DEF TypeOK
    <3> QED
      BY <3>1, <2>2
  <2>5. Advanced(barSnapshot', Protected')
    BY <2>1, <2>2, <2>3, LatchStays DEF Advanced, Protected
  <2>6. callSnapshot'.bars = bars'
    BY <2>2 DEF Protected
  <2>7. Len(bars) + 1 > WarmupBars \/ pc' = "flat"
    BY <2>2, <1>t, EngineAssumption
  <2> QED
    BY <2>2, <2>3, <2>4, <2>5, <2>6, <2>7 DEF BarInv, InBar
<1>5. CASE StrategyTampers \/ SinkTampers
  <2>1. /\ pc \in {"strategy", "sink"}
        /\ UNCHANGED <<pc, barSnapshot, callSnapshot>>
    BY <1>5 DEF StrategyTampers, SinkTampers, Tamper
  <2> QED
    BY <2>1 DEF BarInv, InBar
<1>6. CASE StrategyFails
  BY <1>6 DEF StrategyFails, BarFails, BarInv, InBar
<1>7. CASE \/ RefuseBar \/ ExpirePendingSignal \/ ActivateKillSwitch \/ CommitFlat
           \/ StrategySignals \/ CallSink \/ SinkReturns \/ LatchKillSwitch \/ Return
  <2>1. pc' \in {"idle", "deliver", "sink"}
    BY <1>7 DEF RefuseBar, ExpirePendingSignal, ActivateKillSwitch, Expire, CommitFlat,
                StrategySignals, Commit, CallSink, SinkReturns, LatchKillSwitch, Return
  <2> QED
    BY <2>1 DEF BarInv, InBar
<1>8. CASE UNCHANGED vars
  BY <1>8 DEF vars, BarInv, InBar, Advanced, Protected
<1> QED
  BY <1>1, <1>2, <1>3, <1>4, <1>5, <1>6, <1>7, <1>8
  DEF Next, EngineStep, CallReturns

-----------------------------------------------------------------------------
\* The engine starts as the contract does.
LEMMA ContractStarts == Init => Contract!ContractInit
<1> SUFFICES ASSUME Init PROVE Contract!ContractInit
  OBVIOUS
<1>1. Committed = Protected
  BY DEF Init, Committed, InBar
<1>2. /\ Protected.bars = <<>> /\ Protected.pending = NoSignal
      /\ Protected.halt.active = FALSE
      /\ Protected.book.cash = InitialCash /\ Protected.book.quantity = 0
      /\ processingFailed = FALSE
  BY DEF Init, Protected, NotHalted
<1> QED
  BY <1>1, <1>2 DEF Contract!ContractInit

\* A step that leaves the committed state and the failure flag is none of the
\* contract's.
LEMMA StutterSeen ==
    ASSUME Committed' = Committed, processingFailed' = processingFailed
    PROVE  UNCHANGED Contract!contractVars
BY DEF Contract!contractVars

\* A failed bar is a FailBar of the contract.
LEMMA FailureSeen ==
    ASSUME Committed' = Committed, ~processingFailed, processingFailed' = TRUE
    PROVE  Contract!FailBar
BY DEF Contract!FailBar

\* The commit of a bar is a CommitBar of the contract.
LEMMA CommitSeen ==
    ASSUME TypeOK, Committed = barSnapshot, ~processingFailed,
           Len(barSnapshot.bars) < NumBars, Len(bars) = Len(barSnapshot.bars) + 1,
           Advanced(barSnapshot, Protected),
           NEW weight \in Weights \cup {0},
           halt.active \/ Len(bars) <= WarmupBars => weight = 0,
           Commit(weight)
    PROVE  Contract!CommitBar
<1>1. /\ pc' = "deliver"
      /\ pending' = [bar |-> Len(bars), weight |-> weight]
      /\ UNCHANGED <<book, halt, bars, processingFailed>>
  BY DEF Commit, NextSignal
<1>2. Committed' = Protected'
  BY <1>1 DEF Committed, InBar
<1>3. /\ Committed'.bars = bars /\ Committed'.book = book
      /\ Committed'.halt = halt /\ Committed'.pending = pending'
  BY <1>1, <1>2 DEF Protected
<1>4. /\ book \in Ledger /\ halt.active \in BOOLEAN
      /\ Committed.halt.active \in BOOLEAN
  <2>1. halt \in HaltRecord /\ Committed.halt \in HaltRecord
    BY StateTyped DEF TypeOK, ProtectedState
  <2> QED
    BY <2>1, StateTyped DEF HaltRecord
<1>5. [cash |-> book.cash, quantity |-> book.quantity] \in [cash : Nat, quantity : Nat]
  BY <1>4 DEF Ledger
<1>6. Committed'.halt.active \in {Committed.halt.active, TRUE}
  BY <1>3, <1>4 DEF Advanced, Protected
<1>7. \/ [cash |-> book.cash, quantity |-> book.quantity]
            = [cash |-> Committed.book.cash, quantity |-> Committed.book.quantity]
      \/ /\ ~Committed.halt.active
         /\ Committed.pending # NoSignal
         /\ book.quantity # Committed.book.quantity
         /\ Committed.pending.weight = 0 => book.quantity < Committed.book.quantity
  BY DEF Advanced, Protected
<1>8. \/ [cash |-> Committed'.book.cash, quantity |-> Committed'.book.quantity]
            = [cash |-> Committed.book.cash, quantity |-> Committed.book.quantity]
      \/ Contract!Traded
  BY <1>3, <1>5, <1>7 DEF Contract!Traded
<1>9. \E w \in Weights \cup {0} :
        /\ Committed'.halt.active \/ Len(Committed'.bars) <= WarmupBars => w = 0
        /\ Committed'.pending = [bar |-> Len(Committed'.bars), weight |-> w]
  BY <1>1, <1>3
<1> QED
  BY <1>1, <1>3, <1>6, <1>8, <1>9 DEF Contract!CommitBar

\* Every step of the engine is one of the contract, or a stutter.
LEMMA ContractSteps ==
    TypeOK /\ RunsUnfailed /\ HistoryInv /\ BarInv /\ [Next]_vars
        => [Contract!ContractNext]_(Contract!contractVars)
<1> SUFFICES ASSUME TypeOK, RunsUnfailed, HistoryInv, BarInv, [Next]_vars
             PROVE  Contract!ContractNext \/ UNCHANGED Contract!contractVars
  OBVIOUS
<1>r. /\ Len(bars) \in Nat
      /\ pc \notin {"deliver", "sink"} => ~latching
      /\ InBar => Committed = barSnapshot
      /\ pc \in {"idle", "deliver"} => Committed = Protected
      /\ InBar => ~processingFailed
  BY HistoryReads DEF RunsUnfailed
<1>1. CASE RefuseBar
  <2>1. ~processingFailed /\ processingFailed' = TRUE
    BY <1>1 DEF RefuseBar
  <2> QED
    BY <1>1, <2>1, CommittedKept, FailureSeen DEF Contract!ContractNext
<1>b. ASSUME BarFails, InBar, Committed' = Committed PROVE Contract!ContractNext
  BY <1>b, <1>r, FailureSeen DEF BarFails, Contract!ContractNext
<1>2. CASE StrategyFails
  BY <1>2, <1>b, CommittedKept DEF StrategyFails, InBar
<1>3. CASE FillOrder
  <2>1. BarFails \/ processingFailed' = processingFailed
    BY <1>3 DEF FillOrder, BookFill
  <2>2. InBar
    BY <1>3 DEF FillOrder, InBar
  <2> QED
    BY <1>3, <1>b, <2>1, <2>2, CommittedKept, StutterSeen
<1>4. CASE \/ ReceiveBar \/ SkipTarget \/ HoldTarget \/ RejectOrder \/ MarkClose
           \/ CallSink \/ Return \/ SinkReturns \/ StrategyTampers \/ SinkTampers
           \/ UNCHANGED vars
  <2>1. processingFailed' = processingFailed
    BY <1>4 DEF ReceiveBar, SkipTarget, HoldTarget, RejectOrder, MarkClose, CallSink,
                Return, SinkReturns, StrategyTampers, SinkTampers, Tamper, vars
  <2> QED
    BY <1>4, <2>1, CommittedKept, StutterSeen
<1>5. CASE CommitFlat
  <2>1. pc = "flat" /\ InBar /\ Commit(0)
    BY <1>5 DEF CommitFlat, InBar
  <2>2. /\ Len(barSnapshot.bars) < NumBars
        /\ Len(bars) = Len(barSnapshot.bars) + 1
        /\ Advanced(barSnapshot, Protected)
    BY <2>1 DEF BarInv
  <2>3. Contract!CommitBar
    BY <2>1, <2>2, <1>r, CommitSeen
  <2> QED
    BY <2>3 DEF Contract!ContractNext
<1>6. CASE StrategySignals
  <2>1. pc = "strategy" /\ InBar /\ Protected = callSnapshot
    BY <1>6 DEF StrategySignals, Changed, InBar
  <2>2. PICK weight \in Weights : Commit(weight)
    BY <1>6 DEF StrategySignals
  <2>3. callSnapshot.bars = bars /\ callSnapshot.halt = halt
    BY <2>1 DEF Protected
  <2>4. /\ Len(barSnapshot.bars) < NumBars
        /\ Len(bars) = Len(barSnapshot.bars) + 1
        /\ Len(bars) > WarmupBars
        /\ Advanced(barSnapshot, Protected)
        /\ ~halt.active
    BY <2>1, <2>3 DEF BarInv, HistoryInv
  <2>5. ~(Len(bars) <= WarmupBars)
    BY <2>4, <1>r, EngineAssumption
  <2>6. Contract!CommitBar
    BY <2>1, <2>2, <2>4, <2>5, <1>r, CommitSeen
  <2> QED
    BY <2>6 DEF Contract!ContractNext
<1>7. CASE LatchKillSwitch
  <2>1. /\ pc = "deliver" /\ pc' = "deliver" /\ latching
        /\ halt' = Latched({"kill_switch"}, Len(bars))
        /\ UNCHANGED <<book, pending, bars, processingFailed>>
    BY <1>7 DEF LatchKillSwitch
  <2>2. Committed = Protected /\ Committed' = Protected'
    BY <2>1, <1>r DEF Committed, InBar
  <2>3. Committed.pending = NoSignal
    BY <2>1 DEF HistoryInv
  <2>4. /\ Committed'.bars = Committed.bars /\ Committed'.book = Committed.book
        /\ Committed'.pending = Committed.pending
        /\ Committed.halt = halt /\ Committed'.halt = halt'
    BY <2>1, <2>2 DEF Protected
  <2>5. CASE halt.active
    BY <2>1, <2>4, <2>5 DEF Latched, Contract!contractVars
  <2>6. CASE ~halt.active
    <3>1. halt'.active = TRUE
      BY <2>1, <2>6 DEF Latched
    <3>2. Contract!Halt
      BY <2>1, <2>3, <2>4, <2>6, <3>1 DEF Contract!Halt
    <3> QED
      BY <3>2 DEF Contract!ContractNext
  <2> QED
    BY <2>5, <2>6
<1>8. CASE ExpirePendingSignal \/ ActivateKillSwitch
  <2>1. /\ pc = "idle" /\ pc' = "deliver" /\ pending' = NoSignal
        /\ UNCHANGED <<book, halt, bars, processingFailed>>
    BY <1>8 DEF ExpirePendingSignal, ActivateKillSwitch, Expire
  <2>2. Committed = Protected /\ Committed' = Protected'
    BY <2>1, <1>r DEF Committed, InBar
  <2>3. /\ Committed'.bars = Committed.bars /\ Committed'.book = Committed.book
        /\ Committed.pending = pending /\ Committed'.pending = NoSignal
        /\ Committed'.halt = Committed.halt
    BY <2>1, <2>2 DEF Protected
  <2>4. CASE pending = NoSignal
    BY <2>1, <2>3, <2>4 DEF Contract!contractVars
  <2>5. CASE pending # NoSignal
    <3>1. Contract!DropSignal
      BY <2>1, <2>3, <2>5 DEF Contract!DropSignal
    <3> QED
      BY <3>1 DEF Contract!ContractNext
  <2> QED
    BY <2>4, <2>5
<1> QED
  BY <1>1, <1>2, <1>3, <1>4, <1>5, <1>6, <1>7, <1>8
  DEF Next, EngineStep, CallReturns

(***************************************************************************)
(* The engine implements its contract for all bars, prices, weights and    *)
(* limits, whatever the strategy, the sink and the policy do: process_bar  *)
(* is atomic to its driver, a halt is final and a failure ends the engine  *)
(* with the state of the last whole bar.                                   *)
(***************************************************************************)
THEOREM EngineImplementsContract == Spec => ImplementsContract
<1>1. Spec => [](TypeOK /\ RunsUnfailed /\ HistoryInv /\ BarInv)
  BY TypeCorrect, UnfailedInit, UnfailedStep, HistoryCorrect, BarInit, BarStep, PTL
  DEF Spec
<1> QED
  BY <1>1, ContractStarts, ContractSteps, PTL
  DEF Spec, ImplementsContract, Contract!ContractSpec

-----------------------------------------------------------------------------
\* A fill whose holding, after its costs, weighs no more than its target.
WithinTarget(fill) ==
    LET value == MarketValue(fill.quantity_after, fill.ticks)
    IN  value * WeightScale <= fill.weight * (fill.cash_after + value)

\* A decision on an order that was stated as the policy sees it.
WellStated(decision) == decision.about = "order" => decision.reasons \cap EngineFault = {}

Audited(t) ==
    /\ Answers(t.intents, t.decisions, OnOrders(t.decisions))
    /\ Answers(t.fills, t.decisions, Approvals(t.decisions))

\* What is kept of a trail.
Kept(t) ==
    /\ \A i \in DOMAIN t.fills : WithinTarget(t.fills[i])
    /\ \A i \in DOMAIN t.decisions : WellStated(t.decisions[i])
    /\ Audited(t)

\* The events of a queue are of bars up to number, and a fill they announce is one
\* of the trail's.
Announced(queue, t, number) ==
    \A i \in DOMAIN queue :
        /\ queue[i].bar <= number
        /\ queue[i].kind = "fill_created" =>
                \E k \in DOMAIN t.fills : t.fills[k].bar = queue[i].bar

\* The open passed the checks that an order of this bar would be refused by.
OpenIsClear ==
    PortfolioHalt(EffectivePolicy, Snapshot(book, EquityAt(book, bar.open), marks, FALSE)) = {}

BooksInv ==
    /\ Kept(Committed.trail)
    /\ pc \in {"opened", "executed"} =>
            Kept(trail) /\ Announced(events, trail, Len(bars) + 1)
    /\ pc = "opened" => halt.active \/ OpenIsClear
    /\ pc = "flat" => Kept(trail) /\ Announced(events, trail, Len(bars))
    /\ pc = "strategy" =>
            /\ Kept(callSnapshot.trail)
            /\ Announced(events, callSnapshot.trail, Len(callSnapshot.bars))
    /\ pc = "deliver" => Announced(events, trail, Len(bars))
    /\ pc = "sink" =>
            /\ events # <<>>
            /\ Announced(events, callSnapshot.trail, Len(callSnapshot.bars))

-----------------------------------------------------------------------------
\* A log may go on with entries that answer no record.
LEMMA AnswersSkip ==
    ASSUME NEW S, NEW log \in Seq(S), NEW entry \in S, NEW chosen \in SUBSET DOMAIN log,
           NEW records, Answers(records, log, chosen)
    PROVE  Answers(records, Append(log, entry), chosen)
<1>1. PICK at \in [DOMAIN records -> chosen] :
          /\ \A i, j \in DOMAIN records : i < j => at[i] < at[j]
          /\ \A k \in chosen : \E i \in DOMAIN records : at[i] = k
          /\ \A i \in DOMAIN records : log[at[i]].bar = records[i].bar
  BY DEF Answers
<1>2. \A k \in chosen : Append(log, entry)[k] = log[k]
  OBVIOUS
<1>3. \A i \in DOMAIN records : Append(log, entry)[at[i]].bar = records[i].bar
  BY <1>1, <1>2
<1> QED
  BY <1>1, <1>3 DEF Answers

\* A record and an entry of its bar, added together, answer each other.
LEMMA AnswersNext ==
    ASSUME NEW R, NEW records \in Seq(R), NEW record \in R,
           NEW S, NEW log \in Seq(S), NEW entry \in S, NEW chosen \in SUBSET DOMAIN log,
           Answers(records, log, chosen), entry.bar = record.bar
    PROVE  Answers(Append(records, record), Append(log, entry), chosen \cup {Len(log) + 1})
<1> DEFINE n == Len(records)
           m == Len(log)
           longer == Append(records, record)
           grown == Append(log, entry)
<1>1. PICK at \in [DOMAIN records -> chosen] :
          /\ \A i, j \in DOMAIN records : i < j => at[i] < at[j]
          /\ \A k \in chosen : \E i \in DOMAIN records : at[i] = k
          /\ \A i \in DOMAIN records : log[at[i]].bar = records[i].bar
  BY DEF Answers
<1>2. /\ n \in Nat /\ m \in Nat /\ DOMAIN records = 1 .. n /\ chosen \subseteq 1 .. m
      /\ DOMAIN longer = 1 .. n + 1
      /\ longer[n + 1] = record
      /\ \A i \in 1 .. n : longer[i] = records[i]
      /\ grown[m + 1] = entry
      /\ \A k \in 1 .. m : grown[k] = log[k]
  OBVIOUS
<1> HIDE DEF n, m, longer, grown
<1> DEFINE to == [i \in 1 .. n + 1 |-> IF i = n + 1 THEN m + 1 ELSE at[i]]
<1>3. /\ to[n + 1] = m + 1
      /\ \A i \in 1 .. n : to[i] = at[i] /\ at[i] \in chosen /\ at[i] \in 1 .. m
      /\ \A i \in 1 .. n + 1 : i \in 1 .. n \/ i = n + 1
  BY <1>1, <1>2
<1>4. to \in [1 .. n + 1 -> chosen \cup {m + 1}]
  BY <1>3
<1> HIDE DEF to
<1>5. \A i, j \in 1 .. n + 1 : i < j => to[i] < to[j]
  <2> SUFFICES ASSUME NEW i \in 1 .. n + 1, NEW j \in 1 .. n + 1, i < j
               PROVE  to[i] < to[j]
    OBVIOUS
  <2>1. i \in 1 .. n
    BY <1>2
  <2>2. CASE j = n + 1
    BY <1>2, <1>3, <2>1, <2>2
  <2>3. CASE j \in 1 .. n
    BY <1>1, <1>2, <1>3, <2>1, <2>3
  <2> QED
    BY <1>3, <2>2, <2>3
<1>6. \A k \in chosen \cup {m + 1} : \E i \in 1 .. n + 1 : to[i] = k
  <2>1. ASSUME NEW k \in chosen PROVE \E i \in 1 .. n + 1 : to[i] = k
    <3>1. PICK i \in 1 .. n : at[i] = k
      BY <1>1, <1>2
    <3>2. i \in 1 .. n + 1 /\ to[i] = k
      BY <1>2, <1>3, <3>1
    <3> QED
      BY <3>2
  <2>2. n + 1 \in 1 .. n + 1
    BY <1>2
  <2> QED
    BY <1>3, <2>1, <2>2
<1>7. \A i \in 1 .. n + 1 : grown[to[i]].bar = longer[i].bar
  <2>1. grown[to[n + 1]].bar = longer[n + 1].bar
    BY <1>2, <1>3
  <2>2. ASSUME NEW i \in 1 .. n PROVE grown[to[i]].bar = longer[i].bar
    <3>1. to[i] = at[i] /\ grown[at[i]] = log[at[i]] /\ longer[i] = records[i]
      BY <1>2, <1>3
    <3>2. log[at[i]].bar = records[i].bar
      BY <1>1, <1>2
    <3> QED
      BY <3>1, <3>2
  <2> QED
    BY <1>3, <2>1, <2>2
<1>8. /\ to \in [DOMAIN longer -> chosen \cup {m + 1}]
      /\ \A i, j \in DOMAIN longer : i < j => to[i] < to[j]
      /\ \A k \in chosen \cup {m + 1} : \E i \in DOMAIN longer : to[i] = k
      /\ \A i \in DOMAIN longer : grown[to[i]].bar = longer[i].bar
  BY <1>2, <1>4, <1>5, <1>6, <1>7
<1>9. Answers(longer, grown, chosen \cup {m + 1})
  BY <1>8, Zenon DEF Answers
<1> QED
  BY <1>9 DEF longer, grown, m

\* The decisions on orders, and the approvals, as the log grows.
LEMMA ChosenGrow ==
    ASSUME NEW log \in Seq(DecisionRecord), NEW entry \in DecisionRecord
    PROVE  /\ OnOrders(log) \in SUBSET DOMAIN log
           /\ Approvals(log) \in SUBSET DOMAIN log
           /\ OnOrders(Append(log, entry)) =
                  OnOrders(log) \cup {k \in {Len(log) + 1} : entry.about = "order"}
           /\ Approvals(Append(log, entry)) =
                  Approvals(log) \cup {k \in {Len(log) + 1} : /\ entry.about = "order"
                                                             /\ entry.reasons = {}}
<1> DEFINE grown == Append(log, entry)
           m == Len(log)
<1>1. /\ m \in Nat /\ DOMAIN log = 1 .. m /\ DOMAIN grown = 1 .. m + 1
      /\ grown[m + 1] = entry
      /\ \A k \in 1 .. m : grown[k] = log[k]
  OBVIOUS
<1> HIDE DEF grown, m
<1>2. \A k : k \in 1 .. m + 1 <=> k \in 1 .. m \/ k = m + 1
  BY <1>1
<1>3. OnOrders(log) \in SUBSET DOMAIN log /\ Approvals(log) \in SUBSET DOMAIN log
  BY DEF OnOrders, Approvals
<1>4. OnOrders(grown) = OnOrders(log) \cup {k \in {m + 1} : entry.about = "order"}
  BY <1>1, <1>2 DEF OnOrders
<1>5. Approvals(grown) = Approvals(log) \cup {k \in {m + 1} : /\ entry.about = "order"
                                                            /\ entry.reasons = {}}
  BY <1>1, <1>2 DEF OnOrders, Approvals
<1> QED
  BY <1>3, <1>4, <1>5 DEF grown, m

\* What is said of every element of a sequence and of one more is said of them all.
LEMMA DecisionsGrow ==
    ASSUME NEW log \in Seq(DecisionRecord), NEW entry \in DecisionRecord,
           \A i \in DOMAIN log : WellStated(log[i]), WellStated(entry)
    PROVE  \A i \in DOMAIN Append(log, entry) : WellStated(Append(log, entry)[i])
<1> SUFFICES ASSUME NEW i \in DOMAIN Append(log, entry)
             PROVE  WellStated(Append(log, entry)[i])
  OBVIOUS
<1>1. CASE i = Len(log) + 1
  <2>1. Append(log, entry)[i] = entry
    BY <1>1
  <2> QED
    BY <2>1
<1>2. CASE i # Len(log) + 1
  <2>1. i \in DOMAIN log /\ Append(log, entry)[i] = log[i]
    BY <1>2
  <2> QED
    BY <2>1
<1> QED
  BY <1>1, <1>2

\* And of the fills.
LEMMA FillsGrow ==
    ASSUME NEW fills \in Seq(FillRecord), NEW fill \in FillRecord,
           \A i \in DOMAIN fills : WithinTarget(fills[i]), WithinTarget(fill)
    PROVE  \A i \in DOMAIN Append(fills, fill) : WithinTarget(Append(fills, fill)[i])
<1> SUFFICES ASSUME NEW i \in DOMAIN Append(fills, fill)
             PROVE  WithinTarget(Append(fills, fill)[i])
  OBVIOUS
<1>1. CASE i = Len(fills) + 1
  <2>1. Append(fills, fill)[i] = fill
    BY <1>1
  <2> QED
    BY <2>1
<1>2. CASE i # Len(fills) + 1
  <2>1. i \in DOMAIN fills /\ Append(fills, fill)[i] = fills[i]
    BY <1>2
  <2> QED
    BY <2>1
<1> QED
  BY <1>1, <1>2

\* A trail is kept when a decision on the portfolio is added to it.
LEMMA KeptOnHalt ==
    ASSUME NEW t \in Trail, Kept(t), NEW reasons \in SUBSET Reason, NEW number \in Nat,
           NEW u, u.intents = t.intents, u.fills = t.fills,
           u.decisions = t.decisions \o HaltDecision(reasons, number)
    PROVE  Kept(u)
<1>1. t.decisions \in Seq(DecisionRecord)
  BY DEF Trail
<1>2. CASE reasons = {}
  <2>1. u.decisions = t.decisions
    BY <1>1, <1>2 DEF HaltDecision
  <2> QED
    BY <2>1 DEF Kept, Audited
<1>3. CASE reasons # {}
  <2> DEFINE entry == [about |-> "portfolio", bar |-> number, reasons |-> reasons]
  <2>1. entry \in DecisionRecord /\ entry.about # "order"
    BY DEF DecisionRecord
  <2>2. u.decisions = Append(t.decisions, entry)
    <3>1. HaltDecision(reasons, number) = <<entry>>
      BY <1>3 DEF HaltDecision
    <3> HIDE DEF entry
    <3> QED
      BY <1>1, <2>1, <3>1
  <2> HIDE DEF entry
  <2>3. /\ OnOrders(u.decisions) = OnOrders(t.decisions)
        /\ Approvals(u.decisions) = Approvals(t.decisions)
    BY <1>1, <2>1, <2>2, ChosenGrow
  <2>4. /\ Answers(u.intents, u.decisions, OnOrders(t.decisions))
        /\ Answers(u.fills, u.decisions, Approvals(t.decisions))
    BY <1>1, <2>1, <2>2, ChosenGrow, AnswersSkip DEF Kept, Audited
  <2>5. \A i \in DOMAIN u.decisions : WellStated(u.decisions[i])
    BY <1>1, <2>1, <2>2, DecisionsGrow DEF Kept, WellStated
  <2> QED
    BY <2>3, <2>4, <2>5 DEF Kept, Audited
<1> QED
  BY <1>2, <1>3

\* ... when an intent is rejected for what the order cannot be blamed for ...
LEMMA KeptOnRejection ==
    ASSUME NEW t \in Trail, Kept(t),
           NEW intent \in IntentRecord, NEW entry \in DecisionRecord,
           entry.about = "order", entry.reasons # {}, WellStated(entry),
           entry.bar = intent.bar,
           NEW u, u.intents = Append(t.intents, intent), u.fills = t.fills,
           u.decisions = Append(t.decisions, entry)
    PROVE  Kept(u)
<1>1. /\ t.decisions \in Seq(DecisionRecord) /\ t.intents \in Seq(IntentRecord)
  BY DEF Trail
<1>2. /\ OnOrders(u.decisions) = OnOrders(t.decisions) \cup {Len(t.decisions) + 1}
      /\ Approvals(u.decisions) = Approvals(t.decisions)
  BY <1>1, ChosenGrow
<1>3. Answers(u.intents, u.decisions, OnOrders(u.decisions))
  BY <1>1, <1>2, ChosenGrow, AnswersNext DEF Kept, Audited
<1>4. Answers(u.fills, u.decisions, Approvals(u.decisions))
  BY <1>1, <1>2, ChosenGrow, AnswersSkip DEF Kept, Audited
<1>5. \A i \in DOMAIN u.decisions : WellStated(u.decisions[i])
  BY <1>1, DecisionsGrow DEF Kept
<1> QED
  BY <1>3, <1>4, <1>5 DEF Kept, Audited

\* ... and when it is approved and filled within its target.
LEMMA KeptOnFill ==
    ASSUME NEW t \in Trail, Kept(t), NEW intent \in IntentRecord,
           NEW entry \in DecisionRecord, NEW fill \in FillRecord,
           entry.about = "order", entry.reasons = {}, WithinTarget(fill),
           entry.bar = intent.bar, entry.bar = fill.bar,
           NEW u, u.intents = Append(t.intents, intent),
           u.decisions = Append(t.decisions, entry), u.fills = Append(t.fills, fill)
    PROVE  Kept(u)
<1>1. /\ t.decisions \in Seq(DecisionRecord) /\ t.intents \in Seq(IntentRecord)
      /\ t.fills \in Seq(FillRecord)
  BY DEF Trail
<1>2. /\ OnOrders(u.decisions) = OnOrders(t.decisions) \cup {Len(t.decisions) + 1}
      /\ Approvals(u.decisions) = Approvals(t.decisions) \cup {Len(t.decisions) + 1}
      /\ OnOrders(t.decisions) \in SUBSET DOMAIN t.decisions
      /\ Approvals(t.decisions) \in SUBSET DOMAIN t.decisions
  <2> DEFINE last == Len(t.decisions) + 1
  <2>1. /\ {k \in {last} : entry.about = "order"} = {last}
        /\ {k \in {last} : entry.about = "order" /\ entry.reasons = {}} = {last}
    OBVIOUS
  <2> HIDE DEF last
  <2>2. /\ OnOrders(u.decisions) =
              OnOrders(t.decisions) \cup {k \in {last} : entry.about = "order"}
        /\ Approvals(u.decisions) =
              Approvals(t.decisions)
                \cup {k \in {last} : entry.about = "order" /\ entry.reasons = {}}
    BY <1>1, ChosenGrow DEF last
  <2>3. /\ OnOrders(t.decisions) \in SUBSET DOMAIN t.decisions
        /\ Approvals(t.decisions) \in SUBSET DOMAIN t.decisions
    BY <1>1, ChosenGrow
  <2> QED
    BY <2>1, <2>2, <2>3 DEF last
<1>a. /\ Answers(t.intents, t.decisions, OnOrders(t.decisions))
      /\ Answers(t.fills, t.decisions, Approvals(t.decisions))
  BY DEF Kept, Audited
<1>3. Answers(u.intents, u.decisions, OnOrders(u.decisions))
  <2>1. Answers(Append(t.intents, intent), Append(t.decisions, entry),
                OnOrders(t.decisions) \cup {Len(t.decisions) + 1})
    BY <1>1, <1>2, <1>a, AnswersNext
  <2> QED
    BY <1>2, <2>1
<1>4. Answers(u.fills, u.decisions, Approvals(u.decisions))
  <2>1. Answers(Append(t.fills, fill), Append(t.decisions, entry),
                Approvals(t.decisions) \cup {Len(t.decisions) + 1})
    BY <1>1, <1>2, <1>a, AnswersNext
  <2> QED
    BY <1>2, <2>1
<1>5. \A i \in DOMAIN u.decisions : WellStated(u.decisions[i])
  BY <1>1, DecisionsGrow DEF Kept, WellStated
<1>6. \A i \in DOMAIN u.fills : WithinTarget(u.fills[i])
  BY <1>1, FillsGrow DEF Kept
<1> QED
  BY <1>3, <1>4, <1>5, <1>6 DEF Kept, Audited

-----------------------------------------------------------------------------
\* What the appends of the engine's steps leave of the trail.
LEMMA TrailParts ==
    ASSUME NEW t \in Trail, NEW i, NEW d, NEW f, NEW p
    PROVE  /\ [t EXCEPT !.decisions = d].intents = t.intents
           /\ [t EXCEPT !.decisions = d].decisions = d
           /\ [t EXCEPT !.decisions = d].fills = t.fills
           /\ [t EXCEPT !.points = p].intents = t.intents
           /\ [t EXCEPT !.points = p].decisions = t.decisions
           /\ [t EXCEPT !.points = p].fills = t.fills
           /\ [t EXCEPT !.intents = i, !.decisions = d].intents = i
           /\ [t EXCEPT !.intents = i, !.decisions = d].decisions = d
           /\ [t EXCEPT !.intents = i, !.decisions = d].fills = t.fills
           /\ [t EXCEPT !.intents = i, !.decisions = d, !.fills = f].intents = i
           /\ [t EXCEPT !.intents = i, !.decisions = d, !.fills = f].decisions = d
           /\ [t EXCEPT !.intents = i, !.decisions = d, !.fills = f].fills = f
BY DEF Trail

\* Events emitted on a bar announce no fill that the trail does not have.
LEMMA EmittedAnnounced ==
    ASSUME NEW kinds \in Seq(EventKind), NEW number \in Nat, NEW t,
           \A i \in DOMAIN kinds : kinds[i] = "fill_created" =>
                \E k \in DOMAIN t.fills : t.fills[k].bar = number
    PROVE  Announced(Emitted(kinds, number), t, number)
<1>1. CASE HasSink
  <2>1. /\ DOMAIN Emitted(kinds, number) = DOMAIN kinds
        /\ \A i \in DOMAIN kinds :
              Emitted(kinds, number)[i] = [kind |-> kinds[i], bar |-> number]
    BY <1>1 DEF Emitted
  <2> QED
    BY <2>1 DEF Announced
<1>2. CASE ~HasSink
  BY <1>2 DEF Emitted, Announced
<1> QED
  BY <1>1, <1>2

\* What two queues announce their concatenation does.
LEMMA QueuesAnnounced ==
    ASSUME NEW queue \in Seq(EventRecord), NEW more \in Seq(EventRecord),
           NEW t, NEW number, Announced(queue, t, number), Announced(more, t, number)
    PROVE  Announced(queue \o more, t, number)
<1> SUFFICES ASSUME NEW i \in DOMAIN (queue \o more)
             PROVE  /\ (queue \o more)[i].bar <= number
                    /\ (queue \o more)[i].kind = "fill_created" =>
                            \E k \in DOMAIN t.fills : t.fills[k].bar = (queue \o more)[i].bar
  BY DEF Announced
<1>1. CASE i \in DOMAIN queue
  <2>1. (queue \o more)[i] = queue[i]
    BY <1>1
  <2> QED
    BY <1>1, <2>1 DEF Announced
<1>2. CASE i \notin DOMAIN queue
  <2> DEFINE j == i - Len(queue)
  <2>1. j \in DOMAIN more /\ (queue \o more)[i] = more[j]
    BY <1>2
  <2> HIDE DEF j
  <2> QED
    BY <2>1 DEF Announced
<1> QED
  BY <1>1, <1>2

\* The rest of a queue announces no more than the queue.
LEMMA TailAnnounced ==
    ASSUME NEW queue \in Seq(EventRecord), queue # <<>>, NEW t, NEW number,
           Announced(queue, t, number)
    PROVE  Announced(Tail(queue), t, number)
<1> SUFFICES ASSUME NEW i \in DOMAIN Tail(queue)
             PROVE  /\ Tail(queue)[i].bar <= number
                    /\ Tail(queue)[i].kind = "fill_created" =>
                            \E k \in DOMAIN t.fills : t.fills[k].bar = Tail(queue)[i].bar
  BY DEF Announced
<1>1. i + 1 \in DOMAIN queue /\ Tail(queue)[i] = queue[i + 1]
  OBVIOUS
<1> QED
  BY <1>1 DEF Announced

\* A trail with one more fill announces at least as much.
LEMMA FillAnnounced ==
    ASSUME NEW queue, NEW t \in Trail, NEW number, Announced(queue, t, number),
           NEW fill \in FillRecord, NEW u, u.fills = Append(t.fills, fill)
    PROVE  /\ Announced(queue, u, number)
           /\ \E k \in DOMAIN u.fills : u.fills[k].bar = fill.bar
<1>1. t.fills \in Seq(FillRecord)
  BY DEF Trail
<1>2. /\ \A k \in DOMAIN t.fills : k \in DOMAIN u.fills /\ u.fills[k] = t.fills[k]
      /\ Len(u.fills) \in DOMAIN u.fills
      /\ u.fills[Len(u.fills)] = fill
  BY <1>1
<1> QED
  BY <1>2 DEF Announced

\* The books start empty.
LEMMA BooksInit == Init => BooksInv
<1> SUFFICES ASSUME Init PROVE BooksInv
  OBVIOUS
<1>1. Committed = Protected /\ pc = "idle"
  BY DEF Init, Committed, InBar
<1>2. /\ Protected.trail.intents = <<>> /\ Protected.trail.decisions = <<>>
      /\ Protected.trail.fills = <<>>
  BY DEF Init, Protected
<1>3. OnOrders(<<>>) = {} /\ Approvals(<<>>) = {}
  BY DEF OnOrders, Approvals
<1>4. Answers(<<>>, <<>>, {})
  <2> DEFINE at == [i \in {} |-> i]
  <2>1. at \in [DOMAIN <<>> -> {}]
    OBVIOUS
  <2> HIDE DEF at
  <2> QED
    BY <2>1 DEF Answers
<1>5. Kept(Protected.trail)
  <2>1. DOMAIN Protected.trail.fills = {} /\ DOMAIN Protected.trail.decisions = {}
    BY <1>2
  <2>2. Audited(Protected.trail)
    BY <1>2, <1>3, <1>4 DEF Audited
  <2> QED
    BY <2>1, <2>2 DEF Kept
<1> QED
  BY <1>1, <1>5 DEF BooksInv

\* The events of a bar's halt are no fills.
LEMMA HaltAnnounced ==
    ASSUME NEW reasons \in SUBSET Reason, NEW number \in Nat, NEW t
    PROVE  Announced(Emitted(HaltKinds(reasons), number), t, number)
<1>1. \A i \in DOMAIN HaltKinds(reasons) : HaltKinds(reasons)[i] # "fill_created"
  BY DEF HaltKinds
<1>2. HaltKinds(reasons) \in Seq(EventKind)
  <2>1. "risk_rejected" \in EventKind
    BY DEF EventKind
  <2>2. <<>> \in Seq(EventKind) /\ <<"risk_rejected">> \in Seq(EventKind)
    BY <2>1
  <2> QED
    BY <2>2 DEF HaltKinds
<1> QED
  BY <1>1, <1>2, EmittedAnnounced

\* The bar that is received keeps the books, and passes the checks or is halted.
LEMMA ReceiveKeeps ==
    ASSUME TypeOK, HistoryInv, BooksInv, ReceiveBar
    PROVE  BooksInv'
<1>1. /\ Committed = Protected /\ trail \in Trail /\ halt \in HaltRecord
      /\ Len(bars) + 1 \in Nat /\ Committed' = Committed
  <2>1. pc = "idle"
    BY DEF ReceiveBar
  <2>2. Committed' = Committed
    BY CommittedKept
  <2> QED
    BY <2>1, <2>2, HistoryReads, StateTyped
<1>2. Kept(trail) /\ Kept(Committed.trail)
  BY <1>1 DEF BooksInv, Protected
<1> DEFINE number == Len(bars) + 1
           Rolling(open, day) ==
               [marks EXCEPT !.day = day, !.start_of_day = StartOfDay(day),
                             !.peak = PeakAfter(EquityAt(book, open))]
<1>3. PICK open \in Prices, close \in Prices, day \in NextDays :
          /\ bar' = [open |-> open, close |-> close, day |-> day]
          /\ marks' = Rolling(open, day)
          /\ \E reasons \in HaltOutcomes(book, EquityAt(book, open), Rolling(open, day)) :
                /\ halt' = Latched(reasons, number)
                /\ trail' = [trail EXCEPT !.decisions = @ \o HaltDecision(reasons, number)]
                /\ events' = Emitted(<<"bar_received">> \o HaltKinds(reasons), number)
  BY DEF ReceiveBar
<1>4. PICK reasons \in HaltOutcomes(book, EquityAt(book, open), marks') :
          /\ halt' = Latched(reasons, number)
          /\ trail' = [trail EXCEPT !.decisions = @ \o HaltDecision(reasons, number)]
          /\ events' = Emitted(<<"bar_received">> \o HaltKinds(reasons), number)
  BY <1>3
<1>5. pc' = "opened" /\ bars' = bars /\ book' = book /\ bar'.open = open
  BY <1>3 DEF ReceiveBar
<1>6. reasons \in SUBSET Reason
  BY OutcomesTyped
<1>7. Kept(trail')
  <2>1. /\ trail'.intents = trail.intents /\ trail'.fills = trail.fills
        /\ trail'.decisions = trail.decisions \o HaltDecision(reasons, number)
    <3> DEFINE d == trail.decisions \o HaltDecision(reasons, number)
    <3>1. trail' = [trail EXCEPT !.decisions = d]
      BY <1>4
    <3> HIDE DEF d
    <3>2. trail'.intents = trail.intents /\ trail'.fills = trail.fills
            /\ trail'.decisions = d
      BY <1>1, <3>1, TrailParts
    <3> QED
      BY <3>2 DEF d
  <2> QED
    BY <1>1, <1>2, <1>6, <2>1, KeptOnHalt
<1>8. Announced(events', trail', number)
  <2> DEFINE kinds == <<"bar_received">> \o HaltKinds(reasons)
  <2>1. kinds \in Seq(EventKind)
    <3>1. "bar_received" \in EventKind
      BY DEF EventKind
    <3>2. HaltKinds(reasons) \in Seq(EventKind)
      BY <1>1, <1>6, HaltTyped
    <3> QED
      BY <3>1, <3>2
  <2>2. kinds \in Seq({"bar_received", "risk_rejected"})
    <3>1. HaltKinds(reasons) \in Seq({"bar_received", "risk_rejected"})
      <4>1. /\ <<>> \in Seq({"bar_received", "risk_rejected"})
            /\ <<"risk_rejected">> \in Seq({"bar_received", "risk_rejected"})
        OBVIOUS
      <4> QED
        BY <4>1 DEF HaltKinds
    <3> QED
      BY <3>1
  <2>3. \A i \in DOMAIN kinds : kinds[i] # "fill_created"
    <3> HIDE DEF kinds
    <3>1. \A i \in DOMAIN kinds : kinds[i] \in {"bar_received", "risk_rejected"}
      BY <2>2
    <3> QED
      BY <3>1
  <2> HIDE DEF kinds
  <2>4. Announced(Emitted(kinds, number), trail', number)
    BY <1>1, <2>1, <2>3, EmittedAnnounced
  <2> QED
    BY <1>4, <2>4 DEF kinds
<1>9. halt'.active \/ OpenIsClear'
  <2>1. CASE reasons = {} /\ ~halt.active
    <3>1. PortfolioHalt(EffectivePolicy,
                        Snapshot(book, EquityAt(book, open), marks', FALSE)) = {}
      BY <1>4, <2>1 DEF HaltOutcomes, Outcomes
    <3> QED
      BY <1>5, <3>1 DEF OpenIsClear
  <2>2. CASE reasons # {} \/ halt.active
    BY <1>4, <2>2 DEF Latched
  <2> QED
    BY <2>1, <2>2
<1> QED
  BY <1>1, <1>2, <1>5, <1>7, <1>8, <1>9 DEF BooksInv

\* What the bar under way rests on when an order is put to the policy.
LEMMA OrderReads ==
    ASSUME TypeOK, HistoryInv, BooksInv, pc = "opened", pending # NoSignal, ~halt.active,
           NEW target \in TargetQuantities \ {book.quantity},
           NEW order, order = OrderTo(target, book, bar.open)
    PROVE  /\ Kept(trail) /\ Announced(events, trail, Len(bars) + 1)
           /\ EvaluateOrder(EffectivePolicy, order,
                  Snapshot(book, EquityAt(book, bar.open), marks, halt.active))
                      \cap EngineFault = {}
           /\ ~Unbookable(order) => WithinTarget(FillOf(order))
<1>1. /\ book.quantity \in Nat /\ book.cash \in Nat /\ bar.open \in Nat \ {0}
      /\ pending.weight \in Fraction /\ halt.active \in BOOLEAN
  BY StateTyped DEF Ledger, SignalRecord, HaltRecord
<1>2. Kept(trail) /\ Announced(events, trail, Len(bars) + 1) /\ OpenIsClear
  BY DEF BooksInv
<1> DEFINE equity == EquityAt(book, bar.open)
           shown == Snapshot(book, equity, marks, FALSE)
<1>3. target = TargetUnits(book, bar.open, pending.weight, equity) /\ target # book.quantity
  BY DEF TargetQuantities
<1>4. Snapshot(book, EquityAt(book, bar.open), marks, halt.active) = shown
  BY <1>1
<1>5. PortfolioHalt(EffectivePolicy, shown) = {}
  BY <1>2 DEF OpenIsClear
<1>6. equity \in Int
  BY StateTyped
<1> HIDE DEF shown
<1>7. EvaluateOrder(EffectivePolicy, order, shown) \cap EngineFault = {}
  BY <1>1, <1>3, <1>5, SizedOrderIsStated DEF shown
<1>8. ASSUME ~Unbookable(order) PROVE WithinTarget(FillOf(order))
  <2> DEFINE cash == CashAfter(order)
             value == MarketValue(target, bar.open)
  <2>1. /\ FillOf(order).ticks = bar.open /\ FillOf(order).weight = pending.weight
        /\ FillOf(order).quantity_after = target /\ FillOf(order).cash_after = cash
    <3>1. Filled(order).quantity = target
      BY <1>3, FillReaches
    <3> QED
      BY <3>1 DEF FillOf, Filled
  <2>2. pending.weight \in Nat
    BY <1>1, MoneyAssumption DEF Fraction
  <2>3. target \in Nat
          /\ (target = 0 \/ CandidateIsSafe(target, book, bar.open, pending.weight, equity))
    BY <1>1, <1>3, <1>6, <2>2, SizedIsSafe
  <2>4. cash \in Nat
    <3>1. cash \in Int /\ ~(Filled(order).cash < 0)
      BY <1>3, <1>8, FillTyped DEF Unbookable
    <3>2. Filled(order).cash = cash
      BY DEF Filled
    <3> QED
      BY <3>1, <3>2
  <2>5. value * WeightScale <= pending.weight * (cash + value)
    <3>1. CASE target = 0
      <4>1. value = 0
        <5>1. target * ReferencePrice(bar.open) = 0
          BY <1>1, <3>1, PricesTyped DEF Sides
        <5>2. 0 \div Quantum = 0 /\ 0 % Quantum = 0
          BY MoneyAssumption, Z3
        <5>3. RoundHalfEven(0, Quantum) = 0
          BY <5>2, MoneyAssumption DEF RoundHalfEven
        <5> QED
          BY <5>1, <5>3 DEF MarketValue, MoneyOf
      <4>2. pending.weight * cash >= 0
        BY <2>2, <2>4, Z3
      <4> HIDE DEF value, cash
      <4>3. value * WeightScale = 0
        BY <4>1, MoneyAssumption
      <4> QED
        BY <2>4, <4>1, <4>2, <4>3
    <3>2. CASE CandidateIsSafe(target, book, bar.open, pending.weight, equity)
      <4>1. cash = IF order.side = Buy
                     THEN book.cash - MoneyOf(order.notional) - order.estimated_fee
                     ELSE book.cash + MoneyOf(order.notional) - order.estimated_fee
        BY DEF CashAfter
      <4> HIDE DEF cash
      <4> QED
        BY <1>1, <1>3, <1>6, <2>3, <3>2, <4>1, SizedAsFilled
    <3> QED
      BY <2>3, <3>1, <3>2
  <2> QED
    BY <2>1, <2>5 DEF WithinTarget
<1> QED
  BY <1>2, <1>4, <1>7, <1>8

\* A rejection is for a reason the order cannot be blamed for.
LEMMA RejectKeeps ==
    ASSUME TypeOK, HistoryInv, BooksInv, RejectOrder
    PROVE  BooksInv'
<1> DEFINE number == Len(bars) + 1
<1>1. /\ pc = "opened" /\ pc' = "executed" /\ pending # NoSignal /\ ~halt.active
      /\ bars' = bars
      /\ events' = events \o Emitted(<<"intent_created", "risk_rejected">>, number)
  BY DEF RejectOrder
<1>2. /\ trail \in Trail /\ events \in Seq(EventRecord) /\ number \in Nat
      /\ Committed' = Committed /\ Kept(Committed.trail)
  BY StateTyped, CommittedKept DEF TypeOK, BooksInv
<1>3. PICK target \in TargetQuantities \ {book.quantity} :
          \E reasons \in OrderOutcomes(OrderTo(target, book, bar.open)) \ {{}} :
              trail' = [trail EXCEPT
                          !.intents = Append(@, Intent(OrderTo(target, book, bar.open))),
                          !.decisions = Append(@, OrderDecision(reasons))]
  BY DEF RejectOrder
<1> DEFINE order == OrderTo(target, book, bar.open)
<1>4. PICK reasons \in OrderOutcomes(order) \ {{}} :
          trail' = [trail EXCEPT
                      !.intents = Append(trail.intents, Intent(order)),
                      !.decisions = Append(trail.decisions, OrderDecision(reasons))]
  BY <1>3
<1>5. /\ Kept(trail) /\ Announced(events, trail, number)
      /\ EvaluateOrder(EffectivePolicy, order,
              Snapshot(book, EquityAt(book, bar.open), marks, halt.active))
                  \cap EngineFault = {}
  BY <1>1, OrderReads
<1>6. Intent(order) \in IntentRecord
  BY <1>1, <1>3, FillTyped
<1> HIDE DEF order
<1>7. reasons \cap EngineFault = {}
  <2>1. {"risk_evaluation_error"} \cap EngineFault = {}
    BY DEF EngineFault, PortfolioReason, LossReason
  <2> QED
    BY <1>4, <1>5, <2>1 DEF OrderOutcomes, Outcomes
<1>8. /\ OrderDecision(reasons) \in DecisionRecord
      /\ OrderDecision(reasons).about = "order" /\ OrderDecision(reasons).reasons # {}
      /\ OrderDecision(reasons).bar = Intent(order).bar
      /\ WellStated(OrderDecision(reasons))
  <2>1. reasons \in SUBSET Reason /\ reasons # {}
    BY <1>4, OutcomesTyped
  <2> QED
    BY <1>2, <1>7, <2>1 DEF OrderDecision, DecisionRecord, Intent, WellStated
<1>9. /\ trail'.intents = Append(trail.intents, Intent(order))
      /\ trail'.decisions = Append(trail.decisions, OrderDecision(reasons))
      /\ trail'.fills = trail.fills
  BY <1>2, <1>4, TrailParts
<1>10. Kept(trail')
  BY <1>2, <1>5, <1>6, <1>8, <1>9, KeptOnRejection
<1>11. Announced(events', trail', number)
  <2> DEFINE kinds == <<"intent_created", "risk_rejected">>
  <2>1. kinds \in Seq(EventKind) /\ \A i \in DOMAIN kinds : kinds[i] # "fill_created"
    BY DEF EventKind
  <2> HIDE DEF kinds
  <2>2. Announced(Emitted(kinds, number), trail, number)
          /\ Emitted(kinds, number) \in Seq(EventRecord)
    BY <1>2, <2>1, EmittedAnnounced, EmittedTyped
  <2>3. Announced(events \o Emitted(kinds, number), trail, number)
    BY <1>2, <1>5, <2>2, QueuesAnnounced
  <2> QED
    BY <1>1, <1>9, <2>3 DEF Announced, kinds
<1> QED
  BY <1>1, <1>2, <1>10, <1>11 DEF BooksInv

\* An order is filled within its target, and its fill announced.
LEMMA FillKeeps ==
    ASSUME TypeOK, HistoryInv, BooksInv, FillOrder
    PROVE  BooksInv'
<1> DEFINE number == Len(bars) + 1
<1>1. pc = "opened" /\ pending # NoSignal /\ ~halt.active
  BY DEF FillOrder
<1>2. /\ trail \in Trail /\ events \in Seq(EventRecord) /\ number \in Nat
      /\ Committed' = Committed /\ Kept(Committed.trail)
  BY StateTyped, CommittedKept DEF TypeOK, BooksInv
<1>3. PICK target \in TargetQuantities \ {book.quantity} :
          /\ {} \in OrderOutcomes(OrderTo(target, book, bar.open))
          /\ IF Unbookable(OrderTo(target, book, bar.open))
               THEN BarFails ELSE BookFill(OrderTo(target, book, bar.open))
  BY DEF FillOrder
<1> DEFINE order == OrderTo(target, book, bar.open)
           fill == FillOf(order)
<1>4. /\ Kept(trail) /\ Announced(events, trail, number)
      /\ ~Unbookable(order) => WithinTarget(fill)
  BY <1>1, OrderReads
<1>5. CASE Unbookable(order)
  <2>1. pc' = "idle"
    BY <1>3, <1>5 DEF BarFails
  <2> QED
    BY <1>2, <2>1 DEF BooksInv
<1>6. CASE ~Unbookable(order)
  <2>1. /\ Intent(order) \in IntentRecord /\ fill \in FillRecord /\ WithinTarget(fill)
        /\ fill.bar = number /\ Intent(order).bar = number
    BY <1>1, <1>3, <1>4, <1>6, FillTyped DEF FillOf, Intent
  <2> DEFINE entry == OrderDecision({})
             ledger == Filled(order)
  <2>2. /\ entry \in DecisionRecord /\ entry.about = "order" /\ entry.reasons = {}
        /\ entry.bar = number
    BY <1>2 DEF OrderDecision, DecisionRecord
  <2>3. BookFill(order)
    BY <1>3, <1>6
  <2> HIDE DEF order, fill, entry
  <2>4. PICK reasons \in HaltOutcomes(ledger, EquityAt(ledger, bar.open), marks) :
            /\ trail' = [trail EXCEPT
                    !.intents = Append(trail.intents, Intent(order)),
                    !.decisions = Append(trail.decisions, entry)
                                     \o HaltDecision(reasons, number),
                    !.fills = Append(trail.fills, fill)]
            /\ events' = events \o Emitted(
                    <<"intent_created", "risk_accepted", "fill_created">>
                        \o HaltKinds(reasons), number)
            /\ pc' = "executed" /\ bars' = bars
    BY <2>3 DEF BookFill, fill, entry
  <2>5. reasons \in SUBSET Reason
    BY OutcomesTyped
  <2> DEFINE booked == [trail EXCEPT !.intents = Append(trail.intents, Intent(order)),
                                     !.decisions = Append(trail.decisions, entry),
                                     !.fills = Append(trail.fills, fill)]
  <2>6. /\ booked.intents = Append(trail.intents, Intent(order))
        /\ booked.decisions = Append(trail.decisions, entry)
        /\ booked.fills = Append(trail.fills, fill)
    BY <1>2, TrailParts
  <2>7. booked \in Trail
    <3>1. /\ trail.intents \in Seq(IntentRecord) /\ trail.decisions \in Seq(DecisionRecord)
          /\ trail.fills \in Seq(FillRecord)
      BY <1>2 DEF Trail
    <3>2. /\ Append(trail.intents, Intent(order)) \in Seq(IntentRecord)
          /\ Append(trail.decisions, entry) \in Seq(DecisionRecord)
          /\ Append(trail.fills, fill) \in Seq(FillRecord)
      BY <2>1, <2>2, <3>1
    <3> QED
      BY <1>2, <3>2, TrailUpdate DEF Trail
  <2>8. /\ trail'.intents = booked.intents /\ trail'.fills = booked.fills
        /\ trail'.decisions = booked.decisions \o HaltDecision(reasons, number)
    <3> DEFINE i == Append(trail.intents, Intent(order))
               d == Append(trail.decisions, entry) \o HaltDecision(reasons, number)
               f == Append(trail.fills, fill)
    <3>1. trail' = [trail EXCEPT !.intents = i, !.decisions = d, !.fills = f]
      BY <2>4
    <3> HIDE DEF i, d, f
    <3>2. trail'.intents = i /\ trail'.decisions = d /\ trail'.fills = f
      BY <1>2, <3>1, TrailParts
    <3> QED
      BY <2>6, <3>2 DEF i, d, f
  <2> HIDE DEF booked
  <2>9. Kept(booked)
    BY <1>2, <1>4, <2>1, <2>2, <2>6, KeptOnFill
  <2>10. Kept(trail')
    BY <1>2, <2>5, <2>7, <2>8, <2>9, KeptOnHalt
  <2>11. Announced(events', trail', number)
    <3> DEFINE kinds == <<"intent_created", "risk_accepted", "fill_created">>
                            \o HaltKinds(reasons)
    <3>1. kinds \in Seq(EventKind)
      <4>1. <<"intent_created", "risk_accepted", "fill_created">> \in Seq(EventKind)
        BY DEF EventKind
      <4>2. HaltKinds(reasons) \in Seq(EventKind)
        BY <1>2, <2>5, StateTyped, HaltTyped
      <4> QED
        BY <4>1, <4>2
    <3> HIDE DEF kinds
    <3>2. /\ Announced(events, trail', number)
          /\ \E k \in DOMAIN trail'.fills : trail'.fills[k].bar = number
      <4>1. trail'.fills = Append(trail.fills, fill)
        BY <2>6, <2>8
      <4>2. /\ Announced(events, trail', number)
            /\ \E k \in DOMAIN trail'.fills : trail'.fills[k].bar = fill.bar
        BY <1>2, <1>4, <2>1, <4>1, FillAnnounced
      <4> QED
        BY <2>1, <4>2
    <3>3. /\ Announced(Emitted(kinds, number), trail', number)
          /\ Emitted(kinds, number) \in Seq(EventRecord)
      BY <1>2, <3>1, <3>2, EmittedAnnounced, EmittedTyped
    <3>4. Announced(events \o Emitted(kinds, number), trail', number)
      BY <1>2, <3>2, <3>3, QueuesAnnounced
    <3> QED
      BY <2>4, <3>4 DEF kinds
  <2> QED
    BY <1>2, <2>4, <2>10, <2>11 DEF BooksInv
<1> QED
  BY <1>5, <1>6

\* The close keeps the books, and the strategy is asked with a copy of them.
LEMMA CloseKeeps ==
    ASSUME TypeOK, HistoryInv, BooksInv, MarkClose
    PROVE  BooksInv'
<1> DEFINE number == Len(bars) + 1
           marked == [marks EXCEPT !.peak = PeakAfter(EquityAt(book, bar.close))]
<1>1. /\ pc = "executed" /\ pc' \in {"flat", "strategy"}
      /\ bars' = Append(bars, bar) /\ callSnapshot' = Protected'
  BY DEF MarkClose
<1>2. /\ trail \in Trail /\ events \in Seq(EventRecord) /\ number \in Nat
      /\ bars \in Seq(BarRecord) /\ bar \in BarRecord
      /\ Committed' = Committed /\ Kept(Committed.trail)
      /\ Kept(trail) /\ Announced(events, trail, number)
  <2>1. Committed' = Committed
    BY CommittedKept
  <2> QED
    BY <1>1, <2>1, StateTyped DEF TypeOK, BooksInv
<1>3. PICK reasons \in HaltOutcomes(book, EquityAt(book, bar.close), marked) :
          /\ trail' = [trail EXCEPT !.decisions = trail.decisions
                                                     \o HaltDecision(reasons, number)]
          /\ events' = events \o Emitted(HaltKinds(reasons), number)
  BY DEF MarkClose
<1>4. reasons \in SUBSET Reason
  BY OutcomesTyped
<1>5. /\ trail'.intents = trail.intents /\ trail'.fills = trail.fills
      /\ trail'.decisions = trail.decisions \o HaltDecision(reasons, number)
  <2> DEFINE d == trail.decisions \o HaltDecision(reasons, number)
  <2>1. trail' = [trail EXCEPT !.decisions = d]
    BY <1>3
  <2> HIDE DEF d
  <2>2. /\ trail'.intents = trail.intents /\ trail'.fills = trail.fills
        /\ trail'.decisions = d
    BY <1>2, <2>1, TrailParts
  <2> QED
    BY <2>2 DEF d
<1>6. Kept(trail')
  BY <1>2, <1>4, <1>5, KeptOnHalt
<1>7. Announced(events', trail', number)
  <2>1. HaltKinds(reasons) \in Seq(EventKind)
    BY <1>2, <1>4, StateTyped, HaltTyped
  <2>2. Emitted(HaltKinds(reasons), number) \in Seq(EventRecord)
    BY <1>2, <2>1, EmittedTyped
  <2>3. Announced(Emitted(HaltKinds(reasons), number), trail, number)
    BY <1>2, <1>4, HaltAnnounced
  <2>4. Announced(events \o Emitted(HaltKinds(reasons), number), trail, number)
    BY <1>2, <2>2, <2>3, QueuesAnnounced
  <2> QED
    BY <1>3, <1>5, <2>4 DEF Announced
<1>8. Len(bars') = number
  BY <1>1, <1>2
<1>9. callSnapshot'.trail = trail' /\ callSnapshot'.bars = bars'
  BY <1>1 DEF Protected
<1> QED
  BY <1>1, <1>2, <1>6, <1>7, <1>8, <1>9 DEF BooksInv

\* A commit adds a point to the curve and leaves the books alone.
LEMMA CommitKeeps ==
    ASSUME TypeOK, NEW weight, Commit(weight),
           Kept(trail), Announced(events, trail, Len(bars))
    PROVE  BooksInv'
<1>1. /\ trail \in Trail /\ events \in Seq(EventRecord) /\ Len(bars) \in Nat
  BY StateTyped DEF TypeOK
<1>2. PICK points : trail' = [trail EXCEPT !.points = points]
  BY DEF Commit
<1>3. /\ pc' = "deliver" /\ bars' = bars
      /\ events' = events \o Emitted(<<"signal_generated", "portfolio_updated">>, Len(bars))
  BY DEF Commit
<1>4. /\ trail'.intents = trail.intents /\ trail'.fills = trail.fills
      /\ trail'.decisions = trail.decisions
  BY <1>1, <1>2, TrailParts
<1>5. Kept(trail')
  BY <1>4 DEF Kept, Audited
<1>6. Announced(events', trail', Len(bars))
  <2> DEFINE kinds == <<"signal_generated", "portfolio_updated">>
  <2>1. kinds \in Seq(EventKind) /\ \A i \in DOMAIN kinds : kinds[i] # "fill_created"
    BY DEF EventKind
  <2> HIDE DEF kinds
  <2>2. Announced(Emitted(kinds, Len(bars)), trail, Len(bars))
          /\ Emitted(kinds, Len(bars)) \in Seq(EventRecord)
    BY <1>1, <2>1, EmittedAnnounced, EmittedTyped
  <2>3. Announced(events \o Emitted(kinds, Len(bars)), trail, Len(bars))
    BY <1>1, <2>2, QueuesAnnounced
  <2> QED
    BY <1>3, <1>4, <2>3 DEF Announced, kinds
<1>7. Committed'.trail = trail'
  BY <1>3 DEF Committed, InBar, Protected
<1> QED
  BY <1>3, <1>5, <1>6, <1>7 DEF BooksInv

\* Between two bars an event tells of no fill, whatever the sink does with it.
LEMMA CallsKeep ==
    ASSUME TypeOK, HistoryInv, BooksInv,
           \/ CallSink \/ SinkReturns \/ LatchKillSwitch
           \/ ExpirePendingSignal \/ ActivateKillSwitch
    PROVE  BooksInv'
<1>1. /\ Kept(Committed.trail) /\ Len(bars) \in Nat /\ events \in Seq(EventRecord)
      /\ pc = "sink" => Committed = callSnapshot
      /\ pc \in {"idle", "deliver"} => Committed = Protected
  BY HistoryReads DEF BooksInv, TypeOK
<1>2. CASE CallSink
  <2>1. Committed' = Committed
    BY <1>2, CommittedKept
  <2>2. /\ pc = "deliver" /\ pc' = "sink" /\ events # <<>> /\ events' = events
        /\ callSnapshot'.trail = trail /\ callSnapshot'.bars = bars
    BY <1>2 DEF CallSink, Protected
  <2> QED
    BY <1>1, <2>1, <2>2 DEF BooksInv
<1>3. CASE SinkReturns
  <2>1. Committed' = Committed
    BY <1>3, CommittedKept
  <2>2. /\ pc = "sink" /\ pc' = "deliver" /\ events' = Tail(events)
        /\ trail' = callSnapshot.trail /\ bars' = callSnapshot.bars
    BY <1>3 DEF SinkReturns, Restore
  <2>3. events # <<>> /\ Announced(events, callSnapshot.trail, Len(callSnapshot.bars))
    BY <2>2 DEF BooksInv
  <2>4. Announced(Tail(events), callSnapshot.trail, Len(callSnapshot.bars))
    BY <1>1, <2>3, TailAnnounced
  <2> QED
    BY <1>1, <2>1, <2>2, <2>4 DEF BooksInv
<1>4. CASE LatchKillSwitch \/ ExpirePendingSignal \/ ActivateKillSwitch
  <2>1. /\ pc \in {"idle", "deliver"} /\ pc' = "deliver" /\ bars' = bars /\ trail' = trail
        /\ \E kinds \in {<<"risk_rejected">>, <<"pending_signal_expired">>} :
               events' \in {<<>>, Emitted(kinds, Len(bars))}
    BY <1>4 DEF LatchKillSwitch, ExpirePendingSignal, ActivateKillSwitch, Expire
  <2>2. PICK kinds \in {<<"risk_rejected">>, <<"pending_signal_expired">>} :
               events' \in {<<>>, Emitted(kinds, Len(bars))}
    BY <2>1
  <2>3. Announced(<<>>, trail, Len(bars))
    BY DEF Announced
  <2>4. Announced(Emitted(kinds, Len(bars)), trail, Len(bars))
    <3>1. \A kind \in EventKind : <<kind>> \in Seq(EventKind)
                                    /\ \A i \in DOMAIN <<kind>> : <<kind>>[i] = kind
      OBVIOUS
    <3>2. PICK kind \in {"risk_rejected", "pending_signal_expired"} : kinds = <<kind>>
      OBVIOUS
    <3>3. kind \in EventKind /\ kind # "fill_created"
      BY DEF EventKind
    <3> QED
      BY <1>1, <3>1, <3>2, <3>3, EmittedAnnounced
  <2>5. Committed'.trail = Committed.trail
    BY <1>1, <2>1 DEF Committed, InBar, Protected
  <2> QED
    BY <1>1, <2>1, <2>2, <2>3, <2>4, <2>5 DEF BooksInv
<1> QED
  BY <1>2, <1>3, <1>4

\* Every step of the engine, its caller and its callbacks keeps the books.
LEMMA BooksStep == TypeOK /\ HistoryInv /\ BooksInv /\ [Next]_vars => BooksInv'
<1> SUFFICES ASSUME TypeOK, HistoryInv, BooksInv, [Next]_vars PROVE BooksInv'
  OBVIOUS
<1>k. Kept(Committed.trail)
  BY DEF BooksInv
<1>1. CASE RefuseBar \/ Return \/ StrategyFails
  <2>1. Committed' = Committed
    BY <1>1, CommittedKept
  <2>2. pc' = "idle"
    BY <1>1 DEF RefuseBar, Return, StrategyFails, BarFails
  <2> QED
    BY <1>k, <2>1, <2>2 DEF BooksInv
<1>2. CASE SkipTarget \/ HoldTarget
  <2>1. Committed' = Committed
    BY <1>2, CommittedKept
  <2>2. pc = "opened" /\ pc' = "executed" /\ UNCHANGED <<trail, bars, events>>
    BY <1>2 DEF SkipTarget, HoldTarget
  <2> QED
    BY <1>k, <2>1, <2>2 DEF BooksInv
<1>3. CASE CommitFlat
  <2>1. Commit(0) /\ Kept(trail) /\ Announced(events, trail, Len(bars))
    BY <1>3 DEF CommitFlat, BooksInv
  <2> QED
    BY <2>1, CommitKeeps
<1>4. CASE StrategySignals
  <2>1. PICK weight \in Weights : Commit(weight)
    BY <1>4 DEF StrategySignals
  <2>2. callSnapshot.trail = trail /\ callSnapshot.bars = bars /\ pc = "strategy"
    BY <1>4 DEF StrategySignals, Changed, Protected
  <2>3. Kept(trail) /\ Announced(events, trail, Len(bars))
    BY <2>2 DEF BooksInv
  <2> QED
    BY <2>1, <2>3, CommitKeeps
<1>5. CASE StrategyTampers \/ SinkTampers
  <2>1. Committed' = Committed
    BY <1>5, CommittedKept
  <2>2. pc \in {"strategy", "sink"} /\ UNCHANGED <<pc, events, callSnapshot>>
    BY <1>5 DEF StrategyTampers, SinkTampers, Tamper
  <2> QED
    BY <1>k, <2>1, <2>2 DEF BooksInv
<1>6. CASE UNCHANGED vars
  BY <1>6 DEF vars, BooksInv, Committed, InBar, Protected, OpenIsClear
<1> QED
  BY <1>1, <1>2, <1>3, <1>4, <1>5, <1>6, ReceiveKeeps, RejectKeeps, FillKeeps, CloseKeeps,
     CallsKeep
  DEF Next, EngineStep, CallReturns

\* The invariant of the books, and what it rests on.
LEMMA BooksCorrect == Spec => [](TypeOK /\ BooksInv)
<1>1. Spec => [](TypeOK /\ HistoryInv)
  BY TypeCorrect, HistoryCorrect, PTL
<1> QED
  BY <1>1, BooksInit, BooksStep, PTL DEF Spec

(***************************************************************************)
(* _cost_aware_target_quantity, executed: after slippage, fee and every    *)
(* rounding, no fill leaves more than its signal's target weight; for all  *)
(* prices, fees, limits and holdings, and whatever else the test of a      *)
(* candidate accepts.                                                      *)
(***************************************************************************)
THEOREM FillsKeepTarget == Spec => []PostCostTarget
<1>1. BooksInv => PostCostTarget
  BY DEF BooksInv, Kept, WithinTarget, PostCostTarget
<1> QED
  BY <1>1, BooksCorrect, PTL

(***************************************************************************)
(* _apply_pending_target and evaluate_order agree: the policy, deriving an *)
(* order's effect again, never refuses it for how the engine stated it,    *)
(* nor for a portfolio that the check at the open let pass.                *)
(***************************************************************************)
THEOREM OrdersAreWellStated == Spec => []OrdersAreConsistent
<1>1. BooksInv => OrdersAreConsistent
  BY DEF BooksInv, Kept, WellStated, OrdersAreConsistent
<1> QED
  BY <1>1, BooksCorrect, PTL

(***************************************************************************)
(* The audit trail, for every length of history and whatever is rolled     *)
(* back: each intent has its decision, each approval its fill, and the     *)
(* sink hears only of what is committed.                                   *)
(***************************************************************************)
THEOREM AuditIsComplete == Spec => []AuditHolds
<1>1. TypeOK /\ BooksInv => AuditHolds
  <2> SUFFICES ASSUME TypeOK, BooksInv PROVE AuditComplete /\ EventsAreCommitted
    BY DEF AuditHolds
  <2>1. AuditComplete
    BY DEF BooksInv, Kept, Audited, AuditComplete
  <2>2. EventsAreCommitted
    <3> SUFFICES ASSUME pc = "sink"
                 PROVE  /\ Head(events).bar <= Len(Committed.bars)
                        /\ Head(events).kind = "fill_created" =>
                               \E i \in DOMAIN Committed.trail.fills :
                                   Committed.trail.fills[i].bar = Head(events).bar
      BY DEF EventsAreCommitted
    <3>1. /\ Committed = callSnapshot /\ events # <<>>
          /\ Announced(events, callSnapshot.trail, Len(callSnapshot.bars))
      BY DEF BooksInv, Committed, InBar
    <3>2. 1 \in DOMAIN events /\ Head(events) = events[1]
      BY <3>1 DEF TypeOK
    <3> QED
      BY <3>1, <3>2 DEF Announced
  <2> QED
    BY <2>1, <2>2
<1> QED
  BY <1>1, BooksCorrect, PTL

-----------------------------------------------------------------------------

\* The recursive definition of Account defines it, however many the fills.
LEMMA AccountDefined ==
    ASSUME NEW fills, Len(fills) \in Nat, NEW account, account = Account(fills)
    PROVE  /\ account[0] = NoFills
           /\ \A n \in 1 .. Len(fills) : account[n] = AfterFill(account[n - 1], fills[n])
<1> DEFINE N == Len(fills)
           Lawful(f, n) == /\ f[0] = NoFills
                           /\ \A j \in 1 .. n : f[j] = AfterFill(f[j - 1], fills[j])
           T == {n \in 0 .. N : \E f : Lawful(f, n)}
<1> HIDE DEF N
<1>n. N \in Nat
  BY DEF N
<1>1. 0 \in T
  <2> DEFINE f == [j \in 0 .. N |-> NoFills]
  <2>1. Lawful(f, 0) /\ 0 \in 0 .. N
    BY <1>n
  <2> HIDE DEF f, Lawful
  <2> QED
    BY <2>1
<1>2. ASSUME NEW n \in 1 .. N, n - 1 \in T
      PROVE  n \in T
  <2>1. PICK f : Lawful(f, n - 1)
    BY <1>2
  <2> DEFINE next == AfterFill(f[n - 1], fills[n])
             g == [j \in 0 .. N |-> IF j = n THEN next ELSE f[j]]
  <2> HIDE DEF next
  <2>2. g[n] = next /\ \A j \in 0 .. n - 1 : g[j] = f[j]
    BY <1>n
  <2> HIDE DEF g
  <2>3. ASSUME NEW j \in 1 .. n PROVE g[j] = AfterFill(g[j - 1], fills[j])
    <3>1. g[j - 1] = f[j - 1]
      BY <1>n, <2>2
    <3>2. CASE j = n
      BY <2>2, <3>1, <3>2 DEF next
    <3>3. CASE j # n
      <4>1. j \in 1 .. n - 1 /\ g[j] = f[j]
        BY <1>n, <2>2, <3>3
      <4> QED
        BY <2>1, <3>1, <4>1
    <3> QED
      BY <3>2, <3>3
  <2>4. Lawful(g, n)
    BY <1>n, <2>1, <2>2, <2>3
  <2> QED
    BY <1>n, <2>4
<1>3. N \in T
  <2> HIDE DEF T
  <2> QED
    BY <1>1, <1>2, <1>n, UpTo
<1>4. PICK f : Lawful(f, N)
  BY <1>3
<1> DEFINE whole == [n \in 0 .. N |-> f[n]]
           Fits(after) == after = [n \in 0 .. N |->
                              IF n = 0 THEN NoFills ELSE AfterFill(after[n - 1], fills[n])]
<1>5. Fits(whole)
  <2>1. \A n \in 0 .. N : whole[n] = IF n = 0 THEN NoFills
                                     ELSE AfterFill(whole[n - 1], fills[n])
    BY <1>4, <1>n
  <2> HIDE DEF whole
  <2>2. whole = [n \in 0 .. N |-> whole[n]]
    BY DEF whole
  <2> QED
    BY <2>1, <2>2
<1>6. account = CHOOSE after : Fits(after)
  BY DEF Account, N
<1>7. Fits(account)
  <2> HIDE DEF whole, Fits
  <2> QED
    BY <1>5, <1>6
<1> QED
  BY <1>7, <1>n DEF N

\* One more fill leaves what was booked before it as it was.
LEMMA AccountGrows ==
    ASSUME NEW fills \in Seq(FillRecord), NEW fill \in FillRecord,
           NEW longer, longer = Append(fills, fill)
    PROVE  /\ \A n \in 0 .. Len(fills) : Account(longer)[n] = Account(fills)[n]
           /\ Account(longer)[Len(fills) + 1] = AfterFill(Account(fills)[Len(fills)], fill)
<1> DEFINE N == Len(fills)
           a == Account(fills)
           b == Account(longer)
           T == {n \in 0 .. N : b[n] = a[n]}
<1>1. /\ N \in Nat /\ Len(longer) = N + 1 /\ longer[N + 1] = fill
      /\ \A n \in 1 .. N : longer[n] = fills[n]
  OBVIOUS
<1>2. a[0] = NoFills /\ \A n \in 1 .. N : a[n] = AfterFill(a[n - 1], fills[n])
  BY <1>1, AccountDefined
<1>3. b[0] = NoFills /\ \A n \in 1 .. N + 1 : b[n] = AfterFill(b[n - 1], longer[n])
  <2>1. Len(longer) \in Nat /\ Len(longer) = N + 1
    BY <1>1
  <2>2. /\ b[0] = NoFills
        /\ \A n \in 1 .. Len(longer) : b[n] = AfterFill(b[n - 1], longer[n])
    BY <2>1, AccountDefined
  <2> QED
    BY <2>1, <2>2
<1> HIDE DEF N, a, b
<1>4. 0 \in T
  BY <1>1, <1>2, <1>3
<1>5. ASSUME NEW n \in 1 .. N, n - 1 \in T PROVE n \in T
  <2>1. b[n] = AfterFill(b[n - 1], longer[n]) /\ a[n] = AfterFill(a[n - 1], fills[n])
    BY <1>1, <1>2, <1>3
  <2>2. b[n - 1] = a[n - 1] /\ longer[n] = fills[n]
    BY <1>1, <1>5
  <2> QED
    BY <1>1, <2>1, <2>2
<1>6. \A n \in 0 .. N : n \in T
  <2> HIDE DEF T
  <2> QED
    BY <1>1, <1>4, <1>5, UpTo
<1>7. b[N] = a[N]
  BY <1>1, <1>6
<1>8. b[N + 1] = AfterFill(a[N], fill)
  <2>1. N + 1 \in 1 .. N + 1 /\ (N + 1) - 1 = N
    BY <1>1
  <2>2. b[N + 1] = AfterFill(b[(N + 1) - 1], longer[N + 1])
    BY <1>3, <2>1
  <2> QED
    BY <1>1, <1>7, <2>1, <2>2
<1> QED
  BY <1>6, <1>8 DEF N, a, b

-----------------------------------------------------------------------------
\* The part of the cash that the profits and the fees do not explain, with the cost
\* of the holding, in raw units times the denominator of the average.
Excess(a) ==
    a.average.den * (a.cash - InitialCash + a.fees - a.realized) * Quantum
        + a.quantity * a.average.num

Explained(a) == Within(Excess(a), a.average.den * Quantum * a.roundings)

AccountRecord ==
    [cash : Int, quantity : Nat, fees : Int, slippage : Int,
     average : [num : Int, den : Nat \ {0}], realized : Int, roundings : Nat]

\* What one fill makes of an account, its fields read as amounts.
LEMMA AfterFillReads ==
    ASSUME NEW a \in AccountRecord, NEW fill \in FillRecord, fill.quantity > 0,
           NEW next, next = AfterFill(a, fill), next.quantity \in Nat
    PROVE  /\ next \in AccountRecord
           /\ PriceOf(fill) \in Nat /\ fill.quantity * PriceOf(fill) \in Nat
<1> DEFINE price == PriceOf(fill)
           notional == MoneyOf(fill.quantity * price)
           moved == fill.quantity * Magnitude(price - ReferencePrice(fill.ticks))
           gain == Gain(fill.quantity, price, a.average)
<1>1. /\ a.cash \in Int /\ a.quantity \in Nat /\ a.fees \in Int /\ a.slippage \in Int
      /\ a.realized \in Int /\ a.roundings \in Nat
      /\ a.average.num \in Int /\ a.average.den \in Nat \ {0}
      /\ a.average \in [num : Int, den : Nat \ {0}]
  BY DEF AccountRecord
<1>2. /\ fill.ticks \in Nat /\ fill.side \in Sides /\ fill.quantity \in Nat \ {0}
      /\ fill.fee \in Int
  BY DEF FillRecord, Amount
<1>3. price \in Nat /\ ReferencePrice(fill.ticks) \in Nat
  BY <1>2, PricesTyped DEF PriceOf
<1> HIDE DEF price
<1>4. fill.quantity * price \in Nat
  BY <1>2, <1>3, Z3
<1>5. notional \in Int
  BY <1>4, MoneyTyped
<1>6. MoneyOf(moved) \in Int
  <2>1. Magnitude(price - ReferencePrice(fill.ticks)) \in Int
    BY <1>3 DEF Magnitude
  <2>2. moved \in Int
    BY <1>2, <2>1
  <2> QED
    BY <2>2, MoneyTyped
<1>7. gain \in Int
  <2>1. fill.quantity * (price * a.average.den - a.average.num) \in Int
    BY <1>1, <1>2, <1>3
  <2>2. a.average.den * Quantum \in Nat \ {0}
    BY <1>1, MoneyAssumption, Z3
  <2> QED
    BY <2>1, <2>2, RoundTyped DEF Gain
<1>8. fill.side = Buy => AverageAfterBuy(a, fill) \in [num : Int, den : Nat \ {0}]
  <2>1. a.quantity * a.average.num + fill.quantity * price * a.average.den \in Int
    BY <1>1, <1>2, <1>3
  <2>2. a.quantity + fill.quantity \in Nat \ {0}
    BY <1>1, <1>2
  <2>3. a.average.den * (a.quantity + fill.quantity) \in Nat \ {0}
    BY <1>1, <2>2, Z3
  <2> QED
    BY <2>1, <2>3 DEF AverageAfterBuy, price
<1>9. AverageAfterSale(a, fill) \in [num : Int, den : Nat \ {0}]
  BY <1>1 DEF AverageAfterSale, NoCost
<1> HIDE DEF notional, moved, gain
<1>10. next = [cash |-> IF fill.side = Buy THEN a.cash - notional - fill.fee
                                           ELSE a.cash + notional - fill.fee,
               quantity |-> IF fill.side = Buy THEN a.quantity + fill.quantity
                                               ELSE a.quantity - fill.quantity,
               fees |-> a.fees + fill.fee,
               slippage |-> a.slippage + MoneyOf(moved),
               average |-> IF fill.side = Buy THEN AverageAfterBuy(a, fill)
                                              ELSE AverageAfterSale(a, fill),
               realized |-> IF fill.side = Buy THEN a.realized ELSE a.realized + gain,
               roundings |-> a.roundings + IF fill.side = Buy THEN 1 ELSE 2]
  BY DEF AfterFill, price, notional, moved, gain
<1>11. /\ next.cash \in Int /\ next.fees \in Int /\ next.slippage \in Int
       /\ next.average \in [num : Int, den : Nat \ {0}]
       /\ next.realized \in Int /\ next.roundings \in Nat
  BY <1>1, <1>2, <1>5, <1>6, <1>7, <1>8, <1>9, <1>10
<1>12. next = [cash |-> next.cash, quantity |-> next.quantity, fees |-> next.fees,
               slippage |-> next.slippage, average |-> next.average,
               realized |-> next.realized, roundings |-> next.roundings]
  BY <1>10
<1>13. next \in AccountRecord
  BY <1>11, <1>12 DEF AccountRecord
<1> QED
  BY <1>3, <1>4, <1>13 DEF price

\* A buy moves its cost from the cash into the holding, but for one rounding.
LEMMA BuyExplained ==
    ASSUME NEW a \in AccountRecord, NEW fill \in FillRecord, fill.quantity > 0,
           fill.side = Buy, Explained(a)
    PROVE  Explained(AfterFill(a, fill))
<1> DEFINE next == AfterFill(a, fill)
           paid == MoneyOf(fill.quantity * PriceOf(fill))
           net == a.cash - InitialCash + a.fees - a.realized
           q == a.quantity
           num == a.average.num
           den == a.average.den
           b == fill.quantity
           price == PriceOf(fill)
           r == a.roundings
<1>1. /\ a.cash \in Int /\ a.fees \in Int /\ a.realized \in Int /\ r \in Nat
      /\ q \in Nat /\ num \in Int /\ den \in Nat \ {0} /\ b \in Nat \ {0} /\ fill.fee \in Int
      /\ InitialCash \in Int /\ Quantum \in Nat \ {0}
  BY EngineAssumption, MoneyAssumption DEF AccountRecord, FillRecord, Amount
<1>2. price \in Nat /\ b * price \in Nat /\ paid \in Int
  <2>1. fill.ticks \in Nat /\ fill.side \in Sides
    BY DEF FillRecord
  <2>2. price \in Nat
    BY <2>1, PricesTyped DEF PriceOf
  <2>3. b * price \in Nat
    BY <1>1, <2>2, Z3
  <2> QED
    BY <2>2, <2>3, MoneyTyped
<1>3. /\ next.cash = a.cash - paid - fill.fee
      /\ next.quantity = q + b
      /\ next.fees = a.fees + fill.fee
      /\ next.realized = a.realized
      /\ next.roundings = r + 1
      /\ next.average.num = q * num + b * price * den
      /\ next.average.den = den * (q + b)
  BY DEF AfterFill, AverageAfterBuy
<1>4. next.cash - InitialCash + next.fees - next.realized = net - paid
  BY <1>1, <1>2, <1>3
<1>5. Within(Quantum * paid - b * price, Quantum)
  BY <1>1, <1>2, RoundedNear DEF MoneyOf
<1>6. net \in Int /\ next.average.den = den * (q + b)
  BY <1>1, <1>3
<1> DEFINE gap == Quantum * paid - b * price
           excess == Excess(a)
<1>7. excess = den * net * Quantum + q * num
  BY DEF Excess
<1>8. Excess(next) = den * (q + b) * (net - paid) * Quantum + (q + b) * (q * num + b * price * den)
  BY <1>3, <1>4 DEF Excess
<1>9. Explained(next) <=> Within(Excess(next), den * (q + b) * Quantum * (r + 1))
  BY <1>3 DEF Explained
<1>10. Within(excess, den * Quantum * r)
  BY DEF Explained
<1>11. gap \in Int /\ Within(gap, Quantum)
  BY <1>1, <1>2, <1>5
<1> HIDE DEF next, paid, net, q, num, den, b, price, r, excess
<1>12. Excess(next) = (q + b) * (excess - den * gap)
  BY <1>1, <1>2, <1>6, <1>7, <1>8, Z3
<1> HIDE DEF gap
<1>13. excess \in Int /\ den * gap \in Int /\ den * Quantum \in Int
         /\ den * Quantum * r \in Int
  BY <1>1, <1>2, <1>6, <1>7, <1>11
<1>14. Within(den * gap, den * Quantum)
  <2>1. gap \in Int /\ Quantum \in Int /\ den \in Nat \ {0} /\ Within(gap, Quantum)
    BY <1>1, <1>11
  <2> QED
    BY <2>1, WithinTimes
<1>15. Within(excess - den * gap, den * Quantum * r + den * Quantum)
  BY <1>10, <1>13, <1>14, WithinSum
<1>16. /\ q + b \in Nat \ {0} /\ excess - den * gap \in Int
       /\ den * Quantum * r + den * Quantum \in Int
  BY <1>1, <1>13
<1>17. Within((q + b) * (excess - den * gap), (q + b) * (den * Quantum * r + den * Quantum))
  BY <1>15, <1>16, WithinTimes
<1>18. (q + b) * (den * Quantum * r + den * Quantum) = den * (q + b) * Quantum * (r + 1)
  BY <1>1, Z3
<1> QED
  BY <1>9, <1>12, <1>17, <1>18 DEF next

\* A sale moves the cost of what it sells into cash and profit, but for two.
LEMMA SaleExplained ==
    ASSUME NEW a \in AccountRecord, NEW fill \in FillRecord, fill.quantity > 0,
           fill.side # Buy, Explained(a)
    PROVE  Explained(AfterFill(a, fill))
<1> DEFINE next == AfterFill(a, fill)
           price == PriceOf(fill)
           b == fill.quantity
           got == MoneyOf(b * price)
           q == a.quantity
           num == a.average.num
           den == a.average.den
           gain == Gain(b, price, a.average)
           net == a.cash - InitialCash + a.fees - a.realized
           r == a.roundings
<1>1. /\ a.cash \in Int /\ a.fees \in Int /\ a.realized \in Int /\ r \in Nat
      /\ q \in Nat /\ num \in Int /\ den \in Nat \ {0} /\ b \in Nat \ {0} /\ fill.fee \in Int
      /\ InitialCash \in Int /\ Quantum \in Nat \ {0}
  BY EngineAssumption, MoneyAssumption DEF AccountRecord, FillRecord, Amount
<1>2. price \in Nat /\ b * price \in Nat /\ got \in Int
  <2>1. fill.ticks \in Nat /\ fill.side \in Sides
    BY DEF FillRecord
  <2>2. price \in Nat
    BY <2>1, PricesTyped DEF PriceOf
  <2>3. b * price \in Nat
    BY <1>1, <2>2, Z3
  <2> QED
    BY <2>2, <2>3, MoneyTyped
<1>3. /\ next.cash = a.cash + got - fill.fee
      /\ next.quantity = q - b
      /\ next.fees = a.fees + fill.fee
      /\ next.realized = a.realized + gain
      /\ next.roundings = r + 2
      /\ next.average = AverageAfterSale(a, fill)
  BY DEF AfterFill
<1>4. den * Quantum \in Nat \ {0} /\ b * (price * den - num) \in Int
  BY <1>1, <1>2, Z3
<1>5. /\ gain \in Int
      /\ Within(den * Quantum * gain - b * (price * den - num), den * Quantum)
  BY <1>4, RoundTyped, RoundedNear DEF Gain
<1>6. Within(Quantum * got - b * price, Quantum)
  BY <1>1, <1>2, RoundedNear DEF MoneyOf
<1>7. net \in Int /\ next.cash - InitialCash + next.fees - next.realized = net + got - gain
  BY <1>1, <1>2, <1>3, <1>5
<1> DEFINE gap == Quantum * got - b * price
           slack == den * Quantum * gain - b * (price * den - num)
           excess == Excess(a)
           raised == excess + den * gap - slack
           kept == den * (net + got - gain) * Quantum + (q - b) * num
<1>8. excess = den * net * Quantum + q * num
  BY DEF Excess
<1>9. Within(excess, den * Quantum * r)
  BY DEF Explained
<1>10. /\ gap \in Int /\ Within(gap, Quantum)
       /\ slack \in Int /\ Within(slack, den * Quantum)
  BY <1>1, <1>2, <1>4, <1>5, <1>6
<1>11. next.average = IF q = b THEN NoCost ELSE a.average
  BY <1>3 DEF AverageAfterSale
<1>12. Excess(next) = next.average.den * (net + got - gain) * Quantum
                          + (q - b) * next.average.num
  BY <1>3, <1>7 DEF Excess
<1>13. Explained(next) <=> Within(Excess(next), next.average.den * Quantum * (r + 2))
  BY <1>3 DEF Explained
<1>20. NoCost.num = 0 /\ NoCost.den = 1
  BY DEF NoCost
<1>21. a.average.num = num /\ a.average.den = den
  OBVIOUS
<1> HIDE DEF next, price, b, got, q, num, den, gain, net, r, excess
<1>14. kept = raised
  BY <1>1, <1>2, <1>5, <1>7, <1>8, Z3
<1> HIDE DEF gap, slack
<1>15. excess \in Int /\ den * gap \in Int /\ den * Quantum * r \in Int /\ den * Quantum \in Int
  BY <1>1, <1>7, <1>8, <1>10
<1>16. Within(den * gap, den * Quantum)
  <2>1. gap \in Int /\ Quantum \in Int /\ den \in Nat \ {0} /\ Within(gap, Quantum)
    BY <1>1, <1>10
  <2> QED
    BY <2>1, WithinTimes
<1>17. Within(raised, den * Quantum * r + den * Quantum + den * Quantum)
  <2>1. Within(excess + den * gap, den * Quantum * r + den * Quantum)
    BY <1>9, <1>15, <1>16, WithinSum
  <2>2. excess + den * gap \in Int /\ den * Quantum * r + den * Quantum \in Int
    BY <1>15
  <2> QED
    BY <1>10, <1>15, <2>1, <2>2, WithinSum
<1>18. Within(kept, den * Quantum * (r + 2))
  <2>1. den * Quantum * r + den * Quantum + den * Quantum = den * Quantum * (r + 2)
    BY <1>1, Z3
  <2> QED
    BY <1>14, <1>17, <2>1
<1>19. CASE q # b
  BY <1>11, <1>12, <1>13, <1>18, <1>19, <1>21 DEF next
<1>22. CASE q = b
  <2> DEFINE left == (net + got - gain) * Quantum
  <2>1. Excess(next) = left /\ next.average.den * Quantum * (r + 2) = Quantum * (r + 2)
    <3>1. (net + got - gain) \in Int /\ q - b = 0
      BY <1>1, <1>2, <1>5, <1>7, <1>22
    <3> QED
      BY <1>1, <1>11, <1>12, <1>20, <1>22, <3>1
  <2>2. kept = den * left /\ left \in Int /\ Quantum * (r + 2) \in Int
    <3>1. net + got - gain \in Int /\ (q - b) * num = 0
      BY <1>1, <1>2, <1>5, <1>7, <1>22
    <3>2. \A m \in Int : den * m * Quantum = den * (m * Quantum) /\ m * Quantum \in Int
      BY <1>1, Z3
    <3> QED
      BY <1>1, <3>1, <3>2
  <2>3. den * Quantum * (r + 2) = den * (Quantum * (r + 2))
    BY <1>1, Z3
  <2> HIDE DEF left, kept
  <2>4. Within(left, Quantum * (r + 2))
    BY <1>1, <1>18, <2>2, <2>3, WithinTimes
  <2> QED
    BY <1>13, <2>1, <2>4 DEF next
<1> QED
  BY <1>19, <1>22

\* At a close two more roundings explain the equity.
LEMMA CloseExplained ==
    ASSUME NEW a \in AccountRecord, Explained(a), NEW ticks \in Nat,
           NEW error, error = a.cash + MarketValue(a.quantity, ticks) - InitialCash + a.fees
                                - a.realized
                                - Gain(a.quantity, ReferencePrice(ticks), a.average)
    PROVE  2 * error \in -(a.roundings + 2) .. a.roundings + 2
<1> DEFINE price == ReferencePrice(ticks)
           q == a.quantity
           num == a.average.num
           den == a.average.den
           value == MoneyOf(q * price)
           gain == Gain(q, price, a.average)
           net == a.cash - InitialCash + a.fees - a.realized
           r == a.roundings
           excess == Excess(a)
           gap == Quantum * value - q * price
           slack == den * Quantum * gain - q * (price * den - num)
<1>1. /\ a.cash \in Int /\ a.fees \in Int /\ a.realized \in Int /\ r \in Nat
      /\ q \in Nat /\ num \in Int /\ den \in Nat \ {0}
      /\ InitialCash \in Int /\ Quantum \in Nat \ {0} /\ Quantum \in Int
  BY EngineAssumption, MoneyAssumption DEF AccountRecord
<1>2. price \in Nat /\ q * price \in Nat /\ value \in Int
  <2>1. price \in Nat
    BY PricesTyped DEF Sides
  <2>2. q * price \in Nat
    BY <1>1, <2>1, Z3
  <2> QED
    BY <2>1, <2>2, MoneyTyped
<1>3. den * Quantum \in Nat \ {0} /\ q * (price * den - num) \in Int
  BY <1>1, <1>2, Z3
<1>4. gain \in Int /\ Within(slack, den * Quantum)
  BY <1>3, RoundTyped, RoundedNear DEF Gain
<1>5. Within(gap, Quantum)
  BY <1>1, <1>2, RoundedNear DEF MoneyOf
<1>6. gap \in Int /\ slack \in Int
  BY <1>1, <1>2, <1>3, <1>4
<1>7. error = net + value - gain /\ net \in Int
  BY <1>1, <1>2, <1>4 DEF MarketValue
<1>8. excess = den * net * Quantum + q * num /\ Within(excess, den * Quantum * r)
  BY DEF Excess, Explained
<1> HIDE DEF price, value, q, num, den, gain, net, r, excess
<1>9. (den * Quantum) * error = excess + den * gap - slack
  <2>1. den * (net + value - gain) * Quantum = excess + den * gap - slack
    BY <1>1, <1>2, <1>4, <1>7, <1>8, Z3
  <2>2. net + value - gain \in Int
    BY <1>2, <1>4, <1>7
  <2>3. \A m \in Int : (den * Quantum) * m = den * m * Quantum
    BY <1>1, Z3
  <2> QED
    BY <1>7, <2>1, <2>2, <2>3
<1> HIDE DEF gap, slack
<1>10. excess \in Int /\ den * gap \in Int /\ den * Quantum * r \in Int /\ den * Quantum \in Int
  BY <1>1, <1>6, <1>7, <1>8
<1>11. Within(den * gap, den * Quantum)
  BY <1>1, <1>5, <1>6, WithinTimes
<1>12. Within(excess + den * gap - slack, den * Quantum * r + den * Quantum + den * Quantum)
  <2>1. Within(excess + den * gap, den * Quantum * r + den * Quantum)
    BY <1>8, <1>10, <1>11, WithinSum
  <2>2. excess + den * gap \in Int /\ den * Quantum * r + den * Quantum \in Int
    BY <1>10
  <2> QED
    BY <1>4, <1>6, <1>10, <2>1, <2>2, WithinSum
<1>13. den * Quantum * r + den * Quantum + den * Quantum = (den * Quantum) * (r + 2)
  BY <1>1, Z3
<1>14. error \in Int /\ r + 2 \in Int
  BY <1>1, <1>2, <1>4, <1>7
<1>15. Within(error, r + 2)
  <2> DEFINE k == den * Quantum
  <2>1. Within(k * error, k * (r + 2)) /\ k \in Nat \ {0}
    BY <1>3, <1>9, <1>12, <1>13
  <2> HIDE DEF k
  <2> QED
    BY <1>14, <2>1, WithinTimes
<1> QED
  BY <1>1, <1>14, <1>15 DEF Within, r

-----------------------------------------------------------------------------
\* The fills a position is made of: the buys since the engine was last flat.
BoughtSince(fills, n) ==
    {i \in 1 .. n : /\ fills[i].side = Buy
                    /\ \A j \in i .. n : fills[j].quantity_after > 0}

CostBetween(fills, n, average) ==
    IF fills[n].quantity_after = 0 THEN average = NoCost
    ELSE /\ \E i \in BoughtSince(fills, n) : PriceOf(fills[i]) * average.den >= average.num
         /\ \E i \in BoughtSince(fills, n) : PriceOf(fills[i]) * average.den <= average.num

\* A mean lies between what it is the mean of: the cost so far, and the price of b
\* more units.
LEMMA MeanBetween ==
    ASSUME NEW q \in Nat, NEW num \in Int, NEW den \in Nat \ {0}, NEW b \in Nat \ {0},
           NEW price \in Nat, NEW p \in Nat,
           NEW top, top = q * num + b * price * den, NEW whole, whole = den * (q + b)
    PROVE  /\ q = 0 => price * whole = top
           /\ price * den >= num => price * whole >= top
           /\ price * den <= num => price * whole <= top
           /\ p * den >= num /\ num >= price * den => p * whole >= top
           /\ p * den <= num /\ num <= price * den => p * whole <= top
<1> DEFINE x == price * den
           y == p * den
<1>1. /\ x \in Int /\ y \in Int
      /\ price * whole = q * x + b * x
      /\ p * whole = q * y + b * y
      /\ top = q * num + b * x
  BY Z3
<1>2. \A u, v \in Int : u <= v => q * u <= q * v /\ b * u <= b * v
  BY Z3
<1>3. /\ q * x \in Int /\ q * y \in Int /\ b * x \in Int /\ b * y \in Int /\ q * num \in Int
      /\ b * num \in Int
  BY <1>1
<1>4. q = 0 => q * x = 0 /\ q * num = 0
  BY <1>1
<1> HIDE DEF x, y
<1>5. x >= num => q * x >= q * num
  BY <1>1, <1>2
<1>6. x <= num => q * x <= q * num
  BY <1>1, <1>2
<1>7. y >= num /\ num >= x => q * y >= q * num /\ b * y >= b * x
  BY <1>1, <1>2
<1>8. y <= num /\ num <= x => q * y <= q * num /\ b * y <= b * x
  BY <1>1, <1>2
<1> QED
  BY <1>1, <1>3, <1>4, <1>5, <1>6, <1>7, <1>8 DEF x, y

-----------------------------------------------------------------------------
\* Every fill trades, and shows the account it left.
Itemized(fills) ==
    \A n \in DOMAIN fills : /\ fills[n].quantity > 0
                            /\ fills[n].cash_after = Account(fills)[n].cash
                            /\ fills[n].quantity_after = Account(fills)[n].quantity

\* By induction on the fills, the account is typed and explained after each of them ...
LEMMA AccountHolds ==
    ASSUME NEW fills \in Seq(FillRecord), Itemized(fills)
    PROVE  \A n \in 0 .. Len(fills) :
               Account(fills)[n] \in AccountRecord /\ Explained(Account(fills)[n])
<1> DEFINE N == Len(fills)
           a == Account(fills)
           T == {n \in 0 .. N : a[n] \in AccountRecord /\ Explained(a[n])}
<1>1. /\ N \in Nat /\ DOMAIN fills = 1 .. N
      /\ \A n \in 1 .. N : fills[n] \in FillRecord
  OBVIOUS
<1>2. a[0] = NoFills /\ \A n \in 1 .. N : a[n] = AfterFill(a[n - 1], fills[n])
  BY <1>1, AccountDefined
<1>3. \A n \in 1 .. N : fills[n].quantity > 0 /\ fills[n].quantity_after = a[n].quantity
  BY <1>1 DEF Itemized
<1> HIDE DEF N, a
<1>4. 0 \in T
  <2>1. NoFills \in AccountRecord
    BY EngineAssumption DEF NoFills, AccountRecord, NoCost
  <2>2. Explained(NoFills)
    <3>1. Excess(NoFills) = 0
      BY EngineAssumption, MoneyAssumption DEF Excess, NoFills, NoCost
    <3>2. NoFills.average.den * Quantum * NoFills.roundings = 0
      BY MoneyAssumption DEF NoFills, NoCost
    <3> QED
      BY <3>1, <3>2 DEF Explained, Within
  <2> QED
    BY <1>1, <1>2, <2>1, <2>2
<1>5. ASSUME NEW n \in 1 .. N, n - 1 \in T PROVE n \in T
  <2>1. a[n - 1] \in AccountRecord /\ Explained(a[n - 1])
    BY <1>5
  <2>2. fills[n] \in FillRecord /\ fills[n].quantity > 0 /\ fills[n].quantity_after \in Nat
    BY <1>1, <1>3 DEF FillRecord
  <2>3. a[n] = AfterFill(a[n - 1], fills[n]) /\ a[n].quantity \in Nat
    BY <1>2, <1>3, <2>2
  <2>4. a[n] \in AccountRecord
    BY <2>1, <2>2, <2>3, AfterFillReads
  <2>5. Explained(a[n])
    BY <2>1, <2>2, <2>3, BuyExplained, SaleExplained
  <2> QED
    BY <1>1, <2>4, <2>5
<1>6. \A n \in 0 .. N : n \in T
  <2> HIDE DEF T
  <2> QED
    BY <1>1, <1>4, <1>5, UpTo
<1> QED
  BY <1>6 DEF N, a

\* ... and its average cost is of the position the engine holds.
LEMMA CostHolds ==
    ASSUME NEW fills \in Seq(FillRecord), Itemized(fills)
    PROVE  \A n \in DOMAIN fills : CostBetween(fills, n, Account(fills)[n].average)
<1> DEFINE N == Len(fills)
           a == Account(fills)
           T == {n \in 0 .. N : n > 0 => CostBetween(fills, n, a[n].average)}
<1>1. /\ N \in Nat /\ DOMAIN fills = 1 .. N
      /\ \A n \in 1 .. N : fills[n] \in FillRecord
  OBVIOUS
<1>2. a[0] = NoFills /\ \A n \in 1 .. N : a[n] = AfterFill(a[n - 1], fills[n])
  BY <1>1, AccountDefined
<1>3. \A n \in 1 .. N : fills[n].quantity > 0 /\ fills[n].quantity_after = a[n].quantity
  BY <1>1 DEF Itemized
<1>4. \A n \in 0 .. N : a[n] \in AccountRecord
  BY AccountHolds
<1> HIDE DEF N, a
<1>5. 0 \in T
  BY <1>1
<1>6. ASSUME NEW n \in 1 .. N, n - 1 \in T PROVE n \in T
  <2> DEFINE before == a[n - 1]
             fill == fills[n]
             q == before.quantity
             num == before.average.num
             den == before.average.den
             b == fill.quantity
             price == PriceOf(fill)
  <2>1. /\ before \in AccountRecord /\ fill \in FillRecord
        /\ a[n] = AfterFill(before, fill)
    BY <1>1, <1>2, <1>4
  <2>2. /\ q \in Nat /\ num \in Int /\ den \in Nat \ {0} /\ b \in Nat \ {0}
        /\ fill.quantity_after = a[n].quantity
    <3>1. fill.quantity > 0 /\ fill.quantity_after = a[n].quantity
      BY <1>3
    <3>2. fill.quantity \in Nat
      BY <2>1 DEF FillRecord
    <3> HIDE DEF before
    <3>3. q \in Nat /\ num \in Int /\ den \in Nat \ {0}
      BY <2>1 DEF AccountRecord
    <3> QED
      BY <3>1, <3>2, <3>3
  <2>3. \A i \in 1 .. N : PriceOf(fills[i]) \in Nat
    <3> SUFFICES ASSUME NEW i \in 1 .. N PROVE PriceOf(fills[i]) \in Nat
      OBVIOUS
    <3>1. fills[i].ticks \in Nat /\ fills[i].side \in Sides
      BY <1>1 DEF FillRecord
    <3> QED
      BY <3>1, PricesTyped DEF PriceOf
  <2>4. price \in Nat
    BY <2>3
  \* What was bought before is still bought while something is held.
  <2>5. ASSUME n > 1, fill.quantity_after > 0
        PROVE  \A i \in BoughtSince(fills, n - 1) : i \in BoughtSince(fills, n) /\ i \in 1 .. N
    <3> SUFFICES ASSUME NEW i \in BoughtSince(fills, n - 1)
                 PROVE  i \in BoughtSince(fills, n) /\ i \in 1 .. N
      OBVIOUS
    <3>1. /\ i \in 1 .. n - 1 /\ fills[i].side = Buy
          /\ \A j \in i .. n - 1 : fills[j].quantity_after > 0
      BY DEF BoughtSince
    <3>2. \A j \in i .. n : j \in i .. n - 1 \/ j = n
      BY <1>1, <3>1
    <3>3. \A j \in i .. n : fills[j].quantity_after > 0
      BY <2>5, <3>1, <3>2
    <3>4. i \in 1 .. n /\ i \in 1 .. N
      BY <1>1, <3>1
    <3> QED
      BY <3>1, <3>3, <3>4 DEF BoughtSince
  <2>6. q > 0 => n > 1 /\ fills[n - 1].quantity_after = q
    BY <1>1, <1>2, <1>3 DEF NoFills
  <2>7. CASE fill.side = Buy
    <3> DEFINE average == a[n].average
    <3>1. /\ average.num = q * num + b * price * den
          /\ average.den = den * (q + b)
          /\ a[n].quantity = q + b
      BY <2>1, <2>7 DEF AfterFill, AverageAfterBuy
    <3>2. fill.quantity_after > 0 /\ n \in BoughtSince(fills, n)
      <4>1. fill.quantity_after > 0
        BY <2>2, <3>1
      <4>2. \A j \in n .. n : j = n
        BY <1>1
      <4> QED
        BY <1>1, <2>7, <4>1, <4>2 DEF BoughtSince
    <3> HIDE DEF average
    <3>s. SUFFICES /\ \E i \in BoughtSince(fills, n) :
                         PriceOf(fills[i]) * average.den >= average.num
                   /\ \E i \in BoughtSince(fills, n) :
                         PriceOf(fills[i]) * average.den <= average.num
      <4>1. fills[n].quantity_after # 0
        BY <3>2
      <4> QED
        BY <1>1, <4>1 DEF CostBetween, average
    <3> DEFINE top == average.num
               whole == average.den
    <3>t. top = q * num + b * price * den /\ whole = den * (q + b)
      BY <3>1
    <3> HIDE DEF q, num, den, b, price, top, whole
    <3>p. ASSUME NEW p \in Nat
          PROVE  /\ q = 0 => price * whole = top
                 /\ price * den >= num => price * whole >= top
                 /\ price * den <= num => price * whole <= top
                 /\ p * den >= num /\ num >= price * den => p * whole >= top
                 /\ p * den <= num /\ num <= price * den => p * whole <= top
      BY <2>2, <2>4, <3>t, MeanBetween
    <3>3. CASE q = 0
      <4>1. price * whole = top /\ top \in Int
        BY <2>2, <2>4, <3>3, <3>t, <3>p
      <4> QED
        BY <3>2, <4>1 DEF price, top, whole
    <3>4. CASE q > 0
      <4>1. CostBetween(fills, n - 1, before.average) /\ n > 1
        BY <1>6, <2>6, <3>4 DEF q
      <4>2. fills[n - 1].quantity_after # 0
        BY <2>6, <3>4
      <4>3. PICK i \in BoughtSince(fills, n - 1) : PriceOf(fills[i]) * den >= num
        BY <4>1, <4>2 DEF CostBetween, den, num
      <4>4. PICK k \in BoughtSince(fills, n - 1) : PriceOf(fills[k]) * den <= num
        BY <4>1, <4>2 DEF CostBetween, den, num
      <4>5. /\ i \in BoughtSince(fills, n) /\ k \in BoughtSince(fills, n)
            /\ PriceOf(fills[i]) \in Nat /\ PriceOf(fills[k]) \in Nat
        BY <2>3, <2>5, <3>2, <4>1
      <4>6. price * den \in Int
        BY <2>2, <2>4
      <4>7. CASE price * den >= num
        <5>1. price * whole >= top /\ PriceOf(fills[k]) * whole <= top
          BY <3>p, <4>4, <4>5, <4>7
        <5> QED
          BY <3>2, <4>5, <5>1 DEF price, top, whole
      <4>8. CASE price * den <= num
        <5>1. price * whole <= top /\ PriceOf(fills[i]) * whole >= top
          BY <3>p, <4>3, <4>5, <4>8
        <5> QED
          BY <3>2, <4>5, <5>1 DEF price, top, whole
      <4> QED
        BY <2>2, <4>6, <4>7, <4>8
    <3> QED
      BY <2>2, <3>3, <3>4
  <2>8. CASE fill.side # Buy
    <3>1. a[n].quantity = q - b /\ a[n].average = AverageAfterSale(before, fill)
      BY <2>1, <2>8 DEF AfterFill
    <3>2. CASE q = b
      <4>1. a[n].average = NoCost /\ fill.quantity_after = 0
        BY <2>2, <3>1, <3>2 DEF AverageAfterSale
      <4> QED
        BY <1>1, <4>1 DEF CostBetween
    <3>3. CASE q # b
      <4>1. a[n].average = before.average
        BY <3>1, <3>3 DEF AverageAfterSale
      <4>2. fill.quantity_after > 0
        <5>1. a[n].quantity \in Nat
          BY <1>1, <1>4 DEF AccountRecord
        <5> QED
          BY <2>2, <3>1, <3>3, <5>1
      <4>3. q > 0 /\ n > 1 /\ fills[n - 1].quantity_after > 0
        BY <2>2, <2>6, <3>1, <4>2
      <4>4. CostBetween(fills, n - 1, before.average)
        BY <1>6, <4>3
      <4>5. PICK i \in BoughtSince(fills, n - 1) :
                PriceOf(fills[i]) * before.average.den >= before.average.num
        BY <4>3, <4>4 DEF CostBetween
      <4>6. PICK k \in BoughtSince(fills, n - 1) :
                PriceOf(fills[k]) * before.average.den <= before.average.num
        BY <4>3, <4>4 DEF CostBetween
      <4>7. i \in BoughtSince(fills, n) /\ k \in BoughtSince(fills, n)
        BY <2>5, <4>2, <4>3
      <4>8. CostBetween(fills, n, before.average)
        BY <4>2, <4>5, <4>6, <4>7 DEF CostBetween
      <4> QED
        BY <1>1, <4>1, <4>8
    <3> QED
      BY <3>2, <3>3
  <2> QED
    BY <2>7, <2>8
<1>7. \A n \in 0 .. N : n \in T
  <2> HIDE DEF T
  <2> QED
    BY <1>1, <1>5, <1>6, UpTo
<1>8. \A n \in 1 .. N : CostBetween(fills, n, a[n].average)
  <2>1. \A n \in 1 .. N : n \in 0 .. N /\ n > 0
    BY <1>1
  <2> QED
    BY <1>7, <2>1
<1> QED
  BY <1>1, <1>8 DEF a

-----------------------------------------------------------------------------
\* The ledger is the account after the last fill.
Ledgered(ledger, fills) ==
    LET now == Account(fills)[Len(fills)]
    IN  /\ Itemized(fills)
        /\ ledger = [cash |-> now.cash, quantity |-> now.quantity,
                     fees |-> now.fees, slippage |-> now.slippage]

\* The first n fills are those of the bars up to number.
Split(fills, n, number) ==
    /\ n \in 0 .. Len(fills)
    /\ \A i \in 1 .. n : fills[i].bar <= number
    /\ \A i \in n + 1 .. Len(fills) : fills[i].bar > number

\* A point shows the equity at its close of what the fills up to it left.
Valued(equity, close, a) == equity = a.cash + MarketValue(a.quantity, close)

OnCurve(points, history, fills) ==
    \A i \in DOMAIN points : \E n \in 0 .. Len(fills) :
        /\ Split(fills, n, i)
        /\ Valued(points[i].equity, history[i].close, Account(fills)[n])

\* A state whose fills are of bars up to number and explain its ledger and its curve,
\* the curve being short of the bars by open.
Reconciled(s, number, open) ==
    /\ Ledgered(s.book, s.trail.fills)
    /\ OnCurve(s.trail.points, s.bars, s.trail.fills)
    /\ \A i \in DOMAIN s.trail.fills : s.trail.fills[i].bar <= number
    /\ Len(s.trail.points) + open = Len(s.bars)

LedgerInv ==
    /\ Reconciled(Committed, Len(Committed.bars), 0)
    /\ pc \in {"opened", "executed"} => Reconciled(Protected, Len(bars) + 1, 0)
    /\ pc = "flat" => Reconciled(Protected, Len(bars), 1)
    /\ pc = "strategy" => Reconciled(callSnapshot, Len(callSnapshot.bars), 1)

\* There is one way to split the fills at a bar, the one FillsBy chooses.
LEMMA SplitIsChosen ==
    ASSUME NEW fills \in Seq(FillRecord), NEW number \in Nat, NEW n, Split(fills, n, number)
    PROVE  FillsBy(fills, number) = n
<1> DEFINE N == Len(fills)
           P(m) == /\ \A i \in 1 .. m : fills[i].bar <= number
                   /\ \A i \in m + 1 .. N : fills[i].bar > number
<1>1. N \in Nat /\ \A i \in 1 .. N : fills[i].bar \in Nat
  <2>1. N \in Nat /\ \A i \in 1 .. N : fills[i] \in FillRecord
    OBVIOUS
  <2> QED
    BY <2>1 DEF FillRecord
<1>2. FillsBy(fills, number) = CHOOSE m \in 0 .. N : P(m)
  BY DEF FillsBy
<1>3. n \in 0 .. N /\ P(n)
  BY DEF Split
<1> HIDE DEF N
<1>4. ASSUME NEW m \in 0 .. N, P(m), NEW k \in 0 .. N, P(k), m < k PROVE FALSE
  <2>1. k \in 1 .. k /\ k \in m + 1 .. N /\ k \in 1 .. N
    BY <1>1, <1>4
  <2>2. fills[k].bar <= number /\ fills[k].bar > number
    BY <1>4, <2>1
  <2> QED
    BY <1>1, <2>1, <2>2
<1>5. \A m \in 0 .. N : P(m) => m = n
  <2> SUFFICES ASSUME NEW m \in 0 .. N, P(m), m # n PROVE FALSE
    OBVIOUS
  <2>1. m < n \/ n < m
    BY <1>1, <1>3
  <2> QED
    BY <1>3, <1>4, <2>1
<1> HIDE DEF P
<1> QED
  BY <1>2, <1>3, <1>5

\* One more fill: the ledger is the account after it ...
LEMMA LedgerGrows ==
    ASSUME NEW fills \in Seq(FillRecord), NEW fill \in FillRecord, fill.quantity > 0,
           NEW ledger, Ledgered(ledger, fills),
           NEW a, a = Account(fills)[Len(fills)], NEW next, next = AfterFill(a, fill),
           fill.cash_after = next.cash, fill.quantity_after = next.quantity,
           NEW filled, filled = [cash |-> next.cash, quantity |-> next.quantity,
                                 fees |-> next.fees, slippage |-> next.slippage]
    PROVE  Ledgered(filled, Append(fills, fill))
<1> DEFINE N == Len(fills)
           longer == Append(fills, fill)
<1>1. /\ N \in Nat /\ Len(longer) = N + 1 /\ longer[N + 1] = fill
      /\ DOMAIN longer = 1 .. N + 1 /\ DOMAIN fills = 1 .. N
      /\ \A n \in 1 .. N : longer[n] = fills[n]
  OBVIOUS
<1>2. /\ \A n \in 0 .. N : Account(longer)[n] = Account(fills)[n]
      /\ Account(longer)[N + 1] = next
  BY AccountGrows
<1> HIDE DEF N, longer
<1>3. \A n \in 1 .. N + 1 : n \in 1 .. N \/ n = N + 1
  BY <1>1
<1>4. \A n \in 1 .. N : n \in 0 .. N
  BY <1>1
<1>5. Itemized(fills)
  BY DEF Ledgered
<1>6. Itemized(longer)
  <2> SUFFICES ASSUME NEW n \in 1 .. N + 1
               PROVE  /\ longer[n].quantity > 0
                      /\ longer[n].cash_after = Account(longer)[n].cash
                      /\ longer[n].quantity_after = Account(longer)[n].quantity
    BY <1>1 DEF Itemized
  <2>1. CASE n \in 1 .. N
    BY <1>1, <1>2, <1>4, <1>5, <2>1 DEF Itemized
  <2>2. CASE n = N + 1
    BY <1>1, <1>2, <2>2
  <2> QED
    BY <1>3, <2>1, <2>2
<1>7. Account(longer)[Len(longer)] = next
  BY <1>1, <1>2
<1> QED
  BY <1>6, <1>7 DEF Ledgered, longer

\* ... and it is of a bar that is not on the curve yet.
LEMMA CurveOnFill ==
    ASSUME NEW fills \in Seq(FillRecord), NEW fill \in FillRecord,
           NEW points \in Seq(PointRecord), NEW history,
           OnCurve(points, history, fills), fill.bar > Len(points)
    PROVE  OnCurve(points, history, Append(fills, fill))
<1> DEFINE N == Len(fills)
           longer == Append(fills, fill)
<1>1. /\ N \in Nat /\ Len(longer) = N + 1 /\ longer[N + 1] = fill
      /\ \A n \in 1 .. N : longer[n] = fills[n]
      /\ DOMAIN points = 1 .. Len(points) /\ Len(points) \in Nat
  OBVIOUS
<1>2. \A n \in 0 .. N : Account(longer)[n] = Account(fills)[n]
  BY AccountGrows
<1>3. fill.bar \in Nat
  BY DEF FillRecord
<1> SUFFICES ASSUME NEW i \in 1 .. Len(points)
             PROVE  \E n \in 0 .. Len(longer) :
                        /\ Split(longer, n, i)
                        /\ Valued(points[i].equity, history[i].close, Account(longer)[n])
  BY <1>1 DEF OnCurve
<1>4. PICK n \in 0 .. N : /\ Split(fills, n, i)
                          /\ Valued(points[i].equity, history[i].close, Account(fills)[n])
  BY <1>1 DEF OnCurve
<1> HIDE DEF longer
<1>5. Split(longer, n, i)
  <2>1. n \in 0 .. N + 1 /\ \A j \in 1 .. n : j \in 1 .. N
    BY <1>1
  <2>2. \A j \in n + 1 .. N + 1 : j \in n + 1 .. N \/ j = N + 1
    BY <1>1
  <2>3. fill.bar > i
    BY <1>1, <1>3
  <2>4. \A j \in 1 .. n : longer[j].bar <= i
    BY <1>1, <1>4, <2>1 DEF Split
  <2>5. \A j \in n + 1 .. N + 1 : longer[j].bar > i
    <3>1. \A j \in n + 1 .. N : longer[j].bar > i
      <4>1. \A j \in n + 1 .. N : longer[j] = fills[j] /\ fills[j].bar > i
        BY <1>1, <1>4 DEF Split
      <4> QED
        BY <4>1
    <3> QED
      BY <1>1, <2>2, <2>3, <3>1
  <2> QED
    BY <1>1, <2>1, <2>4, <2>5 DEF Split
<1>6. n \in 0 .. Len(longer)
  BY <1>1
<1> QED
  BY <1>2, <1>4, <1>5, <1>6

\* A bar that joins the history changes none of the points before it.
LEMMA CurveOnBar ==
    ASSUME NEW fills, NEW points \in Seq(PointRecord), NEW history \in Seq(BarRecord),
           NEW last \in BarRecord, OnCurve(points, history, fills),
           Len(points) <= Len(history)
    PROVE  OnCurve(points, Append(history, last), fills)
<1>1. \A i \in DOMAIN points : Append(history, last)[i] = history[i]
  OBVIOUS
<1> QED
  BY <1>1 DEF OnCurve

\* A point added to the curve shows the ledger after all the fills.
LEMMA CurveOnPoint ==
    ASSUME NEW fills \in Seq(FillRecord), NEW points \in Seq(PointRecord), NEW history,
           OnCurve(points, history, fills), NEW point \in PointRecord,
           NEW number, number = Len(points) + 1,
           \A i \in DOMAIN fills : fills[i].bar <= number,
           Valued(point.equity, history[number].close, Account(fills)[Len(fills)])
    PROVE  OnCurve(Append(points, point), history, fills)
<1> DEFINE longer == Append(points, point)
           N == Len(fills)
<1>1. /\ DOMAIN longer = 1 .. number /\ DOMAIN points = 1 .. Len(points)
      /\ longer[number] = point /\ \A i \in DOMAIN points : longer[i] = points[i]
      /\ Len(points) \in Nat /\ N \in Nat /\ DOMAIN fills = 1 .. N
  OBVIOUS
<1> HIDE DEF longer
<1> SUFFICES ASSUME NEW i \in 1 .. number
             PROVE  \E n \in 0 .. N :
                        /\ Split(fills, n, i)
                        /\ Valued(longer[i].equity, history[i].close, Account(fills)[n])
  BY <1>1 DEF OnCurve, longer
<1>2. CASE i = number
  <2>1. N \in 0 .. N /\ N + 1 .. N = {}
    BY <1>1
  <2>2. Split(fills, N, i)
    BY <1>1, <1>2, <2>1 DEF Split
  <2>3. Valued(longer[i].equity, history[i].close, Account(fills)[N])
    BY <1>1, <1>2
  <2> QED
    BY <2>1, <2>2, <2>3
<1>3. CASE i # number
  <2>1. i \in DOMAIN points
    BY <1>1, <1>3
  <2> QED
    BY <1>1, <2>1 DEF OnCurve
<1> QED
  BY <1>2, <1>3

-----------------------------------------------------------------------------
\* What Reconciled speaks of, in two states that agree on it.
LEMMA ReconciledAlike ==
    ASSUME NEW s, NEW t, NEW number, NEW open, Reconciled(s, number, open),
           t.book = s.book, t.bars = s.bars,
           t.trail.fills = s.trail.fills, t.trail.points = s.trail.points
    PROVE  Reconciled(t, number, open)
BY DEF Reconciled

\* A later bar may follow the fills.
LEMMA ReconciledLater ==
    ASSUME NEW s, s.trail \in Trail, NEW number \in Nat, NEW open, Reconciled(s, number, open)
    PROVE  Reconciled(s, number + 1, open)
<1>1. \A i \in DOMAIN s.trail.fills : s.trail.fills[i].bar \in Nat
  <2>1. s.trail.fills \in Seq(FillRecord)
    BY DEF Trail
  <2>2. \A i \in DOMAIN s.trail.fills : s.trail.fills[i] \in FillRecord
    BY <2>1
  <2> QED
    BY <2>2 DEF FillRecord
<1> QED
  BY <1>1 DEF Reconciled

\* The engine starts with its initial cash and no fill.
LEMMA LedgerInit == Init => LedgerInv
<1> SUFFICES ASSUME Init PROVE LedgerInv
  OBVIOUS
<1>1. Committed = Protected /\ pc = "idle"
  BY DEF Init, Committed, InBar
<1>2. /\ Protected.book = [cash |-> InitialCash, quantity |-> 0, fees |-> 0, slippage |-> 0]
      /\ Protected.trail.fills = <<>> /\ Protected.trail.points = <<>>
      /\ Protected.bars = <<>>
  BY DEF Init, Protected
<1>3. Len(<<>>) = 0 /\ DOMAIN <<>> = {}
  OBVIOUS
<1>4. Account(<<>>)[0] = NoFills
  BY <1>3, AccountDefined
<1>5. Ledgered(Protected.book, <<>>)
  BY <1>2, <1>3, <1>4 DEF Ledgered, Itemized, NoFills
<1>6. OnCurve(<<>>, <<>>, <<>>)
  BY <1>3 DEF OnCurve
<1> QED
  BY <1>1, <1>2, <1>3, <1>5, <1>6 DEF LedgerInv, Reconciled

\* The fill of an order and the ledger it leaves, as Account books them.
LEMMA FillIsBooked ==
    ASSUME TypeOK, pending # NoSignal,
           NEW target \in TargetQuantities, target # book.quantity,
           NEW order, order = OrderTo(target, book, bar.open),
           NEW a, book = [cash |-> a.cash, quantity |-> a.quantity,
                          fees |-> a.fees, slippage |-> a.slippage],
           NEW fill, fill = FillOf(order), NEW next, next = AfterFill(a, fill)
    PROVE  /\ fill.quantity > 0
           /\ fill.cash_after = next.cash /\ fill.quantity_after = next.quantity
           /\ Filled(order) = [cash |-> next.cash, quantity |-> next.quantity,
                               fees |-> next.fees, slippage |-> next.slippage]
<1>1. /\ book.quantity \in Nat /\ book.cash \in Nat /\ bar.open \in Nat \ {0}
      /\ target \in Nat
  BY StateTyped DEF Ledger, TargetQuantities
<1>2. /\ order.quantity \in Nat \ {0}
      /\ order.execution_price = ExecutionPrice(bar.open, order.side)
      /\ order.reference_price = ReferencePrice(bar.open)
      /\ order.notional = order.quantity * order.execution_price
  <2>1. order.quantity \in Nat \ {0}
    BY <1>1, OrderTyped
  <2> QED
    BY <2>1 DEF OrderTo
<1>3. /\ fill.quantity = order.quantity /\ fill.side = order.side
      /\ fill.ticks = bar.open /\ fill.fee = order.estimated_fee
      /\ fill.cash_after = Filled(order).cash
      /\ fill.quantity_after = Filled(order).quantity
  BY DEF FillOf
<1>4. PriceOf(fill) = order.execution_price
  BY <1>2, <1>3 DEF PriceOf
<1>5. /\ a.cash = book.cash /\ a.quantity = book.quantity
      /\ a.fees = book.fees /\ a.slippage = book.slippage
  OBVIOUS
<1> HIDE DEF TargetQuantities
<1>6. /\ next.cash = IF order.side = Buy
                       THEN book.cash - MoneyOf(order.notional) - order.estimated_fee
                       ELSE book.cash + MoneyOf(order.notional) - order.estimated_fee
      /\ next.quantity = IF order.side = Buy THEN book.quantity + order.quantity
                                             ELSE book.quantity - order.quantity
      /\ next.fees = book.fees + order.estimated_fee
      /\ next.slippage = book.slippage
            + MoneyOf(order.quantity
                        * Magnitude(order.execution_price - order.reference_price))
  BY <1>2, <1>3, <1>4, <1>5 DEF AfterFill
<1>7. Filled(order) = [cash |-> next.cash, quantity |-> next.quantity,
                       fees |-> next.fees, slippage |-> next.slippage]
  BY <1>6 DEF Filled, CashAfter
<1>8. fill.quantity > 0
  BY <1>2, <1>3
<1> QED
  BY <1>3, <1>7, <1>8

\* A fill is booked once, into the ledger and the trail alike.
LEMMA FillReconciles ==
    ASSUME TypeOK, HistoryInv, LedgerInv, FillOrder
    PROVE  LedgerInv'
<1> DEFINE number == Len(bars) + 1
<1>1. pc = "opened" /\ pending # NoSignal /\ ~halt.active
  BY DEF FillOrder
<1>2. /\ trail \in Trail /\ number \in Nat /\ Len(bars) \in Nat
      /\ Committed' = Committed
  BY StateTyped, CommittedKept DEF TypeOK
<1>3. PICK target \in TargetQuantities \ {book.quantity} :
          /\ {} \in OrderOutcomes(OrderTo(target, book, bar.open))
          /\ IF Unbookable(OrderTo(target, book, bar.open))
               THEN BarFails ELSE BookFill(OrderTo(target, book, bar.open))
  BY DEF FillOrder
<1> DEFINE order == OrderTo(target, book, bar.open)
           fill == FillOf(order)
           fills == trail.fills
           a == Account(fills)[Len(fills)]
           next == AfterFill(a, fill)
<1>4. Reconciled(Protected, number, 0)
  BY <1>1 DEF LedgerInv
<1>5. /\ Ledgered(book, fills) /\ OnCurve(trail.points, bars, fills)
      /\ \A i \in DOMAIN fills : fills[i].bar <= number
      /\ Len(trail.points) + 0 = Len(bars)
  BY <1>4 DEF Reconciled, Protected
<1>6. CASE Unbookable(order)
  <2>1. pc' = "idle"
    BY <1>3, <1>6 DEF BarFails
  <2> QED
    BY <1>2, <2>1 DEF LedgerInv
<1>7. CASE ~Unbookable(order)
  <2>1. /\ fill \in FillRecord /\ fill.bar = number
    BY <1>1, <1>3, <1>7, FillTyped DEF FillOf
  <2>2. /\ book = [cash |-> a.cash, quantity |-> a.quantity,
                   fees |-> a.fees, slippage |-> a.slippage]
    BY <1>5 DEF Ledgered
  <2> DEFINE filled == [cash |-> next.cash, quantity |-> next.quantity,
                        fees |-> next.fees, slippage |-> next.slippage]
  <2>3. /\ fill.quantity > 0 /\ fill.cash_after = next.cash
        /\ fill.quantity_after = next.quantity
        /\ Filled(order) = filled
    <3> HIDE DEF a
    <3> QED
      BY <1>1, <1>3, <2>2, FillIsBooked
  <2>4. BookFill(order)
    BY <1>3, <1>7
  <2> HIDE DEF order, fill
  <2>5. PICK i, d : /\ trail' = [trail EXCEPT !.intents = i, !.decisions = d,
                                              !.fills = Append(fills, fill)]
                    /\ book' = Filled(order) /\ bars' = bars /\ pc' = "executed"
    BY <2>4 DEF BookFill, fill
  <2>6. trail'.fills = Append(fills, fill) /\ trail'.points = trail.points
    <3> DEFINE f == Append(fills, fill)
    <3>1. trail' = [trail EXCEPT !.intents = i, !.decisions = d, !.fills = f]
      BY <2>5
    <3> HIDE DEF f
    <3>2. trail'.fills = f /\ trail'.points = trail.points
      BY <1>2, <3>1, TrailParts
    <3> QED
      BY <3>2 DEF f
  <2>7. fills \in Seq(FillRecord) /\ trail.points \in Seq(PointRecord)
    BY <1>2 DEF Trail
  <2> HIDE DEF fills
  <2>8. Ledgered(filled, Append(fills, fill))
    BY <1>5, <2>1, <2>3, <2>7, LedgerGrows
  <2>9. OnCurve(trail.points, bars, Append(fills, fill))
    <3>1. fill.bar > Len(trail.points)
      BY <1>2, <1>5, <2>1, <2>7
    <3> QED
      BY <1>5, <2>1, <2>7, <3>1, CurveOnFill
  <2>10. \A k \in DOMAIN Append(fills, fill) : Append(fills, fill)[k].bar <= number
    <3> SUFFICES ASSUME NEW k \in DOMAIN Append(fills, fill)
                 PROVE  Append(fills, fill)[k].bar <= number
      OBVIOUS
    <3>1. CASE k = Len(fills) + 1
      <4>1. Append(fills, fill)[k] = fill
        BY <2>7, <3>1
      <4> QED
        BY <1>2, <2>1, <4>1
    <3>2. CASE k # Len(fills) + 1
      <4>1. k \in DOMAIN fills /\ Append(fills, fill)[k] = fills[k]
        BY <2>7, <3>2
      <4> QED
        BY <1>5, <4>1
    <3> QED
      BY <3>1, <3>2
  <2> DEFINE longer == Append(fills, fill)
  <2>11. /\ Protected'.book = filled /\ Protected'.bars = bars
         /\ Protected'.trail.fills = longer /\ Protected'.trail.points = trail.points
    BY <2>3, <2>5, <2>6 DEF Protected
  <2>12. Reconciled(Protected', number, 0)
    <3> HIDE DEF longer, filled
    <3>1. /\ Ledgered(filled, longer) /\ OnCurve(trail.points, bars, longer)
          /\ \A k \in DOMAIN longer : longer[k].bar <= number
      BY <2>8, <2>9, <2>10 DEF longer
    <3> QED
      BY <1>5, <2>11, <3>1 DEF Reconciled
  <2>13. Reconciled(Committed, Len(Committed.bars), 0)
    BY DEF LedgerInv
  <2> QED
    BY <1>2, <2>5, <2>12, <2>13 DEF LedgerInv
<1> QED
  BY <1>6, <1>7

\* Decisions and intents leave the fills and the curve of a trail alone.
LEMMA NotesLeaveFills ==
    ASSUME NEW t \in Trail, NEW i, NEW d, NEW p
    PROVE  /\ [t EXCEPT !.decisions = d].fills = t.fills
           /\ [t EXCEPT !.decisions = d].points = t.points
           /\ [t EXCEPT !.intents = i, !.decisions = d].fills = t.fills
           /\ [t EXCEPT !.intents = i, !.decisions = d].points = t.points
           /\ [t EXCEPT !.points = p].fills = t.fills
           /\ [t EXCEPT !.points = p].points = p
BY DEF Trail

\* A mark, a refusal or no order at all leaves the ledger as it was.
LEMMA MarksReconcile ==
    ASSUME TypeOK, HistoryInv, LedgerInv,
           ReceiveBar \/ SkipTarget \/ HoldTarget \/ RejectOrder
    PROVE  LedgerInv'
<1>1. /\ trail \in Trail /\ Len(bars) \in Nat /\ Committed' = Committed
  BY StateTyped, CommittedKept
<1>2. Reconciled(Committed, Len(Committed.bars), 0)
  BY DEF LedgerInv
<1>3. book' = book /\ bars' = bars /\ pc' \in {"opened", "executed"}
  BY DEF ReceiveBar, SkipTarget, HoldTarget, RejectOrder
<1>4. trail'.fills = trail.fills /\ trail'.points = trail.points
  <2>1. CASE ReceiveBar
    <3>1. PICK d : trail' = [trail EXCEPT !.decisions = d]
      BY <2>1 DEF ReceiveBar
    <3> QED
      BY <1>1, <3>1, NotesLeaveFills
  <2>2. CASE SkipTarget \/ HoldTarget
    BY <2>2 DEF SkipTarget, HoldTarget
  <2>3. CASE RejectOrder
    <3>1. PICK i, d : trail' = [trail EXCEPT !.intents = i, !.decisions = d]
      BY <2>3 DEF RejectOrder
    <3> QED
      BY <1>1, <3>1, NotesLeaveFills
  <2> QED
    BY <2>1, <2>2, <2>3
<1>5. Reconciled(Protected, Len(bars) + 1, 0)
  <2>1. CASE ReceiveBar
    <3>1. Committed = Protected
      BY <2>1, HistoryReads DEF ReceiveBar
    <3>2. Protected.bars = bars /\ Protected.trail = trail
      BY DEF Protected
    <3> QED
      BY <1>1, <1>2, <3>1, <3>2, ReconciledLater
  <2>2. CASE SkipTarget \/ HoldTarget \/ RejectOrder
    <3>1. pc = "opened"
      BY <2>2 DEF SkipTarget, HoldTarget, RejectOrder
    <3> QED
      BY <3>1 DEF LedgerInv
  <2> QED
    BY <2>1, <2>2
<1>6. Reconciled(Protected', Len(bars) + 1, 0)
  <2>1. /\ Protected'.book = Protected.book /\ Protected'.bars = Protected.bars
        /\ Protected'.trail.fills = Protected.trail.fills
        /\ Protected'.trail.points = Protected.trail.points
    BY <1>3, <1>4 DEF Protected
  <2> QED
    BY <1>5, <2>1, ReconciledAlike
<1> QED
  BY <1>1, <1>2, <1>3, <1>6 DEF LedgerInv

\* At the close the bar joins the history, its point still to come.
LEMMA CloseReconciles ==
    ASSUME TypeOK, HistoryInv, LedgerInv, MarkClose
    PROVE  LedgerInv'
<1>1. /\ pc = "executed" /\ pc' \in {"flat", "strategy"} /\ book' = book
      /\ bars' = Append(bars, bar) /\ callSnapshot' = Protected'
  BY DEF MarkClose
<1>2. /\ trail \in Trail /\ bars \in Seq(BarRecord) /\ bar \in BarRecord
      /\ Committed' = Committed /\ Len(bars) \in Nat
  BY StateTyped, CommittedKept DEF TypeOK
<1>3. PICK d : trail' = [trail EXCEPT !.decisions = d]
  BY DEF MarkClose
<1>4. trail'.fills = trail.fills /\ trail'.points = trail.points
  BY <1>2, <1>3, NotesLeaveFills
<1>5. Reconciled(Protected, Len(bars) + 1, 0)
  BY <1>1 DEF LedgerInv
<1>6. /\ Ledgered(book, trail.fills) /\ OnCurve(trail.points, bars, trail.fills)
      /\ \A i \in DOMAIN trail.fills : trail.fills[i].bar <= Len(bars) + 1
      /\ Len(trail.points) + 0 = Len(bars)
  BY <1>5 DEF Reconciled, Protected
<1>7. trail.points \in Seq(PointRecord) /\ Len(trail.points) = Len(bars)
  <2>1. trail.points \in Seq(PointRecord)
    BY <1>2 DEF Trail
  <2>2. Len(trail.points) \in Nat
    BY <2>1
  <2> QED
    BY <1>6, <2>1, <2>2
<1>8. OnCurve(trail.points, bars', trail.fills)
  <2>1. Len(trail.points) <= Len(bars)
    BY <1>2, <1>7
  <2> QED
    BY <1>1, <1>2, <1>6, <1>7, <2>1, CurveOnBar
<1>9. Len(bars') = Len(bars) + 1
  BY <1>1, <1>2
<1>10. Reconciled(Protected', Len(bars'), 1)
  <2>1. /\ Protected'.book = book /\ Protected'.bars = bars'
        /\ Protected'.trail.fills = trail.fills /\ Protected'.trail.points = trail.points
    BY <1>1, <1>4 DEF Protected
  <2> QED
    BY <1>6, <1>7, <1>8, <1>9, <2>1 DEF Reconciled
<1>11. Protected'.bars = bars'
  BY DEF Protected
<1>12. Reconciled(Committed, Len(Committed.bars), 0)
  BY DEF LedgerInv
<1> QED
  BY <1>1, <1>2, <1>10, <1>11, <1>12 DEF LedgerInv

\* A commit shows the ledger at the close.
LEMMA CommitReconciles ==
    ASSUME TypeOK, NEW weight \in Fraction, Commit(weight), Reconciled(Protected, Len(bars), 1),
           bars[Len(bars)] = bar
    PROVE  LedgerInv'
<1> DEFINE number == Len(bars)
           equity == EquityAt(book, bar.close)
           point == [equity |-> equity, cash |-> book.cash, quantity |-> book.quantity,
                     peak |-> marks.peak, start_of_day |-> marks.start_of_day,
                     halted |-> halt.active, target |-> weight]
           fills == trail.fills
           a == Account(fills)[Len(fills)]
<1>1. /\ trail \in Trail /\ book \in Ledger /\ marks \in MarkRecord /\ halt \in HaltRecord
      /\ equity \in Nat /\ number \in Nat
      /\ trail.points \in Seq(PointRecord) /\ fills \in Seq(FillRecord)
  BY StateTyped DEF Trail
<1>2. /\ trail' = [trail EXCEPT !.points = Append(trail.points, point)]
      /\ book' = book /\ bars' = bars /\ pc' = "deliver"
  BY DEF Commit
<1>3. point \in PointRecord
  BY <1>1 DEF PointRecord, Amount, Ledger, MarkRecord, HaltRecord
<1>4. point.equity = equity
  OBVIOUS
<1>5. /\ Ledgered(book, fills) /\ OnCurve(trail.points, bars, fills)
      /\ \A i \in DOMAIN fills : fills[i].bar <= number
      /\ Len(trail.points) + 1 = number
  BY DEF Reconciled, Protected
<1> HIDE DEF point
<1>6. /\ trail'.fills = fills /\ trail'.points = Append(trail.points, point)
  <2> DEFINE p == Append(trail.points, point)
  <2>1. trail' = [trail EXCEPT !.points = p]
    BY <1>2
  <2> HIDE DEF p
  <2>2. trail'.fills = fills /\ trail'.points = p
    BY <1>1, <2>1, NotesLeaveFills
  <2> QED
    BY <2>2 DEF p
<1>7. a.cash = book.cash /\ a.quantity = book.quantity
  <2>1. book = [cash |-> a.cash, quantity |-> a.quantity,
                fees |-> a.fees, slippage |-> a.slippage]
    BY <1>5 DEF Ledgered
  <2> QED
    BY <2>1
<1>8. Valued(point.equity, bars[number].close, a)
  <2>1. Valued(equity, bar.close, a)
    BY <1>7 DEF Valued, EquityAt
  <2> QED
    BY <1>4, <2>1
<1>9. OnCurve(Append(trail.points, point), bars, fills)
  <2>1. number = Len(trail.points) + 1
    BY <1>5
  <2> HIDE DEF number, fills
  <2> QED
    BY <1>1, <1>3, <1>5, <1>8, <2>1, CurveOnPoint DEF a
<1>10. Len(trail'.points) + 0 = Len(bars')
  BY <1>1, <1>2, <1>5, <1>6
<1>11. /\ Committed'.book = book /\ Committed'.bars = bars
       /\ Committed'.trail.fills = fills
       /\ Committed'.trail.points = Append(trail.points, point)
  BY <1>2, <1>6 DEF Committed, InBar, Protected
<1>12. Reconciled(Committed', number, 0)
  BY <1>2, <1>5, <1>6, <1>9, <1>10, <1>11 DEF Reconciled
<1> QED
  BY <1>2, <1>11, <1>12 DEF LedgerInv

\* Every step of the engine, its caller and its callbacks keeps the ledger.
LEMMA LedgerStep ==
    TypeOK /\ HistoryInv /\ LimitsInv /\ LedgerInv /\ [Next]_vars => LedgerInv'
<1> SUFFICES ASSUME TypeOK, HistoryInv, LimitsInv, LedgerInv, [Next]_vars PROVE LedgerInv'
  OBVIOUS
<1>k. Reconciled(Committed, Len(Committed.bars), 0)
  BY DEF LedgerInv
<1>1. CASE RefuseBar \/ Return \/ StrategyFails \/ CallSink \/ SinkReturns
  <2>1. Committed' = Committed
    BY <1>1, CommittedKept
  <2>2. pc' \in {"idle", "sink", "deliver"}
    BY <1>1 DEF RefuseBar, Return, StrategyFails, BarFails, CallSink, SinkReturns
  <2> QED
    BY <1>k, <2>1, <2>2 DEF LedgerInv
<1>2. CASE LatchKillSwitch \/ ExpirePendingSignal \/ ActivateKillSwitch
  <2>1. /\ pc \in {"idle", "deliver"} /\ pc' = "deliver"
        /\ bars' = bars /\ trail' = trail /\ book' = book
    BY <1>2 DEF LatchKillSwitch, ExpirePendingSignal, ActivateKillSwitch, Expire
  <2>2. Committed = Protected /\ Committed' = Protected'
    BY <2>1, HistoryReads DEF Committed, InBar
  <2>3. /\ Committed'.book = Committed.book /\ Committed'.bars = Committed.bars
        /\ Committed'.trail = Committed.trail
    BY <2>1, <2>2 DEF Protected
  <2>4. Reconciled(Committed', Len(Committed.bars), 0)
    BY <1>k, <2>3, ReconciledAlike
  <2> QED
    BY <2>1, <2>3, <2>4 DEF LedgerInv
<1>3. CASE CommitFlat
  <2>1. Commit(0) /\ Reconciled(Protected, Len(bars), 1)
    BY <1>3 DEF CommitFlat, LedgerInv
  <2>2. Protected.bars = Append(barSnapshot.bars, bar)
    BY <1>3 DEF CommitFlat, LimitsInv, Closed
  <2>3. bars = Append(barSnapshot.bars, bar)
    BY <2>2 DEF Protected
  <2>4. barSnapshot.bars \in Seq(BarRecord) /\ bar \in BarRecord
    BY DEF TypeOK, ProtectedState
  <2>5. bars[Len(bars)] = bar
    BY <2>3, <2>4
  <2>6. 0 \in Fraction
    BY FractionTyped
  <2> QED
    BY <2>1, <2>5, <2>6, CommitReconciles
<1>4. CASE StrategySignals
  <2>1. PICK weight \in Weights : Commit(weight)
    BY <1>4 DEF StrategySignals
  <2>2. Protected = callSnapshot /\ pc = "strategy"
    BY <1>4 DEF StrategySignals, Changed
  <2>3. Protected.bars = bars /\ callSnapshot.bars = Append(barSnapshot.bars, bar)
    BY <2>2 DEF Protected, LimitsInv, Closed
  <2>4. Reconciled(Protected, Len(bars), 1)
    BY <2>2, <2>3 DEF LedgerInv
  <2>5. barSnapshot.bars \in Seq(BarRecord) /\ bar \in BarRecord
    BY DEF TypeOK, ProtectedState
  <2>6. bars[Len(bars)] = bar
    BY <2>2, <2>3, <2>5
  <2>7. weight \in Fraction
    BY <2>1, EngineAssumption
  <2> QED
    BY <2>1, <2>4, <2>6, <2>7, CommitReconciles
<1>5. CASE StrategyTampers \/ SinkTampers
  <2>1. Committed' = Committed
    BY <1>5, CommittedKept
  <2>2. pc \in {"strategy", "sink"} /\ UNCHANGED <<pc, callSnapshot>>
    BY <1>5 DEF StrategyTampers, SinkTampers, Tamper
  <2> QED
    BY <1>k, <2>1, <2>2 DEF LedgerInv
<1>6. CASE UNCHANGED vars
  BY <1>6 DEF vars, LedgerInv, Committed, InBar, Protected
<1> QED
  BY <1>1, <1>2, <1>3, <1>4, <1>5, <1>6, MarksReconcile, FillReconciles, CloseReconciles
  DEF Next, EngineStep, CallReturns

\* The invariant of the ledger, and what it rests on.
LEMMA LedgerCorrect == Spec => [](TypeOK /\ LedgerInv)
<1>1. Spec => [](TypeOK /\ HistoryInv)
  BY TypeCorrect, HistoryCorrect, PTL
<1>2. Spec => []LimitsInv
  BY <1>1, LimitsInit, LimitsStep, PTL DEF Spec
<1> QED
  BY <1>1, <1>2, LedgerInit, LedgerStep, PTL DEF Spec

(***************************************************************************)
(* Cash, fees, slippage, quantity, average cost, profits and equity are    *)
(* one history, for every number of bars, every price and every rollback:  *)
(* the ledger is the sum of the fills, the profits explain the equity but  *)
(* for half a quantum a rounding, and no cost outlives its position.       *)
(***************************************************************************)
THEOREM BooksAreOneHistory == Spec => []BooksReconcile
<1>1. TypeOK /\ LedgerInv => BooksReconcile
  <2> SUFFICES ASSUME TypeOK, LedgerInv
               PROVE  LedgerReconciles /\ ProfitReconciles /\ CostIsOfThisPosition
    BY DEF BooksReconcile
  <2> DEFINE fills == Committed.trail.fills
             points == Committed.trail.points
             account == Account(fills)
             now == account[Len(fills)]
  <2>1. Committed \in ProtectedState
    BY DEF Committed, TypeOK
  <2>2. /\ fills \in Seq(FillRecord) /\ points \in Seq(PointRecord)
        /\ Committed.bars \in Seq(BarRecord)
    BY <2>1 DEF ProtectedState, Trail
  <2>3. /\ Itemized(fills)
        /\ Committed.book = [cash |-> now.cash, quantity |-> now.quantity,
                             fees |-> now.fees, slippage |-> now.slippage]
        /\ OnCurve(points, Committed.bars, fills)
        /\ Len(points) + 0 = Len(Committed.bars)
    BY DEF LedgerInv, Reconciled, Ledgered
  <2>4. LedgerReconciles
    BY <2>3 DEF LedgerReconciles, Itemized
  <2>5. ProfitReconciles
    <3> SUFFICES ASSUME NEW number \in DOMAIN points
                 PROVE  LET of    == AccountAt(number)
                            error == points[number].equity - InitialCash + of.fees
                                       - of.realized - Unrealized(number)
                            roundings == of.roundings + 2
                        IN  2 * error \in -roundings .. roundings
      BY DEF ProfitReconciles
    <3>1. number \in Nat /\ number \in DOMAIN Committed.bars
      BY <2>2, <2>3
    <3>2. PICK n \in 0 .. Len(fills) :
              /\ Split(fills, n, number)
              /\ Valued(points[number].equity, Committed.bars[number].close, account[n])
      BY <2>3 DEF OnCurve
    <3> DEFINE a == account[n]
               ticks == Committed.bars[number].close
    <3>3. AccountAt(number) = a
      BY <2>2, <3>1, <3>2, SplitIsChosen DEF AccountAt
    <3>4. a \in AccountRecord /\ Explained(a)
      BY <2>2, <2>3, AccountHolds
    <3>5. ticks \in Nat
      <4>1. Committed.bars[number] \in BarRecord
        BY <2>2, <3>1
      <4> QED
        BY <4>1, EngineAssumption DEF BarRecord
    <3>6. Unrealized(number) = Gain(a.quantity, ReferencePrice(ticks), a.average)
      BY <3>3 DEF Unrealized
    <3>7. points[number].equity = a.cash + MarketValue(a.quantity, ticks)
      BY <3>2 DEF Valued
    <3> DEFINE gain == Gain(a.quantity, ReferencePrice(ticks), a.average)
               value == MarketValue(a.quantity, ticks)
    <3> HIDE DEF a, ticks
    <3>8. 2 * (a.cash + value - InitialCash + a.fees - a.realized - gain)
              \in -(a.roundings + 2) .. a.roundings + 2
      BY <3>4, <3>5, CloseExplained
    <3>u. Unrealized(number) = gain /\ points[number].equity = a.cash + value
      BY <3>6, <3>7
    <3>t. /\ a.cash \in Int /\ a.fees \in Int /\ a.realized \in Int /\ a.roundings \in Int
          /\ value \in Int /\ gain \in Int /\ InitialCash \in Int
      <4>1. /\ a.quantity \in Nat /\ a.cash \in Int /\ a.fees \in Int /\ a.realized \in Int
            /\ a.roundings \in Int /\ a.average \in [num : Int, den : Nat \ {0}]
        BY <3>4 DEF AccountRecord
      <4>2. value \in Int
        <5>1. a.quantity \in Nat
          BY <4>1
        <5>2. MarketValue(a.quantity, ticks) \in Nat
          BY <3>5, <5>1, ValueTyped
        <5> QED
          BY <5>2
      <4>3. gain \in Int
        <5>1. ReferencePrice(ticks) \in Nat
          BY <3>5, PricesTyped DEF Sides
        <5>2. /\ a.quantity * (ReferencePrice(ticks) * a.average.den - a.average.num) \in Int
              /\ a.average.den * Quantum \in Nat \ {0}
          <6>1. a.average.num \in Int /\ a.average.den \in Nat \ {0}
            BY <4>1
          <6> QED
            BY <4>1, <5>1, <6>1, MoneyAssumption, Z3
        <5> QED
          BY <5>2, RoundTyped DEF Gain
      <4> QED
        BY <4>1, <4>2, <4>3, EngineAssumption
    <3> HIDE DEF gain, value, points
    <3>9. 2 * (points[number].equity - InitialCash + a.fees - a.realized - Unrealized(number))
              \in -(a.roundings + 2) .. a.roundings + 2
      <4> DEFINE shown == points[number].equity - InitialCash + a.fees - a.realized
                            - Unrealized(number)
                 stated == a.cash + value - InitialCash + a.fees - a.realized - gain
      <4>1. shown = stated
        <5>1. shown = (a.cash + value) - InitialCash + a.fees - a.realized - gain
          BY <3>u, Zenon
        <5> QED
          BY <3>t, <5>1
      <4>2. 2 * stated \in -(a.roundings + 2) .. a.roundings + 2
        BY <3>8, Zenon
      <4> HIDE DEF shown, stated
      <4>3. 2 * shown \in -(a.roundings + 2) .. a.roundings + 2
        BY <4>1, <4>2, Zenon
      <4> QED
        BY <4>3, Zenon DEF shown
    <3> QED
      BY <3>3, <3>9
  <2>6. CostIsOfThisPosition
    <3>1. \A n \in DOMAIN fills : CostBetween(fills, n, account[n].average)
      BY <2>2, <2>3, CostHolds
    <3> QED
      BY <3>1 DEF CostIsOfThisPosition, CostBetween, BoughtSince
  <2> QED
    BY <2>4, <2>5, <2>6
<1> QED
  BY <1>1, LedgerCorrect, PTL
=============================================================================
