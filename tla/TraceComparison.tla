-------------------------- MODULE TraceComparison --------------------------
(***************************************************************************)
(* parity/compare.py: when a parity trace is accepted, and how two traces  *)
(* differ.  A row is [exact, numeric]: a record of the fields compared     *)
(* for equality and a record of those compared within a tolerance.  A      *)
(* trace is a record of five sequences of rows and of two rows.            *)
(*                                                                         *)
(* Schemas, digests, canonical decimals and the metrics of a decision are  *)
(* left out.  Only the tolerance of money is above what an integer counts. *)
(***************************************************************************)
EXTENDS Integers, Sequences, FiniteSets

CONSTANTS MoneyTolerance, NoIntent

\* What the parameters have to be.
ToleranceAssumption == MoneyTolerance \in Nat

Lists == {"bars", "order_intents", "risk_decisions", "fills", "trades"}

MoneyFields == {"cash", "equity", "peak_equity", "start_of_day_equity", "fee",
                "resulting_cash", "ending_equity", "total_fees_paid"}

Tolerance(field) == IF field \in MoneyFields THEN MoneyTolerance ELSE 0

\* _compare_decimal
Differs(field, a, b) == a - b > Tolerance(field) \/ b - a > Tolerance(field)

\* _compare_record: the differing fields, each as <<path, index, field>>.
RecordDifferences(path, i, expected, candidate) ==
    {<<path, i, field>> : field \in
        {f \in DOMAIN expected.exact : expected.exact[f] # candidate.exact[f]}
        \cup {f \in DOMAIN expected.numeric :
                Differs(f, expected.numeric[f], candidate.numeric[f])}}

\* A mutant of RowDifferences: surplus rows are not looked at.
CommonRowDifferences(path, expected, candidate) ==
    UNION {RecordDifferences(path, i, expected[i], candidate[i]) :
              i \in DOMAIN expected \cap DOMAIN candidate}

\* _compare_rows and _compare_risk
RowDifferences(path, expected, candidate) ==
    IF Len(expected) # Len(candidate) THEN {<<path, 0, "count">>}
    ELSE UNION {RecordDifferences(path, i, expected[i], candidate[i]) : i \in DOMAIN expected}

\* compare_parity_traces
Differences(expected, candidate) ==
    UNION {RowDifferences(path, expected[path], candidate[path]) : path \in Lists}
    \cup UNION {RecordDifferences(path, 0, expected[path], candidate[path]) :
                   path \in {"summary", "final_bar"}}

\* _classify_difference, by path and field; a mapping per path.
BarDimension ==
    [cash |-> "cash", quantity |-> "position_state",
     halted |-> "rejection_and_halt_state", target_weight_for_next_bar |-> "signal_timing",
     equity |-> "equity", peak_equity |-> "equity", start_of_day_equity |-> "equity",
     count |-> "bar_visibility"]

IntentDimension ==
    [signal_timestamp |-> "signal_timing", execution_timestamp |-> "intent_timing",
     side |-> "trade_direction_and_count", quantity |-> "position_state",
     reference_price |-> "intent_timing", target_weight |-> "signal_timing",
     count |-> "intent_timing"]

FillDimension ==
    [intent_index |-> "trade_direction_and_count", timestamp |-> "fill_timing",
     side |-> "trade_direction_and_count", quantity |-> "position_state",
     execution_price |-> "slippage", fee |-> "fees", count |-> "trade_direction_and_count"]

TradeDimension ==
    [fill_index |-> "trade_direction_and_count", signal_timestamp |-> "signal_timing",
     resulting_cash |-> "cash", resulting_quantity |-> "position_state",
     count |-> "trade_direction_and_count"]

SummaryDimension ==
    [number_of_fills |-> "trade_direction_and_count",
     rejected_order_count |-> "rejection_and_halt_state",
     risk_halt_triggered |-> "rejection_and_halt_state",
     halt_reasons |-> "rejection_and_halt_state",
     ending_equity |-> "equity", total_fees_paid |-> "fees"]

Dimension(difference) ==
    LET field == difference[3]
    IN  CASE difference[1] = "risk_decisions" -> "rejection_and_halt_state"
          [] difference[1] = "final_bar"      -> "final_bar_behavior"
          [] difference[1] = "bars"           -> BarDimension[field]
          [] difference[1] = "order_intents"  -> IntentDimension[field]
          [] difference[1] = "fills"          -> FillDimension[field]
          [] difference[1] = "trades"         -> TradeDimension[field]
          [] difference[1] = "summary"        -> SummaryDimension[field]

\* The orders a list of decisions rejects; a portfolio halt names no intent.
Rejected(decisions) ==
    Cardinality({i \in DOMAIN decisions : /\ decisions[i].exact.reasons # {}
                                          /\ decisions[i].exact.intent_index # NoIntent})

\* _validate_internal_consistency, for rows bars.
Consistent(trace, rows) ==
    LET last    == Len(trace.bars)
        intents == DOMAIN trace.order_intents
        asked   == \E i \in intents : trace.order_intents[i].exact.signal_timestamp = last
        filled  == \E i \in DOMAIN trace.trades :
                      trace.trades[i].exact.signal_timestamp = last
    IN  /\ last = rows /\ last > 0
        /\ trace.summary.exact.number_of_fills = Len(trace.fills)
        /\ Len(trace.fills) = Len(trace.trades)
        /\ trace.summary.exact.rejected_order_count = Rejected(trace.risk_decisions)
        /\ \A i \in DOMAIN trace.fills : trace.fills[i].exact.intent_index \in intents
        /\ \A i \in DOMAIN trace.trades :
              trace.trades[i].exact.fill_index \in DOMAIN trace.fills
        /\ \A i \in DOMAIN trace.risk_decisions :
              trace.risk_decisions[i].exact.intent_index \in intents \cup {NoIntent}
        /\ trace.final_bar =
              [exact |-> [timestamp |-> last, creates_intent |-> asked, creates_fill |-> filled,
                          pending_signal_unfilled |-> ~asked /\ ~filled],
               numeric |-> [target_weight |->
                              trace.bars[last].numeric.target_weight_for_next_bar]]
=============================================================================
