--------------------------- MODULE TrailingSignal ---------------------------
(***************************************************************************)
(* The moving-average target of the LEAN algorithms: invested when the     *)
(* mean of the last Fast closes is above the mean of the last Slow, flat   *)
(* otherwise; nothing before Slow closes are known.                        *)
(***************************************************************************)
EXTENDS Integers, Sequences

CONSTANTS Fast, Slow, TargetWeight   \* TargetWeight in the user's unit of weight

ASSUME SignalAssumption ==
    Slow \in Nat /\ Fast \in 1 .. Slow - 1 /\ TargetWeight \in 1 .. 100

\* The last Slow closes, the only ones kept.
Recent(closes) == IF Len(closes) > Slow THEN Tail(closes) ELSE closes

Ready(closes) == Len(closes) >= Slow

\* The sum of the last n closes.
LastSum(closes, n) ==
    LET sum[i \in 0 .. n] == IF i = 0 THEN 0 ELSE sum[i - 1] + closes[Len(closes) - i + 1]
    IN  sum[n]

\* target_for_completed_closes on a window that is ready.
Target(closes) ==
    IF LastSum(closes, Fast) * Slow > LastSum(closes, Slow) * Fast THEN TargetWeight ELSE 0
=============================================================================
