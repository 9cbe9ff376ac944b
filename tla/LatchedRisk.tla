---------------------------- MODULE LatchedRisk ----------------------------
(***************************************************************************)
(* LatchedRiskModel of the LEAN moving-average algorithms: an inclusive    *)
(* daily-loss and peak-drawdown guard that latches.  A guard is a record;  *)
(* limits are percentages, equity a whole number of dollars.               *)
(***************************************************************************)
EXTENDS Integers

CONSTANTS DailyLossLimit, DrawdownLimit   \* percent

LimitAssumption == DailyLossLimit \in 1 .. 100 /\ DrawdownLimit \in 1 .. 100

Reasons == {"daily_loss", "max_drawdown", "invalid_equity"}

Larger(a, b) == IF a > b THEN a ELSE b

\* The fall from base to e in percent of base, rounded down; 0 for a rise.
FallPercent(base, e) == (Larger(0, base - e) * 100) \div base

\* LatchedRiskModel.__init__
FreshGuard(cash) ==
    [session |-> 0, startOfDay |-> cash, lastClose |-> cash, peak |-> cash, reasons |-> {}]

Halted(guard) == guard.reasons # {}

\* A mutant of Observe: the drawdown is taken from the peak before this equity
\* and the peak is only raised by closes.
ObserveWithoutPeak(guard, day, e) ==
    IF Halted(guard) THEN guard
    ELSE [guard EXCEPT !.session = day,
            !.startOfDay = IF guard.session # day THEN guard.lastClose ELSE @,
            !.reasons = (IF FallPercent(guard.startOfDay, e) >= DailyLossLimit
                           THEN {"daily_loss"} ELSE {})
                   \cup (IF FallPercent(guard.peak, e) >= DrawdownLimit
                           THEN {"max_drawdown"} ELSE {})]

\* observe: nothing once halted; the first observation of a session takes the
\* equity of the last close as the base of the daily loss.
Observe(guard, day, e) ==
    LET base == IF guard.session # day THEN guard.lastClose ELSE guard.startOfDay
        peak == Larger(guard.peak, e)
    IN  IF Halted(guard) THEN guard
        ELSE IF e <= 0 THEN [guard EXCEPT !.reasons = {"invalid_equity"}]
        ELSE [guard EXCEPT !.session = day, !.startOfDay = base, !.peak = peak,
                !.reasons = (IF FallPercent(base, e) >= DailyLossLimit
                               THEN {"daily_loss"} ELSE {})
                       \cup (IF FallPercent(peak, e) >= DrawdownLimit
                               THEN {"max_drawdown"} ELSE {})]

\* close_session: the close becomes the base of the next day, halted or not.
CloseSession(guard, day, e) == [Observe(guard, day, e) EXCEPT !.lastClose = e]
=============================================================================
