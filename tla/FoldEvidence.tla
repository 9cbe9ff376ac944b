---------------------------- MODULE FoldEvidence ----------------------------
(***************************************************************************)
(* What trading_bot_lab.walk_forward.observation accepts as the evidence   *)
(* of one fold, and what it derives from all folds.  A decimal is a whole  *)
(* number or, for the returns, a fraction; the fixed sections of the       *)
(* protocol are one value each, equal to the manifest's or not.            *)
(***************************************************************************)
EXTENDS Integers, Sequences, FiniteSets, TLC

CONSTANTS FoldIds,          \* FOLD_IDS, in order
          Window,           \* the closed interval of each fold
          StartingCapital

FoldAssumption ==
    /\ StartingCapital \in Nat \ {0}
    /\ \A i \in DOMAIN FoldIds : Window[FoldIds[i]] \in [start : Nat, end : Nat]

IsFold(f) == \E i \in DOMAIN FoldIds : FoldIds[i] = f
HaltReasons == {"daily_loss", "max_drawdown", "invalid_equity"}

Fraction(num, den) == [num |-> num, den |-> den]
SameFraction(a, b) == a.num * b.den = b.num * a.den

\* ending / starting - 1, and the difference of two returns.
Return(starting, ending) == Fraction(ending - starting, starting)
Minus(a, b) == Fraction(a.num * b.den - b.num * a.den, a.den * b.den)

\* _normalize_metrics: signs and ranges; drawdown is a percentage.
MetricsInRange(m) ==
    /\ m.startingEquity > 0 /\ m.endingEquity > 0 /\ m.benchmarkStart > 0 /\ m.benchmarkEnd > 0
    /\ m.drawdown \in 0 .. 100
    /\ m.fees >= 0 /\ m.orders >= 0 /\ m.fills >= 0 /\ m.rejected >= 0

\* _validate_metric_identities: the capital of v1, and returns that follow
\* from the values beside them.
IdentitiesHold(m) ==
    LET total == Return(m.startingEquity, m.endingEquity)
        benchmark == Return(m.benchmarkStart, m.benchmarkEnd)
    IN  /\ m.startingEquity = StartingCapital
        /\ SameFraction(m.totalReturn, total)
        /\ SameFraction(m.benchmarkReturn, benchmark)
        /\ SameFraction(m.excessReturn, Minus(total, benchmark))

\* _normalize_state
StateAccepted(s, window) ==
    /\ s.completion \in {"completed", "failed"}
    /\ s.completion = "completed" => s.warmup /\ s.finalClose
    /\ s.reasons \subseteq HaltReasons
    /\ s.halted <=> s.reasons # {}
    /\ window.start <= s.first /\ s.first <= s.last /\ s.last <= window.end
    /\ s.quantity >= 0 /\ s.position \in {"cash", "long"}
    /\ s.position = "cash" <=> s.quantity = 0

\* normalize_observation: the observation as it is, or refused.
Accepted(p) ==
    /\ p.protocol = "v1"
    /\ IsFold(p.fold) /\ p.window = Window[p.fold]
    /\ MetricsInRange(p.metrics) /\ IdentitiesHold(p.metrics)
    /\ StateAccepted(p.state, p.window)
=============================================================================
