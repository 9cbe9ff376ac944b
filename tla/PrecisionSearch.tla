-------------------------- MODULE PrecisionSearch --------------------------
(***************************************************************************)
(* The bisection loop by which the engine turns a target weight into a     *)
(* quantity (_cost_aware_target_quantity), and by which the buy-and-hold   *)
(* benchmark finds what its cash can buy                                   *)
(* (_largest_affordable_benchmark_purchase).  Both loops probe the middle  *)
(* of low..high, keep a candidate that passes a test as the best so far    *)
(* and look above it, or look below a candidate that fails.                *)
(*                                                                         *)
(* The test itself is left open here: safe is any set of candidates, so    *)
(* what is proved of the loop, for every interval and every such set,      *)
(* holds whatever fees, rounding and limits do to the test.                *)
(***************************************************************************)
EXTENDS Integers

CONSTANTS
    MaxUnits,  \* the largest candidate, in units of the quantity precision
    None       \* best_units before any candidate has passed

ASSUME SearchAssumption ==
    /\ MaxUnits \in Nat
    /\ None \notin Int

VARIABLES
    first, last,  \* the interval the search was started on
    safe,         \* the candidates the test accepts
    low, high,    \* what is left of the interval
    best          \* best_units

vars == <<first, last, safe, low, high, best>>

Units == 0 .. MaxUnits

Init ==
    /\ first \in Units
    /\ last \in Units
    /\ safe \in SUBSET Units
    /\ low = first
    /\ high = last
    /\ best = None

\* A mutant of Middle: probes the upper end of the interval.
UpperEnd == high

Middle == (low + high) \div 2

\* A mutant of ProbeSafe: one candidate too many is skipped.
ProbeSafeSkipping ==
    /\ low <= high
    /\ Middle \in safe
    /\ best' = Middle
    /\ low' = Middle + 2
    /\ UNCHANGED <<first, last, safe, high>>

\* A mutant of ProbeUnsafe: the refused candidate is remembered as the best.
ProbeUnsafeKeeping ==
    /\ low <= high
    /\ Middle \notin safe
    /\ best' = Middle
    /\ high' = Middle - 1
    /\ UNCHANGED <<first, last, safe, low>>

\* candidate_is_safe: remember the candidate and search above it.
ProbeSafe ==
    /\ low <= high
    /\ Middle \in safe
    /\ best' = Middle
    /\ low' = Middle + 1
    /\ UNCHANGED <<first, last, safe, high>>

\* The candidate fails: search below it.
ProbeUnsafe ==
    /\ low <= high
    /\ Middle \notin safe
    /\ high' = Middle - 1
    /\ UNCHANGED <<first, last, safe, low, best>>

Next == ProbeSafe \/ ProbeUnsafe

\* The while loop runs until its condition fails, so it takes every step it can.
Spec == Init /\ [][Next]_vars /\ WF_vars(Next)

Finished == low > high

TypeOK ==
    /\ first \in Units
    /\ last \in Units
    /\ safe \in SUBSET Units
    /\ low \in 0 .. MaxUnits + 1
    /\ high \in -1 .. MaxUnits
    /\ best \in Units \cup {None}

\* A larger quantity is never safe where a smaller one of the interval is not.
SafeIsPrefix ==
    \A u, v \in first .. last : u < v /\ v \in safe => u \in safe

(***************************************************************************)
(* What the search returns is a candidate that passed the test, of the     *)
(* interval it was given, even when the test accepts a set with holes (a   *)
(* minimum fee, rounding to the quantum and a value too small to represent *)
(* all make some).  The engine relies on it: the result is traded.         *)
(***************************************************************************)
ResultIsSafe == best # None => best \in safe \cap (first .. last)

(***************************************************************************)
(* "Return the largest precision-safe quantity" (_cost_aware_target_       *)
(* quantity): when the safe candidates form a prefix of the interval, the  *)
(* finished search has the largest of them, and finds none only when there *)
(* is none.                                                                *)
(***************************************************************************)
ResultIsLargest ==
    Finished /\ SafeIsPrefix =>
        \/ best = None /\ safe \cap (first .. last) = {}
        \/ best # None /\ \A u \in safe \cap (first .. last) : u <= best

\* Every probe at least halves what is left, so a search over 10^12 units is
\* some forty probes and never a scan.
HalvesInterval ==
    [][2 * (high' - low' + 1) <= high - low + 1]_vars

=============================================================================
