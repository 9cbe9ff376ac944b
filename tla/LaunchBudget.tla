---------------------------- MODULE LaunchBudget ----------------------------
(***************************************************************************)
(* What the LEAN operator promises about its executions, whoever invokes   *)
(* it and whatever dies: the count goes up by one at a time and never past *)
(* the batch, a container is started under a number that was counted, that *)
(* no other start had and that is above all of theirs, and never while     *)
(* another one runs.                                                       *)
(***************************************************************************)
EXTENDS Naturals

CONSTANTS Prior, Maximum, None

VARIABLES counted,   \* the executions counted so far
          launched,  \* the numbers under which a container was started
          running    \* the number of the container that runs, or None

vars == <<counted, launched, running>>

Init == counted \in {0, Prior} /\ launched = {} /\ running = None

Count ==
    /\ counted \in Prior .. Maximum - 1
    /\ counted' = counted + 1
    /\ UNCHANGED <<launched, running>>

Launch(number) ==
    /\ running = None
    /\ number \in Prior + 1 .. counted
    /\ \A earlier \in launched : earlier < number
    /\ launched' = launched \cup {number}
    /\ running' = number
    /\ UNCHANGED counted

Exit ==
    /\ running # None
    /\ running' = None
    /\ UNCHANGED <<counted, launched>>

Next == Count \/ (\E number \in Prior + 1 .. Maximum : Launch(number)) \/ Exit

Spec == Init /\ [][Next]_vars
=============================================================================
