---------------------------- MODULE ArtifactStore ----------------------------
(***************************************************************************)
(* What artifacts.py promises the commands that use it and whoever reads   *)
(* the reports: a destination changes in one step, from what it held to    *)
(* the whole of an artifact, and a call puts its artifacts in place one    *)
(* after the other, in its order, leaving none out.  A call may stop       *)
(* after any of them; nothing is ever taken back.                          *)
(***************************************************************************)
EXTENDS Naturals, Sequences, SequencesExt

CONSTANTS Runs, Plan, Old, Missing

VARIABLES file,  \* destination -> what a reader finds there
          done   \* call -> the artifacts it has put in place

Destinations == UNION {ToSet(Plan[r]) : r \in Runs}

Init ==
    /\ file \in [Destinations -> {Old, Missing}]
    /\ done = [r \in Runs |-> 0]

\* The next artifact of the call, whole.
Put(r) ==
    /\ done[r] < Len(Plan[r])
    /\ file' = [file EXCEPT ![Plan[r][done[r] + 1]] = [by |-> r, whole |-> TRUE]]
    /\ done' = [done EXCEPT ![r] = @ + 1]

Next == \E r \in Runs : Put(r)

Spec == Init /\ [][Next]_<<file, done>>
=============================================================================
