--------------------------- MODULE ArtifactWrites ---------------------------
(***************************************************************************)
(* artifacts.py under the commands that use it: calls of the program, each *)
(* writing its artifacts one after the other into directories they share.  *)
(* An artifact is written to a temporary sibling, flushed and moved over   *)
(* its destination; a failure removes the sibling and ends the call; the   *)
(* machine may stop at any point.  A reader may look at any time.          *)
(***************************************************************************)
EXTENDS Integers, Sequences, SequencesExt

CONSTANTS Runs,     \* the calls of the program
          Plan,     \* what each of them writes, in order
          Old,      \* what a destination held before them
          Missing

\* Every call writes something, and its manifest, if it has one, last.
ASSUME PlanAssumption ==
    \A r \in Runs :
        /\ Plan[r] \in Seq(ToSet(Plan[r])) /\ Plan[r] # <<>>
        /\ \A i \in DOMAIN Plan[r] : Plan[r][i] = "manifest" => i = Len(Plan[r])

VARIABLES
    file,    \* destination -> [by, whole], Old or Missing
    temps,   \* the temporary siblings, [by, path, whole]
    at,      \* run -> the number of the artifact it is writing
    pc,      \* run -> "prepare", "writing", "flushed", "cleaning" or an end
    stuck,   \* the runs that could not remove a temporary
    placed   \* destination -> the runs whose artifact was moved there, in order

vars == <<file, temps, at, pc, stuck, placed>>

Paths == UNION {ToSet(Plan[r]) : r \in Runs}
Ends == {"succeeded", "failed", "crashed"}

Init ==
    /\ file \in [Paths -> {Old, Missing}]
    /\ temps = {} /\ at = [r \in Runs |-> 1] /\ stuck = {}
    /\ pc = [r \in Runs |-> "prepare"]
    /\ placed = [p \in Paths |-> <<>>]

Path(r) == Plan[r][at[r]]
Whole(r) == [by |-> r, path |-> Path(r), whole |-> TRUE]
Part(r)  == [by |-> r, path |-> Path(r), whole |-> FALSE]

Goto(r, label) == pc' = [pc EXCEPT ![r] = label]

\* _prepare_destination and mkstemp; both may fail with nothing to clean.
Prepare(r) ==
    /\ pc[r] = "prepare"
    /\ \/ Goto(r, "failed") /\ UNCHANGED temps
       \/ Goto(r, "writing") /\ temps' = temps \cup {Part(r)}
    /\ UNCHANGED <<file, at, stuck, placed>>

\* The text or the rows are written, flushed and synced; a row may raise.
Fill(r) ==
    /\ pc[r] = "writing"
    /\ \/ Goto(r, "cleaning") /\ UNCHANGED temps
       \/ Goto(r, "flushed") /\ temps' = (temps \ {Part(r)}) \cup {Whole(r)}
    /\ UNCHANGED <<file, at, stuck, placed>>

\* A mutant of MayReplace: the temporary is moved before it is flushed.
MayReplaceEarly(r) == pc[r] \in {"writing", "flushed"}

MayReplace(r) == pc[r] = "flushed"

\* os.replace; then the next artifact, or the end of the call.
Replace(r) ==
    /\ MayReplace(r)
    /\ \E t \in temps :
          /\ t.by = r /\ t.path = Path(r)
          /\ \/ /\ file' = [file EXCEPT ![Path(r)] = [by |-> r, whole |-> t.whole]]
                /\ temps' = temps \ {t}
                /\ placed' = [placed EXCEPT ![Path(r)] = Append(@, r)]
                /\ at' = [at EXCEPT ![r] = @ + 1]
                /\ Goto(r, IF at[r] = Len(Plan[r]) THEN "succeeded" ELSE "prepare")
             \/ Goto(r, "cleaning") /\ UNCHANGED <<file, temps, placed, at>>
    /\ UNCHANGED stuck

\* except: the temporary is removed if it can be, and the exception goes on.
Clean(r) ==
    /\ pc[r] = "cleaning" /\ Goto(r, "failed")
    /\ \/ temps' = {t \in temps : t.by # r} /\ UNCHANGED stuck
       \/ stuck' = stuck \cup {r} /\ UNCHANGED temps
    /\ UNCHANGED <<file, at, placed>>

Crash(r) ==
    /\ pc[r] \notin Ends /\ Goto(r, "crashed")
    /\ UNCHANGED <<file, temps, at, stuck, placed>>

Next == \E r \in Runs : Prepare(r) \/ Fill(r) \/ Replace(r) \/ Clean(r) \/ Crash(r)

Spec == Init /\ [][Next]_vars

-----------------------------------------------------------------------------
(***************************************************************************)
(* Types; and a temporary belongs to a call that is still writing, was cut *)
(* off, or could not remove it.                                            *)
(***************************************************************************)
TypeOK ==
    /\ \A r \in Runs : pc[r] \in Ends \cup {"prepare", "writing", "flushed", "cleaning"}
    /\ \A t \in temps : \/ pc[t.by] \in {"writing", "flushed", "cleaning", "crashed"}
                        \/ pc[t.by] = "failed" /\ t.by \in stuck

(***************************************************************************)
(* A reader never finds part of an artifact: a destination holds what it   *)
(* held before or the whole of what the last call to finish it put there,  *)
(* whatever fails, and however calls overlap (docs/report-schemas.md: "A   *)
(* pre-existing destination is preserved if replacement fails").           *)
(***************************************************************************)
NeverTorn ==
    \A p \in Paths :
        IF placed[p] = <<>> THEN file[p] \in {Old, Missing}
        ELSE file[p] = [by |-> Last(placed[p]), whole |-> TRUE]

(***************************************************************************)
(* A manifest is the last artifact of its call: when one is in place, its  *)
(* call has put every file it names in place before it.  What a reader     *)
(* finds there may be a later call's: the manifest holds no digests.       *)
(***************************************************************************)
ManifestIsLast ==
    \A r \in Runs :
        "manifest" \in ToSet(Plan[r]) /\ r \in ToSet(placed["manifest"]) =>
            \A p \in ToSet(Plan[r]) : r \in ToSet(placed[p])

\* What a reader and the calls rely on, with what is in place counted.
Store == INSTANCE ArtifactStore WITH done <- [r \in Runs |-> at[r] - 1]

(***************************************************************************)
(* The writer is an atomic store: a temporary, a failure, a removal or a   *)
(* crash is invisible there, and a move is one whole artifact, the next of *)
(* its call.                                                               *)
(***************************************************************************)
ImplementsStore == Store!Spec
=============================================================================
