------------------------ MODULE WalkForwardOperator ------------------------
(***************************************************************************)
(* trading_bot_lab.walk_forward.operator: the offline phases that turn the *)
(* evidence of each fold into one aggregate and show it again.  Two of     *)
(* them may run side by side, downloads may be replaced while a phase      *)
(* reads them, and a stored aggregate may be edited between phases.        *)
(* An observation is its format, its fold and one figure of it; a write is *)
(* atomic.  What makes an observation acceptable is in FoldEvidence and    *)
(* ResultImport.                                                           *)
(***************************************************************************)
EXTENDS Integers, Sequences, FiniteSets, FiniteSetsExt, SequencesExt

CONSTANTS FoldIds,       \* FOLD_IDS, in order
          Figures,       \* a figure of an observation, such as its return
          Processes,
          Outputs,       \* what --output may name, of Paths
          MaxChanges,    \* bound on what happens to files between steps
          None

\* What the parameters have to be.
OperatorAssumption ==
    /\ FoldIds \in Seq(ToSet(FoldIds)) /\ FoldIds # <<>> /\ IsInjective(FoldIds)
    /\ Figures \subseteq Int /\ MaxChanges \in Nat

Folds == ToSet(FoldIds)
Formats == {"log", "result"}
Observations == [format : Formats, fold : Folds, figure : Figures]

\* The report directory: a file of each fold, shared by both formats, and one
\* aggregate of each format.
DefaultAggregates == {"log aggregate", "result aggregate"}
Paths == Folds \cup DefaultAggregates

VARIABLES input,       \* what the log and the downloaded result hold
          files,       \* the report directory
          process,     \* what each running phase has read
          shown,       \* the evidence just printed
          changes

vars == <<input, files, process, shown, changes>>

Idle == [phase |-> "idle", format |-> None, out |-> None, paths |-> <<>>, read |-> <<>>]

Init ==
    /\ input = [format \in Formats |-> None] /\ files = [path \in Paths |-> None]
    /\ process = [p \in Processes |-> Idle] /\ shown = None /\ changes = 0

-----------------------------------------------------------------------------
\* aggregate_observations and aggregate_result_observations.

\* The middle one of the sorted figures: there are five folds, an odd number.
Middle(s) == SortSeq(s, <)[(Len(s) \div 2) + 1]
Summary(folds) ==
    LET figures == [i \in DOMAIN folds |-> folds[i].figure]
    IN  [positive |-> Cardinality({i \in DOMAIN folds : figures[i] > 0}),
         worst |-> Min(ToSet(figures)), median |-> Middle(figures), total |-> FoldSeq(+, 0, figures)]

CoversFolds(observed) ==
    /\ Len(observed) = Len(FoldIds)
    /\ {observed[i].fold : i \in DOMAIN observed} = Folds

InFoldOrder(observed) ==
    [i \in DOMAIN FoldIds |-> CHOOSE o \in ToSet(observed) : o.fold = FoldIds[i]]

Aggregate(format, observed) ==
    LET folds == InFoldOrder(observed)
    IN  [aggregate |-> format, folds |-> folds, summary |-> Summary(folds)]

IsObservation(content, format) ==
    content # None /\ "format" \in DOMAIN content /\ content.format = format
IsAggregate(content, format) ==
    content # None /\ "aggregate" \in DOMAIN content /\ content.aggregate = format

\* normalize_aggregate_record: the record is what follows from its folds.
\* (A mutant of it: the record is believed.)
AggregateTagged(content, format) == IsAggregate(content, format)
AggregateHolds(content, format) ==
    /\ IsAggregate(content, format) /\ CoversFolds(content.folds)
    /\ content = Aggregate(format, content.folds)

-----------------------------------------------------------------------------
\* The phases, one step for each file they open.
Become(p, r) == process' = [process EXCEPT ![p] = r]
Reads == shown' = None /\ UNCHANGED <<input, files, changes>>
Fail(p) == Become(p, Idle) /\ Reads

\* "extract" and "extract-result": the input is parsed to name the output
\* after its fold, unless --output names it ...
Parse(p, format, out) ==
    /\ process[p] = Idle
    /\ IF input[format] = None THEN Fail(p)
       ELSE /\ Become(p, [Idle EXCEPT !.phase = "extract", !.format = format,
                                      !.out = IF out = None THEN input[format].fold ELSE out])
            /\ Reads

\* ... and parsed again for what is written.
Reparse(p) ==
    /\ process[p].phase = "extract"
    /\ IF input[process[p].format] = None THEN Fail(p)
       ELSE /\ Become(p, [process[p] EXCEPT !.phase = "write", !.read = <<input[process[p].format]>>])
            /\ Reads

\* _safe_atomic_json: the file is replaced whole, or an OSError leaves it.
Store(p, content) ==
    \/ /\ files' = [files EXCEPT ![process[p].out] = content]
       /\ Become(p, Idle) /\ shown' = None /\ UNCHANGED <<input, changes>>
    \/ Fail(p)

Write(p) == process[p].phase = "write" /\ Store(p, process[p].read[1])

\* "aggregate" and "aggregate-result": as many paths as folds, none of them
\* the output, read one after the other.
BeginAggregate(p, format, paths, out) ==
    /\ process[p] = Idle
    /\ IF out \in ToSet(paths) THEN Fail(p)
       ELSE /\ Become(p, [Idle EXCEPT !.phase = "aggregate", !.format = format, !.paths = paths, !.out = out])
            /\ Reads

Load(p) ==
    LET r == process[p]
        content == files[r.paths[Len(r.read) + 1]]
    IN  /\ r.phase = "aggregate" /\ Len(r.read) < Len(r.paths)
        /\ IF ~IsObservation(content, r.format) THEN Fail(p)
           ELSE Become(p, [r EXCEPT !.read = Append(@, content)]) /\ Reads

WriteAggregate(p) ==
    LET r == process[p]
    IN  /\ r.phase = "aggregate" /\ Len(r.read) = Len(r.paths)
        /\ IF ~CoversFolds(r.read) THEN Fail(p) ELSE Store(p, Aggregate(r.format, r.read))

\* "evidence" and "evidence-result": the stored aggregate, derived again.
Evidence(p, format, path) ==
    /\ process[p] = Idle
    /\ IF ~AggregateHolds(files[path], format) THEN Fail(p)
       ELSE shown' = files[path] /\ UNCHANGED <<input, files, process, changes>>

-----------------------------------------------------------------------------
\* What happens around the phases (external): a download is replaced or is
\* unreadable, and someone edits a figure or a summary of an aggregate.
Change == changes < MaxChanges /\ changes' = changes + 1
NewInput(format, content) ==
    Change /\ input' = [input EXCEPT ![format] = content] /\ shown' = None /\ UNCHANGED <<files, process>>
Edit(path) ==
    /\ Change /\ files[path] # None /\ "aggregate" \in DOMAIN files[path]
    /\ \/ files' = [files EXCEPT ![path].summary.worst = @ + 1]
       \/ files' = [files EXCEPT ![path].folds[1].figure = @ + 1]
       \/ files' = [files EXCEPT ![path].folds[1] = files[path].folds[Len(FoldIds)]]
    /\ shown' = None /\ UNCHANGED <<input, process>>

PathLists == [DOMAIN FoldIds -> Folds]
Next ==
    \/ \E p \in Processes, format \in Formats, out \in Outputs \cup {None} : Parse(p, format, out)
    \/ \E p \in Processes : Reparse(p) \/ Write(p) \/ Load(p) \/ WriteAggregate(p)
    \/ \E p \in Processes, format \in Formats, paths \in PathLists, out \in Outputs :
          BeginAggregate(p, format, paths, out)
    \/ \E p \in Processes, format \in Formats, path \in Paths : Evidence(p, format, path)
    \/ \E content \in Observations : NewInput(content.format, content)
    \/ \E format \in Formats : NewInput(format, None)
    \/ \E path \in Paths : Edit(path)

Spec == Init /\ [][Next]_vars

-----------------------------------------------------------------------------
(* Correctness. *)

\* The types of the state (operator.py 137-200).
TypeOK ==
    /\ \A format \in Formats : input[format] \in {o \in Observations : o.format = format} \cup {None}
    /\ \A p \in Processes : /\ process[p].phase \in {"idle", "extract", "write", "aggregate"}
                            /\ Len(process[p].read) <= Len(FoldIds)
                            /\ \A i \in DOMAIN process[p].read :
                                  process[p].read[i].format = process[p].format
    /\ \A path \in Paths : \/ files[path] \in Observations \cup {None}
                           \/ files[path].aggregate \in Formats /\ Len(files[path].folds) = Len(FoldIds)

\* Evidence that is shown counts every fold once, in the order of the
\* protocol, all of one format, and sums up the very folds beside it: though
\* a fold's file may have been replaced between two reads, may hold another
\* fold than its name says, or the aggregate was edited after it was written
\* (observation.py 342-357, 425-430; result_json.py 252-264, 354-360).
ShownIsDerived ==
    shown # None =>
        /\ \A i \in DOMAIN FoldIds : /\ shown.folds[i].fold = FoldIds[i]
                                     /\ shown.folds[i].format = shown.aggregate
        /\ Len(shown.folds) = Len(FoldIds) /\ shown.summary = Summary(shown.folds)

\* The order in which the paths are given does not matter: whatever files
\* there are, two lists of the same files aggregate to the same record
\* (observation.py 357-358).
Contents(paths) == [i \in DOMAIN paths |-> files[paths[i]]]
OrderOfPathsIsFree ==
    \A format \in Formats, one, other \in PathLists :
        (/\ ToSet(one) = Folds /\ ToSet(other) = Folds
         /\ \A fold \in Folds : IsObservation(files[fold], format)
         /\ CoversFolds(Contents(one)))
        => Aggregate(format, Contents(one)) = Aggregate(format, Contents(other))
=============================================================================
