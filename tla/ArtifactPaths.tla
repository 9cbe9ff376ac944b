--------------------------- MODULE ArtifactPaths ---------------------------
(***************************************************************************)
(* cli.py: the check of the artifact paths of one call, and what the call  *)
(* then does to the files behind them.  Names are resolved paths; two of   *)
(* them may differ only in case, on a file system that may or may not care *)
(* about it, and two may be links to one file.  Reports replace their      *)
(* name; the event log appends to its file and rotates into the names      *)
(* reserved for its backups.                                               *)
(***************************************************************************)
EXTENDS Integers, Sequences

CONSTANTS Names, Fold,  \* Fold: name -> the name in lower case
          Input,        \* the name of the input CSV
          Backup,       \* a name the log may be given -> the name of its backup
          NumFiles,     \* the files that may exist before the call, the input CSV first
          MaxFiles,     \* bounds the rotations
          None

\* What the parameters have to be.
PathAssumption ==
    /\ Fold \in [Names -> Names] /\ Input \in Names
    /\ DOMAIN Backup \subseteq Names /\ Backup \in [DOMAIN Backup -> Names]
    /\ NumFiles \in Nat \ {0}

Reports == <<"json", "equity">>
Files == 1 .. NumFiles

VARIABLES
    chosen,   \* label -> the name given for it, or None
    caseBlind,\* the file system ignores case
    dir,      \* place -> file, 0 for none
    content,  \* file -> the labels whose data it holds, or {"input"} or {"old"}
    pc,       \* "parsed", "logging", "reporting", "refused" or "done"
    next      \* the report to write next

vars == <<chosen, caseBlind, dir, content, pc, next>>

Place(name) == IF caseBlind THEN Fold[name] ELSE name
FileAt(name) == dir[Place(name)]

Init ==
    /\ chosen \in [{"json", "equity"} -> Names \cup {None}]
                  \X (DOMAIN Backup \cup {None})
    /\ caseBlind \in BOOLEAN
    /\ dir \in {d \in [Names -> Files \cup {0}] : d[Fold[Input]] = 1 /\ d[Input] = 1}
    /\ content = [f \in Files |-> IF f = 1 THEN {"input"} ELSE {"old"}]
    /\ pc = "parsed" /\ next = 1

Log == chosen[2]

\* The selected paths under their labels: the log brings its backups.
Selected ==
    LET reports == {label \in {"json", "equity"} : chosen[1][label] # None}
        logs == IF Log = None THEN {} ELSE {"log", "backup"}
    IN  [label \in reports \cup logs |->
            IF label = "log" THEN Log ELSE IF label = "backup" THEN Backup[Log]
            ELSE chosen[1][label]]

SameKey(a, b) == Fold[a] = Fold[b]

\* A mutant of SameFile: paths are compared, files are not.
SameFileNever(a, b) == FALSE

\* _same_existing_file
SameFile(a, b) == FileAt(a) # 0 /\ FileAt(a) = FileAt(b)

\* _validate_selected_artifact_paths: apart from the input and from each other.
PathsAreDistinct ==
    \A a \in DOMAIN Selected :
        /\ ~SameKey(Selected[a], Input) /\ ~SameFile(Selected[a], Input)
        /\ \A b \in DOMAIN Selected \ {a} : /\ ~SameKey(Selected[a], Selected[b])
                                           /\ ~SameFile(Selected[a], Selected[b])

Validate ==
    /\ pc = "parsed"
    /\ pc' = IF ~PathsAreDistinct THEN "refused" ELSE IF Log = None THEN "reporting" ELSE "logging"
    /\ UNCHANGED <<chosen, caseBlind, dir, content, next>>

NewFile == Len(content) + 1

\* A new file with the label's data under name.
Put(name, label) ==
    /\ content' = Append(content, {label})
    /\ dir' = [dir EXCEPT ![Place(name)] = NewFile]

\* The sink opens the log and appends to it.
AppendLog ==
    /\ pc = "logging" /\ pc' \in {"logging", "reporting"}
    /\ IF FileAt(Log) = 0 THEN Put(Log, "log")
       ELSE content' = [content EXCEPT ![FileAt(Log)] = @ \cup {"log"}] /\ UNCHANGED dir
    /\ UNCHANGED <<chosen, caseBlind, next>>

\* The handler rotates: the log's file moves to the backup's name.
Rotate ==
    /\ pc = "logging" /\ FileAt(Log) # 0 /\ "log" \in content[FileAt(Log)]
    /\ NewFile <= MaxFiles
    /\ content' = Append(content, {"log"})
    /\ dir' = [dir EXCEPT ![Place(Backup[Log])] = FileAt(Log), ![Place(Log)] = NewFile]
    /\ UNCHANGED <<chosen, caseBlind, pc, next>>

\* An export replaces its name.
Report ==
    /\ pc = "reporting" /\ next <= Len(Reports)
    /\ IF chosen[1][Reports[next]] = None THEN UNCHANGED <<dir, content>>
       ELSE Put(chosen[1][Reports[next]], Reports[next])
    /\ next' = next + 1
    /\ pc' = IF next = Len(Reports) THEN "done" ELSE pc
    /\ UNCHANGED <<chosen, caseBlind>>

Next == Validate \/ AppendLog \/ Rotate \/ Report

Spec == Init /\ [][Next]_vars

-----------------------------------------------------------------------------
(***************************************************************************)
(* Nothing the call writes goes to the input CSV, under any of its names.  *)
(***************************************************************************)
InputIsUntouched == FileAt(Input) = 1 /\ content[1] = {"input"}

(***************************************************************************)
(* No artifact is lost to another: when the call is done every report that *)
(* was asked for is under its name, alone in its file, and the log still   *)
(* leads to what was logged last.                                          *)
(***************************************************************************)
EveryArtifactSurvives ==
    pc = "done" =>
        /\ \A i \in DOMAIN Reports :
              LET name == chosen[1][Reports[i]]
              IN  name # None => content[FileAt(name)] = {Reports[i]}
        /\ Log # None => "log" \in content[FileAt(Log)]
=============================================================================
