------------------------------ MODULE EventLog ------------------------------
(***************************************************************************)
(* observability.py: the structured event sink and the rotating file       *)
(* handler below it.  A call of the sink formats one event and hands it to *)
(* the handler, which may first rotate the log: the oldest backup is       *)
(* removed, every other file moves up by one, a new log is opened.  Any    *)
(* operation on a file may fail; the handler passes the failure on, the    *)
(* engine turns the first one into a warning and goes on.                  *)
(*                                                                         *)
(* The handler is the standard library's, external, and modelled as the    *)
(* sink uses it.  An event is its number; 0 stands for what an earlier     *)
(* session left in the log.  Sizes are abstract; an event is measured when *)
(* it is formatted.                                                        *)
(***************************************************************************)
EXTENDS Integers, Sequences, SequencesExt

CONSTANTS NumEvents, BackupCount, MaxBytes, Sizes, Absent

\* What the parameters have to be.
LogAssumption ==
    /\ NumEvents \in Nat /\ BackupCount \in Nat \ {0} /\ MaxBytes \in Nat \ {0}
    /\ Sizes \subseteq Nat \ {0} /\ Absent \notin Seq(Int)

VARIABLES
    pc,       \* "idle", "rolling", "writing" or "closed"
    files,    \* 0 is the log, i its i-th backup: the events, or Absent
    size,     \* the size of every event published so far
    stream,   \* "open", "none" or "broken": closed, but still referred to
    level,    \* rolling: the file that moves up next
    rotated,  \* the events that left with the oldest backup
    failed,   \* a file operation has failed
    warned    \* the summary carries event_sink_failure

vars == <<pc, files, size, stream, level, rotated, failed, warned>>

Published == DOMAIN size
Total(numbers) ==
    LET upTo[n \in 0 .. Len(numbers)] == IF n = 0 THEN 0 ELSE upTo[n - 1] + numbers[n]
    IN  upTo[Len(numbers)]
Bytes(file) == Total([i \in DOMAIN file |-> IF file[i] = 0 THEN 1 ELSE size[file[i]]])

Init ==
    /\ pc = "idle" /\ size = <<>> /\ stream = "open" /\ level = 0
    /\ files \in [0 .. BackupCount -> {Absent, <<0>>}] /\ files[0] # Absent
    /\ rotated = {} /\ failed = FALSE /\ warned = FALSE

-----------------------------------------------------------------------------
\* A mutant of Disclose: the handler of the library prints and goes on.
Swallow == failed' = TRUE /\ UNCHANGED warned

\* _PropagatingRotatingFileHandler.handleError, and the engine that catches it.
Disclose == failed' = TRUE /\ warned' = TRUE

Fail == pc' = "idle" /\ Disclose

Quiet == UNCHANGED <<failed, warned>>

Event == Len(size)

Content(i) == IF files[i] = Absent THEN <<>> ELSE files[i]

\* shouldRollover, for an event that was already appended to size.
MustRoll(bytes) == Bytes(Content(0)) + bytes >= MaxBytes

\* __call__: an absent stream is opened; a broken one fails.
Publish(bytes) ==
    /\ pc = "idle" /\ Event < NumEvents
    /\ size' = Append(size, bytes)
    /\ IF stream = "broken" THEN Fail /\ UNCHANGED <<files, stream, level>>
       ELSE /\ files' = [files EXCEPT ![0] = IF @ = Absent THEN <<>> ELSE @]
            /\ stream' = "open" /\ Quiet
            /\ IF MustRoll(bytes)
                 THEN pc' = "rolling" /\ level' = BackupCount
                 ELSE pc' = "writing" /\ UNCHANGED level
    /\ UNCHANGED rotated

\* An absent stream cannot be opened.
OpenFails(bytes) ==
    /\ pc = "idle" /\ Event < NumEvents /\ stream = "none"
    /\ size' = Append(size, bytes) /\ Fail
    /\ UNCHANGED <<files, stream, level, rotated>>

\* doRollover closes the stream first; when that fails the stream stays.
CloseForRoll ==
    /\ pc = "rolling" /\ stream = "open"
    /\ \/ stream' = "none" /\ Quiet /\ UNCHANGED pc
       \/ stream' = "broken" /\ Fail
    /\ UNCHANGED <<files, size, level, rotated>>

Shifted(f, i) == f[i - 1]

\* What the removal of file i takes out of the log.
Removed(i) == IF files[i] = Absent THEN {} ELSE ToSet(files[i])

\* File level - 1 moves up: its destination is removed, then it is renamed;
\* either may fail.
Shift ==
    /\ pc = "rolling" /\ stream = "none" /\ level > 0
    /\ IF files[level - 1] = Absent
         THEN level' = level - 1 /\ Quiet /\ UNCHANGED <<pc, files, rotated>>
         ELSE \/ Fail /\ UNCHANGED <<files, level, rotated>>
              \/ /\ Fail /\ UNCHANGED level
                 /\ files' = [files EXCEPT ![level] = Absent]
                 /\ rotated' = rotated \cup Removed(level)
              \/ /\ files' = [files EXCEPT ![level] = Shifted(files, level),
                                           ![level - 1] = Absent]
                 /\ rotated' = rotated \cup Removed(level)
                 /\ level' = level - 1 /\ Quiet /\ UNCHANGED pc
    /\ UNCHANGED <<size, stream>>

\* The end of doRollover: the new log.
OpenNew ==
    /\ pc = "rolling" /\ stream = "none" /\ level = 0
    /\ \/ Fail /\ UNCHANGED <<files, stream>>
       \/ /\ files' = [files EXCEPT ![0] = <<>>] /\ stream' = "open"
          /\ pc' = "writing" /\ Quiet
    /\ UNCHANGED <<size, level, rotated>>

\* The record is written and flushed; a failure may leave it in the file.
Write ==
    /\ pc = "writing"
    /\ \/ /\ files' = [files EXCEPT ![0] = Append(@, Event)]
          /\ pc' = "idle" /\ Quiet
       \/ Fail /\ UNCHANGED files
       \/ Fail /\ files' = [files EXCEPT ![0] = Append(@, Event)]
    /\ UNCHANGED <<size, stream, level, rotated>>

\* close: the last flush or the close may fail, and fail on a broken stream;
\* _append_summary_warning adds the warning unless the summary has it.
Close ==
    /\ pc = "idle" /\ pc' = "closed"
    /\ \/ stream # "broken" /\ Quiet
       \/ stream # "none" /\ Disclose
    /\ UNCHANGED <<files, size, stream, level, rotated>>

Next ==
    \/ \E bytes \in Sizes : Publish(bytes) \/ OpenFails(bytes)
    \/ CloseForRoll
    \/ Shift
    \/ OpenNew
    \/ Write
    \/ Close

Spec == Init /\ [][Next]_vars

-----------------------------------------------------------------------------
\* The events of this session that are in the files.
Retained == (UNION {ToSet(Content(i)) : i \in 0 .. BackupCount}) \ {0}

(***************************************************************************)
(* Types; and a broken stream is one whose failure was disclosed.          *)
(***************************************************************************)
TypeOK ==
    /\ pc \in {"idle", "rolling", "writing", "closed"}
    /\ \A i \in 0 .. BackupCount : files[i] # Absent => ToSet(files[i]) \subseteq 0 .. Event
    /\ stream \in {"open", "none", "broken"} /\ level \in 0 .. BackupCount
    /\ rotated \subseteq 0 .. Event
    /\ stream = "broken" => warned

(***************************************************************************)
(* "A write, flush, or close failure produces one typed event_sink_failure *)
(* warning" (docs/paper-replay.md): an event that is missing from the log  *)
(* was rotated out of it, or the summary says that events may be missing.  *)
(***************************************************************************)
LossIsDisclosed ==
    pc \in {"idle", "closed"} =>
        \A e \in Published : e \in Retained \cup rotated \/ warned

(***************************************************************************)
(* The files, oldest first, hold the events in the order they were         *)
(* published, none twice, and rotation only ever took older ones: a reader *)
(* of the backups sees the end of the session without a seam.              *)
(***************************************************************************)
OldestLeaveFirst ==
    /\ \A i \in 0 .. BackupCount : \A a, b \in DOMAIN Content(i) :
          a < b => Content(i)[a] < Content(i)[b]
    /\ \A i, j \in 0 .. BackupCount : i < j =>
          \A older \in ToSet(Content(j)), newer \in ToSet(Content(i)) :
             older < newer \/ (older = 0 /\ newer = 0)
    /\ \A e \in rotated, k \in Retained : e < k

(***************************************************************************)
(* The log and its backups are bounded (test_structured_sink_rotation_     *)
(* keeps_each_retained_file_bounded): no file reaches the limit unless it  *)
(* holds a single record.                                                  *)
(***************************************************************************)
FilesAreBounded ==
    \A i \in 0 .. BackupCount : Bytes(Content(i)) < MaxBytes \/ Len(Content(i)) <= 1
=============================================================================
