---------------------------- MODULE CommandLine ----------------------------
(***************************************************************************)
(* cli.py: one call of the backtest or of the paper-replay command, from   *)
(* its arguments to its exit code.  The replay session is seen through its *)
(* status and the bars it has processed (PaperReplay is the module about   *)
(* it); a bar may be processed, halt the session or raise, and so may what *)
(* lies between the bars.  The event sink may fail to close, an export may *)
(* fail, and the user may interrupt the replay or an export.               *)
(***************************************************************************)
EXTENDS Integers, Sequences, SequencesExt

CONSTANTS NumBars, None

\* What the parameters have to be.
CommandAssumption == NumBars \in Nat \ {0} /\ None \notin Int

ResultExports == {"equity", "trades"}   \* of the four CSV exports
Exports == ResultExports \cup {"json"}

VARIABLES
    args,     \* [command, pause, kill, stop, exports]
    pc,       \* "parsed", "loop", "closing", "exporting" or "exited"
    status,   \* of the session
    cursor,   \* bars processed
    pauses,   \* the cursors at which the session was paused
    failure,  \* the exception _paper_replay keeps for its exit code
    raised,   \* an exception on its way out, as its exit code, or None
    sink,     \* "none", "open" or "closed"
    summary,  \* [status, bars], or None
    disclosed,\* the summary or result carries the warning of the close
    written,  \* the exports written, in order
    exit      \* the exit code; None while running

vars == <<args, pc, status, cursor, pauses, failure, raised, sink, summary, disclosed,
          written, exit>>

Limits == {None} \cup 0 .. NumBars

Init ==
    /\ args \in [command : {"backtest", "paper"}, pause : Limits, kill : Limits,
                 stop : Limits, exports : SUBSET Exports, log : BOOLEAN]
    /\ args.command = "backtest" =>
          args.pause = None /\ args.kill = None /\ args.stop = None
    /\ pc = "parsed" /\ status = "none" /\ cursor = 0 /\ pauses = <<>>
    /\ failure = FALSE /\ raised = None /\ sink = "none" /\ summary = None
    /\ disclosed = FALSE /\ written = <<>> /\ exit = None

-----------------------------------------------------------------------------
TerminalAfter == IF args.kill # None THEN args.kill ELSE args.stop

\* A mutant of ArgumentsAreValid: the row count itself is allowed.
ArgumentsMayEnd ==
    /\ args.pause # None => 0 < args.pause /\ args.pause < NumBars
    /\ args.kill = None \/ args.stop = None
    /\ None \notin {args.pause, TerminalAfter} => args.pause <= TerminalAfter
    /\ TerminalAfter = 0 => args.exports \cap ResultExports = {}

ArgumentsAreValid ==
    /\ args.pause # None => 0 < args.pause /\ args.pause < NumBars
    /\ \A limit \in {args.kill, args.stop} : limit # None => limit < NumBars
    /\ args.kill = None \/ args.stop = None
    /\ None \notin {args.pause, TerminalAfter} => args.pause <= TerminalAfter
    /\ TerminalAfter = 0 => args.exports \cap ResultExports = {}

Exit(code) == pc' = "exited" /\ exit' = code

\* main returns 2 for the exceptions it expects, the interpreter 1 for others
\* and 130 for an interruption.
ErrorCodes == {1, 2}
Interrupted == 130

\* Arguments, paths or data are refused before anything is opened.
Refuse ==
    /\ pc = "parsed" /\ Exit(2)
    /\ UNCHANGED <<args, status, cursor, pauses, failure, raised, sink, summary, disclosed,
                   written>>

\* The sink is opened and the session constructed and started; killed or
\* stopped instead when the limit is 0.  Each may raise.
Open ==
    /\ pc = "parsed" /\ ArgumentsAreValid
    /\ sink' = IF args.log THEN "open" ELSE "none"
    /\ \/ raised' \in ErrorCodes /\ pc' = "closing" /\ UNCHANGED <<status, failure, summary>>
       \/ /\ args.command = "paper"
          /\ \/ /\ status' = IF args.kill = 0 THEN "halted"
                             ELSE IF args.stop = 0 THEN "stopped" ELSE "running"
                /\ UNCHANGED failure
             \/ status' = "failed" /\ failure' = TRUE
          /\ pc' = IF status' = "running" THEN "loop" ELSE "closing"
          /\ summary' = IF status' = "running" THEN None ELSE [status |-> status', bars |-> 0]
          /\ UNCHANGED raised
       \/ /\ args.command = "backtest"
          /\ summary' = [status |-> "completed", bars |-> NumBars] /\ pc' = "closing"
          /\ UNCHANGED <<raised, status, failure>>
    /\ UNCHANGED <<args, cursor, pauses, disclosed, written, exit>>

\* session.step: what a bar may end in.
StatusAfter(c) == {"halted", IF c = NumBars THEN "completed" ELSE "running"}

\* The kill switch, then the stop, if the session is still running.
Controlled(s, c) ==
    IF s # "running" THEN s
    ELSE IF args.kill = c THEN "halted" ELSE IF args.stop = c THEN "stopped" ELSE s

Paused(s, c) == s = "running" /\ c = args.pause

\* One turn of the loop of _paper_replay; summary() follows the last one.
Turn ==
    /\ pc = "loop"
    /\ \/ \E s \in StatusAfter(cursor + 1) :
             /\ cursor' = cursor + 1
             /\ pauses' = IF Paused(s, cursor') THEN Append(pauses, cursor') ELSE pauses
             /\ status' = Controlled(s, cursor')
             /\ UNCHANGED failure
       \/ \* the bar raises, and the session has failed itself
          /\ status' = "failed" /\ failure' = TRUE /\ UNCHANGED <<cursor, pauses>>
       \/ \* a control or the sleep raises: fail_runtime
          /\ cursor' = cursor + 1 /\ cursor' < NumBars
          /\ status' = "failed" /\ failure' = TRUE
          /\ pauses' = IF Paused("running", cursor') THEN Append(pauses, cursor') ELSE pauses
    /\ pc' = IF status' = "running" THEN "loop" ELSE "closing"
    /\ summary' = IF status' = "running" THEN None ELSE [status |-> status', bars |-> cursor']
    /\ UNCHANGED <<args, raised, sink, disclosed, written, exit>>

\* An interruption passes every except clause and only meets the finally.
Interrupt ==
    /\ pc = "loop" /\ raised' = Interrupted /\ pc' = "closing"
    /\ UNCHANGED <<args, status, cursor, pauses, failure, sink, summary, disclosed, written,
                   exit>>

\* finally: sink.close(); its warning goes into the summary or result.
CloseSink ==
    /\ pc = "closing"
    /\ sink' = IF sink = "open" THEN "closed" ELSE sink
    /\ IF raised # None THEN Exit(raised) ELSE pc' = "exporting" /\ UNCHANGED exit
    /\ disclosed' \in {FALSE, sink = "open" /\ raised = None}
    /\ UNCHANGED <<args, status, cursor, pauses, failure, raised, summary, written>>

\* The result exists once a bar was processed.
HasResult == summary.bars > 0

\* The order of the exports: a backtest writes its report first, a replay the
\* manifest that names the other files last.
Order == IF args.command = "backtest" THEN <<"json", "equity", "trades">>
         ELSE <<"equity", "trades", "json">>

\* The places in Order of what was asked for, has its data and is yet to be written.
Pending == {i \in DOMAIN Order : /\ Order[i] \in args.exports
                                 /\ Order[i] \in ResultExports => HasResult
                                 /\ Order[i] \notin ToSet(written)}

\* _artifact_path_mapping: what the manifest names.
Named == {e \in args.exports : e \in ResultExports => HasResult}

Export ==
    /\ pc = "exporting"
    /\ \E i \in Pending :
          /\ \A j \in Pending : i <= j
          /\ \/ written' = Append(written, Order[i]) /\ UNCHANGED <<pc, exit>>
             \/ (\E code \in ErrorCodes \cup {Interrupted} : Exit(code)) /\ UNCHANGED written
    /\ UNCHANGED <<args, status, cursor, pauses, failure, raised, sink, summary, disclosed>>

Finish ==
    /\ pc = "exporting" /\ Pending = {}
    /\ Exit(IF failure THEN 2 ELSE 0)
    /\ UNCHANGED <<args, status, cursor, pauses, failure, raised, sink, summary, disclosed,
                   written>>

Next == Refuse \/ Open \/ Turn \/ Interrupt \/ CloseSink \/ Export \/ Finish

Spec == Init /\ [][Next]_vars

-----------------------------------------------------------------------------
(***************************************************************************)
(* Types; the sink is closed when the program ends, however it ends.       *)
(***************************************************************************)
TypeOK ==
    /\ pc \in {"parsed", "loop", "closing", "exporting", "exited"}
    /\ cursor \in 0 .. NumBars /\ exit \in {None, 0, Interrupted} \cup ErrorCodes
    /\ ToSet(written) \subseteq args.exports
    /\ pc = "exited" => sink # "open"

(***************************************************************************)
(* A control that was accepted is never passed over: a replay told to stop *)
(* or to kill after n bars never processes more and never completes, and   *)
(* one told to pause has paused there, once, if it went any further.       *)
(***************************************************************************)
ControlsTakeEffect ==
    summary # None /\ args.command = "paper" =>
        /\ args.kill # None => summary.bars <= args.kill /\ summary.status \in {"halted", "failed"}
        /\ args.stop # None => /\ summary.bars <= args.stop
                               /\ summary.status \in {"halted", "failed", "stopped"}
        /\ args.pause # None /\ summary.bars > args.pause => pauses = <<args.pause>>
        /\ Len(pauses) <= 1

(***************************************************************************)
(* Exit code 0 means that the session did not fail and that every export   *)
(* that was asked for was written, although an export without a result is  *)
(* passed over in silence; a manifest is only written when the files it    *)
(* names have been; and a session that failed still has its manifest       *)
(* unless an export failed as well.                                        *)
(***************************************************************************)
ExitTells ==
    /\ exit = 0 => ~failure /\ ToSet(written) = args.exports
    /\ args.command = "paper" /\ "json" \in ToSet(written) => Named \subseteq ToSet(written)
    /\ exit = 2 /\ failure /\ Pending = {} => Named = ToSet(written)
=============================================================================
