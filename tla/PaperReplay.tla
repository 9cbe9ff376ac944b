---------------------------- MODULE PaperReplay ----------------------------
(***************************************************************************)
(* paper.py: HistoricalReplaySession, the typed lifecycle around one       *)
(* simulation engine.  Bars are handed to the engine one at a time, by     *)
(* step() or by the loop of run_to_completion(); between two bars the      *)
(* caller, or the sleeper the loop calls, may pause, stop or kill the      *)
(* session.  The engine is its contract.                                   *)
(*                                                                         *)
(* Every transition and every committed bar publishes events to the sink   *)
(* before the call goes on.  A sink only listens, or it holds the session  *)
(* and calls it back from there: publishing within a delivery raises, so   *)
(* what such a call changes in the engine is rolled back, and what it      *)
(* changes in the session stays.                                           *)
(***************************************************************************)
EXTENDS EngineContract, Sequences

CONSTANTS
    Sleeps,        \* replay_speed_seconds > 0: the loop calls the sleeper
    Sinks          \* the sinks a session may be given: "listening", "calling"

ASSUME ReplayAssumption ==
    /\ Bars > 0
    /\ Sleeps \in BOOLEAN
    /\ Sinks \subseteq {"listening", "calling"}

VARIABLES
    status,      \* _status
    cursor,      \* _cursor: bars handed over and accounted for
    failure,     \* _failure_reason: "none", "bar" or "runtime"
    inBar,       \* process_bar is on the stack
    todo,        \* what is left of the call under way, in order
    delivering,  \* an event is being delivered
    loop,        \* where run_to_completion stands, or "off"
    sink         \* the sink it was given

sessionVars == <<status, cursor, failure, inBar, todo, delivering, loop>>
vars == <<contractVars, sessionVars>>

Active   == {"validated", "running", "paused"}
Terminal == {"stopped", "completed", "halted", "failed"}
Status   == {"created"} \cup Active \cup Terminal

\* _LEGAL_TRANSITIONS
LegalTransitions ==
    [from \in Status |->
        CASE from = "created"   -> {"validated", "failed"}
          [] from = "validated" -> {"running", "stopped", "halted", "failed"}
          [] from = "running"   -> {"paused", "stopped", "completed", "halted", "failed"}
          [] from = "paused"    -> {"running", "stopped", "halted", "failed"}
          [] OTHER              -> {}]

\* The construction: the session is created and its data is validated.
Init ==
    /\ ContractInit
    /\ status = "created"
    /\ cursor = 0
    /\ failure = "none"
    /\ inBar = FALSE
    /\ todo = <<"publish", "validated", "constructed">>
    /\ delivering = FALSE
    /\ loop = "off"
    /\ sink \in Sinks

-----------------------------------------------------------------------------
\* No call is on the stack but, between two bars, the loop's.
Quiet == todo = <<>> /\ ~delivering /\ ~inBar

\* The caller may act, or, from within the loop, the sleeper it calls.
MayControl == Quiet /\ loop \in {"off", "sleep"}

\* expire_pending_signal: its event is delivered before the call goes on.
Expired(rest) ==
    /\ signal' = Nothing
    /\ delivering' = (signal # Nothing)
    /\ todo' = rest
    /\ UNCHANGED <<processed, holding, halted, failed>>

\* start, pause and resume: one transition, from one status.
Control(from, to) ==
    /\ MayControl
    /\ status = from
    /\ todo' = <<to>>
    /\ UNCHANGED <<contractVars, status, cursor, failure, inBar, delivering, loop>>

Start  == Control("validated", "running")
Pause  == Control("running", "paused")
Resume == Control("paused", "running")

Stop ==
    /\ MayControl
    /\ status \in Active
    /\ Expired(<<"stopped">>)
    /\ UNCHANGED <<status, cursor, failure, inBar, loop>>

KillSwitch ==
    /\ MayControl
    /\ status \in Active
    /\ Expired(<<"latch", "halted">>)
    /\ UNCHANGED <<status, cursor, failure, inBar, loop>>

\* fail_runtime: the sleeper raised, or the caller's own loop did.
FailRuntime ==
    /\ MayControl
    /\ status \in Active
    /\ failure' = "runtime"
    /\ Expired(<<"failed">>)
    /\ UNCHANGED <<status, cursor, inBar, loop>>

RunToCompletion ==
    /\ Quiet
    /\ loop = "off"
    /\ status \in Active
    /\ loop' = "step"
    /\ todo' = IF status = "running" THEN <<>> ELSE <<"running">>
    /\ UNCHANGED <<contractVars, status, cursor, failure, inBar, delivering>>

-----------------------------------------------------------------------------
\* A mutant of BeginStep: a paused session steps as well.
BeginStepPaused ==
    /\ Quiet
    /\ status \in {"running", "paused"}
    /\ loop # "check"
    /\ loop' = IF loop = "step" THEN "check" ELSE loop
    /\ IF cursor >= Bars
         THEN inBar' = FALSE /\ Expired(<<"completed">>)
         ELSE inBar' = TRUE /\ UNCHANGED <<contractVars, todo, delivering>>
    /\ UNCHANGED <<status, cursor, failure>>

\* step, up to the call of the engine.
BeginStep ==
    /\ Quiet
    /\ status = "running"
    /\ loop # "check"
    /\ loop' = IF loop = "step" THEN "check" ELSE loop
    /\ IF cursor >= Bars
         THEN inBar' = FALSE /\ Expired(<<"completed">>)
         ELSE inBar' = TRUE /\ UNCHANGED <<contractVars, todo, delivering>>
    /\ UNCHANGED <<status, cursor, failure>>

\* process_bar has committed the bar and delivers its events.
BarCommits ==
    /\ inBar
    /\ ~delivering
    /\ todo = <<>>
    /\ CommitBar
    /\ delivering' = TRUE
    /\ todo' = <<"account">>
    /\ UNCHANGED <<status, cursor, failure, inBar, loop>>

BarRaises ==
    /\ inBar
    /\ ~delivering
    /\ todo = <<>>
    /\ FailBar
    /\ inBar' = FALSE
    /\ failure' = "bar"
    /\ todo' = <<"failed">>
    /\ UNCHANGED <<status, cursor, delivering, loop>>

\* A mutant of AccountBar: a bar that halts is not counted.
AccountBarUnlessHalted ==
    /\ ~delivering
    /\ todo = <<"account">>
    /\ cursor' = IF halted THEN cursor ELSE cursor + 1
    /\ inBar' = FALSE
    /\ IF halted THEN Expired(<<"halted">>)
       ELSE IF cursor' = Bars THEN Expired(<<"completed">>)
       ELSE todo' = <<>> /\ UNCHANGED <<contractVars, delivering>>
    /\ UNCHANGED <<status, failure, loop>>

\* process_bar has returned: the rest of step.
AccountBar ==
    /\ ~delivering
    /\ todo = <<"account">>
    /\ cursor' = cursor + 1
    /\ inBar' = FALSE
    /\ IF halted THEN Expired(<<"halted">>)
       ELSE IF cursor' = Bars THEN Expired(<<"completed">>)
       ELSE todo' = <<>> /\ UNCHANGED <<contractVars, delivering>>
    /\ UNCHANGED <<status, failure, loop>>

\* _latch_halt in activate_kill_switch; without a bar there is no event.
LatchHalt ==
    /\ ~delivering
    /\ todo # <<>> /\ Head(todo) = "latch"
    /\ halted' = TRUE
    /\ delivering' = (~halted /\ processed > 0)
    /\ todo' = Tail(todo)
    /\ UNCHANGED <<processed, holding, signal, failed,
                   status, cursor, failure, inBar, loop>>

\* The "session_created" event of the construction.
PublishCreated ==
    /\ ~delivering
    /\ todo # <<>> /\ Head(todo) = "publish"
    /\ delivering' = TRUE
    /\ todo' = Tail(todo)
    /\ UNCHANGED <<contractVars, status, cursor, failure, inBar, loop>>

\* _transition: the status changes, then the event is published.
Transition ==
    /\ ~delivering
    /\ todo # <<>> /\ Head(todo) \in LegalTransitions[status]
    /\ status' = Head(todo)
    /\ delivering' = TRUE
    /\ todo' = Tail(todo)
    /\ UNCHANGED <<contractVars, cursor, failure, inBar, loop>>

\* The sink came back, or raised: the engine is what it was before the call.
Delivered ==
    /\ delivering
    /\ delivering' = FALSE
    /\ UNCHANGED <<contractVars, status, cursor, failure, inBar, todo, loop>>

Constructed ==
    /\ ~delivering
    /\ todo = <<"constructed">>
    /\ todo' = <<>>
    /\ UNCHANGED <<contractVars, status, cursor, failure, inBar, delivering, loop>>

\* A mutant of LoopEnds: the loop spins on a session the sleeper paused.
LoopEndsTerminal ==
    /\ Quiet
    /\ loop \in {"step", "check"}
    /\ status \in Terminal
    /\ loop' = "off"
    /\ UNCHANGED <<contractVars, status, cursor, failure, inBar, todo, delivering>>

\* The loop sees that the session no longer runs, or passes the exception on.
LoopEnds ==
    /\ Quiet
    /\ loop \in {"step", "check"}
    /\ status # "running"
    /\ loop' = "off"
    /\ UNCHANGED <<contractVars, status, cursor, failure, inBar, todo, delivering>>

LoopContinues ==
    /\ Quiet
    /\ loop = "check"
    /\ status = "running"
    /\ loop' = IF Sleeps THEN "sleep" ELSE "step"
    /\ UNCHANGED <<contractVars, status, cursor, failure, inBar, todo, delivering>>

\* The sleeper returns.
Wake ==
    /\ Quiet
    /\ loop = "sleep"
    /\ loop' = "step"
    /\ UNCHANGED <<contractVars, status, cursor, failure, inBar, todo, delivering>>

-----------------------------------------------------------------------------
(***************************************************************************)
(* The sink calls back while an event is being delivered; it has the       *)
(* session only once it is constructed.  A transition is recorded before   *)
(* its own publication raises.                                             *)
(***************************************************************************)
SinkTransition(to) ==
    /\ delivering
    /\ sink = "calling"
    /\ status # "created" /\ todo # <<"constructed">>
    /\ to \in LegalTransitions[status]
    /\ status' = to
    /\ UNCHANGED <<contractVars, cursor, failure, inBar, todo, delivering, loop>>

SinkPauses  == SinkTransition("paused")
SinkResumes == status = "paused" /\ SinkTransition("running")

\* With a signal to expire the expiry's event raises before the transition.
SinkStops == signal = Nothing /\ SinkTransition("stopped")

\* So does the halt's event; the latch itself is rolled back in every case.
SinkKills ==
    /\ signal = Nothing
    /\ halted \/ processed = 0
    /\ SinkTransition("halted")

\* The transition of the call under way has become illegal: it raises, and
\* the loop turns that into a runtime failure.
IllegalTransition ==
    /\ ~delivering
    /\ todo # <<>> /\ Head(todo) \in Status \ LegalTransitions[status]
    /\ IF loop = "check" /\ status \in Active
         THEN failure' = "runtime" /\ Expired(<<"failed">>)
         ELSE todo' = <<>> /\ UNCHANGED <<contractVars, failure, delivering>>
    /\ UNCHANGED <<status, cursor, inBar, loop>>

Reentrant ==
    \/ SinkPauses
    \/ SinkResumes
    \/ SinkStops
    \/ SinkKills

-----------------------------------------------------------------------------
\* What a call on the stack does next; the loop calls step by itself.
Continue ==
    \/ BarCommits
    \/ BarRaises
    \/ AccountBar
    \/ LatchHalt
    \/ PublishCreated
    \/ Transition
    \/ IllegalTransition
    \/ Delivered
    \/ Constructed
    \/ LoopContinues
    \/ LoopEnds

Next ==
    /\ sink' = sink
    /\ \/ Start
       \/ Pause
       \/ Resume
       \/ Stop
       \/ KillSwitch
       \/ FailRuntime
       \/ RunToCompletion
       \/ BeginStep
       \/ Continue
       \/ Wake
       \/ Reentrant

(***************************************************************************)
(* A call that is on the stack goes on, the loop keeps stepping while the  *)
(* session runs, and the sleeper returns, whatever it calls meanwhile; the *)
(* caller need not call anything.                                          *)
(***************************************************************************)
Spec == /\ Init
        /\ [][Next]_<<vars, sink>>
        /\ WF_vars(Continue)
        /\ WF_vars(loop = "step" /\ BeginStep)
        /\ SF_vars(Wake)

-----------------------------------------------------------------------------
\* A small instance: nothing, one or two units are held, enough for a target
\* to buy, to sell and to change its mind.
SmallHoldings == [cash : {1}, quantity : 0 .. 2]
SmallInitial == [cash |-> 1, quantity |-> 0]

-----------------------------------------------------------------------------
\* What may be left of a call.
Calls == {<<>>} \cup {<<target>> : target \in Status \cup {"account"}}
         \cup {<<"publish", "validated", "constructed">>,
               <<"validated", "constructed">>, <<"constructed">>,
               <<"latch", "halted">>}

TypeOK ==
    /\ processed \in 0 .. Bars
    /\ cursor \in 0 .. Bars
    /\ holding \in Holdings
    /\ signal = Nothing \/ signal.weight \in Targets \cup {0}
    /\ halted \in BOOLEAN /\ failed \in BOOLEAN
    /\ status \in Status /\ sink \in Sinks
    /\ failure \in {"none", "bar", "runtime"}
    /\ inBar \in BOOLEAN /\ delivering \in BOOLEAN
    /\ loop \in {"off", "step", "check", "sleep"}
    /\ todo \in Calls

(***************************************************************************)
(* Whenever no call is under way the session has counted exactly the bars  *)
(* the engine has committed: none is skipped, replayed or lost by a pause, *)
(* a failure or a control between two bars.                                *)
(***************************************************************************)
CursorMatchesEngine == Quiet => cursor = processed

(***************************************************************************)
(* "The kill switch latches the shared risk halt": a session that says it  *)
(* is halted has an engine that is.                                        *)
(***************************************************************************)
HaltedMeansLatched == Quiet /\ status = "halted" => halted

\* And an engine that latched a halt, by a limit or by hand, has halted the
\* session by the time the call returns.
LatchHaltsSession == Quiet /\ halted => status = "halted"

(***************************************************************************)
(* A session that ended leaves no target behind that could still execute,  *)
(* except the one a failed bar restored, whose engine takes no more bars.  *)
(***************************************************************************)
NothingLeftPending ==
    Quiet /\ status \in Terminal =>
        signal = Nothing \/ (failure = "bar" /\ failed)

\* All bars were processed if, and only if, the session is complete or ended
\* on the last one.
CompletedMeansAll ==
    Quiet => /\ status = "completed" => cursor = Bars
             /\ cursor = Bars => status \in Terminal

(***************************************************************************)
(* Two machines that fail apart stay together: the session has counted     *)
(* the engine's bars, and one that ended leaves no target behind that      *)
(* could execute.  When the sink does not call back, a halt, whichever of  *)
(* the two it began in, is in both, and the last bar ends the session.     *)
(***************************************************************************)
SessionMatchesEngine ==
    /\ CursorMatchesEngine
    /\ NothingLeftPending
    /\ sink = "listening" => HaltedMeansLatched /\ LatchHaltsSession /\ CompletedMeansAll

(***************************************************************************)
(* Nothing trades and no bar is consumed while the session is paused, nor  *)
(* ever again once it has ended.                                           *)
(***************************************************************************)
FrozenUnlessRunning ==
    [][(status = "paused" \/ status \in Terminal) =>
            UNCHANGED <<processed, holding>>]_vars

\* run_to_completion comes back, and then the session has ended or is paused.
LoopReturns == loop # "off" ~> loop = "off" /\ (status = "paused" \/ status \in Terminal)
=============================================================================
