------------------------- MODULE PaperReplay_proofs -------------------------
(***************************************************************************)
(* The session and its engine stay together, for any number of bars, any   *)
(* targets and any engine that keeps its contract.                         *)
(*                                                                         *)
(* What the properties say of a session that is at rest, the invariant     *)
(* says of one with a call on the stack: how far the bar has come that is  *)
(* not counted yet, that a call about to end the session has expired its   *)
(* signal, and, unless the sink interferes, that the transition it is      *)
(* about to make is legal.                                                 *)
(***************************************************************************)
EXTENDS PaperReplay, TLAPS

\* The engine has the bar under way that the session has not counted.
Uncounted == todo = <<"account">>

\* The call under way is about to end the session.
Ending == todo # <<>> /\ Head(todo) \in Terminal

\* No target is left that could execute.
Spent == signal = Nothing \/ (failure = "bar" /\ failed)

StackInv ==
    /\ processed = IF Uncounted THEN cursor + 1 ELSE cursor
    /\ Uncounted => inBar
    /\ inBar => Uncounted \/ (todo = <<>> /\ ~delivering /\ status = "running")
    /\ status \in Terminal \/ Ending \/ todo = <<"latch", "halted">> => Spent

\* What holds besides when the sink only listens.
ListeningInv ==
    /\ todo # <<>> /\ Head(todo) \in Status => Head(todo) \in LegalTransitions[status]
    /\ todo = <<"latch", "halted">> => status \in Active
    /\ todo = <<"publish", "validated", "constructed">> => status = "created"
    /\ Uncounted => status = "running"
    /\ status = "halted" \/ todo = <<"halted">> => halted
    /\ halted => status = "halted" \/ todo = <<"halted">> \/ Uncounted
    /\ status = "completed" \/ todo = <<"completed">> => cursor = Bars
    /\ cursor = Bars => status \in Terminal \/ Ending

SessionInv == TypeOK /\ StackInv /\ (sink = "listening" => ListeningInv)

LEMMA Statuses ==
    /\ Active \subseteq Status /\ Terminal \subseteq Status
    /\ Status = {"created", "validated", "running", "paused",
                 "stopped", "completed", "halted", "failed"}
    /\ \A from \in Status : LegalTransitions[from] \subseteq Status
    /\ \A from \in Terminal : LegalTransitions[from] = {}
    /\ LegalTransitions["created"] = {"validated", "failed"}
    /\ LegalTransitions["validated"] = {"running", "stopped", "halted", "failed"}
    /\ LegalTransitions["running"] = {"paused", "stopped", "completed", "halted", "failed"}
    /\ LegalTransitions["paused"] = {"running", "stopped", "halted", "failed"}
<1>1. Status = {"created", "validated", "running", "paused",
                 "stopped", "completed", "halted", "failed"}
  BY DEF Status, Active, Terminal
<1> QED
  BY <1>1 DEF LegalTransitions, Active, Terminal

\* The calls, with the step each takes next.
LEMMA Shapes ==
    ASSUME NEW t \in Calls
    PROVE  \/ t = <<>>
           \/ \E x \in Status \cup {"account", "constructed"} :
                  t = <<x>> /\ Head(t) = x /\ Tail(t) = <<>>
           \/ /\ t = <<"publish", "validated", "constructed">>
              /\ Head(t) = "publish" /\ Tail(t) = <<"validated", "constructed">>
           \/ /\ t = <<"validated", "constructed">>
              /\ Head(t) = "validated" /\ Tail(t) = <<"constructed">>
           \/ /\ t = <<"latch", "halted">>
              /\ Head(t) = "latch" /\ Tail(t) = <<"halted">>
<1>1. \A x : Head(<<x>>) = x /\ Tail(<<x>>) = <<>>
  OBVIOUS
<1>2. /\ Head(<<"publish", "validated", "constructed">>) = "publish"
      /\ Tail(<<"publish", "validated", "constructed">>) = <<"validated", "constructed">>
  OBVIOUS
<1>3. /\ Head(<<"validated", "constructed">>) = "validated"
      /\ Tail(<<"validated", "constructed">>) = <<"constructed">>
  OBVIOUS
<1>4. /\ Head(<<"latch", "halted">>) = "latch"
      /\ Tail(<<"latch", "halted">>) = <<"halted">>
  OBVIOUS
<1> QED
  BY <1>1, <1>2, <1>3, <1>4, Zenon DEF Calls

\* The calls are told apart.
LEMMA Distinct ==
    /\ \A x : <<x>> # <<>> /\ Head(<<x>>) = x /\ <<x>> # <<"latch", "halted">>
           /\ <<x>> # <<"publish", "validated", "constructed">>
           /\ <<x>> # <<"validated", "constructed">>
    /\ \A x, y : <<x>> = <<y>> <=> x = y
    /\ \A x \in Status \cup {"account"} : <<x>> \in Calls
    /\ <<>> \in Calls /\ <<"constructed">> \in Calls
    /\ <<"publish", "validated", "constructed">> \in Calls
    /\ <<"validated", "constructed">> \in Calls /\ <<"latch", "halted">> \in Calls
    /\ <<"validated", "constructed">> # <<>> /\ <<"latch", "halted">> # <<>>
    /\ Head(<<"validated", "constructed">>) = "validated"
    /\ Head(<<"latch", "halted">>) = "latch"
    /\ <<"publish", "validated", "constructed">> # <<>>
    /\ Head(<<"publish", "validated", "constructed">>) = "publish"
BY DEF Calls

LEMMA InitSession == Init => SessionInv
<1> SUFFICES ASSUME Init PROVE SessionInv
  OBVIOUS
<1>1. /\ processed = 0 /\ cursor = 0 /\ signal = Nothing /\ halted = FALSE /\ failed = FALSE
      /\ status = "created" /\ inBar = FALSE /\ todo = <<"publish", "validated", "constructed">>
      /\ delivering = FALSE /\ loop = "off" /\ failure = "none" /\ sink \in Sinks
      /\ holding \in Holdings
  BY ContractAssumption DEF Init, ContractInit
<1>2. TypeOK
  <2>1. todo \in Calls
    BY <1>1, Distinct
  <2>2. status \in Status
    BY <1>1, Statuses
  <2>3. 0 \in 0 .. Bars
    BY ContractAssumption
  <2> QED
    BY <1>1, <2>1, <2>2, <2>3 DEF TypeOK
<1>3. StackInv
  BY <1>1, Distinct DEF StackInv, Uncounted, Ending, Spent
<1>4. ListeningInv
  BY <1>1, Distinct, Statuses, ReplayAssumption DEF ListeningInv, Uncounted, Ending
<1> QED
  BY <1>2, <1>3, <1>4 DEF SessionInv

\* A control of a session at rest begins a call; its signal, if the call is to
\* end the session, expires first.
LEMMA ControlKeeps ==
    ASSUME SessionInv, sink' = sink, Start \/ Pause \/ Resume
    PROVE  SessionInv'
<1>1. PICK to \in {"running", "paused"} :
          /\ MayControl /\ to \in LegalTransitions[status] /\ todo' = <<to>>
          /\ UNCHANGED <<contractVars, status, cursor, failure, inBar, delivering, loop, sink>>
  BY Statuses DEF Start, Pause, Resume, Control
<1>2. TypeOK'
  BY <1>1, Statuses, Distinct DEF SessionInv, TypeOK, contractVars
<1>3. StackInv'
  BY <1>1, Distinct DEF SessionInv, StackInv, MayControl, Quiet, Uncounted, Ending, Spent,
                        contractVars, Terminal
<1>4. ASSUME ListeningInv PROVE ListeningInv'
  BY <1>1, <1>4, Distinct, Statuses
     DEF ListeningInv, MayControl, Quiet, Uncounted, Ending, contractVars
<1> QED
  BY <1>2, <1>3, <1>4 DEF SessionInv

LEMMA EndKeeps ==
    ASSUME SessionInv, sink' = sink, Stop \/ KillSwitch \/ FailRuntime
    PROVE  SessionInv'
<1>1. PICK rest \in {<<"stopped">>, <<"latch", "halted">>, <<"failed">>} :
          /\ MayControl /\ status \in Active /\ Expired(rest)
          /\ failure' \in {failure, "runtime"}
          /\ UNCHANGED <<status, cursor, inBar, loop, sink>>
  BY DEF Stop, KillSwitch, FailRuntime
<1>2. TypeOK'
  BY <1>1, Statuses, Distinct, SMTT(30) DEF SessionInv, TypeOK, Expired
<1>3. StackInv'
  BY <1>1, Distinct DEF SessionInv, StackInv, MayControl, Quiet, Uncounted, Ending, Spent,
                        Expired, Terminal
<1>4. ASSUME ListeningInv PROVE ListeningInv'
  BY <1>1, <1>4, Distinct, Statuses
     DEF ListeningInv, MayControl, Quiet, Uncounted, Ending, Expired, Active, Terminal
<1> QED
  BY <1>2, <1>3, <1>4 DEF SessionInv

\* The loop begins, goes on, waits and ends; what it calls is not under way yet.
LEMMA LoopKeeps ==
    ASSUME SessionInv, sink' = sink, RunToCompletion \/ LoopEnds \/ LoopContinues \/ Wake
    PROVE  SessionInv'
<1>1. /\ Quiet /\ loop' \in {"off", "step", "check", "sleep"}
      /\ todo' \in {<<>>, <<"running">>}
      /\ todo' = <<"running">> => status \in Active \ {"running"}
      /\ UNCHANGED <<contractVars, status, cursor, failure, inBar, delivering, sink>>
  BY DEF RunToCompletion, LoopEnds, LoopContinues, Wake, Quiet
<1>2. TypeOK'
  BY <1>1, Statuses, Distinct DEF SessionInv, TypeOK, contractVars
<1>3. StackInv'
  BY <1>1, Distinct DEF SessionInv, StackInv, Quiet, Uncounted, Ending, Spent,
                        contractVars, Terminal
<1>4. ASSUME ListeningInv PROVE ListeningInv'
  BY <1>1, <1>4, Distinct, Statuses
     DEF ListeningInv, Quiet, Uncounted, Ending, contractVars, Active
<1> QED
  BY <1>2, <1>3, <1>4 DEF SessionInv

LEMMA BeginStepKeeps ==
    ASSUME SessionInv, sink' = sink, BeginStep
    PROVE  SessionInv'
<1>1. /\ Quiet /\ status = "running" /\ loop' \in {"off", "step", "check", "sleep"}
      /\ UNCHANGED <<status, cursor, failure, sink>>
      /\ \/ cursor >= Bars /\ inBar' = FALSE /\ Expired(<<"completed">>)
         \/ cursor < Bars /\ inBar' = TRUE /\ UNCHANGED <<contractVars, todo, delivering>>
  BY ContractAssumption DEF BeginStep, SessionInv, TypeOK
<1>2. TypeOK'
  <2>1. todo' \in Calls
    BY <1>1, Distinct, Statuses DEF Expired, SessionInv, TypeOK
  <2>2. /\ UNCHANGED <<processed, holding, halted, failed>>
        /\ signal' \in {signal, Nothing} /\ delivering' \in BOOLEAN
    BY <1>1 DEF Expired, contractVars, SessionInv, TypeOK
  <2> QED
    BY <1>1, <2>1, <2>2 DEF SessionInv, TypeOK
<1>3. StackInv'
  BY <1>1, Distinct DEF SessionInv, StackInv, Quiet, Uncounted, Ending, Spent,
                        contractVars, Terminal, Expired
<1>4. ASSUME ListeningInv PROVE ListeningInv'
  <2>1. cursor \in 0 .. Bars /\ Bars \in Nat
    BY ContractAssumption DEF SessionInv, TypeOK
  <2> QED
    BY <1>1, <1>4, <2>1, Distinct, Statuses
       DEF ListeningInv, Quiet, Uncounted, Ending, contractVars, Terminal, Expired
<1> QED
  BY <1>2, <1>3, <1>4 DEF SessionInv

LEMMA BarCommitsKeeps ==
    ASSUME SessionInv, sink' = sink, BarCommits
    PROVE  SessionInv'
<1>1. /\ inBar /\ status = "running" /\ ~delivering /\ todo = <<>> /\ CommitBar
      /\ delivering' = TRUE /\ todo' = <<"account">>
      /\ UNCHANGED <<status, cursor, failure, inBar, loop, sink>>
  BY Distinct DEF BarCommits, SessionInv, StackInv, Uncounted
<1>2. TypeOK'
  <2>1. todo' \in Calls
    BY <1>1, Distinct
  <2>2. processed' \in 0 .. Bars
    BY <1>1, ContractAssumption DEF CommitBar, SessionInv, TypeOK
  <2>3. holding' \in Holdings /\ halted' \in BOOLEAN /\ failed' = failed
    BY <1>1 DEF CommitBar, Traded, SessionInv, TypeOK
  <2>4. signal'.weight \in Targets \cup {0}
    BY <1>1 DEF CommitBar
  <2> QED
    BY <1>1, <2>1, <2>2, <2>3, <2>4 DEF SessionInv, TypeOK
<1>3. StackInv'
  BY <1>1, Distinct DEF SessionInv, StackInv, Uncounted, Ending, Terminal, CommitBar
<1>4. ASSUME ListeningInv PROVE ListeningInv'
  BY <1>1, <1>4, Distinct, Statuses DEF ListeningInv, Uncounted, Ending, Terminal, CommitBar
<1> QED
  BY <1>2, <1>3, <1>4 DEF SessionInv

LEMMA BarRaisesKeeps ==
    ASSUME SessionInv, sink' = sink, BarRaises
    PROVE  SessionInv'
<1>1. /\ inBar /\ status = "running" /\ ~delivering /\ todo = <<>> /\ FailBar
      /\ inBar' = FALSE /\ failure' = "bar" /\ todo' = <<"failed">>
      /\ UNCHANGED <<status, cursor, delivering, loop, sink>>
  BY Distinct DEF BarRaises, SessionInv, StackInv, Uncounted
<1>2. TypeOK'
  BY <1>1, Statuses, Distinct DEF SessionInv, TypeOK, FailBar
<1>3. StackInv'
  BY <1>1, Distinct DEF SessionInv, StackInv, Uncounted, Ending, Spent, Terminal, FailBar
<1>4. ASSUME ListeningInv PROVE ListeningInv'
  BY <1>1, <1>4, Distinct, Statuses DEF ListeningInv, Uncounted, Ending, Terminal, FailBar
<1> QED
  BY <1>2, <1>3, <1>4 DEF SessionInv

LEMMA AccountKeeps ==
    ASSUME SessionInv, sink' = sink, AccountBar
    PROVE  SessionInv'
<1>1. /\ todo = <<"account">> /\ ~delivering /\ inBar /\ cursor' = cursor + 1 /\ inBar' = FALSE
      /\ UNCHANGED <<status, failure, loop, sink>>
      /\ \/ halted /\ Expired(<<"halted">>)
         \/ ~halted /\ cursor' = Bars /\ Expired(<<"completed">>)
         \/ ~halted /\ cursor' # Bars /\ todo' = <<>> /\ UNCHANGED <<contractVars, delivering>>
  BY DEF AccountBar, SessionInv, StackInv, Uncounted
<1>2. processed = cursor + 1 /\ processed \in 0 .. Bars /\ cursor \in 0 .. Bars /\ Bars \in Nat
  BY <1>1, ContractAssumption DEF SessionInv, StackInv, Uncounted, TypeOK
<1>3. TypeOK'
  <2>1. todo' \in Calls
    BY <1>1, Distinct, Statuses DEF Expired
  <2>2. cursor' \in 0 .. Bars
    BY <1>1, <1>2
  <2>3. /\ UNCHANGED <<processed, holding, halted, failed>>
        /\ signal' \in {signal, Nothing} /\ delivering' \in BOOLEAN
    BY <1>1 DEF Expired, contractVars, SessionInv, TypeOK
  <2> QED
    BY <1>1, <2>1, <2>2, <2>3 DEF SessionInv, TypeOK
<1>4. StackInv'
  BY <1>1, <1>2, Distinct, Statuses DEF SessionInv, StackInv, Uncounted, Ending, Spent,
                              contractVars, Terminal, Expired
<1>5. ASSUME ListeningInv PROVE ListeningInv'
  BY <1>1, <1>2, <1>5, Distinct, Statuses
     DEF ListeningInv, Uncounted, Ending, contractVars, Terminal, Expired
<1> QED
  BY <1>3, <1>4, <1>5 DEF SessionInv

LEMMA LatchKeeps ==
    ASSUME SessionInv, sink' = sink, LatchHalt
    PROVE  SessionInv'
<1>1. /\ todo = <<"latch", "halted">> /\ todo' = <<"halted">> /\ halted' = TRUE
      /\ delivering' \in BOOLEAN
      /\ UNCHANGED <<processed, holding, signal, failed, status, cursor, failure, inBar,
                     loop, sink>>
  BY Shapes, Statuses DEF LatchHalt, SessionInv, TypeOK
<1>2. TypeOK'
  BY <1>1, Statuses, Distinct DEF SessionInv, TypeOK
<1>3. StackInv'
  BY <1>1, Distinct DEF SessionInv, StackInv, Uncounted, Ending, Spent, Terminal
<1>4. ASSUME ListeningInv PROVE ListeningInv'
  BY <1>1, <1>4, Distinct, Statuses DEF ListeningInv, Uncounted, Ending, Terminal, Active
<1> QED
  BY <1>2, <1>3, <1>4 DEF SessionInv

LEMMA PublishKeeps ==
    ASSUME SessionInv, sink' = sink, PublishCreated \/ Delivered \/ Constructed
    PROVE  SessionInv'
<1>1. /\ \/ /\ todo = <<"publish", "validated", "constructed">>
            /\ todo' = <<"validated", "constructed">> /\ ~delivering
         \/ todo' = todo /\ delivering' = FALSE /\ delivering
         \/ todo = <<"constructed">> /\ todo' = <<>> /\ UNCHANGED delivering /\ ~delivering
      /\ delivering' \in BOOLEAN
      /\ UNCHANGED <<contractVars, status, cursor, failure, inBar, loop, sink>>
  BY Shapes, Statuses DEF PublishCreated, Delivered, Constructed, SessionInv, TypeOK
<1>2. TypeOK'
  BY <1>1, Statuses, Distinct DEF SessionInv, TypeOK, contractVars
<1>3. StackInv'
  BY <1>1, Distinct DEF SessionInv, StackInv, Uncounted, Ending, Spent, Terminal, contractVars
<1>4. ASSUME ListeningInv PROVE ListeningInv'
  BY <1>1, <1>4, Distinct, Statuses
     DEF ListeningInv, Uncounted, Ending, Terminal, Active, contractVars
<1> QED
  BY <1>2, <1>3, <1>4 DEF SessionInv

LEMMA TransitionKeeps ==
    ASSUME SessionInv, sink' = sink, Transition
    PROVE  SessionInv'
<1>1. PICK to \in Status :
          /\ to \in LegalTransitions[status] /\ status' = to
          /\ \/ todo = <<to>> /\ todo' = <<>>
             \/ /\ to = "validated" /\ todo = <<"validated", "constructed">>
                /\ todo' = <<"constructed">>
          /\ ~delivering /\ delivering' = TRUE
          /\ UNCHANGED <<contractVars, cursor, failure, inBar, loop, sink>>
  <2>1. todo \in Calls /\ status \in Status
    BY DEF SessionInv, TypeOK
  <2>2. Head(todo) \in Status /\ todo # <<>>
    BY <2>1, Statuses DEF Transition
  <2>3. \/ todo = <<Head(todo)>> /\ Tail(todo) = <<>>
        \/ /\ Head(todo) = "validated" /\ todo = <<"validated", "constructed">>
           /\ Tail(todo) = <<"constructed">>
    BY <2>1, <2>2, Shapes, Statuses
  <2> QED
    BY <2>2, <2>3 DEF Transition
<1>2. TypeOK'
  <2>1. todo' \in Calls
    BY <1>1, Distinct
  <2> QED
    BY <1>1, <2>1 DEF SessionInv, TypeOK, contractVars
<1>3. StackInv'
  BY <1>1, Distinct, Statuses
     DEF SessionInv, StackInv, Uncounted, Ending, Spent, Terminal, contractVars
<1>4. ASSUME ListeningInv PROVE ListeningInv'
  BY <1>1, <1>4, Distinct, Statuses
     DEF ListeningInv, Uncounted, Ending, Terminal, Active, contractVars
<1> QED
  BY <1>2, <1>3, <1>4 DEF SessionInv

\* A sink that listens leaves every transition legal.
LEMMA IllegalKeeps ==
    ASSUME SessionInv, sink' = sink, IllegalTransition
    PROVE  SessionInv'
<1>1. /\ ~ListeningInv /\ ~delivering /\ todo # <<>> /\ Head(todo) \in Status
      /\ \/ failure' = "runtime" /\ Expired(<<"failed">>)
         \/ todo' = <<>> /\ UNCHANGED <<contractVars, failure, delivering>>
      /\ UNCHANGED <<status, cursor, inBar, loop, sink>>
  BY DEF IllegalTransition, ListeningInv
<1>2. todo # <<"account">> /\ todo # <<>>
  BY <1>1, Distinct, Statuses
<1>3. TypeOK'
  <2>1. todo' \in Calls
    BY <1>1, Distinct, Statuses DEF Expired
  <2>2. /\ UNCHANGED <<processed, holding, halted, failed>>
        /\ signal' \in {signal, Nothing} /\ delivering' \in BOOLEAN
    BY <1>1 DEF Expired, contractVars, SessionInv, TypeOK
  <2> QED
    BY <1>1, <2>1, <2>2 DEF SessionInv, TypeOK
<1>4. StackInv'
  BY <1>1, <1>2, Distinct DEF SessionInv, StackInv, Uncounted, Ending, Spent, Expired, contractVars
<1> QED
  BY <1>1, <1>3, <1>4 DEF SessionInv

\* What a sink that calls back can change: the status, and only to an end once
\* there is no signal.
LEMMA ReentrantKeeps ==
    ASSUME SessionInv, sink' = sink, Reentrant
    PROVE  SessionInv'
<1>1. PICK to \in {"paused", "running", "stopped", "halted"} :
          /\ delivering /\ sink = "calling" /\ status' = to
          /\ to \in Terminal => signal = Nothing
          /\ UNCHANGED <<contractVars, cursor, failure, inBar, todo, delivering, loop, sink>>
  BY DEF Reentrant, SinkPauses, SinkResumes, SinkStops, SinkKills, SinkTransition, Terminal
<1>2. TypeOK'
  BY <1>1, Statuses DEF SessionInv, TypeOK, contractVars
<1>3. StackInv'
  BY <1>1 DEF SessionInv, StackInv, Uncounted, Ending, Spent, contractVars
<1> QED
  BY <1>1, <1>2, <1>3 DEF SessionInv

LEMMA SessionStep ==
    ASSUME SessionInv, [Next]_<<vars, sink>>
    PROVE  SessionInv'
<1>1. CASE UNCHANGED <<vars, sink>>
  BY <1>1 DEF vars, contractVars, sessionVars, SessionInv, TypeOK, StackInv, ListeningInv,
              Uncounted, Ending, Spent
<1>2. CASE Next
  BY <1>2, ControlKeeps, EndKeeps, LoopKeeps, BeginStepKeeps, BarCommitsKeeps, BarRaisesKeeps,
     AccountKeeps, LatchKeeps, PublishKeeps, TransitionKeeps, IllegalKeeps, ReentrantKeeps
     DEF Next, Continue
<1> QED
  BY <1>1, <1>2

LEMMA SessionInvariant == Spec => []SessionInv
BY InitSession, SessionStep, PTL DEF Spec

(***************************************************************************)
(* Whatever the engine does within its contract, whatever the caller, the  *)
(* sleeper and the sink call and whichever of them fails, the session and  *)
(* its engine stay together.                                               *)
(***************************************************************************)
THEOREM SessionIsTheEngines == Spec => []SessionMatchesEngine
<1>1. SessionInv => SessionMatchesEngine
  <2> SUFFICES ASSUME SessionInv PROVE SessionMatchesEngine
    OBVIOUS
  <2>1. Quiet => ~Uncounted /\ ~Ending
    BY Distinct DEF Quiet, Uncounted, Ending
  <2>2. CursorMatchesEngine /\ NothingLeftPending
    BY <2>1 DEF SessionInv, StackInv, Spent, CursorMatchesEngine, NothingLeftPending
  <2>3. ListeningInv => HaltedMeansLatched /\ LatchHaltsSession /\ CompletedMeansAll
    BY <2>1, Distinct DEF ListeningInv, Quiet, HaltedMeansLatched, LatchHaltsSession,
                          CompletedMeansAll
  <2> QED
    BY <2>2, <2>3 DEF SessionInv, SessionMatchesEngine
<1> QED
  BY <1>1, SessionInvariant, PTL

(***************************************************************************)
(* The holding changes and a bar is consumed only while the session runs.  *)
(***************************************************************************)
THEOREM TradesOnlyRunning == Spec => FrozenUnlessRunning
<1>1. ASSUME SessionInv, [Next]_<<vars, sink>>, status = "paused" \/ status \in Terminal
      PROVE  UNCHANGED <<processed, holding>>
  <2>1. ~BarCommits
    BY <1>1, Distinct DEF BarCommits, SessionInv, StackInv, Uncounted, Terminal
  <2> QED
    BY <1>1, <2>1
       DEF Next, vars, contractVars, Start, Pause, Resume, Control, Stop, KillSwitch, FailRuntime,
           Expired, RunToCompletion, BeginStep, Continue, BarRaises, FailBar, AccountBar,
           LatchHalt, PublishCreated, Transition, IllegalTransition, Delivered, Constructed,
           LoopContinues, LoopEnds, Wake, Reentrant, SinkPauses, SinkResumes, SinkStops,
           SinkKills, SinkTransition
<1>2. SessionInv /\ [Next]_<<vars, sink>> =>
          [(status = "paused" \/ status \in Terminal) => UNCHANGED <<processed, holding>>]_vars
  BY <1>1
<1> QED
  BY <1>2, SessionInvariant, PTL DEF Spec, FrozenUnlessRunning
=============================================================================
