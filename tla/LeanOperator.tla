---------------------------- MODULE LeanOperator ----------------------------
(***************************************************************************)
(* The operator of the pinned LEAN parity runtime                          *)
(* (scripts/run_lean_parity_local.py with lean_runtime.py): invocations of *)
(* the script, each one phase, that share the ignored files under logs/,   *)
(* reports/ and backtests/, one lock file, one runtime directory and one   *)
(* container name.  An invocation may die between any two of its steps;    *)
(* what it had written stays.  The LEAN CLI it launched is a process of    *)
(* its own and outlives it.                                                *)
(***************************************************************************)
EXTENDS Naturals, FiniteSets

CONSTANTS Invocations,   \* runs of the script
          None,          \* no invocation, no run, no file
          Prior,         \* PRIOR_CUMULATIVE_EXECUTIONS
          MaxBatch,      \* MAX_BATCH_EXECUTIONS
          MaxCrashes     \* bound on the invocations that die

ASSUME OperatorAssumption ==
    /\ Prior \in Nat /\ MaxBatch \in Nat \ {0} /\ MaxCrashes \in Nat
    /\ None \notin Invocations /\ None \notin Nat

MaxExecutions == Prior + MaxBatch
Runs == Prior + 1 .. MaxExecutions
Phases == {"preflight", "pull", "prepare", "run", "compare", "all"}

VARIABLES
    disk,        \* the files a later invocation reads
    lock,        \* the invocation that created the lock file, or None
    dir,         \* the runtime directory: its creator and the backtest output
    container,   \* the container holding the one authorized name
    proc,        \* each invocation: step, phase, run number, CLI child
    started      \* history: the invocations whose container was started

vars == <<disk, lock, dir, container, proc, started>>

Locked == {"count", "initialize", "files", "launch", "wait", "copy",
           "remove", "clean", "judge", "extract", "unlock"}
Steps == {"idle", "preflight", "checks", "lock", "stage", "export", "compare",
          "done", "stranded", "dead"} \cup Locked

Disk == [executions: 0 .. MaxExecutions, pulls: 0 .. 1, image: BOOLEAN,
         staged: BOOLEAN, local: BOOLEAN, lean: Runs \cup {None},
         compared: Runs \cup {None}, audit: Runs \cup {None},
         log: [Runs -> {"none", "opened", "written"}], preserved: SUBSET Runs]
Directory == [owner: Invocations \cup {None}, output: Runs \cup {None}]
Container == [by: Invocations \cup {None},
              status: {"absent", "created", "running", "exited"}]
Process == [at: Steps, phase: Phases, run: Runs \cup {None},
            cli: {"none", "starting", "audited", "attached", "ok", "failed", "killed"}]

TypeOK ==
    /\ disk \in Disk
    /\ lock \in Invocations \cup {None}
    /\ dir \in Directory
    /\ container \in Container
    /\ proc \in [Invocations -> Process]
    /\ started \subseteq Invocations

NoContainer == [by |-> None, status |-> "absent"]
NoDirectory == [owner |-> None, output |-> None]
Child(p) == proc[p].cli \in {"starting", "audited", "attached"}

\* A fresh checkout, or the retained history of the earlier batches with its
\* staged fixture and local oracle kept or not.
Init ==
    /\ \E history, prepared \in BOOLEAN:
         disk = [executions |-> IF history THEN Prior ELSE 0,
                 pulls |-> IF history THEN 1 ELSE 0, image |-> history,
                 staged |-> prepared, local |-> prepared, lean |-> None,
                 compared |-> None, audit |-> None,
                 log |-> [n \in Runs |-> "none"], preserved |-> {}]
    /\ lock = None
    /\ dir = NoDirectory
    /\ container = NoContainer
    /\ proc = [p \in Invocations |->
                 [at |-> "idle", phase |-> "preflight", run |-> None, cli |-> "none"]]
    /\ started = {}

At(p, step) == proc[p].at = step
Go(p, step) == proc' = [proc EXCEPT ![p].at = step]

\* A mutant of Fail: an exception leaves the locked section with the lock held.
FailHolding(p) == Go(p, "done")

\* An exception: inside the with-block the lock is released on the way out.
Fail(p) == Go(p, IF proc[p].at \in Locked THEN "unlock" ELSE "done")

-----------------------------------------------------------------------------
(* The phases.                                                             *)

\* execute: the phase and its authorization phrase.  The pull phase, and with
\* it "all", stops at increment_pull before anything is read or written.
\* (A wrong phrase ends the invocation in the same way.)
Begin(p, phase) ==
    /\ At(p, "idle")
    /\ proc' = [proc EXCEPT ![p].phase = phase,
                  ![p].at = CASE phase \in {"pull", "all"} -> "done"
                              [] phase = "compare" -> "compare"
                              [] OTHER -> "preflight"]
    /\ UNCHANGED <<disk, lock, dir, container, started>>

\* perform_preflight: read-only; the container name must be free.  Any host
\* check may fail.  No lock is held.
Preflight(p) ==
    /\ At(p, "preflight")
    /\ \/ /\ container = NoContainer
          /\ Go(p, CASE proc[p].phase = "prepare" -> "stage"
                     [] proc[p].phase = "run" -> "checks"
                     [] OTHER -> "done")
       \/ Fail(p)
    /\ UNCHANGED <<disk, lock, dir, container, started>>

\* prepare_inputs: the exact fixture bytes are created or verified ...
Stage(p) ==
    /\ At(p, "stage")
    /\ \/ disk' = [disk EXCEPT !.staged = TRUE] /\ Go(p, "export")
       \/ Fail(p) /\ UNCHANGED disk
    /\ UNCHANGED <<lock, dir, container, started>>

\* ... and the local oracle is exported, atomically.
Export(p) ==
    /\ At(p, "export")
    /\ \/ disk' = [disk EXCEPT !.local = TRUE]
       \/ UNCHANGED disk
    /\ Go(p, "done")
    /\ UNCHANGED <<lock, dir, container, started>>

\* compare_outputs: both traces; the result is written whether they match or not.
Compare(p) ==
    /\ At(p, "compare")
    /\ \/ disk.local /\ disk.lean # None /\ disk' = [disk EXCEPT !.compared = disk.lean]
       \/ UNCHANGED disk
    /\ Go(p, "done")
    /\ UNCHANGED <<lock, dir, container, started>>

-----------------------------------------------------------------------------
(* run_lean: the checks without the lock, then the locked section.         *)

RunChecks(p) ==
    /\ At(p, "checks")
    /\ IF disk.staged /\ disk.local THEN Go(p, "lock") ELSE Fail(p)
    /\ UNCHANGED <<disk, lock, dir, container, started>>

\* ExclusiveRunLock.__enter__: O_CREAT | O_EXCL, then a write into the new file.
\* When that fails the with-block is not entered: the invocation is over and the
\* lock file stays, although nobody died.
AcquireLock(p) ==
    /\ At(p, "lock")
    /\ IF lock = None THEN lock' = p /\ (Go(p, "count") \/ Go(p, "stranded"))
                      ELSE Fail(p) /\ UNCHANGED lock
    /\ UNCHANGED <<disk, dir, container, started>>

\* A mutant of MayExecute: one execution more than the batch authorizes.
MayExecuteOneMore(state) ==
    /\ state.pulls = 1 /\ state.image
    /\ state.executions >= Prior /\ state.executions <= MaxExecutions

\* increment_execution's guard on the persisted state.
MayExecute(state) ==
    /\ state.pulls = 1 /\ state.image
    /\ state.executions >= Prior /\ state.executions < MaxExecutions

\* A mutant of CountedState: the count is left to the end of the run.
CountedStateLate(state) == state

\* The count is written before anything is launched.
CountedState(state) == [state EXCEPT !.executions = @ + 1]

CountExecution(p) ==
    /\ At(p, "count")
    /\ IF MayExecute(disk)
       THEN /\ disk' = CountedState(disk)
            /\ proc' = [proc EXCEPT ![p].at = "initialize",
                                    ![p].run = disk.executions + 1]
       ELSE Fail(p) /\ UNCHANGED disk
    /\ UNCHANGED <<lock, dir, container, started>>

\* initialize_runtime_directory refuses a directory that is already there.
Initialize(p) ==
    /\ At(p, "initialize")
    /\ IF dir = NoDirectory
       THEN dir' = [owner |-> p, output |-> None] /\ Go(p, "files")
       ELSE Fail(p) /\ UNCHANGED dir
    /\ UNCHANGED <<disk, lock, container, started>>

\* _write_runtime_files, the network probes and the credentials check: a
\* failure here is outside the try block, the directory stays.
WriteFiles(p) ==
    /\ At(p, "files")
    /\ Go(p, "launch") \/ Fail(p)
    /\ UNCHANGED <<disk, lock, dir, container, started>>

\* The raw log is truncated and the CLI starts.
Launch(p) ==
    /\ At(p, "launch")
    /\ disk' = [disk EXCEPT !.log[proc[p].run] = "opened"]
    /\ proc' = [proc EXCEPT ![p].at = "wait", ![p].cli = "starting"]
    /\ UNCHANGED <<lock, dir, container, started>>

\* subprocess.run returned, or its 900-second timeout killed the CLI: the
\* container it may have started is not touched.
Await(p) ==
    /\ At(p, "wait")
    /\ proc' = [proc EXCEPT ![p].at = "copy",
                            ![p].cli = IF Child(p) THEN "killed" ELSE @]
    /\ UNCHANGED <<disk, lock, dir, container, started>>

\* _copy_runtime_output: nothing to copy, or refuse to overwrite, or copy.
CopyOutput(p) ==
    /\ At(p, "copy")
    /\ LET n == proc[p].run IN
       CASE dir.output = None -> Go(p, "remove") /\ UNCHANGED disk
         [] dir.output # None /\ n \in disk.preserved -> Fail(p) /\ UNCHANGED disk
         [] OTHER -> /\ disk' = [disk EXCEPT !.preserved = @ \cup {n}]
                     /\ Go(p, "remove")
    /\ UNCHANGED <<lock, dir, container, started>>

\* _remove_owned_stopped_container: a running one is left and cleanup stops.
RemoveContainer(p) ==
    /\ At(p, "remove")
    /\ IF container.status = "running"
       THEN Fail(p) /\ UNCHANGED container
       ELSE Go(p, "clean") /\ container' = NoContainer
    /\ UNCHANGED <<disk, lock, dir, started>>

\* The credentials check, then cleanup_runtime_directory.
CleanDirectory(p) ==
    /\ At(p, "clean")
    /\ \/ Go(p, "judge") /\ dir' = NoDirectory
       \/ Fail(p) /\ UNCHANGED dir
    /\ UNCHANGED <<disk, lock, container, started>>

\* A mutant of Judge: the CLI's exit code is not looked at.
JudgeAnyExit(p) ==
    /\ At(p, "judge")
    /\ IF disk.audit # None THEN Go(p, "extract") ELSE Fail(p)
    /\ UNCHANGED <<disk, lock, dir, container, started>>

Judge(p) ==
    /\ At(p, "judge")
    /\ IF proc[p].cli = "ok" /\ disk.audit # None THEN Go(p, "extract") ELSE Fail(p)
    /\ UNCHANGED <<disk, lock, dir, container, started>>

\* The extractor rejects a malformed observation or replaces the trace.
Extract(p) ==
    /\ At(p, "extract")
    /\ disk' = [disk EXCEPT !.lean = proc[p].run] \/ UNCHANGED disk
    /\ Go(p, "unlock")
    /\ UNCHANGED <<lock, dir, container, started>>

\* ExclusiveRunLock.__exit__
Unlock(p) ==
    /\ At(p, "unlock")
    /\ lock' = None
    /\ Go(p, "done")
    /\ UNCHANGED <<disk, dir, container, started>>

-----------------------------------------------------------------------------
(* The LEAN CLI process with the runtime guards installed.                 *)

\* guarded_get_container, then Docker's own name check at create.
GuardCreates(p) ==
    /\ proc[p].cli = "starting" /\ container = NoContainer
    /\ container' = [by |-> p, status |-> "created"]
    /\ UNCHANGED <<disk, lock, dir, proc, started>>

\* guarded_run: the realized container is validated and the audit written ...
GuardAudits(p) ==
    /\ proc[p].cli = "starting" /\ container = [by |-> p, status |-> "created"]
    /\ disk' = [disk EXCEPT !.audit = proc[p].run]
    /\ proc' = [proc EXCEPT ![p].cli = "audited"]
    /\ UNCHANGED <<lock, dir, container, started>>

\* ... and the container started, which may not be there any more.
GuardStarts(p) ==
    /\ proc[p].cli = "audited" /\ container = [by |-> p, status |-> "created"]
    /\ container' = [container EXCEPT !.status = "running"]
    /\ disk' = [disk EXCEPT !.log[proc[p].run] = "written"]
    /\ proc' = [proc EXCEPT ![p].cli = "attached"]
    /\ started' = started \cup {p}
    /\ UNCHANGED <<lock, dir>>

\* Any guard refuses, or the start fails: the container it created is removed,
\* a failure to remove it is suppressed, and an audit it wrote stays.
GuardRefuses(p) ==
    /\ proc[p].cli \in {"starting", "audited"}
    /\ proc' = [proc EXCEPT ![p].cli = "failed"]
    /\ \/ container' = container
       \/ container.by = p /\ container' = NoContainer
    /\ UNCHANGED <<disk, lock, dir, started>>

\* The engine ends, leaving its output in the mounted runtime directory.
ContainerExits ==
    /\ container.status = "running"
    /\ container' = [container EXCEPT !.status = "exited"]
    /\ dir' = IF dir.owner = container.by THEN [dir EXCEPT !.output = proc[dir.owner].run]
                                          ELSE dir
    /\ UNCHANGED <<disk, lock, proc, started>>

\* The CLI returns with the engine's verdict and removes the container, or not.
CliReturns(p) ==
    /\ proc[p].cli = "attached" /\ container = [by |-> p, status |-> "exited"]
    /\ \E verdict \in {"ok", "failed"}: proc' = [proc EXCEPT ![p].cli = verdict]
    /\ container' \in {NoContainer, container}
    /\ UNCHANGED <<disk, lock, dir, started>>

-----------------------------------------------------------------------------
(* Death of an invocation, and the person who clears up after it.          *)

Dead == {p \in Invocations : At(p, "dead")}

Crash(p) ==
    /\ proc[p].at \notin {"idle", "done", "stranded", "dead"}
    /\ Cardinality(Dead) < MaxCrashes
    /\ Go(p, "dead")
    /\ UNCHANGED <<disk, lock, dir, container, started>>

\* Nothing in the program recovers the lock of a dead or a stranded invocation,
\* or the directory and the container of one that is over: a person removes
\* them, once its CLI is gone, in any order.
Settled(p) == p # None /\ proc[p].at \in {"dead", "done", "stranded"} /\ ~ Child(p)
ClearLock ==
    /\ Settled(lock) /\ lock' = None
    /\ UNCHANGED <<disk, dir, container, proc, started>>
ClearDirectory ==
    /\ Settled(dir.owner) /\ dir' = NoDirectory
    /\ UNCHANGED <<disk, lock, container, proc, started>>
ClearContainer ==
    /\ Settled(container.by) /\ container.status # "running"
    /\ container' = NoContainer
    /\ UNCHANGED <<disk, lock, dir, proc, started>>

Step(p) ==
    \/ Preflight(p) \/ Stage(p) \/ Export(p) \/ Compare(p)
    \/ RunChecks(p) \/ AcquireLock(p) \/ CountExecution(p) \/ Initialize(p)
    \/ WriteFiles(p) \/ Launch(p) \/ Await(p) \/ CopyOutput(p)
    \/ RemoveContainer(p) \/ CleanDirectory(p) \/ Judge(p) \/ Extract(p) \/ Unlock(p)

Cli(p) ==
    GuardCreates(p) \/ GuardAudits(p) \/ GuardStarts(p) \/ GuardRefuses(p) \/ CliReturns(p)

Person == ClearLock \/ ClearDirectory \/ ClearContainer

Next ==
    \/ \E p \in Invocations:
         (\E phase \in Phases: Begin(p, phase)) \/ Step(p) \/ Cli(p) \/ Crash(p)
    \/ ContainerExits
    \/ Person

\* An invocation that began keeps executing: every call it waits for has a
\* timeout.  Nothing forces a crash, a person or a new invocation.
Spec == Init /\ [][Next]_vars /\ \A p \in Invocations: WF_vars(Step(p))

-----------------------------------------------------------------------------
(* Properties.                                                             *)

\* At most one live invocation is between the lock's creation and its removal.
InLock(p) == proc[p].at \in Locked
SerialRuns == \A p, q \in Invocations : InLock(p) /\ InLock(q) => p = q

\* Crashes included, every container that was started was counted first, under
\* a number no other started container has: never more starts than the batch
\* authorizes.
StartsAreCounted ==
    /\ SerialRuns
    /\ \A p \in started : proc[p].run \in Runs /\ proc[p].run <= disk.executions
    /\ \A p, q \in started : proc[p].run = proc[q].run => p = q

\* What a started run wrote to its raw log is not truncated by a later run, and
\* its preserved output is not replaced.
EvidenceIsKept ==
    [][\A n \in Runs : /\ disk.log[n] = "written" => disk'.log[n] = "written"
                       /\ n \in disk.preserved => n \in disk'.preserved]_vars

\* The LEAN trace is only replaced by that of a run whose own container was
\* started with its own isolation audit on disk, never on a stale audit.
TraceIsAudited ==
    [][disk'.lean # disk.lean =>
         /\ disk.audit = disk'.lean
         /\ \E p \in started : proc[p].run = disk'.lean]_vars

\* An invocation removes only the runtime directory it created: the sentinel is
\* the same for every run, the refusal to initialize over one is what protects it.
CleansItsOwn ==
    [][\A p \in Invocations : proc[p].at = "clean" /\ dir # dir' /\ proc'[p].at # "clean"
         => dir.owner = p]_vars

\* A container still running, or one another invocation left, stops the next
\* launch: the container a run starts is alone.
NoStartOverLeftovers ==
    [][\A p \in Invocations : p \in started' \ started => dir.owner = p /\ lock = p]_vars

\* What the run leaves behind can be relied on: whatever invocation dies, times
\* out or is retried, evidence is neither replaced nor another run's.
EvidenceHolds ==
    EvidenceIsKept /\ TraceIsAudited /\ CleansItsOwn /\ NoStartOverLeftovers

\* An invocation that began ends, or dies, again and again found out of its
\* steps.  One that entered the with-block and lived is then rid of the lock; only
\* a death, or a write that fails while the lock is taken, leaves it behind.
InvocationEnds ==
    \A p \in Invocations :
      []<>(\/ At(p, "idle") \/ At(p, "dead")
           \/ At(p, "stranded") /\ proc[p].run = None
           \/ At(p, "done") /\ lock # p)

\* The executions, as a promise to whoever authorized them: read off the count
\* on disk and the containers that were started.
Budget == INSTANCE LaunchBudget WITH
    Maximum <- MaxExecutions, counted <- disk.executions,
    launched <- {proc[p].run : p \in started},
    running <- IF container.status = "running" THEN proc[container.by].run ELSE None

\* The operator keeps the promise: no interleaving of invocations, no timeout
\* and no death launches out of turn, beside another or beyond the batch.
ImplementsBudget == Budget!Spec

\* increment_execution: "Count one launched LEAN execution".  Once every
\* invocation is over the count beyond the retained history is the number of
\* containers started.
CountIsLaunches ==
    (\A p \in Invocations : proc[p].at \in {"idle", "done"} /\ ~ Child(p)) /\ disk.pulls = 1
      => disk.executions - Prior = Cardinality({p \in Invocations : proc[p].cli # "none"})
=============================================================================
