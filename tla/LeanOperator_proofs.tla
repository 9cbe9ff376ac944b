------------------------ MODULE LeanOperator_proofs ------------------------
(***************************************************************************)
(* What the operator of the LEAN runtime keeps to for any number of        *)
(* invocations, any batch and any number of deaths: the lock serializes    *)
(* the runs, every started container was counted under a number of its     *)
(* own, the evidence of a run is neither replaced nor another run's, and   *)
(* the executions are those LaunchBudget allows.                           *)
(***************************************************************************)
EXTENDS LeanOperator, TLAPS

\* Steps before an execution is counted, before the CLI is launched, with a
\* counted execution to finish, and with a runtime directory of its own.
Fresh == {"idle", "preflight", "checks", "lock", "stage", "export", "compare", "count"}
Unlaunched == Fresh \cup {"initialize", "files", "launch"}
Numbered == {"initialize", "files", "launch", "wait", "copy", "remove", "clean",
             "judge", "extract"}
Owning == {"files", "launch", "wait", "copy", "remove", "clean"}

\* The invocations the lock stands for: those in the locked section, and those
\* whose CLI still runs, dead or not.
Engaged(p) == InLock(p) \/ Child(p)

LockIsHeld == \A p \in Invocations : Engaged(p) => lock = p

DirectoryIsOwned ==
    \A p \in Invocations : proc[p].at \in Owning \/ Child(p) => dir.owner = p

\* Where an invocation is tells whether it has a number and a CLI.
Stages ==
    \A p \in Invocations :
      /\ proc[p].at \in Fresh => proc[p].run = None
      /\ proc[p].at \in Numbered => proc[p].run # None
      /\ proc[p].at \in Unlaunched => proc[p].cli = "none"
      /\ proc[p].cli # "none" => proc[p].run # None
      /\ Child(p) => proc[p].at \in {"wait", "dead"}
      /\ At(p, "extract") => proc[p].cli = "ok"

\* A number was counted, is nobody else's, and is the last one counted as long
\* as the invocation it belongs to is engaged.
Numbers ==
    \A p \in Invocations : proc[p].run # None =>
      /\ proc[p].run <= disk.executions
      /\ Engaged(p) => proc[p].run = disk.executions
      /\ \A q \in Invocations : proc[q].run = proc[p].run => q = p

\* Who started a container, and what that wrote: the audit lasts as long as the
\* locked section, a written log is that of a started run.
Starts ==
    /\ \A p \in started : proc[p].cli \in {"attached", "ok", "failed", "killed"}
    /\ \A p \in Invocations :
         /\ proc[p].cli \in {"attached", "ok"} => p \in started
         /\ proc[p].cli \in {"audited", "attached", "ok"} /\ InLock(p)
              => disk.audit = proc[p].run
    /\ \A n \in Runs : disk.log[n] = "written" => \E p \in started : proc[p].run = n
    /\ container.status \in {"running", "exited"} => container.by \in started

OperatorInv == LockIsHeld /\ DirectoryIsOwned /\ Stages /\ Numbers /\ Starts
IInv == TypeOK /\ OperatorInv

-----------------------------------------------------------------------------
\* A step of one invocation leaves the others where they are.
LEMMA MovedOne ==
    ASSUME TypeOK, NEW p \in Invocations, NEW step \in Steps, Go(p, step)
    PROVE  /\ proc' \in [Invocations -> Process]
           /\ proc'[p].at = step
           /\ \A q \in Invocations : /\ proc'[q].run = proc[q].run
                                     /\ proc'[q].cli = proc[q].cli
                                     /\ q # p => proc'[q].at = proc[q].at
BY DEF TypeOK, Go, Process

\* An invocation that moves on, with nothing else changed but files the invariant
\* does not speak of, keeps it when its next step asks no more than it has.
LEMMA MoveKeeps ==
    ASSUME IInv, NEW p \in Invocations, NEW step \in Steps, Go(p, step),
           UNCHANGED <<lock, dir, container, started>>,
           disk' \in Disk, disk'.executions = disk.executions,
           disk'.audit = disk.audit, disk'.log = disk.log,
           step \in Locked => InLock(p),
           step \in Owning => proc[p].at \in Owning,
           step \in Fresh => proc[p].run = None,
           step \in Numbered => proc[p].run # None,
           step \in Unlaunched => proc[p].cli = "none",
           Child(p) => step \in {"wait", "dead"},
           step = "extract" => proc[p].cli = "ok"
    PROVE  IInv'
<1>1. /\ proc' \in [Invocations -> Process]
      /\ proc'[p].at = step
      /\ \A q \in Invocations : /\ proc'[q].run = proc[q].run
                                /\ proc'[q].cli = proc[q].cli
                                /\ q # p => proc'[q].at = proc[q].at
  BY MovedOne DEF IInv
<1>2. TypeOK'
  BY <1>1 DEF IInv, TypeOK
<1>3. \A q \in Invocations : /\ Child(q)' <=> Child(q)
                             /\ InLock(q)' => InLock(q)
                             /\ Engaged(q)' => Engaged(q)
  BY <1>1 DEF Child, InLock, Engaged
<1>4. LockIsHeld'
  BY <1>3 DEF IInv, OperatorInv, LockIsHeld
<1>5. DirectoryIsOwned'
  BY <1>1, <1>3 DEF IInv, OperatorInv, DirectoryIsOwned
<1>6. Stages'
  BY <1>1, <1>3 DEF IInv, OperatorInv, Stages, At
<1>7. Numbers'
  BY <1>1, <1>3 DEF IInv, OperatorInv, Numbers
<1>8. Starts'
  BY <1>1, <1>3 DEF IInv, OperatorInv, Starts, TypeOK
<1> QED
  BY <1>2, <1>4, <1>5, <1>6, <1>7, <1>8 DEF IInv, OperatorInv

\* An exception keeps the invariant: the step it leads to asks for nothing.
LEMMA FailKeeps ==
    ASSUME IInv, NEW p \in Invocations, Fail(p), proc[p].at \notin {"wait", "dead"},
           UNCHANGED <<disk, lock, dir, container, started>>
    PROVE  IInv'
<1> DEFINE step == IF proc[p].at \in Locked THEN "unlock" ELSE "done"
<1>1. step \in Steps /\ Go(p, step)
  BY DEF Fail, Steps, Locked
<1>2. /\ step \notin Owning \cup Fresh \cup Numbered \cup Unlaunched \cup {"extract"}
      /\ step \in Locked => InLock(p)
  BY DEF InLock, Locked, Owning, Fresh, Numbered, Unlaunched
<1>3. ~ Child(p)
  BY DEF IInv, OperatorInv, Stages
<1>4. disk' \in Disk
  BY DEF IInv, TypeOK
<1> HIDE DEF step
<1> QED
  BY <1>1, <1>2, <1>3, <1>4, MoveKeeps

-----------------------------------------------------------------------------
\* The phases without the lock: nothing is counted, launched or owned there.
LEMMA PhasesKeep ==
    ASSUME IInv, NEW p \in Invocations,
           \/ \E phase \in Phases : Begin(p, phase)
           \/ Preflight(p) \/ Stage(p) \/ Export(p) \/ Compare(p) \/ RunChecks(p)
    PROVE  IInv'
<1> USE DEF At
<1>1. CASE \E phase \in Phases : Begin(p, phase)
  <2>1. PICK phase \in Phases : Begin(p, phase)
    BY <1>1
  <2>2. /\ proc' \in [Invocations -> Process]
        /\ proc'[p].at \in {"done", "compare", "preflight"}
        /\ \A q \in Invocations : /\ proc'[q].run = proc[q].run
                                  /\ proc'[q].cli = proc[q].cli
                                  /\ q # p => proc'[q].at = proc[q].at
    BY <2>1, ZenonT(60) DEF Begin, IInv, TypeOK, Process, Steps
  <2>3. /\ proc[p].run = None /\ proc[p].cli = "none"
        /\ UNCHANGED <<disk, lock, dir, container, started>>
    BY <2>1 DEF Begin, IInv, OperatorInv, Stages, Fresh, Unlaunched
  <2>4. \A q \in Invocations : /\ Child(q)' <=> Child(q)
                               /\ InLock(q)' => InLock(q)
                               /\ Engaged(q)' => Engaged(q)
    BY <2>2 DEF Child, InLock, Engaged, Locked
  <2>5. TypeOK'
    BY <2>2, <2>3 DEF IInv, TypeOK
  <2>6. LockIsHeld' /\ DirectoryIsOwned'
    BY <2>2, <2>3, <2>4 DEF IInv, OperatorInv, LockIsHeld, DirectoryIsOwned, Owning
  <2>7. Stages'
    BY <2>2, <2>3, <2>4 DEF IInv, OperatorInv, Stages, Fresh, Unlaunched, Numbered, Child
  <2>8. Numbers'
    BY <2>2, <2>3, <2>4 DEF IInv, OperatorInv, Numbers
  <2>9. Starts'
    BY <2>2, <2>3, <2>4 DEF IInv, OperatorInv, Starts, TypeOK
  <2> QED
    BY <2>5, <2>6, <2>7, <2>8, <2>9 DEF IInv, OperatorInv
<1>2. CASE ~ \E phase \in Phases : Begin(p, phase)
  <2>1. PICK step \in {"stage", "export", "checks", "lock", "done"} : Go(p, step)
    BY <1>2 DEF Preflight, Stage, Export, Compare, RunChecks, Fail, Locked
  <2>2. /\ proc[p].at \in {"preflight", "stage", "export", "compare", "checks"}
        /\ UNCHANGED <<lock, dir, container, started>>
    BY <1>2 DEF Preflight, Stage, Export, Compare, RunChecks
  <2>3. proc[p].run = None /\ proc[p].cli = "none"
    BY <2>2 DEF IInv, OperatorInv, Stages, Fresh, Unlaunched
  <2>4. /\ disk' \in Disk /\ disk'.executions = disk.executions
        /\ disk'.audit = disk.audit /\ disk'.log = disk.log
    BY <1>2 DEF Preflight, Stage, Export, Compare, RunChecks, IInv, TypeOK, Disk
  <2>5. step \in Steps /\ step \notin Locked \cup Owning \cup Numbered \cup {"extract"}
    BY DEF Steps, Locked, Owning, Numbered
  <2> QED
    BY <2>1, <2>2, <2>3, <2>4, <2>5, MoveKeeps DEF Child
<1> QED
  BY <1>1, <1>2

\* The lock is taken when nobody is engaged; an invocation that is stranded with
\* it is not engaged either.
LEMMA AcquireKeeps ==
    ASSUME IInv, NEW p \in Invocations, AcquireLock(p)
    PROVE  IInv'
<1>1. CASE lock # None
  BY <1>1, FailKeeps DEF AcquireLock, At
<1>2. CASE lock = None
  <2>1. PICK step \in {"count", "stranded"} :
           Go(p, step) /\ lock' = p /\ UNCHANGED <<disk, dir, container, started>>
    BY <1>2 DEF AcquireLock
  <2>2. /\ proc' \in [Invocations -> Process]
        /\ proc'[p].at = step
        /\ \A q \in Invocations : /\ proc'[q].run = proc[q].run
                                  /\ proc'[q].cli = proc[q].cli
                                  /\ q # p => proc'[q].at = proc[q].at
    BY <2>1, MovedOne DEF IInv, Steps, Locked
  <2>3. proc[p].run = None /\ proc[p].cli = "none"
    BY DEF AcquireLock, At, IInv, OperatorInv, Stages, Fresh, Unlaunched
  <2>4. \A q \in Invocations : ~ Engaged(q)
    BY <1>2, OperatorAssumption DEF IInv, OperatorInv, LockIsHeld
  <2>5. \A q \in Invocations : ~ Child(q)' /\ (Engaged(q)' => q = p)
    BY <2>2, <2>3, <2>4 DEF Engaged, Child, InLock
  <2>6. TypeOK'
    BY <2>1, <2>2 DEF IInv, TypeOK
  <2>7. LockIsHeld' /\ DirectoryIsOwned'
    BY <2>1, <2>2, <2>4, <2>5
       DEF LockIsHeld, DirectoryIsOwned, Engaged, InLock, Owning, Locked
  <2>8. Stages'
    BY <2>2, <2>3, <2>5 DEF IInv, OperatorInv, Stages, Fresh, Unlaunched, Numbered, At
  <2>9. Numbers'
    BY <2>1, <2>2, <2>3, <2>5 DEF IInv, OperatorInv, Numbers
  <2>10. Starts'
    BY <2>1, <2>2, <2>3, <2>5 DEF IInv, OperatorInv, Starts, TypeOK, Engaged
  <2> QED
    BY <2>6, <2>7, <2>8, <2>9, <2>10 DEF IInv, OperatorInv
<1> QED
  BY <1>1, <1>2

\* The new number is above every earlier one: they were counted before it.
LEMMA CountKeeps ==
    ASSUME IInv, NEW p \in Invocations, CountExecution(p)
    PROVE  IInv'
<1>1. CASE ~ MayExecute(disk)
  BY <1>1, FailKeeps DEF CountExecution, At
<1>2. CASE MayExecute(disk)
  <2> DEFINE number == disk.executions + 1
  <2>1. /\ disk' = [disk EXCEPT !.executions = number]
        /\ proc' = [proc EXCEPT ![p].at = "initialize", ![p].run = number]
        /\ UNCHANGED <<lock, dir, container, started>>
    BY <1>2 DEF CountExecution, CountedState
  <2>2. disk.executions \in Nat /\ number \in Runs /\ number \in 0 .. MaxExecutions
    BY <1>2, OperatorAssumption DEF MayExecute, IInv, TypeOK, Disk, Runs, MaxExecutions
  <2>3. /\ disk' \in Disk /\ disk'.executions = number
        /\ disk'.audit = disk.audit /\ disk'.log = disk.log
    BY <2>1, <2>2 DEF IInv, TypeOK, Disk
  <2>4. /\ proc' \in [Invocations -> Process]
        /\ proc'[p].at = "initialize" /\ proc'[p].run = number
        /\ proc'[p].cli = proc[p].cli
        /\ \A q \in Invocations : q # p => proc'[q] = proc[q]
    BY <2>1, <2>2, ZenonT(60) DEF IInv, TypeOK, Process, Steps, Locked
  <2>5. /\ proc[p].cli = "none" /\ lock = p /\ p \notin started
        /\ \A q \in Invocations : q # p => ~ Engaged(q)
    BY DEF CountExecution, At, IInv, OperatorInv, Stages, Fresh, Unlaunched,
           LockIsHeld, Engaged, InLock, Locked, Starts
  <2>6. /\ Engaged(p)' /\ ~ Child(p)'
        /\ \A q \in Invocations : q # p => ~ Engaged(q)' /\ ~ Child(q)'
    BY <2>4, <2>5 DEF Engaged, Child, InLock, Locked
  <2>7. TypeOK'
    BY <2>1, <2>3, <2>4 DEF IInv, TypeOK
  <2>8. LockIsHeld' /\ DirectoryIsOwned'
    BY <2>1, <2>4, <2>5, <2>6
       DEF LockIsHeld, DirectoryIsOwned, Engaged, InLock, Owning, Locked
  <2>9. Stages'
    BY <2>2, <2>4, <2>5, OperatorAssumption
       DEF IInv, OperatorInv, Stages, Fresh, Unlaunched, Numbered, At, Child, Runs, MaxExecutions
  <2>10. Numbers'
    <3>1. \A q \in Invocations : proc[q].run # None =>
             proc[q].run \in Nat /\ proc[q].run <= disk.executions
      BY OperatorAssumption DEF IInv, OperatorInv, Numbers, TypeOK, Process, Runs, MaxExecutions
    <3>2. \A q \in Invocations : q # p /\ proc'[q].run # None =>
             proc'[q].run <= disk'.executions /\ proc'[q].run # number
      BY <2>2, <2>3, <2>4, <3>1
    <3> QED
      BY <2>2, <2>3, <2>4, <2>6, <3>2 DEF IInv, OperatorInv, Numbers
  <2>11. Starts'
    BY <2>1, <2>3, <2>4, <2>5, <2>6 DEF IInv, OperatorInv, Starts, TypeOK, Engaged
  <2> QED
    BY <2>7, <2>8, <2>9, <2>10, <2>11 DEF IInv, OperatorInv
<1> QED
  BY <1>1, <1>2

\* In the locked section the holder of the lock is the only one engaged.
LEMMA OnlyHolder ==
    ASSUME IInv, NEW p \in Invocations, InLock(p)
    PROVE  lock = p /\ \A q \in Invocations : q # p => ~ Engaged(q)
BY DEF IInv, OperatorInv, LockIsHeld, Engaged

\* The runtime directory comes into being under the lock's holder and goes with it.
LEMMA DirectoryKeeps ==
    ASSUME IInv, NEW p \in Invocations, Initialize(p) \/ CleanDirectory(p)
    PROVE  IInv'
<1>1. CASE Fail(p) /\ UNCHANGED <<disk, lock, dir, container, started>>
  BY <1>1, FailKeeps DEF Initialize, CleanDirectory, At
<1>2. CASE ~ (Fail(p) /\ UNCHANGED <<disk, lock, dir, container, started>>)
  <2>1. PICK step \in {"files", "judge"} :
           /\ Go(p, step) /\ UNCHANGED <<disk, lock, container, started>>
           /\ proc[p].at = IF step = "files" THEN "initialize" ELSE "clean"
           /\ dir' = IF step = "files" THEN [owner |-> p, output |-> None] ELSE NoDirectory
    BY <1>2 DEF Initialize, CleanDirectory, At
  <2>2. /\ proc' \in [Invocations -> Process]
        /\ proc'[p].at = step
        /\ \A q \in Invocations : /\ proc'[q].run = proc[q].run
                                  /\ proc'[q].cli = proc[q].cli
                                  /\ q # p => proc'[q].at = proc[q].at
    BY <2>1, MovedOne DEF IInv, Steps, Locked
  <2>3. dir' \in Directory /\ (step = "files" => dir'.owner = p)
    BY <2>1 DEF Directory, NoDirectory
  <2>4. InLock(p) /\ ~ Child(p) /\ proc[p].run # None
    BY <2>1 DEF InLock, Locked, IInv, OperatorInv, Stages, Numbered
  <2>5. lock = p /\ \A q \in Invocations : q # p => ~ Engaged(q)
    BY <2>4, OnlyHolder
  <2>6. \A q \in Invocations : /\ Engaged(q)' <=> q = p
                               /\ ~ Child(q)'
    BY <2>2, <2>4, <2>5 DEF Engaged, Child, InLock, Locked
  <2>7. TypeOK'
    BY <2>1, <2>2, <2>3 DEF IInv, TypeOK
  <2>8. LockIsHeld' /\ DirectoryIsOwned'
    BY <2>1, <2>2, <2>3, <2>5, <2>6
       DEF LockIsHeld, DirectoryIsOwned, Engaged, InLock, Owning, Locked
  <2>9. Stages'
    BY <2>1, <2>2, <2>4, <2>6 DEF IInv, OperatorInv, Stages, Fresh, Unlaunched, Numbered, At
  <2>10. Numbers'
    BY <2>1, <2>2, <2>4, <2>6 DEF IInv, OperatorInv, Numbers, Engaged
  <2>11. Starts'
    BY <2>1, <2>2, <2>4, <2>6 DEF IInv, OperatorInv, Starts, TypeOK, Engaged
  <2> QED
    BY <2>7, <2>8, <2>9, <2>10, <2>11 DEF IInv, OperatorInv
<1> QED
  BY <1>1, <1>2

\* The CLI is launched under the last number counted, whose log no run has written.
LEMMA LaunchKeeps ==
    ASSUME IInv, NEW p \in Invocations, Launch(p)
    PROVE  IInv'
<1>1. /\ proc[p].at = "launch"
      /\ disk' = [disk EXCEPT !.log[proc[p].run] = "opened"]
      /\ proc' = [proc EXCEPT ![p].at = "wait", ![p].cli = "starting"]
      /\ UNCHANGED <<lock, dir, container, started>>
  BY DEF Launch, At
<1>2. InLock(p) /\ proc[p].run # None /\ dir.owner = p /\ p \notin started
  BY <1>1 DEF InLock, Locked, Numbered, Owning, Unlaunched, Fresh,
              IInv, OperatorInv, Stages, DirectoryIsOwned, Starts
<1>3. lock = p /\ \A q \in Invocations : q # p => ~ Engaged(q)
  BY <1>2, OnlyHolder
<1>4. /\ disk' \in Disk /\ disk'.executions = disk.executions
      /\ disk'.audit = disk.audit
      /\ \A n \in Runs : disk'.log[n] = "written" => disk.log[n] = "written"
  BY <1>1 DEF IInv, TypeOK, Disk
<1>5. /\ proc' \in [Invocations -> Process]
      /\ proc'[p].at = "wait" /\ proc'[p].run = proc[p].run
      /\ proc'[p].cli = "starting"
      /\ \A q \in Invocations : q # p => proc'[q] = proc[q]
  BY <1>1, ZenonT(60) DEF IInv, TypeOK, Process, Steps, Locked
<1>6. \A q \in Invocations : (Engaged(q)' <=> q = p) /\ (Child(q)' <=> q = p)
  BY <1>3, <1>5 DEF Engaged, Child, InLock, Locked
<1>7. TypeOK'
  BY <1>1, <1>4, <1>5 DEF IInv, TypeOK
<1>8. LockIsHeld' /\ DirectoryIsOwned'
  BY <1>1, <1>2, <1>3, <1>5, <1>6
     DEF LockIsHeld, DirectoryIsOwned, Engaged, InLock, Owning, Locked
<1>9. Stages'
  BY <1>2, <1>5, <1>6 DEF IInv, OperatorInv, Stages, Fresh, Unlaunched, Numbered, At
<1>10. Numbers'
  BY <1>1, <1>2, <1>4, <1>5, <1>6 DEF IInv, OperatorInv, Numbers, Engaged
<1>11. Starts'
  BY <1>1, <1>2, <1>4, <1>5, <1>6 DEF IInv, OperatorInv, Starts, TypeOK, Engaged
<1> QED
  BY <1>7, <1>8, <1>9, <1>10, <1>11 DEF IInv, OperatorInv

\* Once the CLI is waited for no more, it has returned or was killed.
LEMMA AwaitKeeps ==
    ASSUME IInv, NEW p \in Invocations, Await(p)
    PROVE  IInv'
<1> DEFINE left == IF Child(p) THEN "killed" ELSE proc[p].cli
<1>l. /\ left \in {"none", "ok", "failed", "killed"}
      /\ left \in {"ok", "failed"} => left = proc[p].cli
      /\ p \in started => left \in {"ok", "failed", "killed"}
  BY DEF Child, IInv, TypeOK, Process, OperatorInv, Starts
<1>1. /\ proc[p].at = "wait" /\ UNCHANGED <<disk, lock, dir, container, started>>
      /\ proc' = [proc EXCEPT ![p].at = "copy", ![p].cli = left]
  BY DEF Await, At, IInv, TypeOK, Process
<1> HIDE DEF left
<1>2. InLock(p) /\ proc[p].run # None /\ dir.owner = p
  BY <1>1 DEF InLock, Locked, Numbered, Owning,
              IInv, OperatorInv, Stages, DirectoryIsOwned
<1>3. lock = p /\ \A q \in Invocations : q # p => ~ Engaged(q)
  BY <1>2, OnlyHolder
<1>4. /\ proc' \in [Invocations -> Process]
      /\ proc'[p].at = "copy" /\ proc'[p].run = proc[p].run
      /\ proc'[p].cli = left
      /\ \A q \in Invocations : q # p => proc'[q] = proc[q]
  BY <1>1, <1>l, ZenonT(60) DEF IInv, TypeOK, Process, Steps, Locked
<1>5. \A q \in Invocations : (Engaged(q)' <=> q = p) /\ ~ Child(q)'
  BY <1>3, <1>4, <1>l DEF Engaged, Child, InLock, Locked
<1>6. TypeOK'
  BY <1>1, <1>4 DEF IInv, TypeOK
<1>7. LockIsHeld' /\ DirectoryIsOwned'
  BY <1>1, <1>2, <1>3, <1>4, <1>5
     DEF LockIsHeld, DirectoryIsOwned, Engaged, InLock, Owning, Locked
<1>8. Stages'
  BY <1>2, <1>4, <1>5 DEF IInv, OperatorInv, Stages, Fresh, Unlaunched, Numbered, At
<1>9. Numbers'
  BY <1>1, <1>2, <1>4, <1>5 DEF IInv, OperatorInv, Numbers, Engaged
<1>10. Starts'
  BY <1>1, <1>2, <1>4, <1>5, <1>l DEF IInv, OperatorInv, Starts, TypeOK, Engaged
<1> QED
  BY <1>6, <1>7, <1>8, <1>9, <1>10 DEF IInv, OperatorInv

\* The steps of the locked section that change nothing the invariant speaks of.
LEMMA LockedMovesKeep ==
    ASSUME IInv, NEW p \in Invocations,
           WriteFiles(p) \/ CopyOutput(p) \/ Judge(p) \/ Extract(p)
    PROVE  IInv'
<1>1. CASE Fail(p) /\ UNCHANGED <<disk, lock, dir, container, started>>
  BY <1>1, FailKeeps DEF WriteFiles, CopyOutput, Judge, Extract, At
<1>2. CASE ~ (Fail(p) /\ UNCHANGED <<disk, lock, dir, container, started>>)
  <2>1. PICK step \in {"launch", "remove", "extract", "unlock"} : Go(p, step)
    BY <1>2 DEF WriteFiles, CopyOutput, Judge, Extract
  <2>2. /\ proc[p].at = CASE step = "launch" -> "files" [] step = "remove" -> "copy"
                         [] step = "extract" -> "judge" [] step = "unlock" -> "extract"
        /\ step = "extract" => proc[p].cli = "ok"
        /\ UNCHANGED <<lock, dir, container, started>>
    <3>1. CASE WriteFiles(p)
      BY <1>2, <2>1, <3>1 DEF WriteFiles, At, Go, IInv, TypeOK, Process
    <3>2. CASE CopyOutput(p)
      BY <1>2, <2>1, <3>2 DEF CopyOutput, At, Go, IInv, TypeOK, Process
    <3>3. CASE Judge(p)
      BY <1>2, <2>1, <3>3 DEF Judge, At, Go, IInv, TypeOK, Process
    <3>4. CASE Extract(p)
      BY <1>2, <2>1, <3>4 DEF Extract, At, Go, IInv, TypeOK, Process
    <3> QED
      BY <3>1, <3>2, <3>3, <3>4
  <2>3. /\ disk' \in Disk /\ disk'.executions = disk.executions
        /\ disk'.audit = disk.audit /\ disk'.log = disk.log
    <3>1. proc[p].run \in Runs
      BY <2>2 DEF IInv, TypeOK, OperatorInv, Stages, Process, Numbered
    <3> QED
      BY <3>1 DEF WriteFiles, CopyOutput, Judge, Extract, IInv, TypeOK, Disk
  <2>4. InLock(p) /\ ~ Child(p) /\ proc[p].run # None
    BY <2>2 DEF InLock, Locked, Numbered, IInv, OperatorInv, Stages
  <2>5. /\ step \in Steps /\ step \notin Fresh
        /\ step \in Owning => proc[p].at \in Owning
        /\ step \in Unlaunched => proc[p].at \in Unlaunched \cup {"files"}
    BY <2>2 DEF Steps, Locked, Fresh, Owning, Unlaunched
  <2>6. step \in Unlaunched => proc[p].cli = "none"
    BY <2>2 DEF IInv, OperatorInv, Stages, Fresh, Unlaunched
  <2> QED
    BY <2>1, <2>2, <2>3, <2>4, <2>5, <2>6, MoveKeeps
<1> QED
  BY <1>1, <1>2

\* A removed container is nobody's.
LEMMA RemoveKeeps ==
    ASSUME IInv, NEW p \in Invocations, RemoveContainer(p)
    PROVE  IInv'
<1>1. CASE container.status = "running"
  BY <1>1, FailKeeps DEF RemoveContainer, At
<1>2. CASE container.status # "running"
  <2>1. /\ proc[p].at = "remove" /\ Go(p, "clean") /\ container' = NoContainer
        /\ UNCHANGED <<disk, lock, dir, started>>
    BY <1>2 DEF RemoveContainer, At
  <2>2. /\ proc' \in [Invocations -> Process]
        /\ proc'[p].at = "clean"
        /\ \A q \in Invocations : /\ proc'[q].run = proc[q].run
                                  /\ proc'[q].cli = proc[q].cli
                                  /\ q # p => proc'[q].at = proc[q].at
    BY <2>1, MovedOne DEF IInv, Steps, Locked
  <2>3. \A q \in Invocations : (Engaged(q)' <=> Engaged(q)) /\ (Child(q)' <=> Child(q))
    BY <2>1, <2>2 DEF Engaged, Child, InLock, Locked
  <2>4. InLock(p) /\ proc[p].run # None /\ dir.owner = p /\ ~ Child(p)
    BY <2>1 DEF InLock, Locked, Numbered, Owning,
                IInv, OperatorInv, Stages, DirectoryIsOwned
  <2>5. TypeOK'
    BY <2>1, <2>2 DEF IInv, TypeOK, Container, NoContainer
  <2>6. LockIsHeld' /\ DirectoryIsOwned'
    BY <2>1, <2>2, <2>3, <2>4 DEF IInv, OperatorInv, LockIsHeld, DirectoryIsOwned, Owning
  <2>7. Stages'
    BY <2>2, <2>3, <2>4 DEF IInv, OperatorInv, Stages, Fresh, Unlaunched, Numbered, At
  <2>8. Numbers'
    BY <2>1, <2>2, <2>3 DEF IInv, OperatorInv, Numbers
  <2>9. Starts'
    BY <2>1, <2>2, <2>3, <2>4
       DEF IInv, OperatorInv, Starts, TypeOK, NoContainer, InLock
  <2> QED
    BY <2>5, <2>6, <2>7, <2>8, <2>9 DEF IInv, OperatorInv
<1> QED
  BY <1>1, <1>2

\* The lock is released by its holder, whose CLI is gone.
LEMMA UnlockKeeps ==
    ASSUME IInv, NEW p \in Invocations, Unlock(p)
    PROVE  IInv'
<1>1. /\ proc[p].at = "unlock" /\ lock' = None /\ Go(p, "done")
      /\ UNCHANGED <<disk, dir, container, started>>
  BY DEF Unlock, At
<1>2. /\ proc' \in [Invocations -> Process]
      /\ proc'[p].at = "done"
      /\ \A q \in Invocations : /\ proc'[q].run = proc[q].run
                                /\ proc'[q].cli = proc[q].cli
                                /\ q # p => proc'[q].at = proc[q].at
  BY <1>1, MovedOne DEF IInv, Steps
<1>3. ~ Child(p) /\ \A q \in Invocations : q # p => ~ Engaged(q)
  BY <1>1, OnlyHolder DEF InLock, Locked, IInv, OperatorInv, Stages
<1>4. \A q \in Invocations : ~ Engaged(q)' /\ ~ Child(q)' /\ ~ InLock(q)'
  BY <1>2, <1>3 DEF Engaged, Child, InLock, Locked
<1>5. TypeOK'
  BY <1>1, <1>2 DEF IInv, TypeOK
<1>6. LockIsHeld' /\ DirectoryIsOwned'
  BY <1>4 DEF LockIsHeld, DirectoryIsOwned, Engaged, InLock, Owning, Locked
<1>7. Stages'
  BY <1>2, <1>4 DEF IInv, OperatorInv, Stages, Fresh, Unlaunched, Numbered, At
<1>8. Numbers'
  BY <1>1, <1>2, <1>4 DEF IInv, OperatorInv, Numbers
<1>9. Starts'
  BY <1>1, <1>2, <1>4 DEF IInv, OperatorInv, Starts, TypeOK
<1> QED
  BY <1>5, <1>6, <1>7, <1>8, <1>9 DEF IInv, OperatorInv

\* Death leaves everything but the step as it was: a CLI lives on, engaged.
LEMMA CrashKeeps ==
    ASSUME IInv, NEW p \in Invocations, Crash(p)
    PROVE  IInv'
<1>1. /\ "dead" \in Steps
      /\ "dead" \notin Locked \cup Owning \cup Fresh \cup Numbered \cup Unlaunched
  BY DEF Steps, Locked, Owning, Fresh, Numbered, Unlaunched
<1> QED
  BY <1>1, MoveKeeps DEF Crash, IInv, TypeOK

-----------------------------------------------------------------------------
\* A CLI under way belongs to the invocation the lock stands for, in its own
\* directory, under the last number counted, and has started nothing yet.
LEMMA StartingCli ==
    ASSUME IInv, NEW p \in Invocations, proc[p].cli \in {"starting", "audited"}
    PROVE  /\ Child(p) /\ lock = p /\ dir.owner = p /\ p \notin started
           /\ proc[p].at \in {"wait", "dead"}
           /\ proc[p].run \in Runs /\ proc[p].run = disk.executions
           /\ \A q \in Invocations : q # p => ~ Engaged(q)
<1>1. Child(p) /\ Engaged(p) /\ p \notin started
  BY DEF Child, Engaged, IInv, OperatorInv, Starts
<1>2. lock = p /\ dir.owner = p /\ \A q \in Invocations : q # p => ~ Engaged(q)
  BY <1>1 DEF IInv, OperatorInv, LockIsHeld, DirectoryIsOwned
<1>3. proc[p].run # None /\ proc[p].at \in {"wait", "dead"}
  BY <1>1 DEF IInv, OperatorInv, Stages
<1>4. proc[p].run \in Runs /\ proc[p].run = disk.executions
  BY <1>1, <1>3 DEF IInv, TypeOK, Process, OperatorInv, Numbers
<1> QED
  BY <1>1, <1>2, <1>3, <1>4

\* A change of the container alone, or of the directory nobody owns.
LEMMA ResourcesKeep ==
    ASSUME IInv, UNCHANGED <<disk, lock, proc, started>>,
           container' \in Container,
           container'.status \in {"running", "exited"} => container'.by \in started,
           dir' \in Directory, dir'.owner = dir.owner \/ Settled(dir.owner)
    PROVE  IInv'
<1>1. \A p \in Invocations : /\ Child(p)' <=> Child(p)
                             /\ InLock(p)' <=> InLock(p)
                             /\ Engaged(p)' <=> Engaged(p)
  BY DEF Child, InLock, Engaged
<1>2. TypeOK'
  BY DEF IInv, TypeOK
<1>3. LockIsHeld' /\ Stages' /\ Numbers' /\ Starts'
  BY <1>1 DEF IInv, OperatorInv, LockIsHeld, Stages, Numbers, Starts, At
<1>4. DirectoryIsOwned'
  BY <1>1 DEF IInv, OperatorInv, DirectoryIsOwned, Settled, Owning, Child
<1> QED
  BY <1>2, <1>3, <1>4 DEF IInv, OperatorInv

\* The CLI's own step and its audit: whoever else is in the locked section would be
\* engaged beside it.
LEMMA AuditKeeps ==
    ASSUME IInv, NEW p \in Invocations, GuardAudits(p)
    PROVE  IInv'
<1>1. /\ Child(p) /\ lock = p /\ dir.owner = p /\ p \notin started
      /\ proc[p].at \in {"wait", "dead"}
      /\ proc[p].run \in Runs /\ proc[p].run = disk.executions
      /\ \A q \in Invocations : q # p => ~ Engaged(q)
  BY StartingCli DEF GuardAudits
<1>2. /\ proc' = [proc EXCEPT ![p].cli = "audited"]
      /\ disk' = [disk EXCEPT !.audit = proc[p].run]
      /\ UNCHANGED <<lock, dir, container, started>>
  BY DEF GuardAudits
<1>3. /\ disk' \in Disk /\ disk'.executions = disk.executions
      /\ disk'.audit = proc[p].run /\ disk'.log = disk.log
  BY <1>1, <1>2 DEF IInv, TypeOK, Disk
<1>4. /\ proc' \in [Invocations -> Process]
      /\ proc'[p].at = proc[p].at /\ proc'[p].run = proc[p].run
      /\ proc'[p].cli = "audited"
      /\ \A q \in Invocations : q # p => proc'[q] = proc[q]
  BY <1>2 DEF IInv, TypeOK, Process
<1>5. \A q \in Invocations : /\ Child(q)' <=> Child(q)
                             /\ InLock(q)' <=> InLock(q)
                             /\ Engaged(q)' <=> Engaged(q)
  BY <1>1, <1>4 DEF Child, InLock, Engaged
<1>6. TypeOK'
  BY <1>2, <1>3, <1>4 DEF IInv, TypeOK
<1>7. LockIsHeld' /\ DirectoryIsOwned'
  BY <1>2, <1>4, <1>5 DEF IInv, OperatorInv, LockIsHeld, DirectoryIsOwned
<1>8. Stages'
  BY <1>1, <1>4, <1>5, OperatorAssumption
     DEF IInv, OperatorInv, Stages, Fresh, Unlaunched, At, Runs, MaxExecutions
<1>9. Numbers'
  BY <1>3, <1>4, <1>5 DEF IInv, OperatorInv, Numbers
<1>10. Starts'
  BY <1>1, <1>2, <1>3, <1>4, <1>5 DEF IInv, OperatorInv, Starts, TypeOK, Engaged
<1> QED
  BY <1>6, <1>7, <1>8, <1>9, <1>10 DEF IInv, OperatorInv

\* The CLI changes its own verdict only: it starts its container under a number
\* that is the last one counted, refuses, or returns.
LEMMA CliKeeps ==
    ASSUME IInv, NEW p \in Invocations, Cli(p)
    PROVE  IInv'
<1>1. CASE GuardCreates(p)
  BY <1>1, ResourcesKeep DEF GuardCreates, Container, IInv, TypeOK
<1>2. CASE GuardStarts(p)
  <2>1. /\ Child(p) /\ lock = p /\ dir.owner = p /\ p \notin started
        /\ proc[p].at \in {"wait", "dead"}
        /\ proc[p].run \in Runs /\ proc[p].run = disk.executions
        /\ \A q \in Invocations : q # p => ~ Engaged(q)
    BY <1>2, StartingCli DEF GuardStarts
  <2>2. /\ proc' = [proc EXCEPT ![p].cli = "attached"]
        /\ container' = [by |-> p, status |-> "running"]
        /\ disk' = [disk EXCEPT !.log[proc[p].run] = "written"]
        /\ started' = started \cup {p} /\ UNCHANGED <<lock, dir>>
    BY <1>2 DEF GuardStarts
  <2>3. /\ disk' \in Disk /\ disk'.executions = disk.executions
        /\ disk'.audit = disk.audit
        /\ \A n \in Runs : disk'.log[n] = "written"
                             => n = proc[p].run \/ disk.log[n] = "written"
    BY <2>1, <2>2 DEF IInv, TypeOK, Disk
  <2>4. /\ proc' \in [Invocations -> Process]
        /\ proc'[p].at = proc[p].at /\ proc'[p].run = proc[p].run
        /\ proc'[p].cli = "attached"
        /\ \A q \in Invocations : q # p => proc'[q] = proc[q]
    BY <2>2 DEF IInv, TypeOK, Process
  <2>5. \A q \in Invocations : /\ Child(q)' <=> Child(q)
                               /\ InLock(q)' <=> InLock(q)
                               /\ Engaged(q)' <=> Engaged(q)
    BY <2>1, <2>4 DEF Child, InLock, Engaged
  <2>6. TypeOK'
    BY <2>2, <2>3, <2>4 DEF IInv, TypeOK, Container
  <2>7. LockIsHeld' /\ DirectoryIsOwned'
    BY <2>2, <2>4, <2>5 DEF IInv, OperatorInv, LockIsHeld, DirectoryIsOwned
  <2>8. Stages'
    BY <2>1, <2>4, <2>5, OperatorAssumption
       DEF IInv, OperatorInv, Stages, Fresh, Unlaunched, At, Runs, MaxExecutions
  <2>9. Numbers'
    BY <2>3, <2>4, <2>5 DEF IInv, OperatorInv, Numbers
  <2>10. Starts'
    <3>1. \A q \in started' : proc'[q].cli \in {"attached", "ok", "failed", "killed"}
      BY <2>2, <2>4 DEF IInv, OperatorInv, Starts, TypeOK
    <3>2. \A q \in Invocations :
            /\ proc'[q].cli \in {"attached", "ok"} => q \in started'
            /\ proc'[q].cli \in {"audited", "attached", "ok"} /\ InLock(q)'
                 => disk'.audit = proc'[q].run
      BY <1>2, <2>2, <2>3, <2>4, <2>5 DEF GuardStarts, IInv, OperatorInv, Starts
    <3>3. \A n \in Runs : disk'.log[n] = "written" => \E q \in started' : proc'[q].run = n
      BY <2>2, <2>3, <2>4 DEF IInv, OperatorInv, Starts, TypeOK
    <3> QED
      BY <2>2, <3>1, <3>2, <3>3 DEF Starts
  <2> QED
    BY <2>6, <2>7, <2>8, <2>9, <2>10 DEF IInv, OperatorInv
<1>3. CASE GuardRefuses(p) \/ CliReturns(p)
  <2>1. PICK verdict \in {"ok", "failed"} : proc' = [proc EXCEPT ![p].cli = verdict]
    BY <1>3 DEF GuardRefuses, CliReturns
  <2>2. /\ UNCHANGED <<disk, lock, dir, started>>
        /\ Child(p) /\ proc[p].run # None /\ proc[p].at \in {"wait", "dead"}
        /\ container' \in Container
        /\ container' = NoContainer \/ container' = container
    BY <1>3 DEF GuardRefuses, CliReturns, IInv, TypeOK, Container, NoContainer,
                Child, OperatorInv, Stages
  <2>3. /\ proc' \in [Invocations -> Process]
        /\ proc'[p].at = proc[p].at /\ proc'[p].run = proc[p].run
        /\ proc'[p].cli = verdict
        /\ \A q \in Invocations : q # p => proc'[q] = proc[q]
    BY <2>1 DEF IInv, TypeOK, Process
  <2>4. verdict = "ok" => proc[p].cli = "attached"
    BY <1>3, <2>3 DEF GuardRefuses, CliReturns, IInv, TypeOK, Process
  <2>5. \A q \in Invocations : /\ Child(q)' => Child(q)
                               /\ InLock(q)' <=> InLock(q)
                               /\ Engaged(q)' => Engaged(q)
    BY <2>3 DEF Child, InLock, Engaged
  <2>6. TypeOK'
    BY <2>2, <2>3 DEF IInv, TypeOK
  <2>7. LockIsHeld' /\ DirectoryIsOwned'
    BY <2>2, <2>3, <2>5 DEF IInv, OperatorInv, LockIsHeld, DirectoryIsOwned
  <2>8. Stages'
    BY <2>2, <2>3, <2>5 DEF IInv, OperatorInv, Stages, Fresh, Unlaunched, At
  <2>9. Numbers'
    BY <2>2, <2>3, <2>5 DEF IInv, OperatorInv, Numbers
  <2>10. Starts'
    BY <2>2, <2>3, <2>4, <2>5 DEF IInv, OperatorInv, Starts, TypeOK, NoContainer
  <2> QED
    BY <2>6, <2>7, <2>8, <2>9, <2>10 DEF IInv, OperatorInv
<1> QED
  BY <1>1, <1>2, <1>3, AuditKeeps DEF Cli

\* The engine's end changes the container and what its own directory holds.
LEMMA ExitKeeps ==
    ASSUME IInv, ContainerExits
    PROVE  IInv'
<1>1. container' = [container EXCEPT !.status = "exited"] /\ container.status = "running"
  BY DEF ContainerExits
<1>2. container' \in Container /\ container'.by = container.by
  BY <1>1 DEF IInv, TypeOK, Container
<1>3. container.by \in started
  BY <1>1 DEF IInv, OperatorInv, Starts
<1>4. dir' \in Directory /\ dir'.owner = dir.owner
  BY <1>3 DEF ContainerExits, IInv, TypeOK, Directory, Process
<1> QED
  BY <1>2, <1>3, <1>4, ResourcesKeep DEF ContainerExits

\* A person removes what belongs to an invocation that is no longer engaged.
LEMMA PersonKeeps ==
    ASSUME IInv, Person
    PROVE  IInv'
<1>1. CASE ClearLock
  <2>1. \A p \in Invocations : ~ Engaged(p)
    BY <1>1 DEF ClearLock, Settled, Engaged, InLock, Child, Locked,
                IInv, OperatorInv, LockIsHeld
  <2>2. /\ UNCHANGED <<disk, dir, container, proc, started>> /\ lock' = None
        /\ \A p \in Invocations : ~ Engaged(p)'
    BY <1>1, <2>1 DEF ClearLock, Engaged, InLock, Child
  <2>3. TypeOK' /\ LockIsHeld'
    BY <2>2 DEF IInv, TypeOK, LockIsHeld
  <2>4. DirectoryIsOwned' /\ Stages' /\ Numbers' /\ Starts'
    BY <2>1, <2>2 DEF IInv, OperatorInv, DirectoryIsOwned, Stages, Numbers, Starts,
                      At, Child, Engaged, InLock
  <2> QED
    BY <2>3, <2>4 DEF IInv, OperatorInv
<1>2. CASE ClearDirectory
  BY <1>2, ResourcesKeep
     DEF ClearDirectory, IInv, TypeOK, Directory, NoDirectory, OperatorInv, Starts
<1>3. CASE ClearContainer
  BY <1>3, ResourcesKeep
     DEF ClearContainer, IInv, TypeOK, Container, NoContainer
<1> QED
  BY <1>1, <1>2, <1>3 DEF Person

-----------------------------------------------------------------------------
\* A fresh checkout or the retained history: nothing is engaged.
LEMMA OperatorInit == Init => IInv
<1> SUFFICES ASSUME Init PROVE IInv
  OBVIOUS
<1>1. PICK history, prepared \in BOOLEAN :
         disk = [executions |-> IF history THEN Prior ELSE 0,
                 pulls |-> IF history THEN 1 ELSE 0, image |-> history,
                 staged |-> prepared, local |-> prepared, lean |-> None,
                 compared |-> None, audit |-> None,
                 log |-> [n \in Runs |-> "none"], preserved |-> {}]
  BY DEF Init
<1>2. /\ \A p \in Invocations : /\ proc[p].at = "idle" /\ proc[p].run = None
                                 /\ proc[p].cli = "none"
      /\ started = {} /\ container.status = "absent"
  BY DEF Init, NoContainer
<1>3. disk \in Disk /\ \A n \in Runs : disk.log[n] = "none"
  BY <1>1, OperatorAssumption DEF Disk, MaxExecutions
<1>4. TypeOK
  BY <1>3 DEF Init, TypeOK, NoDirectory, NoContainer, Directory, Container, Process,
              Steps, Phases
<1>5. \A p \in Invocations : ~ Engaged(p) /\ ~ Child(p)
  BY <1>2 DEF Engaged, InLock, Child, Locked
<1>6. OperatorInv
  BY <1>2, <1>3, <1>5 DEF OperatorInv, LockIsHeld, DirectoryIsOwned, Stages, Numbers,
                          Starts, Owning, Fresh, Numbered, Unlaunched, At
<1> QED
  BY <1>4, <1>6 DEF IInv

\* Every step keeps the invariant.
LEMMA OperatorStep == IInv /\ [Next]_vars => IInv'
<1> SUFFICES ASSUME IInv, [Next]_vars PROVE IInv'
  OBVIOUS
<1>1. CASE \E p \in Invocations : (\E phase \in Phases : Begin(p, phase)) \/ Step(p)
  <2>1. PICK p \in Invocations : (\E phase \in Phases : Begin(p, phase)) \/ Step(p)
    BY <1>1
  <2> QED
    BY <2>1, PhasesKeep, AcquireKeeps, CountKeeps, DirectoryKeeps, LaunchKeeps, AwaitKeeps,
       LockedMovesKeep, RemoveKeeps, UnlockKeeps DEF Step
<1>2. CASE \E p \in Invocations : Cli(p) \/ Crash(p)
  BY <1>2, CliKeeps, CrashKeeps
<1>3. CASE ContainerExits \/ Person
  BY <1>3, ExitKeeps, PersonKeeps
<1>4. CASE UNCHANGED vars
  BY <1>4, ResourcesKeep DEF vars, IInv, TypeOK, OperatorInv, Starts
<1> QED
  BY <1>1, <1>2, <1>3, <1>4 DEF Next

\* The inductive invariant holds throughout: the types, who is engaged, whose the
\* directory and the numbers are, and what the started containers left.
THEOREM OperatorInvariant == Spec => []IInv
BY OperatorInit, OperatorStep, PTL DEF Spec

\* The lock serializes the invocations, and every started container was counted
\* first under a number of its own (run_lean, increment_execution).
THEOREM StartsCounted == Spec => []StartsAreCounted
<1>1. IInv => StartsAreCounted
  <2> SUFFICES ASSUME IInv PROVE StartsAreCounted
    OBVIOUS
  <2>1. SerialRuns
    BY DEF SerialRuns, IInv, OperatorInv, LockIsHeld, Engaged
  <2>2. \A p \in started : /\ p \in Invocations /\ proc[p].run # None
                           /\ proc[p].run \in Runs
    BY DEF IInv, TypeOK, Process, OperatorInv, Starts, Stages
  <2> QED
    BY <2>1, <2>2 DEF StartsAreCounted, IInv, OperatorInv, Numbers
<1> QED
  BY <1>1, OperatorInvariant, PTL

-----------------------------------------------------------------------------
\* Which steps write what of the files a later invocation reads.
LEMMA DiskWriters ==
    ASSUME IInv, [Next]_vars
    PROVE  /\ disk'.executions # disk.executions =>
                \E p \in Invocations : CountExecution(p) /\ MayExecute(disk)
           /\ disk'.lean # disk.lean =>
                \E p \in Invocations : Extract(p) /\ disk'.lean = proc[p].run
           /\ \A n \in Runs : /\ disk'.log[n] # disk.log[n] =>
                                   \/ \E p \in Invocations : Launch(p) /\ proc[p].run = n
                                   \/ disk'.log[n] = "written"
                              /\ n \in disk.preserved => n \in disk'.preserved
<1> USE DEF IInv, TypeOK, Disk
<1>1. CASE UNCHANGED disk
  BY <1>1
<1>2. CASE \E p \in Invocations : Stage(p) \/ Export(p) \/ Compare(p) \/ CopyOutput(p)
  BY <1>2 DEF Stage, Export, Compare, CopyOutput
<1>3. CASE \E p \in Invocations : CountExecution(p)
  BY <1>3 DEF CountExecution, CountedState
<1>4. CASE \E p \in Invocations : Launch(p)
  <2>1. PICK p \in Invocations : Launch(p)
    BY <1>4
  <2>2. disk' = [disk EXCEPT !.log[proc[p].run] = "opened"]
    BY <2>1 DEF Launch
  <2>3. /\ disk'.executions = disk.executions /\ disk'.lean = disk.lean
        /\ disk'.preserved = disk.preserved
        /\ \A n \in Runs : n # proc[p].run => disk'.log[n] = disk.log[n]
    BY <2>2
  <2> QED
    BY <2>1, <2>3
<1>5. CASE \E p \in Invocations : Extract(p)
  BY <1>5 DEF Extract
<1>6. CASE \E p \in Invocations : GuardAudits(p) \/ GuardStarts(p)
  BY <1>6 DEF GuardAudits, GuardStarts
<1> QED
  BY <1>1, <1>2, <1>3, <1>4, <1>5, <1>6
     DEF Next, Step, Cli, Person, vars, Begin, Preflight, RunChecks, AcquireLock, Initialize,
         WriteFiles, Await, RemoveContainer, CleanDirectory, Judge, Unlock, GuardCreates,
         GuardRefuses, CliReturns, Crash, ContainerExits, ClearLock, ClearDirectory,
         ClearContainer

\* A started run's log is written, and the run that truncates a log has not started.
LEMMA LogsAreKept ==
    ASSUME IInv, [Next]_vars, NEW n \in Runs, disk.log[n] = "written"
    PROVE  disk'.log[n] = "written"
<1>1. PICK q \in started : proc[q].run = n
  BY DEF IInv, OperatorInv, Starts
<1>2. ASSUME NEW p \in Invocations, Launch(p), proc[p].run = n PROVE FALSE
  <2>1. proc[p].cli = "none" /\ proc[p].run # None
    BY <1>2 DEF Launch, At, IInv, OperatorInv, Stages, Unlaunched, Fresh, Numbered
  <2>2. q = p
    BY <1>1, <1>2, <2>1 DEF IInv, TypeOK, OperatorInv, Numbers
  <2> QED
    BY <2>1, <2>2 DEF IInv, OperatorInv, Starts
<1> QED
  BY <1>2, DiskWriters

\* What a run leaves behind can be relied on whatever invocation dies or times out:
\* logs and outputs are kept, the trace is that of an audited run, a directory is
\* removed by its creator, and a container is started over no leftovers.
THEOREM EvidenceIsSound == Spec => EvidenceHolds
<1>1. IInv /\ [Next]_vars
        => [\A n \in Runs : /\ disk.log[n] = "written" => disk'.log[n] = "written"
                            /\ n \in disk.preserved => n \in disk'.preserved]_vars
  BY LogsAreKept, DiskWriters
<1>2. IInv /\ [Next]_vars
        => [disk'.lean # disk.lean => /\ disk.audit = disk'.lean
                                      /\ \E p \in started : proc[p].run = disk'.lean]_vars
  <2> SUFFICES ASSUME IInv, [Next]_vars, disk'.lean # disk.lean
               PROVE  /\ disk.audit = disk'.lean
                      /\ \E p \in started : proc[p].run = disk'.lean
    OBVIOUS
  <2>1. PICK p \in Invocations : Extract(p) /\ disk'.lean = proc[p].run
    BY DiskWriters
  <2>2. proc[p].cli = "ok" /\ InLock(p)
    BY <2>1 DEF Extract, At, InLock, Locked, IInv, OperatorInv, Stages
  <2> QED
    BY <2>1, <2>2 DEF IInv, OperatorInv, Starts
<1>3. IInv /\ [Next]_vars
        => [\A p \in Invocations : proc[p].at = "clean" /\ dir # dir' /\ proc'[p].at # "clean"
              => dir.owner = p]_vars
  BY DEF IInv, OperatorInv, DirectoryIsOwned, Owning
<1>4. IInv /\ [Next]_vars
        => [\A p \in Invocations : p \in started' \ started
              => dir.owner = p /\ lock = p]_vars
  <2> SUFFICES ASSUME IInv, [Next]_vars, NEW p \in Invocations, p \in started' \ started
               PROVE  dir.owner = p /\ lock = p
    OBVIOUS
  <2>1. GuardStarts(p)
    BY DEF Next, Step, Cli, Person, vars, Begin, Preflight, Stage, Export, Compare, RunChecks,
           AcquireLock, CountExecution, Initialize, WriteFiles, Launch, Await, CopyOutput,
           RemoveContainer, CleanDirectory, Judge, Extract, Unlock, GuardCreates, GuardAudits,
           GuardStarts, GuardRefuses, CliReturns, Crash, ContainerExits, ClearLock, ClearDirectory,
           ClearContainer
  <2> QED
    BY <2>1, StartingCli DEF GuardStarts
<1> QED
  BY <1>1, <1>2, <1>3, <1>4, OperatorInvariant, PTL
     DEF Spec, EvidenceHolds, EvidenceIsKept, TraceIsAudited, CleansItsOwn, NoStartOverLeftovers

-----------------------------------------------------------------------------
\* The promise to whoever authorized the executions holds at the start.
LEMMA BudgetInit == Init => Budget!Init
BY DEF Init, Budget!Init, NoContainer

\* A step that gives no number, starts nothing, and leaves a running container
\* as it is makes no step of the budget.
LEMMA BudgetUnseen ==
    ASSUME IInv, UNCHANGED started, disk'.executions = disk.executions,
           \A p \in started : proc'[p].run = proc[p].run,
           \/ UNCHANGED container
           \/ container.status # "running" /\ container'.status # "running"
    PROVE  UNCHANGED Budget!vars
<1>1. {proc'[p].run : p \in started} = {proc[p].run : p \in started}
  OBVIOUS
<1>2. container.status = "running" => container.by \in started
  BY DEF IInv, OperatorInv, Starts
<1> QED
  BY <1>1, <1>2 DEF Budget!vars

\* Only counting gives an invocation its number.
LEMMA RunWriters ==
    ASSUME IInv, [Next]_vars, ~ \E p \in Invocations : CountExecution(p)
    PROVE  \A q \in Invocations : proc'[q].run = proc[q].run
<1> USE DEF IInv, TypeOK, Process
<1>1. CASE \E p \in Invocations : \E phase \in Phases : Begin(p, phase)
  BY <1>1 DEF Begin
<1>2. CASE \E p \in Invocations : Step(p)
  <2>1. PICK p \in Invocations : Step(p)
    BY <1>2
  <2>2. \/ Launch(p) \/ Await(p) \/ \E step : Go(p, step)
    BY <2>1 DEF Step, Preflight, Stage, Export, Compare, RunChecks, AcquireLock, Initialize,
        WriteFiles, CopyOutput, RemoveContainer, CleanDirectory, Judge, Extract, Unlock, Fail
  <2> QED
    BY <2>2 DEF Launch, Await, Go
<1>3. CASE \E p \in Invocations : Cli(p)
  BY <1>3 DEF Cli, GuardCreates, GuardAudits, GuardStarts, GuardRefuses, CliReturns
<1>4. CASE \E p \in Invocations : Crash(p)
  BY <1>4 DEF Crash, Go
<1>5. CASE ContainerExits \/ Person \/ UNCHANGED vars
  BY <1>5 DEF ContainerExits, Person, ClearLock, ClearDirectory, ClearContainer, vars
<1> QED
  BY <1>1, <1>2, <1>3, <1>4, <1>5 DEF Next

\* The guard starts a container under the last number counted, which is above that
\* of every start before it, and only when the name was free for its own.
LEMMA BudgetLaunch ==
    ASSUME IInv, NEW p \in Invocations, GuardStarts(p)
    PROVE  Budget!Next
<1>1. PICK number \in Runs : /\ number = proc[p].run /\ number = disk.executions
                             /\ p \notin started
  BY StartingCli DEF GuardStarts
<1>2. /\ started' = started \cup {p} /\ disk'.executions = disk.executions
      /\ container.status = "created"
      /\ container'.status = "running" /\ container'.by = p
      /\ \A q \in Invocations : proc'[q].run = proc[q].run
  BY DEF GuardStarts, IInv, TypeOK, Disk, Process
<1>3. \A q \in started : proc[q].run < number
  <2> SUFFICES ASSUME NEW q \in started PROVE proc[q].run < number
    OBVIOUS
  <2>1. q \in Invocations /\ proc[q].run \in Runs /\ q # p
    BY <1>1 DEF IInv, TypeOK, Process, OperatorInv, Starts, Stages
  <2>2. proc[q].run # None
    BY <1>1, <2>1 DEF IInv, OperatorInv, Starts, Stages
  <2>3. proc[q].run <= disk.executions /\ proc[q].run # number
    BY <1>1, <2>1, <2>2 DEF IInv, OperatorInv, Numbers
  <2> QED
    BY <1>1, <2>1, <2>3, OperatorAssumption DEF Runs, MaxExecutions
<1>4. {proc'[q].run : q \in started'} = {proc[q].run : q \in started} \cup {number}
  BY <1>1, <1>2, ZenonT(60) DEF IInv, TypeOK
<1>5. number \in Prior + 1 .. MaxExecutions /\ number \in Prior + 1 .. disk.executions
  BY <1>1, OperatorAssumption DEF Runs, MaxExecutions
<1>6. Budget!Launch(number)
  BY <1>1, <1>2, <1>3, <1>4, <1>5 DEF Budget!Launch
<1> QED
  BY <1>5, <1>6 DEF Budget!Next

\* Every step of the operator is one of the budget or none.
LEMMA BudgetSteps == IInv /\ [Next]_vars => [Budget!Next]_(Budget!vars)
<1> SUFFICES ASSUME IInv, [Next]_vars PROVE Budget!Next \/ UNCHANGED Budget!vars
  OBVIOUS
<1>1. CASE \E p \in Invocations : GuardStarts(p)
  BY <1>1, BudgetLaunch
<1>2. CASE \E p \in Invocations : CountExecution(p)
  <2>1. PICK p \in Invocations : CountExecution(p)
    BY <1>2
  <2>2. p \notin started /\ UNCHANGED <<container, started>>
    BY <2>1 DEF CountExecution, At, IInv, OperatorInv, Stages, Starts, Fresh, Unlaunched
  <2>3. \A q \in started : proc'[q].run = proc[q].run
    BY <2>1, <2>2 DEF CountExecution, Fail, Go, IInv, TypeOK, Process
  <2>4. CASE ~ MayExecute(disk)
    BY <2>1, <2>2, <2>3, <2>4, BudgetUnseen DEF CountExecution
  <2>5. CASE MayExecute(disk)
    <3>1. disk'.executions = disk.executions + 1
      BY <2>1, <2>5 DEF CountExecution, CountedState, IInv, TypeOK, Disk
    <3>2. disk.executions \in Prior .. MaxExecutions - 1
      BY <2>5, OperatorAssumption DEF MayExecute, IInv, TypeOK, Disk, MaxExecutions
    <3>3. {proc'[q].run : q \in started'} = {proc[q].run : q \in started}
      BY <2>2, <2>3
    <3>4. container.status = "running" => container.by \in started
      BY DEF IInv, OperatorInv, Starts
    <3>5. Budget!Count
      BY <2>2, <2>3, <3>1, <3>2, <3>3, <3>4 DEF Budget!Count
    <3> QED
      BY <3>5 DEF Budget!Next
  <2> QED
    BY <2>4, <2>5
<1>3. CASE ContainerExits
  <2>1. /\ container.status = "running" /\ container'.status = "exited"
        /\ UNCHANGED <<disk, proc, started>>
    BY <1>3 DEF ContainerExits, IInv, TypeOK, Container
  <2>2. proc[container.by].run # None
    BY <2>1 DEF IInv, TypeOK, OperatorInv, Starts, Stages
  <2>3. Budget!Exit
    BY <2>1, <2>2 DEF Budget!Exit
  <2> QED
    BY <2>3 DEF Budget!Next
<1>4. CASE ~ (\E p \in Invocations : GuardStarts(p) \/ CountExecution(p)) /\ ~ ContainerExits
  <2>1. disk'.executions = disk.executions
    BY <1>4, DiskWriters
  <2>2. UNCHANGED started
    BY <1>4
    DEF Next, Step, Cli, Person, vars, Begin, Preflight, Stage, Export, Compare, RunChecks,
        AcquireLock, Initialize, WriteFiles, Launch, Await, CopyOutput, RemoveContainer,
        CleanDirectory, Judge, Extract, Unlock, GuardCreates, GuardAudits, GuardRefuses,
        CliReturns, Crash, ClearLock, ClearDirectory, ClearContainer
  <2>r. \A q \in Invocations : proc'[q].run = proc[q].run
    BY <1>4, RunWriters
  <2>3. ASSUME NEW p \in Invocations, Cli(p)
        PROVE  \/ UNCHANGED container
               \/ container.status # "running" /\ container'.status # "running"
    <3>1. proc[p].cli \in {"starting", "audited"} /\ container.by = p
             => container.status # "running"
      BY StartingCli DEF IInv, OperatorInv, Starts
    <3> QED
      BY <1>4, <2>3, <3>1 DEF Cli, GuardCreates, GuardAudits, GuardRefuses, CliReturns, NoContainer
  <2>4. \/ UNCHANGED container
        \/ container.status # "running" /\ container'.status # "running"
    <3>1. CASE ClearContainer \/ \E p \in Invocations : RemoveContainer(p)
      BY <3>1 DEF ClearContainer, RemoveContainer, NoContainer
    <3>2. CASE ~ (ClearContainer \/ \E p \in Invocations : RemoveContainer(p) \/ Cli(p))
      BY <1>4, <3>2
      DEF Next, Step, Person, vars, Begin, Preflight, Stage, Export, Compare, RunChecks,
          AcquireLock, CountExecution, Initialize, WriteFiles, Launch, Await, CopyOutput,
          CleanDirectory, Judge, Extract, Unlock, Crash, ClearLock, ClearDirectory
    <3> QED
      BY <2>3, <3>1, <3>2
  <2> QED
    BY <2>1, <2>2, <2>r, <2>4, BudgetUnseen DEF IInv, TypeOK
<1> QED
  BY <1>1, <1>2, <1>3, <1>4

\* The operator implements the budget for any batch and any number of invocations:
\* no interleaving, timeout or death launches out of turn, beside another or beyond
\* the batch.
THEOREM OperatorImplementsBudget == Spec => ImplementsBudget
BY OperatorInvariant, BudgetInit, BudgetSteps, PTL DEF Spec, ImplementsBudget, Budget!Spec
=============================================================================
