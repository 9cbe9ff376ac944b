---------------------------- MODULE Files_proofs ----------------------------
(***************************************************************************)
(* What the program reads, writes and is told, for every value of the      *)
(* constants: the artifact writer and the paths it is given, the event     *)
(* log, the CSV loader, the command line and the source of the fixture.    *)
(* Each part has an inductive invariant of its own; a step of MCFiles is a *)
(* step of one part, so each invariant is one of AllSpec.                  *)
(***************************************************************************)
EXTENDS MCFiles, SequenceTheorems, WellFoundedInduction,
        FiniteSetTheorems, TLAPS

-----------------------------------------------------------------------------
(***************************************************************************)
(* The artifact writer, for any plans and any number of calls.  A          *)
(* temporary is what its call's next step takes it for: there is none      *)
(* before a call writes, it is a part until it is flushed and whole after; *)
(* that is why a move is of a whole artifact, however the calls overlap.   *)
(* And what a call has placed is what it has passed.                       *)
(***************************************************************************)
Labels == Ends \cup {"prepare", "writing", "flushed", "cleaning"}

\* The shape of the files and the temporaries.
Shaped ==
    /\ file \in [Paths -> {Old, Missing} \cup [by : Runs, whole : BOOLEAN]]
    /\ placed \in [Paths -> Seq(Runs)]
    /\ temps \subseteq [by : Runs, path : Paths, whole : BOOLEAN]

WritesInv ==
    /\ Shaped
    /\ pc \in [Runs -> Labels]
    /\ at \in [Runs -> Nat \ {0}]
    /\ \A r \in Runs : pc[r] \notin Ends => at[r] <= Len(Plan[r])
    /\ \A t \in temps : /\ pc[t.by] \notin {"prepare", "succeeded"}
                        /\ pc[t.by] = "writing" => t = Part(t.by)
                        /\ pc[t.by] = "flushed" => t = Whole(t.by)

\* What a call has in place is what it has passed.
PlacedInv ==
    \A r \in Runs, p \in Paths :
        r \in ToSet(placed[p]) <=> \E i \in DOMAIN Plan[r] : i < at[r] /\ Plan[r][i] = p

LEMMA PlanFacts ==
    ASSUME NEW r \in Runs
    PROVE  /\ Len(Plan[r]) \in Nat \ {0}
           /\ DOMAIN Plan[r] = 1 .. Len(Plan[r])
           /\ \A i \in 1 .. Len(Plan[r]) : Plan[r][i] \in Paths
<1>1. Plan[r] \in Seq(ToSet(Plan[r])) /\ Plan[r] # <<>>
  BY PlanAssumption
<1>2. ToSet(Plan[r]) \subseteq Paths
  BY DEF Paths
<1>3. Len(Plan[r]) \in Nat \ {0} /\ DOMAIN Plan[r] = 1 .. Len(Plan[r])
  BY <1>1
<1> QED
  BY <1>2, <1>3 DEF ToSet

LEMMA InitWrites == Init => WritesInv
BY PlanFacts DEF Init, WritesInv, Shaped, Labels, Ends

\* What holds of a call that has not ended.
LEMMA Underway ==
    ASSUME WritesInv, NEW r \in Runs, pc[r] \notin Ends
    PROVE  at[r] \in 1 .. Len(Plan[r]) /\ Path(r) \in Paths
BY PlanFacts DEF WritesInv, Path

LEMMA LabelFacts ==
    /\ \A label \in {"writing", "flushed", "cleaning", "prepare"} :
           label \in Labels /\ label \notin Ends
    /\ \A label \in {"failed", "crashed", "succeeded"} : label \in Labels /\ label \in Ends
BY DEF Labels, Ends

\* A step of a call keeps the invariant if it leaves the others' temporaries
\* alone and its own are what its next step takes them for.
LEMMA CallKeeps ==
    ASSUME WritesInv, NEW r \in Runs, NEW label \in Labels, NEW number \in Nat \ {0},
           pc' = [pc EXCEPT ![r] = label], at' = [at EXCEPT ![r] = number],
           label \notin Ends => number <= Len(Plan[r]),
           \A t \in temps' : t \in temps \/ t.by = r,
           Shaped',
           \A t \in temps' : t.by = r =>
               /\ label \notin {"prepare", "succeeded"}
               /\ label = "writing" => t = [by |-> r, path |-> Plan[r][number], whole |-> FALSE]
               /\ label = "flushed" => t = [by |-> r, path |-> Plan[r][number], whole |-> TRUE]
    PROVE  WritesInv'
<1>1. pc' \in [Runs -> Labels] /\ at' \in [Runs -> Nat \ {0}]
  BY DEF WritesInv
<1>2. /\ pc'[r] = label /\ at'[r] = number
      /\ \A s \in Runs \ {r} : pc'[s] = pc[s] /\ at'[s] = at[s]
  BY DEF WritesInv
<1>3. \A s \in Runs : pc'[s] \notin Ends => at'[s] <= Len(Plan[s])
  <2> SUFFICES ASSUME NEW s \in Runs, pc'[s] \notin Ends
               PROVE  at'[s] <= Len(Plan[s])
    BY DEF Ends
  <2> QED
    BY <1>2 DEF WritesInv
<1>4. ASSUME NEW t \in temps'
      PROVE  /\ pc'[t.by] \notin {"prepare", "succeeded"}
             /\ pc'[t.by] = "writing" => t = Part(t.by)'
             /\ pc'[t.by] = "flushed" => t = Whole(t.by)'
  <2>1. CASE t.by = r
    BY <1>2, <2>1 DEF Part, Whole, Path
  <2>2. CASE t.by # r
    BY <1>2, <2>2 DEF Part, Whole, Path, WritesInv
  <2> QED
    BY <2>1, <2>2
<1> QED
  BY <1>1, <1>3, <1>4 DEF WritesInv, Ends, Shaped

LEMMA PrepareKeeps ==
    ASSUME WritesInv, NEW r \in Runs, Prepare(r)
    PROVE  WritesInv'
<1>1. Path(r) \in Paths /\ at[r] \in 1 .. Len(Plan[r])
  BY Underway DEF Prepare, Ends
<1>2. Part(r) = [by |-> r, path |-> Plan[r][at[r]], whole |-> FALSE]
        /\ Part(r) \in [by : Runs, path : Paths, whole : BOOLEAN]
  BY <1>1 DEF Part, Path
<1>3. \A t \in temps : t.by # r
  BY DEF WritesInv, Prepare
<1>4. at[r] \in Nat \ {0} /\ at' = [at EXCEPT ![r] = at[r]] /\ at[r] <= Len(Plan[r])
  BY <1>1 DEF WritesInv, Prepare
<1>5. CASE Goto(r, "failed") /\ UNCHANGED temps
  <2>1. Shaped'
    BY <1>5 DEF Prepare, WritesInv, Shaped
  <2>2. pc' = [pc EXCEPT ![r] = "failed"] /\ temps' = temps
    BY <1>5 DEF Goto
  <2> QED
    BY <1>3, <1>4, <2>1, <2>2, LabelFacts, CallKeeps
<1>6. CASE Goto(r, "writing") /\ temps' = temps \cup {Part(r)}
  <2>1. Shaped'
    BY <1>2, <1>6 DEF Prepare, WritesInv, Shaped
  <2>2. \A t \in temps' : t.by = r =>
            t = [by |-> r, path |-> Plan[r][at[r]], whole |-> FALSE]
    BY <1>2, <1>3, <1>6
  <2>3. \A t \in temps' : t \in temps \/ t.by = r
    BY <1>2, <1>6
  <2>4. pc' = [pc EXCEPT ![r] = "writing"]
    BY <1>6 DEF Goto
  <2> QED
    BY <1>4, <2>1, <2>2, <2>3, <2>4, LabelFacts, CallKeeps, ZenonT(60)
<1> QED
  BY <1>5, <1>6 DEF Prepare

LEMMA FillKeeps ==
    ASSUME WritesInv, NEW r \in Runs, Fill(r)
    PROVE  WritesInv'
<1>1. Path(r) \in Paths /\ at[r] \in 1 .. Len(Plan[r])
  BY Underway DEF Fill, Ends
<1>2. Whole(r) = [by |-> r, path |-> Plan[r][at[r]], whole |-> TRUE]
        /\ Whole(r) \in [by : Runs, path : Paths, whole : BOOLEAN]
  BY <1>1 DEF Whole, Path
<1>3. \A t \in temps : t.by = r => t = Part(r)
  BY DEF WritesInv, Fill
<1>4. at[r] \in Nat \ {0} /\ at' = [at EXCEPT ![r] = at[r]] /\ at[r] <= Len(Plan[r])
  BY <1>1 DEF WritesInv, Fill
<1>5. CASE Goto(r, "cleaning") /\ UNCHANGED temps
  <2>1. Shaped'
    BY <1>5 DEF Fill, WritesInv, Shaped
  <2>2. pc' = [pc EXCEPT ![r] = "cleaning"] /\ temps' = temps
    BY <1>5 DEF Goto
  <2> QED
    BY <1>4, <2>1, <2>2, LabelFacts, CallKeeps, ZenonT(60)
<1>6. CASE Goto(r, "flushed") /\ temps' = (temps \ {Part(r)}) \cup {Whole(r)}
  <2>1. Shaped'
    BY <1>2, <1>6 DEF Fill, WritesInv, Shaped
  <2>2. \A t \in temps' : t.by = r =>
            t = [by |-> r, path |-> Plan[r][at[r]], whole |-> TRUE]
    BY <1>2, <1>3, <1>6
  <2>3. \A t \in temps' : t \in temps \/ t.by = r
    BY <1>2, <1>6
  <2>4. pc' = [pc EXCEPT ![r] = "flushed"]
    BY <1>6 DEF Goto
  <2> QED
    BY <1>4, <2>1, <2>2, <2>3, <2>4, LabelFacts, CallKeeps, ZenonT(60)
<1> QED
  BY <1>5, <1>6 DEF Fill

\* The move of a call's artifact to its destination.
Moves(r) ==
    /\ file' = [file EXCEPT ![Path(r)] = [by |-> r, whole |-> TRUE]]
    /\ temps' = temps \ {Whole(r)}
    /\ placed' = [placed EXCEPT ![Path(r)] = Append(@, r)]
    /\ at' = [at EXCEPT ![r] = @ + 1]
    /\ pc' = [pc EXCEPT ![r] = IF at[r] = Len(Plan[r]) THEN "succeeded" ELSE "prepare"]

\* What a call puts in place is whole, and is the next of its plan.
LEMMA ReplaceMoves ==
    ASSUME WritesInv, NEW r \in Runs, Replace(r)
    PROVE  /\ at[r] \in 1 .. Len(Plan[r]) /\ Path(r) \in Paths
           /\ \A t \in temps : t.by = r => t = Whole(r)
           /\ \/ Moves(r)
              \/ pc' = [pc EXCEPT ![r] = "cleaning"] /\ UNCHANGED <<file, temps, placed, at>>
<1>1. pc[r] = "flushed"
  BY DEF Replace, MayReplace
<1>2. \A t \in temps : t.by = r => t = Whole(r)
  BY <1>1 DEF WritesInv
<1>3. at[r] \in 1 .. Len(Plan[r]) /\ Path(r) \in Paths
  BY <1>1, Underway DEF Ends
<1>4. PICK t \in temps :
          /\ t.by = r /\ t.path = Path(r)
          /\ \/ /\ file' = [file EXCEPT ![Path(r)] = [by |-> r, whole |-> t.whole]]
                /\ temps' = temps \ {t}
                /\ placed' = [placed EXCEPT ![Path(r)] = Append(@, r)]
                /\ at' = [at EXCEPT ![r] = @ + 1]
                /\ Goto(r, IF at[r] = Len(Plan[r]) THEN "succeeded" ELSE "prepare")
             \/ Goto(r, "cleaning") /\ UNCHANGED <<file, temps, placed, at>>
  BY DEF Replace
<1>5. t = Whole(r) /\ t.whole = TRUE
  BY <1>2, <1>4 DEF Whole
<1>6. \/ Moves(r)
      \/ pc' = [pc EXCEPT ![r] = "cleaning"] /\ UNCHANGED <<file, temps, placed, at>>
  BY <1>4, <1>5 DEF Goto, Moves
<1> QED
  BY <1>2, <1>3, <1>6

LEMMA ReplaceKeeps ==
    ASSUME WritesInv, NEW r \in Runs, Replace(r)
    PROVE  WritesInv'
<1>1. at[r] \in 1 .. Len(Plan[r]) /\ Path(r) \in Paths /\ at[r] \in Nat \ {0}
        /\ Len(Plan[r]) \in Nat
  BY ReplaceMoves, PlanFacts
<1>2. \A t \in temps : t.by = r => t = Whole(r)
  BY ReplaceMoves
<1>3. CASE pc' = [pc EXCEPT ![r] = "cleaning"] /\ UNCHANGED <<file, temps, placed, at>>
  <2>1. at' = [at EXCEPT ![r] = at[r]] /\ at[r] <= Len(Plan[r])
    BY <1>1, <1>3 DEF WritesInv
  <2>2. Shaped'
    BY <1>3 DEF WritesInv, Shaped
  <2>3. pc' = [pc EXCEPT ![r] = "cleaning"] /\ temps' = temps
    BY <1>3
  <2> QED
    BY <1>1, <2>1, <2>2, <2>3, LabelFacts, CallKeeps
<1>4. CASE Moves(r)
  <2> DEFINE label == IF at[r] = Len(Plan[r]) THEN "succeeded" ELSE "prepare"
             number == at[r] + 1
  <2>1. Shaped'
    BY <1>1, <1>4 DEF WritesInv, Shaped, Moves
  <2>2. \A t \in temps' : t \in temps /\ t.by # r
    BY <1>2, <1>4 DEF Moves
  <2>3. label \in Labels /\ number \in Nat \ {0} /\ (label \notin Ends => number <= Len(Plan[r]))
    BY <1>1, LabelFacts
  <2>4. pc' = [pc EXCEPT ![r] = label] /\ at' = [at EXCEPT ![r] = number]
    BY <1>4 DEF Moves
  <2> HIDE DEF label, number
  <2> QED
    BY <2>1, <2>2, <2>3, <2>4, CallKeeps
<1> QED
  BY <1>3, <1>4, ReplaceMoves

LEMMA CleanKeeps ==
    ASSUME WritesInv, NEW r \in Runs, Clean(r) \/ Crash(r)
    PROVE  WritesInv'
<1>1. at[r] \in Nat \ {0} /\ at' = [at EXCEPT ![r] = at[r]]
  BY DEF WritesInv, Clean, Crash
<1>2. temps' \subseteq temps
  BY DEF Clean, Crash
<1>3. Shaped'
  BY DEF WritesInv, Shaped, Clean, Crash
<1>4. PICK label \in {"failed", "crashed"} : pc' = [pc EXCEPT ![r] = label]
  BY DEF Clean, Crash, Goto
<1>5. label \in Labels /\ label \in Ends /\ label \notin {"prepare", "succeeded", "writing", "flushed"}
  BY <1>4, LabelFacts
<1>6. \A t \in temps' : t \in temps \/ t.by = r
  BY <1>2
<1> QED
  BY <1>1, <1>3, <1>4, <1>5, <1>6, CallKeeps

LEMMA StepKeeps ==
    ASSUME WritesInv, [Next]_vars
    PROVE  WritesInv'
<1>1. CASE UNCHANGED vars
  <2>1. UNCHANGED <<file, pc, at, placed, temps>>
    BY <1>1 DEF vars
  <2>2. \A r \in Runs : Part(r)' = Part(r) /\ Whole(r)' = Whole(r)
    BY <2>1 DEF Part, Whole, Path
  <2> QED
    BY <2>1, <2>2 DEF WritesInv, Shaped
<1>2. CASE Next
  BY <1>2, PrepareKeeps, FillKeeps, ReplaceKeeps, CleanKeeps DEF Next
<1> QED
  BY <1>1, <1>2

LEMMA WritesInvariant == Spec => []WritesInv
BY InitWrites, StepKeeps, PTL DEF Spec

-----------------------------------------------------------------------------
\* The initial state is one of the store's.
LEMMA InitRefines == Init => Store!Init
BY DEF Init, Store!Init, Store!Destinations, Store!ToSet, ToSet, Paths

\* A move puts the next artifact of its call in the store.
LEMMA MoveRefines ==
    ASSUME WritesInv, NEW r \in Runs, Moves(r), at[r] \in 1 .. Len(Plan[r])
    PROVE  Store!Put(r)
<1> DEFINE done == [s \in Runs |-> at[s] - 1]
<1>1. at[r] \in Nat /\ at \in [Runs -> Nat \ {0}] /\ Len(Plan[r]) \in Nat
  BY PlanFacts DEF WritesInv
<1>2. done[r] = at[r] - 1 /\ done[r] < Len(Plan[r]) /\ done[r] + 1 = at[r]
  BY <1>1
<1>3. done' = [done EXCEPT ![r] = @ + 1]
  <2>1. done' = [s \in Runs |-> at'[s] - 1]
    OBVIOUS
  <2>2. \A s \in Runs : at'[s] - 1 = [done EXCEPT ![r] = @ + 1][s]
    BY <1>1 DEF Moves
  <2> QED
    BY <2>1, <2>2
<1>4. file' = [file EXCEPT ![Plan[r][done[r] + 1]] = [by |-> r, whole |-> TRUE]]
  BY <1>2 DEF Moves, Path
<1> QED
  BY <1>2, <1>3, <1>4 DEF Store!Put

LEMMA StepRefines ==
    ASSUME WritesInv, [Next]_vars
    PROVE  [Store!Next]_<<file, [r \in Runs |-> at[r] - 1]>>
<1>1. CASE \E r \in Runs : Replace(r)
  BY <1>1, ReplaceMoves, MoveRefines DEF Store!Next
<1>2. CASE UNCHANGED <<file, at>>
  BY <1>2
<1> QED
  BY <1>1, <1>2 DEF Next, vars, Prepare, Fill, Clean, Crash

(***************************************************************************)
(* Whatever the plans and however many calls overlap, fail or are cut off, *)
(* the writer implements the store.                                        *)
(***************************************************************************)
THEOREM WriterImplementsStore == Spec => ImplementsStore
<1>1. WritesInv /\ [Next]_vars => [Store!Next]_<<file, [r \in Runs |-> at[r] - 1]>>
  BY StepRefines
<1> QED
  BY <1>1, InitRefines, WritesInvariant, PTL DEF Spec, ImplementsStore, Store!Spec

(***************************************************************************)
(* No reader ever finds part of an artifact.                               *)
(***************************************************************************)
THEOREM NeverAPart == Spec => []NeverTorn
<1>1. Init => NeverTorn
  BY DEF Init, NeverTorn
<1>2. ASSUME NeverTorn, WritesInv, [Next]_vars
      PROVE  NeverTorn'
  <2>1. CASE UNCHANGED <<file, placed>>
    BY <1>2, <2>1 DEF NeverTorn, Last
  <2>2. ASSUME NEW r \in Runs, Moves(r), Path(r) \in Paths
        PROVE  NeverTorn'
    <3> SUFFICES ASSUME NEW p \in Paths
                 PROVE  IF placed'[p] = <<>> THEN file'[p] \in {Old, Missing}
                        ELSE file'[p] = [by |-> Last(placed'[p]), whole |-> TRUE]
      BY DEF NeverTorn, Last
    <3>1. placed \in [Paths -> Seq(Runs)] /\ Paths = DOMAIN file
      BY <1>2 DEF WritesInv, Shaped
    <3>2. CASE p = Path(r)
      <4>1. placed'[p] = Append(placed[p], r) /\ file'[p] = [by |-> r, whole |-> TRUE]
        BY <2>2, <3>1, <3>2 DEF Moves
      <4>2. \A q \in Seq(Runs) : Append(q, r) # <<>> /\ Append(q, r)[Len(Append(q, r))] = r
        OBVIOUS
      <4>3. placed[p] \in Seq(Runs)
        BY <3>1
      <4>4. placed'[p] # <<>> /\ placed'[p][Len(placed'[p])] = r
        BY <4>1, <4>2, <4>3
      <4> QED
        BY <4>1, <4>4 DEF Last
    <3>3. CASE p # Path(r)
      BY <1>2, <2>2, <3>1, <3>3 DEF Moves, NeverTorn
    <3> QED
      BY <3>2, <3>3
  <2> QED
    BY <1>2, <2>1, <2>2, ReplaceMoves DEF Next, vars, Prepare, Fill, Clean, Crash
<1> QED
  BY <1>1, <1>2, WritesInvariant, PTL DEF Spec

\* A move adds its call to what its destination was placed by, and nothing else.
LEMMA MovePlaces ==
    ASSUME WritesInv, NEW r \in Runs, Moves(r), Path(r) \in Paths,
           NEW s \in Runs, NEW p \in Paths
    PROVE  s \in ToSet(placed'[p]) <=> s \in ToSet(placed[p]) \/ (s = r /\ p = Path(r))
<1>1. placed \in [Paths -> Seq(Runs)]
  BY DEF WritesInv, Shaped
<1>2. \A q \in Seq(Runs) : ToSet(Append(q, r)) = ToSet(q) \cup {r}
  <2> SUFFICES ASSUME NEW q \in Seq(Runs)
               PROVE  {Append(q, r)[i] : i \in DOMAIN Append(q, r)}
                          = {q[i] : i \in DOMAIN q} \cup {r}
    BY DEF ToSet
  <2>1. /\ DOMAIN q = 1 .. Len(q) /\ DOMAIN Append(q, r) = 1 .. Len(q) + 1 /\ Len(q) \in Nat
        /\ \A i \in 1 .. Len(q) : Append(q, r)[i] = q[i]
        /\ Append(q, r)[Len(q) + 1] = r
    OBVIOUS
  <2> QED
    BY <2>1
<1>3. CASE p = Path(r)
  BY <1>1, <1>2, <1>3 DEF Moves
<1>4. CASE p # Path(r)
  BY <1>1, <1>4 DEF Moves
<1> QED
  BY <1>3, <1>4

LEMMA PlacedStays ==
    ASSUME PlacedInv, WritesInv, [Next]_vars
    PROVE  PlacedInv'
<1>1. CASE UNCHANGED <<at, placed>>
  BY <1>1 DEF PlacedInv, ToSet
<1>2. ASSUME NEW r \in Runs, Moves(r), at[r] \in 1 .. Len(Plan[r]), Path(r) \in Paths
      PROVE  PlacedInv'
  <2> SUFFICES ASSUME NEW s \in Runs, NEW p \in Paths
               PROVE  s \in ToSet(placed'[p])
                          <=> \E i \in DOMAIN Plan[s] : i < at'[s] /\ Plan[s][i] = p
    BY DEF PlacedInv, ToSet
  <2>1. s \in ToSet(placed'[p]) <=> s \in ToSet(placed[p]) \/ (s = r /\ p = Path(r))
    BY <1>2, MovePlaces
  <2>2. s \in ToSet(placed[p]) <=> \E i \in DOMAIN Plan[s] : i < at[s] /\ Plan[s][i] = p
    BY DEF PlacedInv
  <2>3. at' = [at EXCEPT ![r] = at[r] + 1] /\ at \in [Runs -> Nat \ {0}]
    BY <1>2 DEF Moves, WritesInv
  <2>4. DOMAIN Plan[s] = 1 .. Len(Plan[s]) /\ Len(Plan[s]) \in Nat
    BY PlanFacts
  <2>5. CASE s # r
    BY <2>1, <2>2, <2>3, <2>5
  <2>6. CASE s = r
    <3>1. at'[s] = at[s] + 1 /\ at[s] \in 1 .. Len(Plan[s]) /\ Path(r) = Plan[s][at[s]]
      BY <1>2, <2>3, <2>6 DEF Path
    <3>2. \A i \in 1 .. Len(Plan[s]) : i < at[s] + 1 <=> i < at[s] \/ i = at[s]
      BY <2>4, <3>1
    <3> QED
      BY <2>1, <2>2, <2>4, <2>6, <3>1, <3>2
  <2> QED
    BY <2>5, <2>6
<1> QED
  BY <1>1, <1>2, ReplaceMoves DEF Next, vars, Prepare, Fill, Clean, Crash

(***************************************************************************)
(* A manifest in place is the last of its call's artifacts: everything     *)
(* else the call writes was put in place before it.                        *)
(***************************************************************************)
THEOREM ManifestsAreLast == Spec => []ManifestIsLast
<1>1. Init => PlacedInv
  BY PlanFacts DEF Init, PlacedInv, ToSet
<1>2. ASSUME PlacedInv, WritesInv
      PROVE  ManifestIsLast
  <2> SUFFICES ASSUME NEW r \in Runs, "manifest" \in ToSet(Plan[r]),
                      r \in ToSet(placed["manifest"]), NEW p \in ToSet(Plan[r])
               PROVE  r \in ToSet(placed[p])
    BY DEF ManifestIsLast
  <2>1. "manifest" \in Paths /\ p \in Paths
    BY DEF Paths
  <2>2. PICK i \in DOMAIN Plan[r] : i < at[r] /\ Plan[r][i] = "manifest"
    BY <1>2, <2>1 DEF PlacedInv
  <2>3. i = Len(Plan[r]) /\ DOMAIN Plan[r] = 1 .. Len(Plan[r]) /\ Len(Plan[r]) \in Nat
    BY <2>2, PlanAssumption, PlanFacts
  <2>4. PICK j \in DOMAIN Plan[r] : Plan[r][j] = p
    BY DEF ToSet
  <2>5. at[r] \in Nat
    BY <1>2 DEF WritesInv
  <2>6. j < at[r]
    BY <2>2, <2>3, <2>4, <2>5
  <2> QED
    BY <1>2, <2>1, <2>4, <2>6 DEF PlacedInv
<1> QED
  BY <1>1, <1>2, PlacedStays, WritesInvariant, PTL DEF Spec

\* A temporary is left behind only by a call that was cut off or could not
\* remove it.
THEOREM LeftoversAreExplained == Spec => []TypeOK
<1> DEFINE Left == \A t \in temps : pc[t.by] = "failed" => t.by \in stuck
<1>1. Init => Left
  BY DEF Init
<1>2. ASSUME Left, WritesInv, [Next]_vars
      PROVE  Left'
  <2> SUFFICES ASSUME NEW t \in temps', pc'[t.by] = "failed"
               PROVE  t.by \in stuck'
    OBVIOUS
  <2>1. CASE UNCHANGED vars
    BY <1>2, <2>1 DEF vars
  <2>2. ASSUME NEW r \in Runs, Prepare(r) \/ Fill(r) \/ Replace(r) \/ Clean(r) \/ Crash(r)
        PROVE  t.by \in stuck'
    <3>1. pc \in [Runs -> Labels] /\ stuck \subseteq stuck' /\ t.by \in Runs
      <4>1. WritesInv'
        BY <1>2, StepKeeps
      <4> QED
        BY <1>2, <2>2, <4>1 DEF WritesInv, Shaped, Prepare, Fill, Replace, Clean, Crash
    <3>2. CASE t.by # r
      <4>1. t \in temps /\ pc'[t.by] = pc[t.by]
        <5>1. CASE Replace(r)
          BY <1>2, <3>1, <3>2, <5>1, ReplaceMoves DEF Moves
        <5>2. CASE Prepare(r) \/ Fill(r)
          BY <3>1, <3>2, <5>2 DEF Prepare, Fill, Goto, Part, Whole
        <5>3. CASE Clean(r) \/ Crash(r)
          BY <3>1, <3>2, <5>3 DEF Clean, Crash, Goto
        <5> QED
          BY <2>2, <5>1, <5>2, <5>3
      <4> QED
        BY <1>2, <3>1, <4>1
    <3>3. CASE t.by = r
      <4>1. CASE Clean(r)
        BY <3>3, <4>1 DEF Clean
      <4>2. CASE Prepare(r)
        BY <1>2, <3>1, <3>3, <4>2 DEF Prepare, Goto, WritesInv, Part
      <4>3. CASE Fill(r) \/ Crash(r)
        BY <3>1, <3>3, <4>3 DEF Fill, Crash, Goto
      <4>4. CASE Replace(r)
        BY <1>2, <3>1, <3>3, <4>4, ReplaceMoves DEF Moves
      <4> QED
        BY <2>2, <4>1, <4>2, <4>3, <4>4
    <3> QED
      BY <3>2, <3>3
  <2> QED
    BY <1>2, <2>1, <2>2 DEF Next
<1>3. Left /\ WritesInv => TypeOK
  BY DEF WritesInv, Labels, Ends, Shaped, TypeOK
<1> QED
  BY <1>1, <1>2, <1>3, WritesInvariant, PTL DEF Spec

-----------------------------------------------------------------------------
(***************************************************************************)
(* The paths a call is given.  What the check of the paths leaves is that  *)
(* the places of the artifacts and of the input are all apart, so that what *)
(* is written at one of them stays.                                        *)
(***************************************************************************)
\* The labels that were chosen, and the place of each.
Chosen == DOMAIN Artifacts!Selected
PlaceOf(label) == Artifacts!Place(Artifacts!Selected[label])
InputPlace == Artifacts!Place(Input)

\* What a file may hold.
Data == {"json", "equity", "log", "input", "old"}

\* What the check of the paths leaves to rely on.
Apart ==
    \A a \in Chosen :
        /\ PlaceOf(a) # InputPlace
        /\ \A b \in Chosen \ {a} : PlaceOf(a) # PlaceOf(b)

\* The report that is to be written next has number report.
Report(i) == <<"json", "equity">>[i]

PathsInv ==
    /\ chosen \in [{"json", "equity"} -> Names \cup {None}] \X (DOMAIN Backup \cup {None})
    /\ caseBlind \in BOOLEAN
    /\ \E n \in Nat \ {0} : content \in [1 .. n -> SUBSET Data] /\ dir \in [Names -> 0 .. n]
    /\ dir[InputPlace] = 1 /\ content[1] = {"input"}
    /\ report \in 1 .. 3
    /\ pathPc \in {"parsed", "logging", "reporting", "refused", "done"}
    /\ pathPc \in {"parsed", "logging"} => report = 1
    /\ pathPc = "reporting" => report \in {1, 2}
    /\ pathPc = "done" => report = 3
    /\ pathPc = "logging" => "log" \in Chosen
    /\ pathPc \in {"logging", "reporting", "done"} =>
         /\ Apart
         /\ "log" \in Chosen => dir[PlaceOf("log")] # 1
    /\ pathPc \in {"reporting", "done"} =>
         /\ \A i \in 1 .. report - 1 : Report(i) \in Chosen =>
               /\ dir[PlaceOf(Report(i))] # 0
               /\ content[dir[PlaceOf(Report(i))]] = {Report(i)}
         /\ "log" \in Chosen => /\ dir[PlaceOf("log")] # 0
                                /\ "log" \in content[dir[PlaceOf("log")]]

LEMMA PathFacts ==
    /\ Fold \in [Names -> Names] /\ Input \in Names
    /\ DOMAIN Backup \subseteq Names /\ Backup \in [DOMAIN Backup -> Names]
    /\ NumFiles \in Nat \ {0}
BY FilesAssumption DEF Artifacts!PathAssumption

\* What was chosen, and where it goes.
LEMMA ChosenFacts ==
    ASSUME chosen \in [{"json", "equity"} -> Names \cup {None}] \X (DOMAIN Backup \cup {None}),
           caseBlind \in BOOLEAN
    PROVE  /\ Chosen \subseteq {"json", "equity", "log", "backup"}
           /\ "log" \in Chosen <=> chosen[2] # None
           /\ "log" \in Chosen <=> "backup" \in Chosen
           /\ "log" \in Chosen => /\ Artifacts!Selected["log"] = chosen[2]
                                  /\ Artifacts!Selected["backup"] = Backup[chosen[2]]
           /\ \A label \in {"json", "equity"} :
                 /\ label \in Chosen <=> chosen[1][label] # None
                 /\ label \in Chosen => Artifacts!Selected[label] = chosen[1][label]
           /\ \A label \in Chosen : Artifacts!Selected[label] \in Names
           /\ \A label \in Chosen : PlaceOf(label) \in Names
           /\ InputPlace \in Names
<1>1. /\ Chosen \subseteq {"json", "equity", "log", "backup"}
      /\ "log" \in Chosen <=> chosen[2] # None
      /\ "log" \in Chosen <=> "backup" \in Chosen
  BY DEF Chosen, Artifacts!Selected, Artifacts!Log
<1>2. "log" \in Chosen => /\ Artifacts!Selected["log"] = chosen[2]
                          /\ Artifacts!Selected["backup"] = Backup[chosen[2]]
  BY <1>1 DEF Chosen, Artifacts!Selected, Artifacts!Log
<1>3. \A label \in {"json", "equity"} :
         /\ label \in Chosen <=> chosen[1][label] # None
         /\ label \in Chosen => Artifacts!Selected[label] = chosen[1][label]
  BY DEF Chosen, Artifacts!Selected
<1>4. chosen[1] \in [{"json", "equity"} -> Names \cup {None}]
      /\ chosen[2] \in DOMAIN Backup \cup {None}
  OBVIOUS
<1>5. \A label \in {"json", "equity"} : label \in Chosen => Artifacts!Selected[label] \in Names
  BY <1>3, <1>4
<1>6. "log" \in Chosen => /\ Artifacts!Selected["log"] \in Names
                          /\ Artifacts!Selected["backup"] \in Names
  BY <1>1, <1>2, <1>4, PathFacts
<1>7. \A label \in Chosen : Artifacts!Selected[label] \in Names
  BY <1>1, <1>5, <1>6
<1>8. \A name \in Names : Artifacts!Place(name) \in Names
  BY PathFacts DEF Artifacts!Place
<1> QED
  BY <1>1, <1>2, <1>3, <1>7, <1>8, PathFacts DEF PlaceOf, InputPlace

\* Nothing that was chosen, and no place, changes after the arguments are parsed.
LEMMA ChoiceStays ==
    ASSUME chosen' = chosen, caseBlind' = caseBlind
    PROVE  /\ Chosen' = Chosen /\ InputPlace' = InputPlace
           /\ \A label : PlaceOf(label)' = PlaceOf(label)
           /\ Apart' = Apart
BY DEF Chosen, InputPlace, PlaceOf, Apart, Artifacts!Selected, Artifacts!Log, Artifacts!Place

LEMMA PathsInit == Artifacts!Init => PathsInv
<1> SUFFICES ASSUME Artifacts!Init PROVE PathsInv
  OBVIOUS
<1> DEFINE n == NumFiles
<1>1. n \in Nat \ {0} /\ Artifacts!Files = 1 .. n
  BY PathFacts DEF Artifacts!Files
<1>2. content \in [1 .. n -> SUBSET Data] /\ content[1] = {"input"}
  BY <1>1 DEF Artifacts!Init, Data
<1>3. dir \in [Names -> 0 .. n] /\ dir[InputPlace] = 1
  BY <1>1 DEF Artifacts!Init, InputPlace, Artifacts!Place
<1>4. /\ chosen \in [{"json", "equity"} -> Names \cup {None}] \X (DOMAIN Backup \cup {None})
      /\ caseBlind \in BOOLEAN /\ pathPc = "parsed" /\ report = 1
  BY DEF Artifacts!Init
<1>5. \E k \in Nat \ {0} : content \in [1 .. k -> SUBSET Data] /\ dir \in [Names -> 0 .. k]
  BY <1>1, <1>2, <1>3
<1>6. dir[InputPlace] = 1 /\ content[1] = {"input"}
  BY <1>2, <1>3
<1> HIDE DEF n
<1> QED
  BY <1>4, <1>5, <1>6 DEF PathsInv

\* Paths that pass the check lead to places of their own.
LEMMA ValidateKeeps == PathsInv /\ Artifacts!Validate => PathsInv'
<1> SUFFICES ASSUME PathsInv, Artifacts!Validate PROVE PathsInv'
  OBVIOUS
<1>1. /\ chosen' = chosen /\ caseBlind' = caseBlind /\ dir' = dir /\ content' = content
      /\ report' = report /\ report = 1
      /\ pathPc' = IF ~Artifacts!PathsAreDistinct THEN "refused"
                   ELSE IF chosen[2] = None THEN "reporting" ELSE "logging"
  BY DEF PathsInv, Artifacts!Validate, Artifacts!Log
<1>2. chosen \in [{"json", "equity"} -> Names \cup {None}] \X (DOMAIN Backup \cup {None})
      /\ caseBlind \in BOOLEAN
  BY DEF PathsInv
<1>3. ASSUME Artifacts!PathsAreDistinct
      PROVE  Apart /\ ("log" \in Chosen => dir[PlaceOf("log")] # 1)
  <2>1. ASSUME NEW a \in Names, NEW b \in Names, ~Artifacts!SameKey(a, b)
        PROVE  Artifacts!Place(a) # Artifacts!Place(b)
    BY <2>1 DEF Artifacts!SameKey, Artifacts!Place
  <2>2. \A a \in Chosen :
           /\ ~Artifacts!SameKey(Artifacts!Selected[a], Input)
           /\ ~Artifacts!SameFile(Artifacts!Selected[a], Input)
           /\ \A b \in Chosen \ {a} :
                 ~Artifacts!SameKey(Artifacts!Selected[a], Artifacts!Selected[b])
    BY <1>3 DEF Artifacts!PathsAreDistinct, Chosen
  <2>3. Apart
    BY <1>2, <2>1, <2>2, ChosenFacts, PathFacts DEF Apart, PlaceOf, InputPlace
  <2>4. \A a \in Chosen : dir[PlaceOf(a)] # 1
    BY <2>2 DEF PathsInv, Artifacts!SameFile, Artifacts!FileAt, PlaceOf, InputPlace
  <2> QED
    BY <2>3, <2>4
<1>4. "log" \in Chosen <=> chosen[2] # None
  BY <1>2, ChosenFacts
<1>5. \A i \in 1 .. report - 1 : FALSE
  BY <1>1
<1>6. /\ \E n \in Nat \ {0} : content' \in [1 .. n -> SUBSET Data] /\ dir' \in [Names -> 0 .. n]
      /\ dir'[InputPlace'] = 1 /\ content'[1] = {"input"} /\ report' = 1
  BY <1>1, ChoiceStays DEF PathsInv
<1>7. /\ Chosen' = Chosen /\ Apart' = Apart /\ PlaceOf("log")' = PlaceOf("log")
  BY <1>1, ChoiceStays
<1>8. CASE ~Artifacts!PathsAreDistinct
  BY <1>1, <1>2, <1>6, <1>8 DEF PathsInv
<1>9. CASE Artifacts!PathsAreDistinct
  BY <1>1, <1>2, <1>3, <1>4, <1>5, <1>6, <1>7, <1>9 DEF PathsInv
<1> QED
  BY <1>8, <1>9

\* The file of the next number is new, and the content of the others stays.
LEMMA NewFiles ==
    ASSUME NEW n \in Nat \ {0}, content \in [1 .. n -> SUBSET Data], NEW label \in Data
    PROVE  /\ Artifacts!NewFile = n + 1
           /\ Append(content, {label}) \in [1 .. n + 1 -> SUBSET Data]
           /\ Append(content, {label})[n + 1] = {label}
           /\ \A f \in 1 .. n : Append(content, {label})[f] = content[f]
<1>1. content \in Seq(SUBSET Data) /\ Len(content) = n
  OBVIOUS
<1>2. Artifacts!NewFile = n + 1
  BY <1>1 DEF Artifacts!NewFile
<1>3. /\ Append(content, {label}) \in Seq(SUBSET Data)
      /\ Len(Append(content, {label})) = n + 1
      /\ Append(content, {label})[n + 1] = {label}
  BY <1>1 DEF Data
<1>4. \A f \in 1 .. n : Append(content, {label})[f] = content[f]
  BY <1>1
<1>5. Append(content, {label}) \in [1 .. n + 1 -> SUBSET Data]
  <2>1. \A s \in Seq(SUBSET Data) : s \in [1 .. Len(s) -> SUBSET Data]
    OBVIOUS
  <2> QED
    BY <1>3, <2>1
<1> QED
  BY <1>2, <1>3, <1>4, <1>5

\* A report goes to a place of its own, in a file of its own.
LEMMA PutKeeps ==
    ASSUME PathsInv, NEW label \in Chosen \cap {"json", "equity", "log"},
           Artifacts!Put(Artifacts!Selected[label], label), Apart
    PROVE  \E n \in Nat \ {0} :
              /\ content \in [1 .. n -> SUBSET Data] /\ dir \in [Names -> 0 .. n]
              /\ content' \in [1 .. n + 1 -> SUBSET Data] /\ dir' \in [Names -> 0 .. n + 1]
              /\ dir'[PlaceOf(label)] = n + 1 /\ content'[n + 1] = {label}
              /\ \A f \in 1 .. n : content'[f] = content[f]
              /\ \A place \in Names \ {PlaceOf(label)} : dir'[place] = dir[place]
<1>1. PICK n \in Nat \ {0} : content \in [1 .. n -> SUBSET Data] /\ dir \in [Names -> 0 .. n]
  BY DEF PathsInv
<1>2. PlaceOf(label) \in Names /\ label \in Data
  BY ChosenFacts DEF PathsInv, Data
<1>3. Artifacts!NewFile = n + 1
  BY <1>1, <1>2, NewFiles
<1>4. /\ content' \in [1 .. n + 1 -> SUBSET Data]
      /\ content'[n + 1] = {label}
      /\ \A f \in 1 .. n : content'[f] = content[f]
  BY <1>1, <1>2, NewFiles DEF Artifacts!Put
<1>5. dir' = [dir EXCEPT ![PlaceOf(label)] = n + 1]
  BY <1>3 DEF Artifacts!Put, PlaceOf
<1>6. dir' \in [Names -> 0 .. n + 1] /\ dir'[PlaceOf(label)] = n + 1
      /\ \A place \in Names \ {PlaceOf(label)} : dir'[place] = dir[place]
  BY <1>1, <1>2, <1>5
<1> QED
  BY <1>1, <1>4, <1>6

\* The sink writes to a file that is not the input's, and to no name of another's.
LEMMA AppendLogKeeps == PathsInv /\ Artifacts!AppendLog => PathsInv'
<1> SUFFICES ASSUME PathsInv, Artifacts!AppendLog PROVE PathsInv'
  OBVIOUS
<1>1. /\ chosen' = chosen /\ caseBlind' = caseBlind /\ report' = report /\ report = 1
      /\ pathPc = "logging" /\ pathPc' \in {"logging", "reporting"}
      /\ "log" \in Chosen /\ Apart /\ dir[PlaceOf("log")] # 1
      /\ chosen \in [{"json", "equity"} -> Names \cup {None}] \X (DOMAIN Backup \cup {None})
      /\ caseBlind \in BOOLEAN /\ dir[InputPlace] = 1 /\ content[1] = {"input"}
  BY DEF PathsInv, Artifacts!AppendLog
<1>2. /\ Chosen' = Chosen /\ Apart' = Apart /\ PlaceOf("log")' = PlaceOf("log")
      /\ InputPlace' = InputPlace
  BY <1>1, ChoiceStays
<1>3. /\ Artifacts!Selected["log"] = Artifacts!Log
      /\ Artifacts!FileAt(Artifacts!Log) = dir[PlaceOf("log")]
      /\ PlaceOf("log") \in Names /\ InputPlace \in Names /\ PlaceOf("log") # InputPlace
  BY <1>1, ChosenFacts DEF PlaceOf, Artifacts!FileAt, Artifacts!Log, Apart
\* What is left to show of either way.
<1> DEFINE Kept == /\ \E k \in Nat \ {0} : /\ content' \in [1 .. k -> SUBSET Data]
                                            /\ dir' \in [Names -> 0 .. k]
                   /\ dir'[InputPlace] = 1 /\ content'[1] = {"input"}
                   /\ dir'[PlaceOf("log")] # 0 /\ dir'[PlaceOf("log")] # 1
                   /\ "log" \in content'[dir'[PlaceOf("log")]]
<1>4. Kept => PathsInv'
  <2> SUFFICES ASSUME Kept PROVE PathsInv'
    OBVIOUS
  <2>1. /\ \E k \in Nat \ {0} : /\ content' \in [1 .. k -> SUBSET Data]
                               /\ dir' \in [Names -> 0 .. k]
        /\ dir'[InputPlace'] = 1 /\ content'[1] = {"input"} /\ report' = 1
        /\ "log" \in Chosen' /\ Apart'
        /\ dir'[PlaceOf("log")'] # 0 /\ dir'[PlaceOf("log")'] # 1
        /\ "log" \in content'[dir'[PlaceOf("log")']]
    BY <1>1, <1>2
  <2>2. \A i \in 1 .. report' - 1 : FALSE
    BY <2>1
  <2>3. /\ chosen' \in [{"json", "equity"} -> Names \cup {None}] \X (DOMAIN Backup \cup {None})
        /\ caseBlind' \in BOOLEAN /\ pathPc' \in {"logging", "reporting"}
    BY <1>1
  <2>4. \A i \in 1 .. report' - 1 : Report(i)' \in Chosen' =>
           /\ dir'[PlaceOf(Report(i))'] # 0
           /\ content'[dir'[PlaceOf(Report(i))']] = {Report(i)'}
    BY <2>2
  <2>5. report' \in 1 .. 3 /\ pathPc' # "done" /\ (pathPc' = "reporting" => report' \in {1, 2})
    BY <2>1, <2>3
  <2> HIDE DEF Kept
  <2> QED
    BY <2>1, <2>3, <2>4, <2>5 DEF PathsInv
<1>5. CASE Artifacts!FileAt(Artifacts!Log) = 0
  <2>1. Artifacts!Put(Artifacts!Selected["log"], "log")
    BY <1>3, <1>5 DEF Artifacts!AppendLog
  <2>2. PICK k \in Nat \ {0} :
              /\ content \in [1 .. k -> SUBSET Data] /\ dir \in [Names -> 0 .. k]
              /\ content' \in [1 .. k + 1 -> SUBSET Data] /\ dir' \in [Names -> 0 .. k + 1]
              /\ dir'[PlaceOf("log")] = k + 1 /\ content'[k + 1] = {"log"}
              /\ \A f \in 1 .. k : content'[f] = content[f]
              /\ \A place \in Names \ {PlaceOf("log")} : dir'[place] = dir[place]
    BY <1>1, <2>1, PutKeeps
  <2>3. Kept
    BY <1>1, <1>3, <2>2
  <2> HIDE DEF Kept
  <2> QED
    BY <1>4, <2>3
<1>6. CASE Artifacts!FileAt(Artifacts!Log) # 0
  <2> DEFINE f == dir[PlaceOf("log")]
  <2>1. content' = [content EXCEPT ![f] = @ \cup {"log"}] /\ dir' = dir
    BY <1>3, <1>6 DEF Artifacts!AppendLog
  <2>2. PICK k \in Nat \ {0} : content \in [1 .. k -> SUBSET Data] /\ dir \in [Names -> 0 .. k]
    BY DEF PathsInv
  <2>3. f \in 2 .. k
    BY <1>1, <1>3, <1>6, <2>2
  <2>4. /\ content' \in [1 .. k -> SUBSET Data] /\ "log" \in content'[f]
        /\ content'[1] = content[1]
    BY <2>1, <2>2, <2>3 DEF Data
  <2>6. /\ content' \in [1 .. k -> SUBSET Data] /\ dir' \in [Names -> 0 .. k]
        /\ k \in Nat \ {0}
    BY <2>1, <2>2, <2>4
  <2>7. dir'[InputPlace] = 1 /\ content'[1] = {"input"} /\ f # 0 /\ f # 1
    BY <1>1, <2>1, <2>3, <2>4
  <2>5. Kept
    BY <2>1, <2>4, <2>6, <2>7
  <2> HIDE DEF Kept
  <2> QED
    BY <1>4, <2>5
<1> QED
  BY <1>5, <1>6

LEMMA RotateKeeps == PathsInv /\ Artifacts!Rotate => PathsInv'
<1> SUFFICES ASSUME PathsInv, Artifacts!Rotate PROVE PathsInv'
  OBVIOUS
<1>1. /\ chosen' = chosen /\ caseBlind' = caseBlind /\ report' = report /\ report = 1
      /\ pathPc = "logging" /\ pathPc' = "logging"
      /\ "log" \in Chosen /\ Apart /\ dir[PlaceOf("log")] # 1
      /\ chosen \in [{"json", "equity"} -> Names \cup {None}] \X (DOMAIN Backup \cup {None})
      /\ caseBlind \in BOOLEAN /\ dir[InputPlace] = 1 /\ content[1] = {"input"}
  BY DEF PathsInv, Artifacts!Rotate
<1>2. /\ Chosen' = Chosen /\ Apart' = Apart /\ PlaceOf("log")' = PlaceOf("log")
      /\ InputPlace' = InputPlace
  BY <1>1, ChoiceStays
<1>3. /\ Artifacts!Selected["log"] = Artifacts!Log
      /\ Artifacts!Selected["backup"] = Backup[Artifacts!Log]
      /\ "backup" \in Chosen
  BY <1>1, ChosenFacts DEF Artifacts!Log
<1>4. /\ PlaceOf("log") \in Names /\ PlaceOf("backup") \in Names /\ InputPlace \in Names
      /\ PlaceOf("log") # InputPlace /\ PlaceOf("backup") # InputPlace
      /\ PlaceOf("log") # PlaceOf("backup")
  BY <1>1, <1>3, ChosenFacts DEF Apart
<1>5. PICK k \in Nat \ {0} : content \in [1 .. k -> SUBSET Data] /\ dir \in [Names -> 0 .. k]
  BY DEF PathsInv
<1>6. /\ content' = Append(content, {"log"})
      /\ dir' = [dir EXCEPT ![PlaceOf("backup")] = dir[PlaceOf("log")],
                            ![PlaceOf("log")] = Artifacts!NewFile]
  BY <1>3 DEF Artifacts!Rotate, PlaceOf, Artifacts!FileAt
<1>7. /\ Artifacts!NewFile = k + 1 /\ content' \in [1 .. k + 1 -> SUBSET Data]
      /\ content'[k + 1] = {"log"} /\ \A f \in 1 .. k : content'[f] = content[f]
  BY <1>5, <1>6, NewFiles DEF Data
<1>8. /\ dir' \in [Names -> 0 .. k + 1] /\ dir'[PlaceOf("log")] = k + 1
      /\ dir'[InputPlace] = dir[InputPlace]
  BY <1>4, <1>5, <1>6, <1>7
<1>9. dir'[PlaceOf("log")] # 1 /\ content'[1] = {"input"}
  BY <1>1, <1>7, <1>8
<1>10. \E n \in Nat \ {0} : content' \in [1 .. n -> SUBSET Data] /\ dir' \in [Names -> 0 .. n]
  BY <1>7, <1>8
<1> QED
  BY <1>1, <1>2, <1>8, <1>9, <1>10 DEF PathsInv

\* A report is written to its own place: the log's and the earlier reports' files stay.
LEMMA ReportKeeps == PathsInv /\ Artifacts!Report => PathsInv'
<1> SUFFICES ASSUME PathsInv, Artifacts!Report PROVE PathsInv'
  OBVIOUS
<1>1. /\ chosen' = chosen /\ caseBlind' = caseBlind /\ report' = report + 1
      /\ report \in {1, 2} /\ pathPc = "reporting"
      /\ pathPc' = (IF report = 2 THEN "done" ELSE "reporting")
      /\ Apart /\ ("log" \in Chosen => dir[PlaceOf("log")] # 1)
      /\ chosen \in [{"json", "equity"} -> Names \cup {None}] \X (DOMAIN Backup \cup {None})
      /\ caseBlind \in BOOLEAN /\ dir[InputPlace] = 1 /\ content[1] = {"input"}
  BY DEF PathsInv, Artifacts!Report, Artifacts!Reports
<1>2. /\ Chosen' = Chosen /\ Apart' = Apart /\ InputPlace' = InputPlace
      /\ \A label : PlaceOf(label)' = PlaceOf(label)
  BY <1>1, ChoiceStays
<1>3. /\ \A i \in 1 .. report - 1 : Report(i) \in Chosen =>
               /\ dir[PlaceOf(Report(i))] # 0
               /\ content[dir[PlaceOf(Report(i))]] = {Report(i)}
      /\ "log" \in Chosen => /\ dir[PlaceOf("log")] # 0
                             /\ "log" \in content[dir[PlaceOf("log")]]
  BY <1>1 DEF PathsInv
<1>4. PICK k \in Nat \ {0} : content \in [1 .. k -> SUBSET Data] /\ dir \in [Names -> 0 .. k]
  BY DEF PathsInv
<1>5. Artifacts!Reports[report] = Report(report) /\ Report(report) \in {"json", "equity"}
  BY <1>1 DEF Artifacts!Reports, Report
<1>6. SUFFICES ASSUME TRUE
               PROVE  /\ \E n \in Nat \ {0} : content' \in [1 .. n -> SUBSET Data]
                                              /\ dir' \in [Names -> 0 .. n]
                      /\ dir'[InputPlace] = 1 /\ content'[1] = {"input"}
                      /\ \A i \in 1 .. report : Report(i) \in Chosen =>
                            /\ dir'[PlaceOf(Report(i))] # 0
                            /\ content'[dir'[PlaceOf(Report(i))]] = {Report(i)}
                      /\ "log" \in Chosen => /\ dir'[PlaceOf("log")] \notin {0, 1}
                                             /\ "log" \in content'[dir'[PlaceOf("log")]]
  <2>1. report' - 1 = report /\ report' \in 1 .. 3
    BY <1>1
  <2>2. \A i : Report(i)' = Report(i)
    BY DEF Report
  <2>3. /\ \A i \in 1 .. report' - 1 : Report(i)' \in Chosen' =>
               /\ dir'[PlaceOf(Report(i))'] # 0
               /\ content'[dir'[PlaceOf(Report(i))']] = {Report(i)'}
        /\ "log" \in Chosen' => /\ dir'[PlaceOf("log")'] # 0 /\ dir'[PlaceOf("log")'] # 1
                                /\ "log" \in content'[dir'[PlaceOf("log")']]
    BY <1>2, <1>6, <2>1, <2>2
  <2> QED
    BY <1>1, <1>2, <1>6, <2>1, <2>2, <2>3 DEF PathsInv
<1>7. CASE Report(report) \notin Chosen
  <2>1. dir' = dir /\ content' = content
    BY <1>1, <1>5, <1>7, ChosenFacts DEF Artifacts!Report
  <2>2. \A i \in 1 .. report : Report(i) \in Chosen => i \in 1 .. report - 1
    BY <1>1, <1>7
  <2> QED
    BY <1>1, <1>3, <1>4, <2>1, <2>2
<1>8. CASE Report(report) \in Chosen
  <2> DEFINE r == Report(report)
  <2>1. Artifacts!Put(Artifacts!Selected[r], r)
    BY <1>1, <1>5, <1>8, ChosenFacts DEF Artifacts!Report
  <2>2. PICK n \in Nat \ {0} :
              /\ content \in [1 .. n -> SUBSET Data] /\ dir \in [Names -> 0 .. n]
              /\ content' \in [1 .. n + 1 -> SUBSET Data] /\ dir' \in [Names -> 0 .. n + 1]
              /\ dir'[PlaceOf(r)] = n + 1 /\ content'[n + 1] = {r}
              /\ \A f \in 1 .. n : content'[f] = content[f]
              /\ \A place \in Names \ {PlaceOf(r)} : dir'[place] = dir[place]
    BY <1>1, <1>5, <1>8, <2>1, PutKeeps
  <2>3. /\ InputPlace \in Names /\ \A label \in Chosen : PlaceOf(label) \in Names
        /\ \A label \in Chosen \ {r} : PlaceOf(label) # PlaceOf(r)
        /\ PlaceOf(r) # InputPlace
    BY <1>1, <1>8, ChosenFacts DEF Apart
  \* Every other file that was there is still under its name.
  <2>4. ASSUME NEW label \in Chosen \ {r}, dir[PlaceOf(label)] # 0
        PROVE  /\ dir'[PlaceOf(label)] = dir[PlaceOf(label)]
               /\ dir[PlaceOf(label)] \in 1 .. n
               /\ content'[dir[PlaceOf(label)]] = content[dir[PlaceOf(label)]]
    BY <2>2, <2>3, <2>4
  <2>5. dir'[InputPlace] = 1 /\ content'[1] = {"input"}
    BY <1>1, <2>2, <2>3
  <2>6. \A i \in 1 .. report : Report(i) = r \/ i \in 1 .. report - 1
    BY <1>1
  <2>7. ASSUME NEW i \in 1 .. report, Report(i) \in Chosen
        PROVE  /\ dir'[PlaceOf(Report(i))] # 0
               /\ content'[dir'[PlaceOf(Report(i))]] = {Report(i)}
    <3>1. CASE Report(i) = r
      BY <2>2, <3>1
    <3>2. CASE Report(i) # r
      BY <1>3, <2>4, <2>6, <2>7, <3>2
    <3> QED
      BY <3>1, <3>2
  <2>8. ASSUME "log" \in Chosen
        PROVE  /\ dir'[PlaceOf("log")] \notin {0, 1}
               /\ "log" \in content'[dir'[PlaceOf("log")]]
    <3>1. "log" # r
      BY <1>5
    <3> QED
      BY <1>1, <1>3, <2>4, <2>8, <3>1
  <2>9. /\ n + 1 \in Nat \ {0} /\ content' \in [1 .. n + 1 -> SUBSET Data]
        /\ dir' \in [Names -> 0 .. n + 1]
    BY <2>2
  <2> HIDE DEF r
  <2> QED
    BY <2>5, <2>7, <2>8, <2>9
<1> QED
  BY <1>7, <1>8

LEMMA PathsStep == PathsInv /\ [Artifacts!Next]_pathVars => PathsInv'
<1>1. PathsInv /\ UNCHANGED pathVars => PathsInv'
  <2> SUFFICES ASSUME PathsInv, UNCHANGED pathVars PROVE PathsInv'
    OBVIOUS
  <2>1. /\ Chosen' = Chosen /\ Apart' = Apart /\ InputPlace' = InputPlace
        /\ \A label : PlaceOf(label)' = PlaceOf(label)
    BY ChoiceStays DEF pathVars
  <2>2. \A i : Report(i)' = Report(i)
    BY DEF Report
  <2> QED
    BY <2>1, <2>2 DEF PathsInv, pathVars
<1> QED
  BY <1>1, ValidateKeeps, AppendLogKeeps, RotateKeeps, ReportKeeps DEF Artifacts!Next

LEMMA PathsKept == PathsInv => Artifacts!InputIsUntouched /\ Artifacts!EveryArtifactSurvives
<1> SUFFICES ASSUME PathsInv
             PROVE  Artifacts!InputIsUntouched /\ Artifacts!EveryArtifactSurvives
  OBVIOUS
<1>1. Artifacts!InputIsUntouched
  BY DEF PathsInv, Artifacts!InputIsUntouched, Artifacts!FileAt, InputPlace
<1>2. ASSUME pathPc = "done"
      PROVE  /\ \A i \in {1, 2} : Report(i) \in Chosen => content[dir[PlaceOf(Report(i))]] = {Report(i)}
             /\ "log" \in Chosen => "log" \in content[dir[PlaceOf("log")]]
  BY <1>2 DEF PathsInv
<1>3. \A i \in DOMAIN Artifacts!Reports : i \in {1, 2} /\ Artifacts!Reports[i] = Report(i)
                                          /\ Report(i) \in {"json", "equity"}
  BY DEF Artifacts!Reports, Report
<1>4. Artifacts!EveryArtifactSurvives
  BY <1>2, <1>3, ChosenFacts
  DEF PathsInv, Artifacts!EveryArtifactSurvives, Artifacts!FileAt, Artifacts!Log, PlaceOf
<1> QED
  BY <1>1, <1>4

\* Whichever part runs, the writer's state is one the writer reaches.
LEMMA WriterRuns == AllSpec => Spec
<1>1. AllInit => Init
  BY DEF AllInit
<1>2. [AllNext]_all => [Next]_vars
  BY DEF AllNext, all
<1> QED
  BY <1>1, <1>2, PTL DEF AllSpec, Spec

(***************************************************************************)
(* Whatever fails, however the calls overlap and whatever paths they are   *)
(* given, no reader finds part of an artifact, a manifest is in place      *)
(* after what it names, and no artifact of a call and no input of it is    *)
(* lost to another of its artifacts (artifacts.py, cli.py).                *)
(***************************************************************************)
THEOREM ArtifactsAreSafe == AllSpec => []ArtifactsSurvive
<1> DEFINE Inv == part = "paths" => PathsInv
<1>1. AllInit => Inv
  BY PathsInit DEF AllInit
<1>2. Inv /\ [AllNext]_all => Inv'
  <2> SUFFICES ASSUME Inv, [AllNext]_all, part' = "paths" PROVE PathsInv'
    OBVIOUS
  <2>1. part = "paths"
    BY DEF AllNext, all
  <2>2. Artifacts!Next \/ UNCHANGED pathVars
    BY <2>1 DEF AllNext, all
  <2> QED
    BY <2>1, <2>2, PathsStep
<1>3. Inv /\ TypeOK /\ NeverTorn /\ ManifestIsLast => ArtifactsSurvive
  BY PathsKept DEF ArtifactsSurvive
<1> QED
  BY <1>1, <1>2, <1>3, WriterRuns, NeverAPart, ManifestsAreLast, LeftoversAreExplained, PTL
  DEF AllSpec

(***************************************************************************)
(* Beside the other parts, too, the writer is an atomic store.             *)
(***************************************************************************)
THEOREM StoreIsImplemented == AllSpec => ImplementsStore
BY WriterRuns, WriterImplementsStore, PTL

-----------------------------------------------------------------------------
(***************************************************************************)
(* The CSV loader.  What the loop has read so far is a function of the rows *)
(* up to the one it is at.                                                 *)
(***************************************************************************)
\* Every set of numbers that is not empty has a least one.
LEMMA LeastNumber ==
    ASSUME NEW S \in SUBSET Nat, S # {}
    PROVE  \E n \in S : \A m \in S : n <= m
<1> DEFINE R == {ss \in Nat \X Nat : ss[1] < ss[2]}
<1>1. IsWellFoundedOn(R, Nat)
  BY NatLessThanWellFounded DEF OpToRel
<1> HIDE DEF R
<1>2. PICK n \in S : \A m \in S : ~(<<m, n>> \in R)
  BY <1>1, WFMin
<1>3. \A m \in S : ~(m < n)
  BY <1>2 DEF R
<1> QED
  BY <1>3

\* Induction over the numbers up to n, the set T standing for what is shown of them.
LEMMA UpTo ==
    ASSUME NEW n \in Nat, NEW T, 0 \in T, \A i \in 1 .. n : i - 1 \in T => i \in T
    PROVE  \A i \in 0 .. n : i \in T
<1> DEFINE Bad == {i \in 0 .. n : i \notin T}
<1> SUFFICES ASSUME Bad # {} PROVE FALSE
  OBVIOUS
<1>1. Bad \in SUBSET Nat
  OBVIOUS
<1>2. PICK i \in Bad : \A m \in Bad : i <= m
  BY <1>1, LeastNumber
<1>3. i \in 1 .. n /\ i - 1 \in 0 .. n
  BY <1>2
<1>4. i - 1 \notin Bad
  BY <1>2, <1>3
<1> QED
  BY <1>2, <1>3, <1>4

\* A function of the numbers up to n may be defined by its value at 0 and a step
\* from each value to the next: there is one that the definition unrolls to.
StepsOf(n, V) == [(1 .. n) \X V -> V]

Unrolls(f, n, V, base, step) ==
    /\ f \in [0 .. n -> V]
    /\ \A i \in 0 .. n : f[i] = IF i = 0 THEN base ELSE step[<<i, f[i - 1]>>]

LEMMA Recursion ==
    ASSUME NEW n \in Nat, NEW V, NEW base \in V, NEW step \in StepsOf(n, V)
    PROVE  \E f : Unrolls(f, n, V, base, step)
<1> DEFINE Good(f, m) == \A i \in 0 .. m : f[i] = IF i = 0 THEN base ELSE step[<<i, f[i - 1]>>]
           T == {m \in 0 .. n : \E f \in [0 .. n -> V] : Good(f, m)}
<1>1. 0 \in T
  <2>1. [i \in 0 .. n |-> base] \in [0 .. n -> V] /\ Good([i \in 0 .. n |-> base], 0)
    OBVIOUS
  <2> HIDE DEF Good
  <2>2. 0 \in 0 .. n
    OBVIOUS
  <2> QED
    BY <2>1, <2>2
<1>2. ASSUME NEW m \in 1 .. n, m - 1 \in T
      PROVE  m \in T
  <2>1. PICK f \in [0 .. n -> V] : Good(f, m - 1)
    BY <1>2
  <2>2. m - 1 \in 0 .. n /\ f[m - 1] \in V /\ step[<<m, f[m - 1]>>] \in V
    BY <2>1 DEF StepsOf
  <2> DEFINE g == [f EXCEPT ![m] = step[<<m, f[m - 1]>>]]
  <2>3. g \in [0 .. n -> V] /\ g[m] = step[<<m, f[m - 1]>>] /\ \A i \in 0 .. n \ {m} : g[i] = f[i]
    BY <2>1, <2>2
  <2> HIDE DEF g
  <2>4. ASSUME NEW i \in 0 .. m
        PROVE  g[i] = IF i = 0 THEN base ELSE step[<<i, g[i - 1]>>]
    <3>1. CASE i = m
      <4>1. g[m - 1] = f[m - 1] /\ i # 0
        BY <2>2, <2>3, <3>1
      <4> QED
        BY <2>3, <3>1, <4>1
    <3>2. CASE i # m /\ i = 0
      <4>1. 0 \in 0 .. m - 1 /\ 0 \in 0 .. n \ {m}
        OBVIOUS
      <4>2. f[0] = base
        BY <2>1, <4>1
      <4> QED
        BY <2>3, <3>2, <4>1, <4>2
    <3>3. CASE i # m /\ i # 0
      <4>1. i \in 0 .. m - 1 /\ i \in 0 .. n \ {m} /\ i - 1 \in 0 .. n \ {m}
        BY <3>3
      <4>2. g[i] = f[i] /\ g[i - 1] = f[i - 1]
        BY <2>3, <4>1
      <4> QED
        BY <2>1, <3>3, <4>1, <4>2
    <3> QED
      BY <3>1, <3>2, <3>3
  <2>5. Good(g, m)
    BY <2>4
  <2> HIDE DEF Good
  <2> QED
    BY <2>3, <2>5
<1>3. n \in T
  <2>1. n \in 0 .. n
    OBVIOUS
  <2> HIDE DEF T
  <2> QED
    BY <1>1, <1>2, <2>1, UpTo
<1>4. PICK f \in [0 .. n -> V] : Good(f, n)
  BY <1>3
<1> QED
  BY <1>4 DEF Unrolls

\* Numbers that rise from each to the next rise from each to every later one.
LEMMA Rising ==
    ASSUME NEW n \in Nat, NEW f \in [1 .. n -> Int],
           \A i \in 2 .. n : f[i - 1] < f[i]
    PROVE  \A i, j \in 1 .. n : i < j => f[i] < f[j]
<1> DEFINE T == {k \in 0 .. n : \A i \in 1 .. n : i < k => f[i] < f[k]}
<1>1. 0 \in T
  OBVIOUS
<1>2. ASSUME NEW k \in 1 .. n, k - 1 \in T
      PROVE  k \in T
  <2> SUFFICES ASSUME NEW i \in 1 .. n, i < k PROVE f[i] < f[k]
    OBVIOUS
  <2>1. k \in 2 .. n /\ k - 1 \in 1 .. n
    OBVIOUS
  <2>2. f[k - 1] < f[k] /\ f[k] \in Int /\ f[k - 1] \in Int /\ f[i] \in Int
    BY <2>1
  <2>3. i = k - 1 \/ i < k - 1
    OBVIOUS
  <2>4. i < k - 1 => f[i] < f[k - 1]
    BY <1>2
  <2>5. CASE i = k - 1
    BY <2>2, <2>5
  <2>6. CASE i < k - 1
    BY <2>2, <2>4, <2>6
  <2> QED
    BY <2>3, <2>5, <2>6
<1>3. \A k \in 0 .. n : k \in T
  <2> HIDE DEF T
  <2> QED
    BY <1>1, <1>2, UpTo
<1> QED
  BY <1>3

-----------------------------------------------------------------------------
\* The order of a file, and its one symbol.
Ordered == \A i, j \in DOMAIN rows : i < j => Csv!Instant(rows[i]) < Csv!Instant(rows[j])
OneSymbol == \E symbol \in Symbols : /\ config.expected \in {Absent, symbol}
                                     /\ \A i \in DOMAIN rows : rows[i].symbol = symbol

\* What a file that is refused may be refused for.
Refusable ==
    \/ rows = <<>> \/ ~Ordered \/ ~OneSymbol \/ config.gap_policy = "reject"
    \/ \E i \in DOMAIN rows :
          \/ rows[i].torn
          \/ openColumn /\ rows[i].open = "empty"
          \/ config.missing_volume_policy = "reject" /\ rows[i].volume = "empty"

Bars == [timestamp : Int, symbol : Symbols, open : {"price", "empty", "absent"}]

\* Every row that was read is a bar, in its place.
Read ==
    /\ bars \in Seq(Bars) /\ Len(bars) = Len(rows)
    /\ \A i \in DOMAIN rows : bars[i] = Csv!Parsed(rows[i]) /\ ~Csv!RowRefused(rows[i])

CsvInv ==
    /\ config \in Csv!Configs /\ openColumn \in BOOLEAN /\ rows \in Seq(Csv!Rows)
    /\ outcome \in {"reading", "refused", "loaded"}
    /\ outcome # "refused" => Read
    /\ outcome = "refused" => Refusable
    /\ outcome = "loaded" => /\ bars # <<>> /\ ~Csv!TimelineRefused
                             /\ warnings = Csv!GapWarnings \o Csv!VolumeWarning

LEMMA CsvFacts ==
    /\ \A clock \in Clocks : clock.local \in Int /\ clock.offset \in Int
    /\ MaxGap = Absent \/ MaxGap \in Nat \ {0}
BY FilesAssumption DEF Csv!MarketDataFileAssumption

LEMMA ParsedTyped ==
    ASSUME NEW row \in Csv!Rows
    PROVE  Csv!Instant(row) \in Int /\ Csv!Parsed(row) \in Bars
<1>1. /\ row.clock \in Clocks /\ row.symbol \in Symbols /\ row.open \in {"price", "empty"}
  BY DEF Csv!Rows
<1>2. Csv!Instant(row) \in Int
  BY <1>1, CsvFacts DEF Csv!Instant
<1> QED
  BY <1>1, <1>2 DEF Csv!Parsed, Bars

LEMMA CsvInit == Csv!Init => CsvInv
<1> SUFFICES ASSUME Csv!Init PROVE CsvInv
  OBVIOUS
<1>1. rows = <<>> /\ bars = <<>> /\ Read
  BY DEF Csv!Init, Read
<1> QED
  BY <1>1 DEF Csv!Init, CsvInv

LEMMA ReadKeeps ==
    ASSUME CsvInv, NEW row \in Csv!Rows, Csv!ReadRow(row)
    PROVE  CsvInv'
<1>1. /\ rows \in Seq(Csv!Rows) /\ rows' = Append(rows, row) /\ outcome = "reading"
      /\ UNCHANGED <<config, openColumn, warnings>> /\ Read
  BY DEF CsvInv, Csv!ReadRow
<1>2. /\ rows' \in Seq(Csv!Rows) /\ DOMAIN rows' = 1 .. Len(rows) + 1
      /\ rows'[Len(rows) + 1] = row /\ \A i \in DOMAIN rows : rows'[i] = rows[i]
      /\ DOMAIN rows = 1 .. Len(rows) /\ Len(rows) \in Nat /\ Len(rows') = Len(rows) + 1
  BY <1>1
<1>3. CASE Csv!RowRefused(row)
  <2>1. outcome' = "refused"
    BY <1>3 DEF Csv!ReadRow
  <2>2. Csv!RowRefused(row)'
    BY <1>1, <1>3 DEF Csv!RowRefused
  <2>3. Refusable'
    <3>1. CASE config.expected \notin {Absent, row.symbol}
      BY <1>1, <1>2, <3>1 DEF Refusable, OneSymbol
    <3>2. CASE config.expected \in {Absent, row.symbol}
      BY <1>1, <1>2, <1>3, <3>2 DEF Refusable, Csv!RowRefused
    <3> QED
      BY <3>1, <3>2
  <2> QED
    BY <1>1, <1>2, <2>1, <2>3 DEF CsvInv
<1>4. CASE ~Csv!RowRefused(row)
  <2>1. outcome' = "reading" /\ bars' = Append(bars, Csv!Parsed(row))
    BY <1>1, <1>4 DEF Csv!ReadRow
  <2>2. /\ bars' \in Seq(Bars) /\ Len(bars') = Len(rows')
        /\ bars'[Len(rows) + 1] = Csv!Parsed(row) /\ \A i \in 1 .. Len(rows) : bars'[i] = bars[i]
    BY <1>1, <1>2, <2>1, ParsedTyped DEF Read
  <2>3. \A other : /\ Csv!Parsed(other)' = Csv!Parsed(other)
                   /\ Csv!RowRefused(other)' = Csv!RowRefused(other)
    BY <1>1 DEF Csv!Parsed, Csv!RowRefused, Csv!Instant
  <2>4. ASSUME NEW i \in DOMAIN rows'
        PROVE  bars'[i] = Csv!Parsed(rows'[i]) /\ ~Csv!RowRefused(rows'[i])
    <3>1. CASE i = Len(rows) + 1
      BY <1>2, <1>4, <2>2, <3>1
    <3>2. CASE i # Len(rows) + 1
      BY <1>1, <1>2, <2>2, <3>2 DEF Read
    <3> QED
      BY <3>1, <3>2
  <2>5. Read'
    BY <2>2, <2>3, <2>4 DEF Read
  <2> QED
    BY <1>1, <1>2, <2>1, <2>5 DEF CsvInv
<1> QED
  BY <1>3, <1>4

\* The symbols of the bars are one exactly if all bars have the same.
LEMMA OneOrMore ==
    ASSUME bars \in Seq(Bars), bars # <<>>
    PROVE  Csv!Cardinality({bars[i].symbol : i \in DOMAIN bars}) = 1
              <=> \A i \in DOMAIN bars : bars[i].symbol = bars[1].symbol
<1> DEFINE S == {bars[i].symbol : i \in DOMAIN bars}
           list == [i \in DOMAIN bars |-> bars[i].symbol]
<1>1. DOMAIN bars = 1 .. Len(bars) /\ Len(bars) \in Nat /\ 1 \in DOMAIN bars
  OBVIOUS
<1>2. IsFiniteSet(S)
  <2>1. list \in Seq(S) /\ Len(list) = Len(bars)
    BY <1>1
  <2>2. \A s \in S : \E n \in 1 .. Len(list) : list[n] = s
    BY <1>1, <2>1
  <2> HIDE DEF S, list
  <2> QED
    BY <2>1, <2>2 DEF IsFiniteSet
<1>3. Csv!Cardinality(S) = Cardinality(S)
  BY DEF Csv!Cardinality, Cardinality
<1>4. bars[1].symbol \in S /\ \A i \in DOMAIN bars : bars[i].symbol \in S
  BY <1>1
<1>5. (\E x : S = {x}) <=> \A i \in DOMAIN bars : bars[i].symbol = bars[1].symbol
  <2>1. ASSUME NEW x, S = {x} PROVE \A i \in DOMAIN bars : bars[i].symbol = bars[1].symbol
    BY <1>4, <2>1
  <2>2. ASSUME \A i \in DOMAIN bars : bars[i].symbol = bars[1].symbol
        PROVE  S = {bars[1].symbol}
    BY <1>1, <2>2
  <2> HIDE DEF S
  <2> QED
    BY <2>1, <2>2
<1> HIDE DEF S
<1>6. Cardinality(S) = 1 <=> \E x : S = {x}
  BY <1>2, FS_Singleton
<1> QED
  BY <1>3, <1>5, <1>6 DEF S

\* What the bars say of the rows they were read from.
LEMMA BarsAreRows ==
    ASSUME CsvInv, Read
    PROVE  /\ DOMAIN rows = 1 .. Len(rows) /\ DOMAIN bars = DOMAIN rows /\ Len(rows) \in Nat
           /\ \A i \in DOMAIN rows : /\ bars[i].timestamp = Csv!Instant(rows[i])
                                     /\ bars[i].timestamp \in Int
                                     /\ bars[i].symbol = rows[i].symbol
                                     /\ bars[i].symbol \in Symbols
                                     /\ bars[i].open = IF openColumn THEN rows[i].open
                                                       ELSE "absent"
                                     /\ rows[i].open \in {"price", "empty"}
<1>1. rows \in Seq(Csv!Rows) /\ bars \in Seq(Bars) /\ Len(bars) = Len(rows)
  BY DEF CsvInv, Read
<1>2. DOMAIN rows = 1 .. Len(rows) /\ DOMAIN bars = DOMAIN rows /\ Len(rows) \in Nat
  BY <1>1
<1>3. ASSUME NEW i \in DOMAIN rows
      PROVE  /\ bars[i].timestamp = Csv!Instant(rows[i]) /\ bars[i].timestamp \in Int
             /\ bars[i].symbol = rows[i].symbol /\ bars[i].symbol \in Symbols
             /\ bars[i].open = (IF openColumn THEN rows[i].open ELSE "absent")
             /\ rows[i].open \in {"price", "empty"}
  <2>1. rows[i] \in Csv!Rows /\ bars[i] \in Bars /\ bars[i] = Csv!Parsed(rows[i])
    BY <1>1, <1>2, <1>3 DEF Read
  <2> QED
    BY <2>1 DEF Csv!Parsed, Csv!Rows, Bars
<1> QED
  BY <1>2, <1>3

\* The order and the symbol of the file are those of its bars.
LEMMA TimelineIsTheFiles ==
    ASSUME CsvInv, Read, rows # <<>>
    PROVE  /\ Ordered <=> \A i \in 2 .. Len(bars) : ~(bars[i].timestamp <= bars[i - 1].timestamp)
           /\ OneSymbol <=> \A i \in DOMAIN bars : bars[i].symbol = bars[1].symbol
<1>1. /\ Len(bars) = Len(rows) /\ Len(rows) \in Nat \ {0} /\ rows \in Seq(Csv!Rows)
      /\ DOMAIN rows = 1 .. Len(rows) /\ DOMAIN bars = DOMAIN rows
  BY BarsAreRows DEF CsvInv, Read
<1>2. \A i \in DOMAIN rows : /\ bars[i].timestamp = Csv!Instant(rows[i])
                             /\ bars[i].timestamp \in Int
                             /\ bars[i].symbol = rows[i].symbol /\ bars[i].symbol \in Symbols
  BY BarsAreRows
<1>3. ASSUME Ordered, NEW i \in 2 .. Len(bars)
      PROVE  ~(bars[i].timestamp <= bars[i - 1].timestamp)
  <2>1. i \in DOMAIN rows /\ i - 1 \in DOMAIN rows /\ i - 1 < i
    BY <1>1
  <2>2. Csv!Instant(rows[i - 1]) < Csv!Instant(rows[i])
    BY <1>3, <2>1 DEF Ordered
  <2> QED
    BY <1>2, <2>1, <2>2
<1>4. ASSUME \A i \in 2 .. Len(bars) : ~(bars[i].timestamp <= bars[i - 1].timestamp)
      PROVE  Ordered
  <2> DEFINE n == Len(bars)
             f == [i \in 1 .. n |-> bars[i].timestamp]
  <2>1. n \in Nat /\ f \in [1 .. n -> Int]
    BY <1>1, <1>2
  <2>2. ASSUME NEW i \in 2 .. n PROVE f[i - 1] < f[i]
    <3>1. i \in 1 .. n /\ i - 1 \in 1 .. n
      BY <2>1
    <3> QED
      BY <1>1, <1>2, <1>4, <3>1
  <2>3. \A i, j \in 1 .. n : i < j => f[i] < f[j]
    <3> HIDE DEF f, n
    <3> QED
      BY <2>1, <2>2, Rising
  <2>4. DOMAIN rows = 1 .. n /\ \A i \in DOMAIN rows : f[i] = Csv!Instant(rows[i])
    BY <1>1, <1>2
  <2> HIDE DEF f, n
  <2> QED
    BY <2>3, <2>4 DEF Ordered
<1>5. OneSymbol => \A i \in DOMAIN bars : bars[i].symbol = bars[1].symbol
  BY <1>1, <1>2 DEF OneSymbol
<1>6. ASSUME \A i \in DOMAIN bars : bars[i].symbol = bars[1].symbol
      PROVE  OneSymbol
  <2>1. 1 \in DOMAIN rows /\ ~Csv!RowRefused(rows[1])
    BY <1>1 DEF Read
  <2>2. config.expected \in {Absent, rows[1].symbol}
    BY <2>1 DEF Csv!RowRefused
  <2> QED
    BY <1>1, <1>2, <1>6, <2>1, <2>2 DEF OneSymbol
<1> QED
  BY <1>3, <1>4, <1>5, <1>6

LEMMA EndKeeps == CsvInv /\ Csv!EndOfFile => CsvInv'
<1> SUFFICES ASSUME CsvInv, Csv!EndOfFile PROVE CsvInv'
  OBVIOUS
<1>1. /\ UNCHANGED <<config, openColumn, rows, bars, missingVolumeSeen>>
      /\ outcome = "reading" /\ Read
  BY DEF CsvInv, Csv!EndOfFile
<1>2. /\ Refusable' = Refusable /\ Read' = Read /\ Csv!TimelineRefused' = Csv!TimelineRefused
      /\ Csv!GapWarnings' = Csv!GapWarnings /\ Csv!VolumeWarning' = Csv!VolumeWarning
  BY <1>1
  DEF Refusable, Ordered, OneSymbol, Read, Csv!TimelineRefused, Csv!LargeGaps, Csv!GapSeconds,
      Csv!GapWarnings, Csv!VolumeWarning, Csv!Instant, Csv!Parsed, Csv!RowRefused
<1>3. CASE bars = <<>> \/ Csv!TimelineRefused
  <2>1. outcome' = "refused"
    BY <1>3 DEF Csv!EndOfFile
  <2>2. Refusable
    <3>1. CASE bars = <<>>
      BY <1>1, <3>1, BarsAreRows DEF Read, Refusable, CsvInv
    <3>2. CASE bars # <<>> /\ Csv!TimelineRefused
      <4>1. rows # <<>>
        BY <1>1, <3>2 DEF Read
      <4>2. CASE config.gap_policy = "reject"
        BY <4>2 DEF Refusable
      <4>3. CASE config.gap_policy # "reject"
        BY <1>1, <3>2, <4>1, <4>3, OneOrMore, TimelineIsTheFiles
        DEF Refusable, Csv!TimelineRefused, Read
      <4> QED
        BY <4>2, <4>3
    <3> QED
      BY <1>3, <3>1, <3>2
  <2> QED
    BY <1>1, <1>2, <2>1, <2>2 DEF CsvInv
<1>4. CASE ~(bars = <<>> \/ Csv!TimelineRefused)
  <2>1. outcome' = "loaded" /\ warnings' = Csv!GapWarnings \o Csv!VolumeWarning
    BY <1>4 DEF Csv!EndOfFile
  <2> QED
    BY <1>1, <1>2, <1>4, <2>1 DEF CsvInv
<1> QED
  BY <1>3, <1>4

LEMMA CsvStep == CsvInv /\ [Csv!Next]_csvVars => CsvInv'
<1>1. CsvInv /\ UNCHANGED csvVars => CsvInv'
  <2> SUFFICES ASSUME CsvInv, UNCHANGED csvVars PROVE CsvInv'
    OBVIOUS
  <2>1. /\ Refusable' = Refusable /\ Read' = Read /\ Csv!TimelineRefused' = Csv!TimelineRefused
        /\ Csv!GapWarnings' = Csv!GapWarnings /\ Csv!VolumeWarning' = Csv!VolumeWarning
    BY DEF csvVars, Refusable, Ordered, OneSymbol, Read, Csv!TimelineRefused, Csv!LargeGaps,
           Csv!GapSeconds, Csv!GapWarnings, Csv!VolumeWarning, Csv!Instant, Csv!Parsed,
           Csv!RowRefused
  <2> QED
    BY <2>1 DEF CsvInv, csvVars
<1> QED
  BY <1>1, ReadKeeps, EndKeeps DEF Csv!Next

\* The warnings about gaps are one for each bar that ends a large one.
LEMMA GapWarningsAre ==
    ASSUME bars \in Seq(Bars)
    PROVE  /\ Csv!GapWarnings \in Seq([code : {"large_time_gap"}, timestamp : Int])
           /\ \A k \in DOMAIN Csv!GapWarnings : \E i \in Csv!LargeGaps :
                 Csv!GapWarnings[k].timestamp = bars[i].timestamp
           /\ \A i \in Csv!LargeGaps : \E k \in DOMAIN Csv!GapWarnings :
                 Csv!GapWarnings[k].timestamp = bars[i].timestamp
<1> DEFINE n == Len(bars)
           W == [code : {"large_time_gap"}, timestamp : Int]
           V == Seq(W)
           gap(i) == [code |-> "large_time_gap", timestamp |-> bars[i].timestamp]
           step == [p \in (1 .. n) \X V |-> IF p[1] \in Csv!LargeGaps THEN Append(p[2], gap(p[1]))
                                            ELSE p[2]]
           Body(f, i) == IF i = 0 THEN <<>>
                         ELSE IF i \in Csv!LargeGaps THEN Append(f[i - 1], gap(i)) ELSE f[i - 1]
           upTo == CHOOSE f : f = [i \in 0 .. n |-> Body(f, i)]
<1>1. n \in Nat /\ \A i \in 1 .. n : gap(i) \in W
  <2>1. n \in Nat /\ \A i \in 1 .. n : bars[i] \in Bars
    OBVIOUS
  <2>2. \A bar \in Bars : bar.timestamp \in Int
    BY DEF Bars
  <2> HIDE DEF n
  <2> QED
    BY <2>1, <2>2
<1>2. Csv!LargeGaps \subseteq 2 .. n
  BY DEF Csv!LargeGaps
<1>3. Csv!GapWarnings = upTo[n]
  BY DEF Csv!GapWarnings
<1>4. step \in [(1 .. n) \X V -> V]
  <2> SUFFICES ASSUME NEW p \in (1 .. n) \X V PROVE step[p] \in V
    OBVIOUS
  <2>1. gap(p[1]) \in W /\ p[2] \in V
    BY <1>1
  <2> HIDE DEF W, gap
  <2> QED
    BY <2>1
<1>5. PICK f : Unrolls(f, n, V, <<>>, step)
  <2> DEFINE base == <<>>
  <2>1. base \in V /\ n \in Nat
    BY <1>1
  <2>2. step \in StepsOf(n, V)
    BY <1>4 DEF StepsOf
  <2> HIDE DEF n, V, step, base
  <2>3. \E f : Unrolls(f, n, V, base, step)
    BY <2>1, <2>2, Recursion
  <2> QED
    BY <2>3 DEF base
<1>6. ASSUME NEW i \in 0 .. n PROVE f[i] = Body(f, i)
  <2>1. CASE i = 0
    BY <1>5, <2>1 DEF Unrolls
  <2>2. CASE i # 0
    <3>1. i \in 1 .. n /\ i - 1 \in 0 .. n
      BY <1>1, <2>2
    <3>2. f[i - 1] \in V /\ f[i] = step[<<i, f[i - 1]>>]
      <4> HIDE DEF n, V, step
      <4> QED
        BY <1>5, <2>2, <3>1 DEF Unrolls
    <3>3. step[<<i, f[i - 1]>>] = Body(f, i)
      <4>1. <<i, f[i - 1]>> \in (1 .. n) \X V
        BY <3>1, <3>2
      <4> HIDE DEF n, V
      <4> QED
        BY <2>2, <4>1
    <3> QED
      BY <3>2, <3>3
  <2> QED
    BY <2>1, <2>2
<1>7. f = [i \in 0 .. n |-> Body(f, i)]
  BY <1>5, <1>6 DEF Unrolls
<1>8. upTo = [i \in 0 .. n |-> Body(upTo, i)]
  <2> HIDE DEF Body
  <2> QED
    BY <1>7
<1> DEFINE About(s, i) == /\ s \in V
                          /\ \A k \in DOMAIN s : \E j \in Csv!LargeGaps : s[k].timestamp = bars[j].timestamp
                          /\ \A j \in Csv!LargeGaps : j <= i =>
                                \E k \in DOMAIN s : s[k].timestamp = bars[j].timestamp
           T == {i \in 0 .. n : About(upTo[i], i)}
<1> HIDE DEF upTo
<1>9. 0 \in T
  <2>1. upTo[0] = <<>>
    BY <1>1, <1>8
  <2>2. \A j \in Csv!LargeGaps : ~(j <= 0)
    BY <1>2
  <2> QED
    <3>1. upTo[0] \in V /\ DOMAIN upTo[0] = {}
      BY <2>1
    <3>2. 0 \in 0 .. n
      BY <1>1
    <3> HIDE DEF V, n
    <3> QED
      BY <2>2, <3>1, <3>2
<1>10. ASSUME NEW i \in 1 .. n, i - 1 \in T
       PROVE  i \in T
  <2>1. About(upTo[i - 1], i - 1) /\ i \in 0 .. n
    BY <1>10
  <2>2. upTo[i] = Body(upTo, i)
    BY <1>8, <2>1
  <2>3. CASE i \notin Csv!LargeGaps
    <3>1. upTo[i] = upTo[i - 1]
      BY <2>2, <2>3
    <3>2. \A j \in Csv!LargeGaps : j <= i => j <= i - 1
      BY <1>2, <2>3
    <3> HIDE DEF upTo, V
    <3> QED
      BY <2>1, <3>1, <3>2
  <2>4. CASE i \in Csv!LargeGaps
    <3> DEFINE s == upTo[i - 1]
               e == gap(i)
    <3>1. upTo[i] = Append(s, e) /\ e.timestamp = bars[i].timestamp /\ e \in W /\ s \in Seq(W)
      BY <1>1, <2>1, <2>2, <2>4
    <3> HIDE DEF W, e, s
    <3>2. /\ Append(s, e) \in Seq(W) /\ Append(s, e)[Len(s) + 1] = e
          /\ DOMAIN Append(s, e) = 1 .. Len(s) + 1 /\ Len(s) \in Nat
          /\ DOMAIN s = 1 .. Len(s)
          /\ \A k \in DOMAIN s : Append(s, e)[k] = s[k]
      BY <3>1
    <3>3. ASSUME NEW k \in DOMAIN Append(s, e)
          PROVE  \E j \in Csv!LargeGaps : Append(s, e)[k].timestamp = bars[j].timestamp
      <4>1. k = Len(s) + 1 \/ k \in DOMAIN s
        BY <3>2
      <4> QED
        BY <2>1, <2>4, <3>1, <3>2, <4>1 DEF s
    <3>4. ASSUME NEW j \in Csv!LargeGaps, j <= i
          PROVE  \E k \in DOMAIN Append(s, e) : Append(s, e)[k].timestamp = bars[j].timestamp
      <4>1. CASE j = i
        <5>1. Len(s) + 1 \in DOMAIN Append(s, e)
          BY <3>2
        <5> QED
          BY <3>1, <3>2, <4>1, <5>1
      <4>2. CASE j # i
        <5>1. j <= i - 1
          BY <1>2, <3>4, <4>2
        <5>2. PICK k \in DOMAIN s : s[k].timestamp = bars[j].timestamp
          BY <2>1, <5>1 DEF s
        <5>3. k \in DOMAIN Append(s, e)
          BY <3>2
        <5> QED
          BY <3>2, <5>2, <5>3
      <4> QED
        BY <4>1, <4>2
    <3>5. About(Append(s, e), i)
      BY <3>2, <3>3, <3>4
    <3> HIDE DEF About, upTo
    <3> QED
      BY <2>1, <3>1, <3>5
  <2> QED
    BY <2>3, <2>4
<1>11. n \in T
  <2>1. n \in 0 .. n
    BY <1>1
  <2> HIDE DEF T, n
  <2> QED
    BY <1>1, <1>9, <1>10, <2>1, UpTo
<1>12. About(upTo[n], n) /\ \A j \in Csv!LargeGaps : j <= n
  BY <1>2, <1>11
<1> QED
  BY <1>3, <1>12

LEMMA LoadedRuns == CsvInv => Csv!LoadedIsSimulatable
<1> SUFFICES ASSUME CsvInv, outcome = "loaded"
             PROVE  Csv!Simulatable(bars) <=> openColumn
  BY DEF Csv!LoadedIsSimulatable
<1>1. /\ Read /\ bars # <<>> /\ ~Csv!TimelineRefused /\ openColumn \in BOOLEAN
      /\ bars \in Seq(Bars)
  BY DEF CsvInv, Read
<1>2. /\ DOMAIN bars = 1 .. Len(bars) /\ Len(bars) \in Nat \ {0} /\ 1 \in DOMAIN bars
  BY <1>1
<1>3. \A i \in DOMAIN bars : bars[i].open \notin {"absent", "empty"} <=> openColumn
  <2> SUFFICES ASSUME NEW i \in DOMAIN bars
               PROVE  bars[i].open \notin {"absent", "empty"} <=> openColumn
    OBVIOUS
  <2>1. /\ i \in DOMAIN rows /\ bars[i].open = (IF openColumn THEN rows[i].open ELSE "absent")
        /\ rows[i].open \in {"price", "empty"}
    BY <1>1, BarsAreRows
  <2>2. openColumn => rows[i].open # "empty"
    BY <1>1, <2>1 DEF Read, Csv!RowRefused
  <2> QED
    BY <1>1, <2>1, <2>2
<1>4. \A i \in DOMAIN bars : bars[i].symbol = bars[1].symbol
  BY <1>1, OneOrMore DEF Csv!TimelineRefused
<1>5. \A i \in DOMAIN bars : i > 1 => bars[i].timestamp > bars[i - 1].timestamp
  <2> SUFFICES ASSUME NEW i \in DOMAIN bars, i > 1
               PROVE  bars[i].timestamp > bars[i - 1].timestamp
    OBVIOUS
  <2>1. i \in 2 .. Len(bars) /\ i - 1 \in DOMAIN bars
    BY <1>2
  <2>2. bars[i].timestamp \in Int /\ bars[i - 1].timestamp \in Int
    BY <1>1, <2>1, BarsAreRows
  <2>3. ~(bars[i].timestamp <= bars[i - 1].timestamp)
    BY <1>1, <2>1 DEF Csv!TimelineRefused
  <2> QED
    BY <2>2, <2>3
<1> QED
  BY <1>1, <1>2, <1>3, <1>4, <1>5 DEF Csv!Simulatable, Csv!metadata

LEMMA LoadedStays == CsvInv => Csv!LoadedIsTheFile
<1> SUFFICES ASSUME CsvInv PROVE Csv!LoadedIsTheFile
  OBVIOUS
<1>1. ASSUME outcome = "loaded"
      PROVE  /\ Ordered /\ OneSymbol /\ Len(bars) = Len(rows)
             /\ \A i \in DOMAIN rows : ~rows[i].torn
             /\ \A i \in DOMAIN rows : bars[i].timestamp = Csv!Instant(rows[i])
  <2>1. Read /\ bars # <<>> /\ rows # <<>> /\ ~Csv!TimelineRefused
    BY <1>1 DEF CsvInv, Read
  <2>2. Ordered
    BY <2>1, TimelineIsTheFiles DEF Csv!TimelineRefused
  <2>3. OneSymbol
    BY <2>1, TimelineIsTheFiles, OneOrMore DEF Csv!TimelineRefused, Read
  <2>4. \A i \in DOMAIN rows : ~rows[i].torn
    BY <2>1 DEF Read, Csv!RowRefused
  <2> QED
    BY <2>1, <2>2, <2>3, <2>4, BarsAreRows DEF Read
<1>2. outcome = "refused" => Refusable
  BY DEF CsvInv
<1> QED
  BY <1>1, <1>2 DEF Csv!LoadedIsTheFile, Refusable, Ordered, OneSymbol, Csv!Instant

LEMMA GapsAreKnown == CsvInv => Csv!GapsAreReported
<1> SUFFICES ASSUME CsvInv, outcome = "loaded", MaxGap # Absent, NEW i \in 2 .. Len(bars)
             PROVE  LET halves == bars[i].timestamp - bars[i - 1].timestamp
                        reported == \E n \in DOMAIN warnings :
                                        /\ warnings[n].code = "large_time_gap"
                                        /\ warnings[n].timestamp = bars[i].timestamp
                    IN  /\ halves >= 2 * (MaxGap + 1) => reported
                        /\ halves <= 2 * MaxGap => ~reported
                        /\ reported => config.gap_policy = "warn"
  BY DEF Csv!GapsAreReported
<1> DEFINE reported == \E n \in DOMAIN warnings : /\ warnings[n].code = "large_time_gap"
                                                  /\ warnings[n].timestamp = bars[i].timestamp
<1>1. /\ Read /\ rows # <<>> /\ bars \in Seq(Bars) /\ ~Csv!TimelineRefused
      /\ warnings = Csv!GapWarnings \o Csv!VolumeWarning
      /\ Len(bars) \in Nat /\ DOMAIN bars = 1 .. Len(bars) /\ DOMAIN rows = DOMAIN bars
      /\ config.gap_policy \in {"warn", "reject"}
  BY DEF CsvInv, Read, Csv!Configs
<1>2. i \in DOMAIN bars /\ i - 1 \in DOMAIN bars
  BY <1>1
<1>3. bars[i].timestamp \in Int /\ bars[i - 1].timestamp \in Int
  BY <1>1, <1>2, BarsAreRows
<1>4. MaxGap \in Nat \ {0}
  BY CsvFacts
\* A warning about the time of bar i is one about bar i.
<1>5. \A j \in Csv!LargeGaps : bars[j].timestamp = bars[i].timestamp => j = i
  <2> SUFFICES ASSUME NEW j \in Csv!LargeGaps, bars[j].timestamp = bars[i].timestamp, j # i
               PROVE  FALSE
    OBVIOUS
  <2>1. j \in DOMAIN rows /\ i \in DOMAIN rows /\ j \in Nat /\ i \in Nat
    BY <1>1, <1>2 DEF Csv!LargeGaps
  <2>2. Csv!Instant(rows[j]) = Csv!Instant(rows[i]) /\ Csv!Instant(rows[j]) \in Int
    BY <1>1, <2>1, BarsAreRows
  <2>3. Ordered
    BY <1>1, TimelineIsTheFiles DEF Csv!TimelineRefused
  <2>4. j < i \/ i < j
    BY <2>1
  <2> QED
    BY <2>1, <2>2, <2>3, <2>4 DEF Ordered
<1>6. reported <=> i \in Csv!LargeGaps
  <2> DEFINE gw == Csv!GapWarnings
             vw == Csv!VolumeWarning
             Gap == [code : {"large_time_gap"}, timestamp : Int]
             Volume == [code : {"missing_volume"}, timestamp : {Absent}]
  <2>1. /\ gw \in Seq(Gap)
        /\ \A k \in DOMAIN gw : \E j \in Csv!LargeGaps : gw[k].timestamp = bars[j].timestamp
        /\ \A j \in Csv!LargeGaps : \E k \in DOMAIN gw : gw[k].timestamp = bars[j].timestamp
    BY <1>1, GapWarningsAre
  <2>2. vw \in Seq(Volume)
    <3>1. [code |-> "missing_volume", timestamp |-> Absent] \in Volume
      OBVIOUS
    <3> HIDE DEF Volume
    <3>2. CASE missingVolumeSeen /\ config.missing_volume_policy = "warn"
      BY <3>1, <3>2 DEF Csv!VolumeWarning
    <3>3. CASE ~(missingVolumeSeen /\ config.missing_volume_policy = "warn")
      BY <3>3 DEF Csv!VolumeWarning
    <3> QED
      BY <3>2, <3>3
  <2> HIDE DEF gw, vw
  <2>8. /\ \A w \in Gap : w.code = "large_time_gap"
        /\ \A w \in Volume : w.code = "missing_volume"
    OBVIOUS
  <2> HIDE DEF Gap, Volume
  <2>3. /\ warnings = gw \o vw /\ Len(gw) \in Nat /\ Len(vw) \in Nat
        /\ DOMAIN gw = 1 .. Len(gw) /\ DOMAIN vw = 1 .. Len(vw)
        /\ DOMAIN warnings = 1 .. Len(gw) + Len(vw)
        /\ \A k \in 1 .. Len(gw) : warnings[k] = gw[k]
        /\ \A k \in Len(gw) + 1 .. Len(gw) + Len(vw) : warnings[k] = vw[k - Len(gw)]
    BY <1>1, <2>1, <2>2 DEF gw, vw
  <2>4. \A k \in DOMAIN gw : gw[k].code = "large_time_gap"
    BY <2>1, <2>8
  <2>5. \A k \in DOMAIN vw : vw[k].code = "missing_volume"
    BY <2>2, <2>8
  <2>6. ASSUME NEW k \in DOMAIN warnings, warnings[k].code = "large_time_gap",
               warnings[k].timestamp = bars[i].timestamp
        PROVE  i \in Csv!LargeGaps
    <3>1. k \in 1 .. Len(gw)
      <4> SUFFICES ASSUME k \notin 1 .. Len(gw) PROVE FALSE
        OBVIOUS
      <4>1. k \in Len(gw) + 1 .. Len(gw) + Len(vw) /\ k - Len(gw) \in 1 .. Len(vw)
        BY <2>3
      <4> QED
        BY <2>3, <2>5, <2>6, <4>1
    <3>2. PICK j \in Csv!LargeGaps : gw[k].timestamp = bars[j].timestamp
      BY <2>1, <2>3, <3>1
    <3> QED
      BY <1>5, <2>3, <2>6, <3>1, <3>2
  <2>7. ASSUME i \in Csv!LargeGaps PROVE reported
    <3>1. PICK k \in DOMAIN gw : gw[k].timestamp = bars[i].timestamp
      BY <2>1, <2>7
    <3>2. k \in DOMAIN warnings /\ warnings[k] = gw[k]
      BY <2>3
    <3> QED
      BY <2>4, <3>1, <3>2
  <2> QED
    BY <2>6, <2>7
<1>7. i \in Csv!LargeGaps <=> (bars[i].timestamp - bars[i - 1].timestamp) \div 2 > MaxGap
  BY DEF Csv!LargeGaps, Csv!GapSeconds
<1> HIDE DEF reported
<1>8. /\ bars[i].timestamp - bars[i - 1].timestamp >= 2 * (MaxGap + 1) => reported
      /\ bars[i].timestamp - bars[i - 1].timestamp <= 2 * MaxGap => ~reported
  <2>1. ASSUME NEW halves \in Int
        PROVE  /\ halves >= 2 * (MaxGap + 1) => halves \div 2 > MaxGap
               /\ halves <= 2 * MaxGap => ~(halves \div 2 > MaxGap)
    BY <1>4
  <2>2. bars[i].timestamp - bars[i - 1].timestamp \in Int
    BY <1>3
  <2> QED
    BY <1>6, <1>7, <2>1, <2>2
<1>9. reported => config.gap_policy = "warn"
  BY <1>1, <1>6 DEF Csv!TimelineRefused
<1> QED
  BY <1>8, <1>9 DEF reported

(***************************************************************************)
(* A file of any rows on any clocks that is loaded is the file, in its     *)
(* order, with its gaps reported, and passes every check the engine makes  *)
(* of its bars (load_market_data_csv, validate_simulation_bars).           *)
(***************************************************************************)
THEOREM FilesAreLoadedWhole == AllSpec => []LoadedIsTheFile
<1> DEFINE Inv == part = "csv" => CsvInv
<1>1. AllInit => Inv
  BY CsvInit DEF AllInit
<1>2. Inv /\ [AllNext]_all => Inv'
  <2> SUFFICES ASSUME Inv, [AllNext]_all, part' = "csv" PROVE CsvInv'
    OBVIOUS
  <2>1. part = "csv"
    BY DEF AllNext, all
  <2>2. Csv!Next \/ UNCHANGED csvVars
    BY <2>1 DEF AllNext, all
  <2> QED
    BY <2>1, <2>2, CsvStep
<1>3. Inv => LoadedIsTheFile
  BY LoadedRuns, LoadedStays, GapsAreKnown DEF LoadedIsTheFile
<1> QED
  BY <1>1, <1>2, <1>3, PTL DEF AllSpec

-----------------------------------------------------------------------------
(***************************************************************************)
(* The event log.  The files hold nothing newer than the last event, in    *)
(* order, and a rotation moves them without one overtaking another.        *)
(***************************************************************************)
\* A total unrolls, and that is enough to know it: of a longer sequence it is the
\* total so far and the last number.
LEMMA TotalUnrolls ==
    ASSUME NEW w \in Seq(Nat)
    PROVE  \E f \in [0 .. Len(w) -> Nat] :
              /\ Log!Total(w) = f[Len(w)]
              /\ f[0] = 0
              /\ \A n \in 1 .. Len(w) : f[n] = f[n - 1] + w[n]
<1> DEFINE N == Len(w)
           step == [p \in (1 .. N) \X Nat |-> p[2] + w[p[1]]]
           Body(f, n) == IF n = 0 THEN 0 ELSE f[n - 1] + w[n]
           upTo == CHOOSE f : f = [n \in 0 .. N |-> Body(f, n)]
<1>1. N \in Nat /\ \A n \in 1 .. N : w[n] \in Nat
  OBVIOUS
<1>2. Log!Total(w) = upTo[N]
  BY DEF Log!Total
<1>3. step \in StepsOf(N, Nat)
  <2> SUFFICES ASSUME NEW p \in (1 .. N) \X Nat PROVE p[2] + w[p[1]] \in Nat
    BY DEF StepsOf
  <2>1. p[1] \in 1 .. N /\ p[2] \in Nat
    OBVIOUS
  <2> QED
    BY <1>1, <2>1
<1> HIDE DEF N
<1>4. PICK f : Unrolls(f, N, Nat, 0, step)
  <2> HIDE DEF step
  <2> QED
    BY <1>1, <1>3, Recursion
<1>5. ASSUME NEW n \in 0 .. N PROVE f[n] = Body(f, n)
  <2>1. CASE n = 0
    BY <1>4, <2>1 DEF Unrolls
  <2>2. CASE n # 0
    <3>1. n \in 1 .. N /\ n - 1 \in 0 .. N
      BY <1>1, <2>2
    <3>2. f[n - 1] \in Nat /\ f[n] = step[<<n, f[n - 1]>>]
      <4> HIDE DEF step
      <4> QED
        BY <1>4, <2>2, <3>1 DEF Unrolls
    <3>3. step[<<n, f[n - 1]>>] = f[n - 1] + w[n]
      <4>1. <<n, f[n - 1]>> \in (1 .. N) \X Nat
        BY <3>1, <3>2
      <4> QED
        BY <4>1
    <3> QED
      BY <2>2, <3>2, <3>3
  <2> QED
    BY <2>1, <2>2
<1>6. f = [n \in 0 .. N |-> Body(f, n)]
  BY <1>4, <1>5 DEF Unrolls
<1>7. upTo = [n \in 0 .. N |-> Body(upTo, n)]
  <2> HIDE DEF Body
  <2> QED
    BY <1>6
<1> HIDE DEF upTo
<1>8. \A n \in 0 .. N : upTo[n] = Body(upTo, n)
  BY <1>7
<1>9. 0 \in 0 .. N /\ \A n \in 1 .. N : n \in 0 .. N /\ n # 0
  BY <1>1
<1>10. upTo[0] = 0 /\ \A n \in 1 .. N : upTo[n] = upTo[n - 1] + w[n]
  BY <1>8, <1>9
<1> DEFINE T == {n \in 0 .. N : upTo[n] \in Nat}
<1>11. \A n \in 0 .. N : n \in T
  <2>1. 0 \in T
    BY <1>9, <1>10
  <2>2. ASSUME NEW n \in 1 .. N, n - 1 \in T PROVE n \in T
    BY <1>1, <1>9, <1>10, <2>2
  <2> HIDE DEF T
  <2> QED
    BY <1>1, <2>1, <2>2, UpTo
<1>12. upTo \in [0 .. N -> Nat]
  BY <1>7, <1>11
<1> QED
  BY <1>2, <1>10, <1>12 DEF N

LEMMA TotalOfNone == Log!Total(<<>>) = 0
<1>1. <<>> \in Seq(Nat) /\ Len(<<>>) = 0
  OBVIOUS
<1> QED
  BY <1>1, TotalUnrolls

LEMMA TotalOfMore ==
    ASSUME NEW w \in Seq(Nat), NEW x \in Nat
    PROVE  Log!Total(w) \in Nat /\ Log!Total(Append(w, x)) = Log!Total(w) + x
<1> DEFINE N == Len(w)
           v == Append(w, x)
<1>1. N \in Nat /\ v \in Seq(Nat) /\ Len(v) = N + 1 /\ v[N + 1] = x
      /\ \A n \in 1 .. N : v[n] = w[n]
  OBVIOUS
<1> HIDE DEF N, v
<1>2. PICK f \in [0 .. N -> Nat] : /\ Log!Total(w) = f[N] /\ f[0] = 0
                                   /\ \A n \in 1 .. N : f[n] = f[n - 1] + w[n]
  BY TotalUnrolls DEF N
<1>3. PICK g \in [0 .. N + 1 -> Nat] : /\ Log!Total(v) = g[N + 1] /\ g[0] = 0
                                       /\ \A n \in 1 .. N + 1 : g[n] = g[n - 1] + v[n]
  <2>1. \E g \in [0 .. Len(v) -> Nat] :
           /\ Log!Total(v) = g[Len(v)] /\ g[0] = 0
           /\ \A n \in 1 .. Len(v) : g[n] = g[n - 1] + v[n]
    BY <1>1, TotalUnrolls
  <2> QED
    BY <1>1, <2>1
<1> DEFINE T == {n \in 0 .. N : g[n] = f[n]}
<1>4. \A n \in 0 .. N : n \in T
  <2>1. 0 \in T
    BY <1>1, <1>2, <1>3
  <2>2. ASSUME NEW n \in 1 .. N, n - 1 \in T PROVE n \in T
    <3>1. g[n - 1] = f[n - 1] /\ n \in 0 .. N /\ n \in 1 .. N + 1
      BY <1>1, <2>2
    <3> QED
      BY <1>1, <1>2, <1>3, <3>1
  <2> HIDE DEF T
  <2> QED
    BY <1>1, <2>1, <2>2, UpTo
<1>5. g[N] = f[N] /\ N + 1 \in 1 .. N + 1 /\ N \in 0 .. N
  BY <1>1, <1>4
<1>6. g[N + 1] = g[N] + x
  BY <1>1, <1>3, <1>5
<1> QED
  BY <1>2, <1>3, <1>5, <1>6 DEF v

-----------------------------------------------------------------------------
Span == 0 .. BackupCount

Held(i) == Log!ToSet(Log!Content(i))

\* The last event that has been handled: a rotation or a write is of the next one.
Newest == IF logPc \in {"rolling", "writing"} THEN Log!Event - 1 ELSE Log!Event

\* The files hold nothing newer, oldest file first, and what is gone was older.
Ordering ==
    /\ \A i \in Span : \A e \in Held(i) : e <= Newest
    /\ rotated \subseteq 0 .. Newest
    /\ \A i \in Span : \A a, b \in DOMAIN Log!Content(i) :
          a < b => Log!Content(i)[a] < Log!Content(i)[b]
    /\ \A i, j \in Span : i < j =>
          \A older \in Held(j), newer \in Held(i) : older < newer \/ (older = 0 /\ newer = 0)
    /\ \A e \in rotated, i \in Span : \A k \in Held(i) : e < k \/ k = 0

Accounted ==
    \A e \in 1 .. Newest : e \in rotated \/ warned \/ \E i \in Span : e \in Held(i)

LogTyped ==
    /\ size \in Seq(Sizes)
    /\ files \in [Span -> {Absent} \cup Seq(Nat)]
    /\ logPc \in {"idle", "rolling", "writing", "closed"}
    /\ stream \in {"open", "none", "broken"} /\ level \in Span
    /\ failed \in BOOLEAN /\ warned \in BOOLEAN
    /\ Newest \in Nat

\* While the files move up, the place of the next one is free.
LogInv ==
    /\ LogTyped
    /\ Ordering
    /\ Accounted
    /\ Log!FilesAreBounded
    /\ stream = "broken" => warned
    /\ logPc = "rolling" /\ level < BackupCount => files[level] = Absent
    /\ logPc = "writing" =>
          /\ files[0] # Absent
          /\ files[0] = <<>> \/ Log!Bytes(files[0]) + size[Log!Event] < MaxBytes

LEMMA LogFacts ==
    /\ NumEvents \in Nat /\ BackupCount \in Nat \ {0} /\ MaxBytes \in Nat \ {0}
    /\ Sizes \subseteq Nat \ {0} /\ Absent \notin Seq(Int)
    /\ Absent \notin Seq(Nat) /\ <<>> # Absent
    /\ Span \subseteq Nat /\ 0 \in Span /\ BackupCount \in Span
<1>1. /\ NumEvents \in Nat /\ BackupCount \in Nat \ {0} /\ MaxBytes \in Nat \ {0}
      /\ Sizes \subseteq Nat \ {0} /\ Absent \notin Seq(Int)
  BY FilesAssumption DEF Log!LogAssumption
<1>2. Absent \notin Seq(Nat) /\ <<>> # Absent
  <2>1. Seq(Nat) \subseteq Seq(Int) /\ <<>> \in Seq(Int)
    OBVIOUS
  <2> QED
    BY <1>1, <2>1
<1>3. Span \subseteq Nat /\ 0 \in Span /\ BackupCount \in Span
  BY <1>1 DEF Span
<1> QED
  BY <1>1, <1>2, <1>3

LEMMA LogShapes ==
    ASSUME LogTyped
    PROVE  /\ Log!Event \in Nat /\ DOMAIN size = 1 .. Log!Event
           /\ \A e \in 1 .. Log!Event : size[e] \in Nat \ {0}
           /\ \A i \in Span : /\ Log!Content(i) \in Seq(Nat)
                              /\ files[i] # Absent => Log!Content(i) = files[i]
                              /\ files[i] = Absent => Log!Content(i) = <<>> /\ Held(i) = {}
                              /\ Held(i) \subseteq Nat
<1>1. size \in Seq(Sizes) /\ Log!Event = Len(size)
  BY DEF LogTyped, Log!Event
<1>2. /\ Log!Event \in Nat /\ DOMAIN size = 1 .. Log!Event
      /\ \A e \in 1 .. Log!Event : size[e] \in Sizes
  BY <1>1
<1>3. ASSUME NEW i \in Span
      PROVE  /\ Log!Content(i) \in Seq(Nat)
             /\ files[i] # Absent => Log!Content(i) = files[i]
             /\ files[i] = Absent => Log!Content(i) = <<>> /\ Held(i) = {}
             /\ Held(i) \subseteq Nat
  <2>1. files[i] \in {Absent} \cup Seq(Nat)
    BY DEF LogTyped
  <2>2. Log!Content(i) \in Seq(Nat)
    BY <2>1 DEF Log!Content
  <2> QED
    BY <2>2 DEF Log!Content, Held, Log!ToSet
<1> QED
  BY <1>2, <1>3, LogFacts

\* What a file weighs, its events having the sizes z, and what it weighs with one more.
Weights(s, z) == [i \in DOMAIN s |-> IF s[i] = 0 THEN 1 ELSE z[s[i]]]
Weigh(s, z) == Log!Total(Weights(s, z))

LEMMA WeightsTyped ==
    ASSUME NEW s \in Seq(Nat), NEW z \in Seq(Sizes), \A i \in DOMAIN s : s[i] <= Len(z)
    PROVE  Weights(s, z) \in Seq(Nat) /\ Weigh(s, z) \in Nat
<1>1. DOMAIN s = 1 .. Len(s) /\ Len(s) \in Nat
  OBVIOUS
<1>2. \A i \in 1 .. Len(s) : Weights(s, z)[i] \in Nat
  <2> SUFFICES ASSUME NEW i \in 1 .. Len(s) PROVE Weights(s, z)[i] \in Nat
    OBVIOUS
  <2>1. s[i] \in Nat /\ s[i] <= Len(z) /\ Len(z) \in Nat
    BY <1>1
  <2>2. s[i] # 0 => z[s[i]] \in Sizes
    BY <2>1
  <2> QED
    BY <1>1, <2>2, LogFacts DEF Weights
<1>3. Weights(s, z) \in Seq(Nat)
  <2>1. Weights(s, z) = [i \in 1 .. Len(s) |-> Weights(s, z)[i]]
    BY <1>1 DEF Weights
  <2> QED
    BY <1>1, <1>2, <2>1
<1> QED
  BY <1>3, TotalOfMore DEF Weigh

LEMMA WeightGrows ==
    ASSUME NEW s \in Seq(Nat), NEW z \in Seq(Sizes), NEW e \in 1 .. Len(z),
           \A i \in DOMAIN s : s[i] <= Len(z)
    PROVE  Weigh(Append(s, e), z) = Weigh(s, z) + z[e]
<1> DEFINE t == Append(s, e)
<1>1. /\ t \in Seq(Nat) /\ DOMAIN t = 1 .. Len(s) + 1 /\ t[Len(s) + 1] = e
      /\ \A i \in 1 .. Len(s) : t[i] = s[i]
      /\ DOMAIN s = 1 .. Len(s) /\ Len(s) \in Nat /\ e \in Nat /\ e # 0 /\ Len(z) \in Nat
  OBVIOUS
<1> HIDE DEF t
<1>2. z[e] \in Nat
  <2>1. z[e] \in Sizes
    OBVIOUS
  <2> QED
    BY <2>1, LogFacts
<1>3. Weights(s, z) \in Seq(Nat)
  BY WeightsTyped
<1>4. Weights(t, z) = Append(Weights(s, z), z[e])
  <2>1. Len(Weights(s, z)) = Len(s)
    <3>1. DOMAIN Weights(s, z) = 1 .. Len(s)
      BY <1>1 DEF Weights
    <3> QED
      BY <1>1, <1>3, <3>1
  <2>2. DOMAIN Append(Weights(s, z), z[e]) = 1 .. Len(s) + 1
    BY <1>2, <1>3, <2>1
  <2>3. ASSUME NEW i \in 1 .. Len(s) + 1
        PROVE  Append(Weights(s, z), z[e])[i] = IF t[i] = 0 THEN 1 ELSE z[t[i]]
    <3>1. CASE i = Len(s) + 1
      BY <1>1, <1>2, <1>3, <2>1, <3>1
    <3>2. CASE i # Len(s) + 1
      <4>1. i \in 1 .. Len(s) /\ i \in DOMAIN s
        BY <1>1, <3>2
      <4>2. Append(Weights(s, z), z[e])[i] = Weights(s, z)[i]
        BY <1>2, <1>3, <2>1, <4>1
      <4> QED
        BY <1>1, <4>1, <4>2 DEF Weights
    <3> QED
      BY <3>1, <3>2
  <2>4. Append(Weights(s, z), z[e])
          = [i \in 1 .. Len(s) + 1 |-> Append(Weights(s, z), z[e])[i]]
    BY <1>2, <1>3, <2>1, <2>2
  <2> QED
    BY <1>1, <2>3, <2>4 DEF Weights
<1> QED
  BY <1>2, <1>3, <1>4, TotalOfMore DEF t, Weigh

\* The weight of a file does not change when another event is measured.
LEMMA WeightStays ==
    ASSUME NEW s \in Seq(Nat), NEW z \in Seq(Sizes), \A i \in DOMAIN s : s[i] <= Len(z),
           NEW bytes \in Sizes
    PROVE  Weigh(s, Append(z, bytes)) = Weigh(s, z)
<1>1. \A e \in 1 .. Len(z) : Append(z, bytes)[e] = z[e]
  OBVIOUS
<1>2. \A i \in DOMAIN s : s[i] # 0 => s[i] \in 1 .. Len(z)
  OBVIOUS
<1>3. Weights(s, Append(z, bytes)) = Weights(s, z)
  BY <1>1, <1>2 DEF Weights
<1> QED
  BY <1>3 DEF Weigh

LEMMA BytesAre == \A s : Log!Bytes(s) = Weigh(s, size)
BY DEF Log!Bytes, Weigh, Weights

LEMMA LogInit == Log!Init => LogInv
<1> SUFFICES ASSUME Log!Init PROVE LogInv
  OBVIOUS
<1>1. /\ logPc = "idle" /\ size = <<>> /\ stream = "open" /\ level = 0 /\ rotated = {}
      /\ failed = FALSE /\ warned = FALSE
      /\ files \in [Span -> {Absent, <<0>>}] /\ files[0] # Absent
  BY DEF Log!Init, Span
<1>2. Newest = 0 /\ Log!Event = 0
  BY <1>1 DEF Newest, Log!Event
<1>3. LogTyped
  <2>1. <<0>> \in Seq(Nat) /\ <<>> \in Seq(Sizes)
    OBVIOUS
  <2> QED
    BY <1>1, <1>2, <2>1, LogFacts DEF LogTyped
<1>4. \A i \in Span : Log!Content(i) \in {<<>>, <<0>>}
  BY <1>1 DEF Log!Content
<1>5. \A i \in Span : Len(Log!Content(i)) <= 1 /\ DOMAIN Log!Content(i) \subseteq {1}
  <2>1. \A c \in {<<>>, <<0>>} : Len(c) <= 1 /\ DOMAIN c \subseteq {1}
    OBVIOUS
  <2> QED
    BY <1>4, <2>1
<1>6. \A i \in Span : Held(i) \subseteq {0}
  BY <1>4 DEF Held, Log!ToSet
<1>7. Ordering
  <2>1. \A i \in Span : \A a, b \in DOMAIN Log!Content(i) : ~(a < b)
    BY <1>5
  <2> QED
    BY <1>1, <1>2, <1>6, <2>1 DEF Ordering
<1>8. Accounted /\ Log!FilesAreBounded
  BY <1>2, <1>5 DEF Accounted, Log!FilesAreBounded, Span
<1> QED
  BY <1>1, <1>3, <1>7, <1>8 DEF LogInv

\* A step that drops files or moves them without overtaking keeps the order and
\* the account, if what it drops is the oldest and was rotated out.  From tells
\* where the content of each file comes from, -1 standing for nowhere.
LEMMA MovesKeep ==
    ASSUME LogInv, NEW from \in [Span -> Span \cup {-1}],
           \A i \in Span : Log!Content(i)' =
               IF from[i] = -1 THEN <<>> ELSE Log!Content(from[i]),
           \A i, j \in Span : i < j /\ from[i] # -1 /\ from[j] # -1 => from[i] < from[j],
           \A j \in Span : (\E i \in Span : from[i] = j) \/ Held(j) \subseteq rotated',
           rotated \subseteq rotated',
           \A e \in rotated' \ rotated : /\ e \in Held(BackupCount)
                                         /\ \A i \in Span : from[i] # BackupCount,
           Newest' \in Nat, Newest <= Newest', warned => warned',
           Newest' = Newest \/ warned',
           size' = size \/ \E bytes \in Sizes : size' = Append(size, bytes)
    PROVE  Ordering' /\ Accounted' /\ Log!FilesAreBounded'
<1>1. /\ Ordering /\ Accounted /\ Log!FilesAreBounded /\ LogTyped /\ Newest \in Nat
      /\ size \in Seq(Sizes)
  BY DEF LogInv, LogTyped
<1>2. \A i \in Span : Held(i)' = IF from[i] = -1 THEN {} ELSE Held(from[i])
  BY DEF Held, Log!ToSet
<1>3. \A i \in Span : from[i] = -1 \/ from[i] \in Span
  OBVIOUS
<1>4. \A i \in Span : Held(i) \subseteq Nat /\ Log!Content(i) \in Seq(Nat)
  BY <1>1, LogShapes
<1>5. \A i \in Span : \A e \in Held(i)' : e <= Newest'
  <2> SUFFICES ASSUME NEW i \in Span, NEW e \in Held(i)' PROVE e <= Newest'
    OBVIOUS
  <2>1. from[i] \in Span /\ e \in Held(from[i]) /\ e \in Nat
    BY <1>2, <1>3, <1>4
  <2>2. e <= Newest
    BY <1>1, <2>1 DEF Ordering
  <2> QED
    BY <1>1, <2>1, <2>2
<1>6. rotated' \subseteq 0 .. Newest'
  <2> SUFFICES ASSUME NEW e \in rotated' PROVE e \in 0 .. Newest'
    OBVIOUS
  <2>1. e \in rotated \/ e \in Held(BackupCount)
    OBVIOUS
  <2>2. e \in 0 .. Newest
    BY <1>1, <1>4, <2>1, LogFacts DEF Ordering
  <2> QED
    BY <1>1, <2>2
<1>7. \A i \in Span : \A a, b \in DOMAIN Log!Content(i)' :
          a < b => Log!Content(i)'[a] < Log!Content(i)'[b]
  <2> SUFFICES ASSUME NEW i \in Span, NEW a \in DOMAIN Log!Content(i)',
                      NEW b \in DOMAIN Log!Content(i)', a < b
               PROVE  Log!Content(i)'[a] < Log!Content(i)'[b]
    OBVIOUS
  <2>1. from[i] \in Span /\ Log!Content(i)' = Log!Content(from[i])
    BY <1>3
  <2> QED
    BY <1>1, <2>1 DEF Ordering
<1>8. \A i, j \in Span : i < j =>
          \A older \in Held(j)', newer \in Held(i)' :
             older < newer \/ (older = 0 /\ newer = 0)
  <2> SUFFICES ASSUME NEW i \in Span, NEW j \in Span, i < j,
                      NEW older \in Held(j)', NEW newer \in Held(i)'
               PROVE  older < newer \/ (older = 0 /\ newer = 0)
    OBVIOUS
  <2>1. /\ from[i] \in Span /\ from[j] \in Span
        /\ older \in Held(from[j]) /\ newer \in Held(from[i])
    BY <1>2, <1>3
  <2>2. from[i] < from[j]
    BY <2>1, LogFacts
  <2> QED
    BY <1>1, <2>1, <2>2 DEF Ordering
<1>9. \A e \in rotated', i \in Span : \A k \in Held(i)' : e < k \/ k = 0
  <2> SUFFICES ASSUME NEW e \in rotated', NEW i \in Span, NEW k \in Held(i)'
               PROVE  e < k \/ k = 0
    OBVIOUS
  <2>1. from[i] \in Span /\ k \in Held(from[i])
    BY <1>2, <1>3
  <2>2. CASE e \in rotated
    BY <1>1, <2>1, <2>2 DEF Ordering
  <2>3. CASE e \notin rotated
    <3>1. e \in Held(BackupCount) /\ from[i] # BackupCount
      BY <2>3
    <3>2. from[i] < BackupCount /\ BackupCount \in Span
      BY <2>1, <3>1, LogFacts DEF Span
    <3> QED
      BY <1>1, <2>1, <3>1, <3>2 DEF Ordering
  <2> QED
    BY <2>2, <2>3
<1>10. Ordering'
  BY <1>5, <1>6, <1>7, <1>8, <1>9 DEF Ordering, Span
<1>11. Accounted'
  <2> SUFFICES ASSUME NEW e \in 1 .. Newest', ~warned'
               PROVE  e \in rotated' \/ \E i \in Span : e \in Held(i)'
    BY DEF Accounted, Span
  <2>1. e \in 1 .. Newest /\ ~warned
    OBVIOUS
  <2>2. CASE e \in rotated
    BY <2>2
  <2>3. ASSUME NEW j \in Span, e \in Held(j) PROVE e \in rotated' \/ \E i \in Span : e \in Held(i)'
    <3>1. CASE Held(j) \subseteq rotated'
      BY <2>3, <3>1
    <3>2. ASSUME NEW i \in Span, from[i] = j PROVE e \in Held(i)'
      BY <1>2, <2>3, <3>2, LogFacts
    <3> QED
      BY <3>1, <3>2
  <2> QED
    BY <1>1, <2>1, <2>2, <2>3 DEF Accounted
<1>12. Log!FilesAreBounded'
  <2> SUFFICES ASSUME NEW i \in Span
               PROVE  Weigh(Log!Content(i)', size') < MaxBytes \/ Len(Log!Content(i)') <= 1
    BY DEF Log!FilesAreBounded, Span, Log!Bytes, Weigh, Weights
  <2>1. CASE from[i] = -1
    BY <2>1
  <2>2. CASE from[i] # -1
    <3> DEFINE s == Log!Content(from[i])
    <3>1. from[i] \in Span /\ Log!Content(i)' = s /\ s \in Seq(Nat)
      BY <1>3, <1>4, <2>2
    <3>2. Weigh(s, size) < MaxBytes \/ Len(s) <= 1
      BY <1>1, <3>1, BytesAre DEF Log!FilesAreBounded, Span
    <3>3. \A a \in DOMAIN s : s[a] <= Len(size)
      <4> SUFFICES ASSUME NEW a \in DOMAIN s PROVE s[a] <= Len(size)
        OBVIOUS
      <4>1. s[a] \in Held(from[i]) /\ s[a] \in Nat
        BY <3>1 DEF Held, Log!ToSet
      <4>2. s[a] <= Newest /\ Newest <= Log!Event
        BY <1>1, <3>1, <4>1, LogShapes DEF Ordering, Newest
      <4> QED
        BY <1>1, <4>1, <4>2 DEF Log!Event
    <3>4. Weigh(s, size') = Weigh(s, size)
      <4> HIDE DEF s
      <4> QED
        BY <1>1, <3>1, <3>3, WeightStays
    <3> QED
      BY <3>1, <3>2, <3>4
  <2> QED
    BY <2>1, <2>2
<1> QED
  BY <1>10, <1>11, <1>12

\* A step that leaves every file's content as it was.
LEMMA StaysKeep ==
    ASSUME LogInv, \A i \in Span : Log!Content(i)' = Log!Content(i), rotated' = rotated,
           Newest' \in Nat, Newest <= Newest', warned => warned',
           Newest' = Newest \/ warned',
           size' = size \/ \E bytes \in Sizes : size' = Append(size, bytes)
    PROVE  Ordering' /\ Accounted' /\ Log!FilesAreBounded'
<1> DEFINE from == [i \in Span |-> i]
<1>1. /\ from \in [Span -> Span \cup {-1}]
      /\ \A i \in Span : from[i] = i /\ from[i] # -1
  BY LogFacts
<1>2. \A i \in Span : Log!Content(i)' = IF from[i] = -1 THEN <<>> ELSE Log!Content(from[i])
  BY <1>1
<1>3. \A i, j \in Span : i < j /\ from[i] # -1 /\ from[j] # -1 => from[i] < from[j]
  BY <1>1
<1>4. \A j \in Span : (\E i \in Span : from[i] = j) \/ Held(j) \subseteq rotated'
  BY <1>1
<1> HIDE DEF from
<1> QED
  BY <1>1, <1>2, <1>3, <1>4, MovesKeep

LEMMA Disclosed == Log!Disclose => warned' = TRUE /\ failed' = TRUE
BY DEF Log!Disclose

LEMMA Contents ==
    ASSUME NEW i \in Span, files'[i] = files[i]
    PROVE  Log!Content(i)' = Log!Content(i)
BY DEF Log!Content

\* The number of events and what was handled of them, when a call begins.
LEMMA OneMore ==
    ASSUME LogTyped, NEW bytes \in Sizes, size' = Append(size, bytes)
    PROVE  /\ size' \in Seq(Sizes) /\ Log!Event' = Log!Event + 1 /\ Log!Event \in Nat
           /\ size'[Log!Event'] = bytes /\ bytes \in Nat
<1>1. size \in Seq(Sizes)
  BY DEF LogTyped
<1> QED
  BY <1>1, LogFacts DEF Log!Event

\* A call that fails before it touches a file.
LEMMA FailedCallKeeps ==
    ASSUME LogInv, NEW bytes \in Sizes, logPc = "idle", size' = Append(size, bytes), Log!Fail,
           UNCHANGED <<files, stream, level, rotated>>
    PROVE  LogInv'
<1>1. logPc' = "idle" /\ warned' = TRUE /\ failed' = TRUE /\ LogTyped
  BY Disclosed DEF Log!Fail, LogInv
<1>2. /\ size' \in Seq(Sizes) /\ Log!Event' = Log!Event + 1 /\ Log!Event \in Nat
  BY <1>1, OneMore
<1>3. Newest = Log!Event /\ Newest' = Newest + 1
  BY <1>1, <1>2 DEF Newest
<1>4. \A i \in Span : Log!Content(i)' = Log!Content(i)
  BY Contents
<1>5. Ordering' /\ Accounted' /\ Log!FilesAreBounded'
  BY <1>1, <1>2, <1>3, <1>4, StaysKeep
<1>6. LogTyped'
  BY <1>1, <1>2, <1>3 DEF LogTyped, Span
<1> QED
  BY <1>1, <1>5, <1>6 DEF LogInv

LEMMA PublishKeeps ==
    ASSUME LogInv, NEW bytes \in Sizes, Log!Publish(bytes)
    PROVE  LogInv'
<1>1. /\ logPc = "idle" /\ size' = Append(size, bytes) /\ rotated' = rotated /\ LogTyped
  BY DEF Log!Publish, LogInv
<1>2. CASE stream = "broken"
  BY <1>1, <1>2, FailedCallKeeps DEF Log!Publish
<1>3. CASE stream # "broken"
  <2>1. /\ files' = [files EXCEPT ![0] = IF @ = Absent THEN <<>> ELSE @]
        /\ stream' = "open" /\ warned' = warned /\ failed' = failed
        /\ IF Log!MustRoll(bytes)
             THEN logPc' = "rolling" /\ level' = BackupCount
             ELSE logPc' = "writing" /\ UNCHANGED level
    BY <1>1, <1>3 DEF Log!Publish, Log!Quiet
  <2>2. /\ size' \in Seq(Sizes) /\ Log!Event' = Log!Event + 1 /\ Log!Event \in Nat
        /\ size'[Log!Event'] = bytes /\ bytes \in Nat
    BY <1>1, OneMore
  <2>3. logPc' \in {"rolling", "writing"}
    BY <2>1
  <2>4. Newest = Log!Event /\ Newest' = Newest
    BY <1>1, <2>2, <2>3 DEF Newest
  <2>5. files \in [Span -> {Absent} \cup Seq(Nat)]
    BY <1>1 DEF LogTyped
  <2>6. /\ files' \in [Span -> {Absent} \cup Seq(Nat)]
        /\ files'[0] = (IF files[0] = Absent THEN <<>> ELSE files[0])
        /\ \A i \in Span \ {0} : files'[i] = files[i]
    <3>1. <<>> \in Seq(Nat)
      OBVIOUS
    <3> QED
      BY <2>1, <2>5, <3>1, LogFacts
  <2>7. files'[0] # Absent /\ files'[0] = Log!Content(0) /\ Log!Content(0)' = Log!Content(0)
    <3>1. files'[0] # Absent /\ files'[0] = Log!Content(0)
      BY <2>6, LogFacts DEF Log!Content
    <3> QED
      BY <3>1 DEF Log!Content
  <2>8. \A i \in Span : Log!Content(i)' = Log!Content(i)
    BY <2>6, <2>7, Contents
  <2>9. Ordering' /\ Accounted' /\ Log!FilesAreBounded'
    BY <1>1, <2>1, <2>2, <2>4, <2>8, StaysKeep
  <2>10. LogTyped'
    BY <1>1, <2>1, <2>2, <2>3, <2>4, <2>6, LogFacts DEF LogTyped, Span
  <2>11. logPc' = "writing" => Log!Bytes(files[0])' + size'[Log!Event'] < MaxBytes
    <3> SUFFICES ASSUME logPc' = "writing"
                 PROVE  Log!Bytes(files[0])' + size'[Log!Event'] < MaxBytes
      OBVIOUS
    <3> DEFINE s == Log!Content(0)
    <3>1. ~(Weigh(s, size) + bytes >= MaxBytes)
      BY <2>1, BytesAre DEF Log!MustRoll
    <3>2. /\ s \in Seq(Nat) /\ size \in Seq(Sizes)
      BY <1>1, LogShapes, LogFacts DEF LogTyped
    <3>3. \A a \in DOMAIN s : s[a] <= Len(size)
      <4> SUFFICES ASSUME NEW a \in DOMAIN s PROVE s[a] <= Len(size)
        OBVIOUS
      <4>1. s[a] \in Held(0)
        BY DEF Held, Log!ToSet
      <4>2. s[a] <= Newest
        BY <4>1, LogFacts DEF LogInv, Ordering
      <4> QED
        BY <2>4, <4>2 DEF Log!Event
    <3>4. Weigh(s, size') = Weigh(s, size) /\ Weigh(s, size) \in Nat
      <4> HIDE DEF s
      <4> QED
        BY <1>1, <3>2, <3>3, WeightStays, WeightsTyped
    <3>5. Log!Bytes(files[0])' = Weigh(s, size')
      BY <2>7 DEF Log!Bytes, Weigh, Weights
    <3> QED
      BY <2>2, <3>1, <3>4, <3>5, LogFacts
  <2>12. logPc' = "rolling" => level' = BackupCount
    BY <2>1
  <2> QED
    BY <2>1, <2>7, <2>9, <2>10, <2>11, <2>12, LogFacts DEF LogInv
<1> QED
  BY <1>2, <1>3

\* A rotation or a write that goes wrong ends there, no file's content changed.
LEMMA GivesUpKeeps ==
    ASSUME LogInv, logPc \in {"rolling", "writing"}, Log!Fail,
           \A i \in Span : Log!Content(i)' = Log!Content(i),
           files' \in [Span -> {Absent} \cup Seq(Nat)],
           size' = size, rotated' = rotated, level' \in Span,
           stream' \in {"open", "none", "broken"}
    PROVE  LogInv'
<1>1. logPc' = "idle" /\ warned' = TRUE /\ failed' = TRUE /\ LogTyped
  BY Disclosed DEF Log!Fail, LogInv
<1>2. Log!Event' = Log!Event /\ Log!Event \in Nat
  BY <1>1, LogShapes DEF Log!Event
<1>3. Newest = Log!Event - 1 /\ Newest' = Log!Event /\ Newest \in Nat
  BY <1>1, <1>2 DEF Newest, LogTyped
<1>4. Ordering' /\ Accounted' /\ Log!FilesAreBounded'
  BY <1>1, <1>2, <1>3, StaysKeep
<1>5. LogTyped'
  BY <1>1, <1>2, <1>3 DEF LogTyped, Span
<1> QED
  BY <1>1, <1>4, <1>5 DEF LogInv

LEMMA CloseForRollKeeps == LogInv /\ Log!CloseForRoll => LogInv'
<1> SUFFICES ASSUME LogInv, Log!CloseForRoll PROVE LogInv'
  OBVIOUS
<1>1. /\ logPc = "rolling" /\ UNCHANGED <<files, size, level, rotated>> /\ LogTyped
      /\ files \in [Span -> {Absent} \cup Seq(Nat)] /\ level \in Span
  BY DEF Log!CloseForRoll, LogInv, LogTyped
<1>2. \A i \in Span : Log!Content(i)' = Log!Content(i)
  BY <1>1, Contents
<1>3. CASE stream' = "broken" /\ Log!Fail
  BY <1>1, <1>2, <1>3, GivesUpKeeps
<1>4. CASE stream' = "none" /\ Log!Quiet /\ UNCHANGED logPc
  <2>1. warned' = warned /\ failed' = failed /\ Newest' = Newest
    BY <1>1, <1>4 DEF Log!Quiet, Newest, Log!Event
  <2>2. Ordering' /\ Accounted' /\ Log!FilesAreBounded'
    BY <1>1, <1>2, <2>1, StaysKeep DEF LogTyped
  <2>3. LogTyped'
    BY <1>1, <1>4, <2>1 DEF LogTyped, Span
  <2> QED
    BY <1>1, <1>4, <2>1, <2>2, <2>3 DEF LogInv
<1> QED
  BY <1>3, <1>4 DEF Log!CloseForRoll

LEMMA ShiftKeeps == LogInv /\ Log!Shift => LogInv'
<1> SUFFICES ASSUME LogInv, Log!Shift PROVE LogInv'
  OBVIOUS
<1>1. /\ logPc = "rolling" /\ stream = "none" /\ level > 0 /\ size' = size /\ stream' = stream
      /\ LogTyped /\ Ordering /\ Newest \in Nat
      /\ files \in [Span -> {Absent} \cup Seq(Nat)] /\ level \in Span
      /\ level < BackupCount => files[level] = Absent
  BY DEF Log!Shift, LogInv, LogTyped
<1>2. level \in Nat /\ level - 1 \in Span /\ level # level - 1 /\ level <= BackupCount
  BY <1>1, LogFacts DEF Span
\* What the removal takes out is nothing, or the oldest backup.
<1>3. /\ Log!Removed(level) = Held(level)
      /\ level # BackupCount => Held(level) = {}
  <2>1. Log!Removed(level) = Held(level)
    BY <1>1, LogShapes DEF Log!Removed, Held
  <2>2. level # BackupCount => files[level] = Absent
    BY <1>1, <1>2, LogFacts
  <2> QED
    BY <1>1, <2>1, <2>2, LogShapes
<1>4. CASE files[level - 1] = Absent
  <2>1. /\ level' = level - 1 /\ warned' = warned /\ failed' = failed
        /\ UNCHANGED <<logPc, files, rotated>>
    BY <1>4 DEF Log!Shift, Log!Quiet
  <2>2. \A i \in Span : Log!Content(i)' = Log!Content(i)
    BY <2>1, Contents
  <2>3. Newest' = Newest
    BY <1>1, <2>1 DEF Newest, Log!Event
  <2>4. Ordering' /\ Accounted' /\ Log!FilesAreBounded'
    BY <1>1, <2>1, <2>2, <2>3, StaysKeep
  <2>5. LogTyped'
    BY <1>1, <1>2, <2>1, <2>3 DEF LogTyped, Span
  <2> QED
    BY <1>1, <1>2, <1>4, <2>1, <2>4, <2>5 DEF LogInv
<1>5. CASE Log!Fail /\ UNCHANGED <<files, level, rotated>>
  BY <1>1, <1>5, Contents, GivesUpKeeps
<1>6. CASE /\ files[level - 1] # Absent
           /\ Log!Fail /\ UNCHANGED level
           /\ files' = [files EXCEPT ![level] = Absent]
           /\ rotated' = rotated \cup Log!Removed(level)
  <2>1. /\ files' \in [Span -> {Absent} \cup Seq(Nat)] /\ files'[level] = Absent
        /\ \A i \in Span \ {level} : files'[i] = files[i]
    BY <1>1, <1>6
  <2>2. /\ \A i \in Span \ {level} : Log!Content(i)' = Log!Content(i)
        /\ Log!Content(level)' = <<>>
    <3>1. \A i \in Span \ {level} : Log!Content(i)' = Log!Content(i)
      BY <2>1, Contents
    <3>2. level' = level
      BY <1>6
    <3>3. Log!Content(level)' = <<>>
      BY <2>1, <3>2 DEF Log!Content
    <3> QED
      BY <3>1, <3>3
  <2>3. CASE level # BackupCount
    <3>1. files[level] = Absent /\ rotated' = rotated
      BY <1>1, <1>2, <1>3, <1>6, <2>3, LogFacts
    <3>2. Log!Content(level) = <<>>
      BY <1>1, <3>1, LogShapes
    <3>3. ASSUME NEW i \in Span PROVE Log!Content(i)' = Log!Content(i)
      <4>1. CASE i = level
        BY <2>1, <3>2, <4>1 DEF Log!Content
      <4>2. CASE i # level
        BY <2>2, <4>2
      <4> QED
        BY <4>1, <4>2
    <3> QED
      BY <1>1, <1>6, <2>1, <3>1, <3>3, GivesUpKeeps
  <2>4. CASE level = BackupCount
    <3> DEFINE from == [i \in Span |-> IF i = level THEN -1 ELSE i]
    <3>1. /\ from \in [Span -> Span \cup {-1}] /\ from[level] = -1
          /\ \A i \in Span \ {level} : from[i] = i /\ from[i] # -1
          /\ -1 \notin Span
      BY <1>1, LogFacts
    <3> HIDE DEF from
    <3>2. ASSUME NEW i \in Span
          PROVE  Log!Content(i)' = IF from[i] = -1 THEN <<>> ELSE Log!Content(from[i])
      <4>1. CASE i = level
        BY <2>1, <3>1, <4>1 DEF Log!Content
      <4>2. CASE i # level
        BY <2>2, <3>1, <4>2
      <4> QED
        BY <4>1, <4>2
    <3>3. \A i, j \in Span : i < j /\ from[i] # -1 /\ from[j] # -1 => from[i] < from[j]
      BY <3>1
    <3>4. rotated' = rotated \cup Held(BackupCount)
      BY <1>3, <1>6, <2>4
    <3>5. \A j \in Span : (\E i \in Span : from[i] = j) \/ Held(j) \subseteq rotated'
      BY <2>4, <3>1, <3>4
    <3>6. \A i \in Span : from[i] # BackupCount
      BY <2>4, <3>1, LogFacts
    <3>7. logPc' = "idle" /\ warned' = TRUE /\ failed' = TRUE
      BY <1>6, Disclosed DEF Log!Fail
    <3>8. Newest' \in Nat /\ Newest <= Newest'
      BY <1>1, <3>7, LogShapes DEF Newest, Log!Event
    <3>9. Ordering' /\ Accounted' /\ Log!FilesAreBounded'
      BY <1>1, <3>1, <3>2, <3>3, <3>4, <3>5, <3>6, <3>7, <3>8, MovesKeep
    <3>10. LogTyped'
      BY <1>1, <1>6, <2>1, <3>7, <3>8 DEF LogTyped, Span
    <3> QED
      BY <3>7, <3>9, <3>10 DEF LogInv
  <2> QED
    BY <2>3, <2>4
<1>7. CASE /\ files[level - 1] # Absent
           /\ files' = [files EXCEPT ![level] = Log!Shifted(files, level),
                                     ![level - 1] = Absent]
           /\ rotated' = rotated \cup Log!Removed(level)
           /\ level' = level - 1 /\ Log!Quiet /\ UNCHANGED logPc
  <2> DEFINE from == [i \in Span |-> IF i = level THEN level - 1
                                     ELSE IF i = level - 1 THEN -1 ELSE i]
  <2>1. /\ files' \in [Span -> {Absent} \cup Seq(Nat)]
        /\ files'[level] = files[level - 1] /\ files'[level - 1] = Absent
        /\ \A i \in Span \ {level, level - 1} : files'[i] = files[i]
    BY <1>1, <1>2, <1>7 DEF Log!Shifted
  <2>2. /\ from \in [Span -> Span \cup {-1}]
        /\ from[level] = level - 1 /\ from[level - 1] = -1
        /\ \A i \in Span \ {level, level - 1} : from[i] = i /\ from[i] # -1
        /\ -1 \notin Span
    BY <1>1, <1>2, LogFacts
  <2> HIDE DEF from
  <2>3. ASSUME NEW i \in Span
        PROVE  Log!Content(i)' = IF from[i] = -1 THEN <<>> ELSE Log!Content(from[i])
    <3>1. CASE i = level
      BY <1>2, <2>1, <2>2, <3>1 DEF Log!Content
    <3>2. CASE i = level - 1
      BY <2>1, <2>2, <3>2 DEF Log!Content
    <3>3. CASE i \notin {level, level - 1}
      BY <2>1, <2>2, <3>3, Contents
    <3> QED
      BY <3>1, <3>2, <3>3
  <2>4. ASSUME NEW i \in Span, NEW j \in Span, i < j, from[i] # -1, from[j] # -1
        PROVE  from[i] < from[j]
    <3>1. i \in Nat /\ j \in Nat /\ i # level - 1 /\ j # level - 1
      BY <2>2, <2>4, LogFacts
    <3>2. CASE i = level
      BY <1>2, <2>2, <2>4, <3>1, <3>2
    <3>3. CASE j = level
      BY <1>2, <2>2, <2>4, <3>1, <3>3
    <3>4. CASE i # level /\ j # level
      BY <2>2, <2>4, <3>1, <3>4
    <3> QED
      BY <3>2, <3>3, <3>4
  <2>5. rotated' = rotated \cup Held(level) /\ warned' = warned /\ failed' = failed
    BY <1>3, <1>7 DEF Log!Quiet
  <2>6. \A j \in Span : (\E i \in Span : from[i] = j) \/ Held(j) \subseteq rotated'
    BY <1>1, <1>2, <2>2, <2>5
  <2>7. ASSUME NEW e \in rotated' \ rotated
        PROVE  e \in Held(BackupCount) /\ \A i \in Span : from[i] # BackupCount
    <3>1. level = BackupCount /\ e \in Held(BackupCount)
      BY <1>3, <2>5, <2>7
    <3> QED
      BY <1>2, <2>2, <3>1, LogFacts
  <2>8. Newest' = Newest
    BY <1>1, <1>7 DEF Newest, Log!Event
  <2>9. Ordering' /\ Accounted' /\ Log!FilesAreBounded'
    BY <1>1, <2>2, <2>3, <2>4, <2>5, <2>6, <2>7, <2>8, MovesKeep
  <2>10. LogTyped'
    BY <1>1, <1>2, <1>7, <2>1, <2>5, <2>8 DEF LogTyped, Span
  <2> QED
    BY <1>1, <1>7, <2>1, <2>9, <2>10 DEF LogInv
<1> QED
  BY <1>4, <1>5, <1>6, <1>7 DEF Log!Shift

LEMMA OpenNewKeeps == LogInv /\ Log!OpenNew => LogInv'
<1> SUFFICES ASSUME LogInv, Log!OpenNew PROVE LogInv'
  OBVIOUS
<1>1. /\ logPc = "rolling" /\ stream = "none" /\ level = 0
      /\ UNCHANGED <<size, level, rotated>> /\ LogTyped /\ Newest \in Nat
      /\ files \in [Span -> {Absent} \cup Seq(Nat)] /\ level \in Span /\ files[0] = Absent
  BY LogFacts DEF Log!OpenNew, LogInv, LogTyped
<1>2. CASE Log!Fail /\ UNCHANGED <<files, stream>>
  BY <1>1, <1>2, Contents, GivesUpKeeps
<1>3. CASE /\ files' = [files EXCEPT ![0] = <<>>] /\ stream' = "open"
           /\ logPc' = "writing" /\ Log!Quiet
  <2>1. /\ files' \in [Span -> {Absent} \cup Seq(Nat)] /\ files'[0] = <<>>
        /\ \A i \in Span \ {0} : files'[i] = files[i]
    <3>1. <<>> \in Seq(Nat)
      OBVIOUS
    <3> QED
      BY <1>1, <1>3, <3>1, LogFacts
  <2>2. \A i \in Span : Log!Content(i)' = Log!Content(i)
    <3>1. Log!Content(0)' = Log!Content(0)
      BY <1>1, <2>1 DEF Log!Content
    <3> QED
      BY <2>1, <3>1, Contents
  <2>3. Newest' = Newest /\ warned' = warned /\ failed' = failed
    BY <1>1, <1>3 DEF Newest, Log!Event, Log!Quiet
  <2>4. Ordering' /\ Accounted' /\ Log!FilesAreBounded'
    BY <1>1, <2>2, <2>3, StaysKeep
  <2>5. LogTyped'
    BY <1>1, <1>3, <2>1, <2>3 DEF LogTyped, Span
  <2> QED
    BY <1>3, <2>1, <2>4, <2>5, LogFacts DEF LogInv
<1> QED
  BY <1>2, <1>3 DEF Log!OpenNew

\* The record is the newest event, and goes to the newest file.
LEMMA AppendKeeps ==
    ASSUME LogInv, logPc = "writing", logPc' = "idle", warned => warned',
           failed' \in BOOLEAN, warned' \in BOOLEAN,
           files' = [files EXCEPT ![0] = Append(@, Log!Event)],
           UNCHANGED <<size, stream, level, rotated>>
    PROVE  LogInv'
<1> DEFINE s == files[0]
           e == Log!Event
<1>1. /\ LogTyped /\ Ordering /\ Accounted /\ Log!FilesAreBounded /\ s # Absent
      /\ s = <<>> \/ Log!Bytes(s) + size[e] < MaxBytes
      /\ size \in Seq(Sizes) /\ files \in [Span -> {Absent} \cup Seq(Nat)]
  BY DEF LogInv, LogTyped
<1>2. /\ e \in Nat /\ e # 0 /\ Newest = e - 1 /\ Newest' = e /\ e = Len(size)
      /\ e \in 1 .. Len(size)
  BY <1>1, LogShapes DEF Newest, LogTyped, Log!Event
<1>3. s \in Seq(Nat) /\ Log!Content(0) = s
  BY <1>1, LogFacts, LogShapes
<1>4. /\ files' \in [Span -> {Absent} \cup Seq(Nat)]
      /\ files'[0] = Append(s, e)
      /\ \A i \in Span \ {0} : files'[i] = files[i]
  <2>1. Append(s, e) \in Seq(Nat)
    BY <1>2, <1>3
  <2> QED
    BY <1>1, <2>1, LogFacts
<1> HIDE DEF s, e
<1>5. /\ Log!Content(0)' = Append(s, e)
      /\ \A i \in Span \ {0} : Log!Content(i)' = Log!Content(i)
  <2>1. Append(s, e) # Absent
    <3>1. Append(s, e) \in Seq(Nat)
      BY <1>2, <1>3
    <3> QED
      BY <3>1, LogFacts
  <2> QED
    BY <1>4, <2>1, Contents DEF Log!Content
<1>6. /\ Held(0)' = Held(0) \cup {e}
      /\ \A i \in Span \ {0} : Held(i)' = Held(i)
  <2>1. {Append(s, e)[a] : a \in DOMAIN Append(s, e)} = {s[a] : a \in DOMAIN s} \cup {e}
    <3>1. /\ DOMAIN s = 1 .. Len(s) /\ DOMAIN Append(s, e) = 1 .. Len(s) + 1 /\ Len(s) \in Nat
          /\ Append(s, e)[Len(s) + 1] = e /\ \A a \in 1 .. Len(s) : Append(s, e)[a] = s[a]
      BY <1>2, <1>3
    <3>2. \A a \in 1 .. Len(s) + 1 : a \in 1 .. Len(s) \/ a = Len(s) + 1
      BY <3>1
    <3>3. Len(s) + 1 \in 1 .. Len(s) + 1 /\ \A a \in 1 .. Len(s) : a \in 1 .. Len(s) + 1
      BY <3>1
    <3> QED
      BY <3>1, <3>2, <3>3
  <2> QED
    BY <1>3, <1>5, <2>1 DEF Held, Log!ToSet
<1>7. \A i \in Span : \A k \in Held(i) : k \in Nat /\ k < e
  <2> SUFFICES ASSUME NEW i \in Span, NEW k \in Held(i) PROVE k \in Nat /\ k < e
    OBVIOUS
  <2>1. k \in Nat /\ k <= Newest
    BY <1>1, LogShapes DEF Ordering
  <2> QED
    BY <1>2, <2>1
<1>8. /\ \A a \in DOMAIN s : s[a] \in Nat /\ s[a] < e
      /\ DOMAIN s = 1 .. Len(s) /\ Len(s) \in Nat
  BY <1>3, <1>7, LogFacts DEF Held, Log!ToSet
<1>9. \A k \in rotated : k \in Nat /\ k < e
  BY <1>1, <1>2 DEF Ordering
<1>10. Ordering'
  <2>1. \A i \in Span : \A k \in Held(i)' : k <= Newest'
    BY <1>2, <1>6, <1>7
  <2>2. rotated' \subseteq 0 .. Newest'
    BY <1>2, <1>9
  <2>3. \A i \in Span : \A a, b \in DOMAIN Log!Content(i)' :
          a < b => Log!Content(i)'[a] < Log!Content(i)'[b]
    <3> SUFFICES ASSUME NEW i \in Span, NEW a \in DOMAIN Log!Content(i)',
                        NEW b \in DOMAIN Log!Content(i)', a < b
                 PROVE  Log!Content(i)'[a] < Log!Content(i)'[b]
      OBVIOUS
    <3>1. CASE i # 0
      BY <1>1, <1>5, <3>1 DEF Ordering
    <3>2. CASE i = 0
      <4>1. \A c, d \in DOMAIN s : c < d => s[c] < s[d]
        BY <1>1, <1>3, LogFacts DEF Ordering
      <4>2. /\ DOMAIN Append(s, e) = 1 .. Len(s) + 1 /\ Append(s, e)[Len(s) + 1] = e
            /\ \A c \in DOMAIN s : Append(s, e)[c] = s[c]
        BY <1>2, <1>3, <1>8
      <4>3. a \in 1 .. Len(s) + 1 /\ b \in 1 .. Len(s) + 1
        BY <1>5, <3>2, <4>2
      <4>4. a \in DOMAIN s
        BY <1>8, <4>3
      <4>5. CASE b = Len(s) + 1
        BY <1>5, <1>8, <3>2, <4>2, <4>4, <4>5
      <4>6. CASE b # Len(s) + 1
        <5>1. b \in DOMAIN s
          BY <1>8, <4>3, <4>6
        <5> QED
          BY <1>5, <3>2, <4>1, <4>2, <4>4, <5>1
      <4> QED
        BY <4>5, <4>6
    <3> QED
      BY <3>1, <3>2
  <2>4. ASSUME NEW i \in Span, NEW j \in Span, i < j,
               NEW older \in Held(j)', NEW newer \in Held(i)'
        PROVE  older < newer \/ (older = 0 /\ newer = 0)
    <3>1. j # 0 /\ older \in Held(j)
      BY <1>6, <2>4, LogFacts
    <3>2. CASE newer \in Held(i)
      BY <1>1, <2>4, <3>1, <3>2 DEF Ordering
    <3>3. CASE newer \notin Held(i)
      BY <1>6, <1>7, <2>4, <3>1, <3>3
    <3> QED
      BY <3>2, <3>3
  <2>5. \A k \in rotated', i \in Span : \A m \in Held(i)' : k < m \/ m = 0
    BY <1>1, <1>6, <1>9 DEF Ordering
  <2> QED
    BY <2>1, <2>2, <2>3, <2>4, <2>5 DEF Ordering, Span
<1>11. Accounted'
  <2> SUFFICES ASSUME NEW k \in 1 .. Newest', ~warned'
               PROVE  k \in rotated' \/ \E i \in Span : k \in Held(i)'
    BY DEF Accounted, Span
  <2>1. CASE k = e
    BY <1>6, <2>1, LogFacts
  <2>2. CASE k # e
    <3>1. k \in 1 .. Newest /\ ~warned
      BY <1>2, <2>2
    <3>2. k \in rotated \/ \E i \in Span : k \in Held(i)
      BY <1>1, <3>1 DEF Accounted
    <3> QED
      BY <1>6, <3>2
  <2> QED
    BY <2>1, <2>2
<1>12. Log!FilesAreBounded'
  <2>1. size' = size
    OBVIOUS
  <2>2. ASSUME NEW i \in Span
        PROVE  Weigh(Log!Content(i)', size) < MaxBytes \/ Len(Log!Content(i)') <= 1
    <3>1. CASE i # 0
      BY <1>1, <1>5, <3>1, BytesAre DEF Log!FilesAreBounded, Span
    <3>2. CASE i = 0 /\ s = <<>>
      <4>1. Len(s) = 0 /\ Len(Append(s, e)) = Len(s) + 1
        BY <1>2, <1>3, <3>2
      <4>2. Len(Append(s, e)) = 1
        BY <4>1
      <4>3. Len(Log!Content(0)') <= 1
        BY <1>5, <4>2
      <4> QED
        BY <3>2, <4>3
    <3>3. CASE i = 0 /\ s # <<>>
      <4>1. Weigh(s, size) + size[e] < MaxBytes
        BY <1>1, <3>3, BytesAre
      <4>2. Weigh(Append(s, e), size) = Weigh(s, size) + size[e]
        <5>1. Len(size) \in Nat /\ \A a \in DOMAIN s : s[a] <= Len(size)
          BY <1>1, <1>2, <1>8
        <5> QED
          BY <1>1, <1>2, <1>3, <5>1, WeightGrows
      <4> QED
        BY <1>5, <3>3, <4>1, <4>2
    <3> QED
      BY <3>1, <3>2, <3>3
  <2> QED
    BY <2>1, <2>2 DEF Log!FilesAreBounded, Span, Log!Bytes, Weigh, Weights
<1>13. LogTyped'
  BY <1>1, <1>2, <1>4 DEF LogTyped, Span
<1>14. stream' = "broken" => warned'
  BY DEF LogInv
<1> QED
  BY <1>10, <1>11, <1>12, <1>13, <1>14 DEF LogInv

LEMMA WriteKeeps == LogInv /\ Log!Write => LogInv'
<1> SUFFICES ASSUME LogInv, Log!Write PROVE LogInv'
  OBVIOUS
<1>1. /\ logPc = "writing" /\ UNCHANGED <<size, stream, level, rotated>> /\ LogTyped
      /\ files \in [Span -> {Absent} \cup Seq(Nat)] /\ level \in Span
      /\ stream \in {"open", "none", "broken"} /\ failed \in BOOLEAN /\ warned \in BOOLEAN
  BY DEF Log!Write, LogInv, LogTyped
<1>2. CASE Log!Fail /\ UNCHANGED files
  BY <1>1, <1>2, Contents, GivesUpKeeps
<1>3. CASE files' = [files EXCEPT ![0] = Append(@, Log!Event)] /\ logPc' = "idle" /\ Log!Quiet
  BY <1>1, <1>3, AppendKeeps DEF Log!Quiet
<1>4. CASE Log!Fail /\ files' = [files EXCEPT ![0] = Append(@, Log!Event)]
  <2>1. logPc' = "idle" /\ warned' = TRUE /\ failed' = TRUE
    BY <1>4, Disclosed DEF Log!Fail
  <2> QED
    BY <1>1, <1>4, <2>1, AppendKeeps
<1> QED
  BY <1>2, <1>3, <1>4 DEF Log!Write

LEMMA CloseLogKeeps == LogInv /\ Log!Close => LogInv'
<1> SUFFICES ASSUME LogInv, Log!Close PROVE LogInv'
  OBVIOUS
<1>1. /\ logPc = "idle" /\ logPc' = "closed" /\ LogTyped /\ Newest \in Nat
      /\ UNCHANGED <<files, size, stream, level, rotated>>
      /\ warned => warned'
      /\ warned' \in BOOLEAN /\ failed' \in BOOLEAN
  BY DEF Log!Close, Log!Quiet, Log!Disclose, LogInv, LogTyped
<1>2. Newest' = Newest
  BY <1>1 DEF Newest, Log!Event
<1>3. Ordering' /\ Accounted' /\ Log!FilesAreBounded'
  BY <1>1, <1>2, Contents, StaysKeep
<1>4. LogTyped'
  BY <1>1, <1>2 DEF LogTyped, Span
<1> QED
  BY <1>1, <1>3, <1>4 DEF LogInv

LEMMA LogStep == LogInv /\ [Log!Next]_logVars => LogInv'
<1>1. LogInv /\ UNCHANGED logVars => LogInv'
  <2> SUFFICES ASSUME LogInv, UNCHANGED logVars PROVE LogInv'
    OBVIOUS
  <2>1. /\ UNCHANGED <<logPc, files, size, stream, level, rotated, failed, warned>>
        /\ LogTyped /\ Newest \in Nat
    BY DEF logVars, LogInv, LogTyped
  <2>2. Newest' = Newest /\ LogTyped'
    BY <2>1 DEF Newest, Log!Event, LogTyped, Span
  <2>3. Ordering' /\ Accounted' /\ Log!FilesAreBounded'
    BY <2>1, <2>2, Contents, StaysKeep
  <2>4. Log!Bytes(files[0])' = Log!Bytes(files[0])
    BY <2>1 DEF Log!Bytes
  <2> QED
    BY <2>1, <2>2, <2>3, <2>4 DEF LogInv, Log!Event
<1>2. ASSUME LogInv, NEW bytes \in Sizes, Log!OpenFails(bytes)
      PROVE  LogInv'
  BY <1>2, FailedCallKeeps DEF Log!OpenFails
<1> QED
  BY <1>1, <1>2, PublishKeeps, CloseForRollKeeps, ShiftKeeps, OpenNewKeeps, WriteKeeps,
     CloseLogKeeps DEF Log!Next

LEMMA LogIsKept ==
    LogInv => Log!TypeOK /\ Log!LossIsDisclosed /\ Log!OldestLeaveFirst /\ Log!FilesAreBounded
<1> SUFFICES ASSUME LogInv
             PROVE  Log!TypeOK /\ Log!LossIsDisclosed /\ Log!OldestLeaveFirst
                    /\ Log!FilesAreBounded
  OBVIOUS
<1>1. /\ LogTyped /\ Ordering /\ Accounted /\ Log!FilesAreBounded
      /\ stream = "broken" => warned
  BY DEF LogInv
<1>2. /\ Log!Event \in Nat /\ DOMAIN size = 1 .. Log!Event /\ Newest \in Nat
      /\ Newest <= Log!Event
  BY <1>1, LogShapes DEF Newest, LogTyped
<1>3. Log!TypeOK
  <2>1. ASSUME NEW i \in Span, files[i] # Absent
        PROVE  Log!ToSet(files[i]) \subseteq 0 .. Log!Event
    <3>1. Log!ToSet(files[i]) = Held(i) /\ Held(i) \subseteq Nat
      BY <1>1, <2>1, LogShapes DEF Held
    <3>2. \A e \in Held(i) : e <= Newest
      BY <1>1 DEF Ordering
    <3> QED
      BY <1>2, <3>1, <3>2
  <2>2. rotated \subseteq 0 .. Log!Event
    BY <1>1, <1>2 DEF Ordering
  <2> QED
    BY <1>1, <2>1, <2>2 DEF Log!TypeOK, LogTyped, Span
<1>4. \A e : e \in Log!Retained <=> e # 0 /\ \E i \in Span : e \in Held(i)
  <2> DEFINE U == {Held(i) : i \in Span}
  <2>1. Log!Retained = (UNION U) \ {0}
    BY DEF Log!Retained, Held, Span
  <2>2. \A h : h \in U <=> \E i \in Span : h = Held(i)
    OBVIOUS
  <2> HIDE DEF U
  <2>3. ASSUME NEW e, e \in Log!Retained PROVE e # 0 /\ \E i \in Span : e \in Held(i)
    <3>1. e \in UNION U /\ e # 0
      BY <2>1, <2>3, Zenon
    <3>2. PICK h \in U : e \in h
      BY <3>1
    <3> QED
      BY <2>2, <3>1, <3>2
  <2>4. ASSUME NEW e, e # 0, NEW i \in Span, e \in Held(i) PROVE e \in Log!Retained
    <3>1. e \in UNION U
      BY <2>2, <2>4
    <3>2. e \in (UNION U) \ {0}
      BY <2>4, <3>1
    <3> QED
      BY <2>1, <3>2, Zenon
  <2> QED
    BY <2>3, <2>4
<1>5. Log!LossIsDisclosed
  <2> SUFFICES ASSUME logPc \in {"idle", "closed"}, NEW e \in 1 .. Log!Event
               PROVE  e \in Log!Retained \cup rotated \/ warned
    BY <1>2 DEF Log!LossIsDisclosed, Log!Published
  <2>1. Newest = Log!Event
    BY DEF Newest
  <2>2. e \in rotated \/ warned \/ \E i \in Span : e \in Held(i)
    BY <1>1, <2>1 DEF Accounted
  <2>3. e # 0
    BY <1>2
  <2>4. ASSUME NEW i \in Span, e \in Held(i) PROVE e \in Log!Retained
    BY <1>4, <2>3, <2>4
  <2> QED
    BY <2>2, <2>4
<1>6. Log!OldestLeaveFirst
  <2>1. \A i \in Span : \A a, b \in DOMAIN Log!Content(i) :
           a < b => Log!Content(i)[a] < Log!Content(i)[b]
    BY <1>1 DEF Ordering
  <2>2. \A i, j \in Span : i < j =>
           \A older \in Held(j), newer \in Held(i) :
              older < newer \/ (older = 0 /\ newer = 0)
    BY <1>1 DEF Ordering
  <2>3. ASSUME NEW e \in rotated, NEW k \in Log!Retained PROVE e < k
    <3>1. PICK i \in Span : k \in Held(i) /\ k # 0
      BY <1>4
    <3> QED
      BY <1>1, <3>1 DEF Ordering
  <2> QED
    BY <2>1, <2>2, <2>3 DEF Log!OldestLeaveFirst, Held, Span
<1> QED
  BY <1>1, <1>3, <1>5, <1>6

(***************************************************************************)
(* However many events of any sizes are published, whatever operation on a *)
(* file fails and however many backups are kept, the log loses nothing in  *)
(* silence, keeps its order over the files, gives up the oldest first and  *)
(* stays within its bound (observability.py).                              *)
(***************************************************************************)
THEOREM LogsAreHonest == AllSpec => []LogIsHonest
<1> DEFINE Inv == part = "log" => LogInv
<1>1. AllInit => Inv
  BY LogInit DEF AllInit
<1>2. Inv /\ [AllNext]_all => Inv'
  <2> SUFFICES ASSUME Inv, [AllNext]_all, part' = "log" PROVE LogInv'
    OBVIOUS
  <2>1. part = "log"
    BY DEF AllNext, all
  <2>2. Log!Next \/ UNCHANGED logVars
    BY <2>1 DEF AllNext, all
  <2> QED
    BY <2>1, <2>2, LogStep
<1>3. Inv => LogIsHonest
  BY LogIsKept DEF LogIsHonest
<1> QED
  BY <1>1, <1>2, <1>3, PTL DEF AllSpec

-----------------------------------------------------------------------------
(***************************************************************************)
(* The command line.  Where the loop is decides which controls have taken  *)
(* effect, and what was disclosed decides the exit code.                   *)
(***************************************************************************)
\* What the user asked for.
ArgsTyped ==
    /\ args.command \in {"backtest", "paper"}
    /\ {args.pause, args.kill, args.stop} \subseteq Command!Limits
    /\ args.command = "backtest" => {args.pause, args.kill, args.stop} = {None}
    /\ args.exports \subseteq Command!Exports

\* A summary or result of the session that ran.
Summed == summary \in [status : {"halted", "stopped", "failed", "completed"}, bars : 0 .. NumBars]

\* The loop has reached none of its limits, and has paused where it was to.
Looping ==
    /\ args.command = "paper" /\ failure = FALSE /\ cursor < NumBars
    /\ args.kill # None => cursor < args.kill
    /\ args.stop # None => cursor < args.stop
    /\ pauses = IF args.pause # None /\ args.pause <= cursor THEN <<args.pause>> ELSE <<>>

\* Nothing was opened yet, or ever.
Untouched ==
    /\ failure = FALSE /\ sink = "none" /\ summary = None /\ written = <<>>
    /\ pauses = <<>> /\ cursor = 0

Opened == cliPc \in {"loop", "closing", "exporting"}

\* Without an exception on its way out the summary is there; a session of no bar
\* has failed, or was asked for nothing of a result.
Leaving ==
    /\ raised = None =>
          Summed /\ (summary.bars = 0 => failure \/ args.exports \cap Command!ResultExports = {})
    /\ failure => raised = None

CommandInv ==
    /\ ArgsTyped
    /\ Command!TypeOK
    /\ failure \in BOOLEAN
    /\ written \in Seq(Command!Exports)
    /\ raised \in {None, Command!Interrupted} \cup Command!ErrorCodes
    /\ cliPc = "parsed" => Untouched /\ exit = None /\ raised = None
    /\ Opened => Command!ArgumentsAreValid /\ exit = None
    /\ cliPc = "loop" => Looping /\ summary = None /\ raised = None
    /\ cliPc \in {"loop", "closing"} => written = <<>>
    /\ cliPc \in {"closing", "exporting"} => Leaving
    /\ cliPc = "exporting" =>
          raised = None /\ sink # "open" /\ Command!ToSet(written) \subseteq Command!Named
    /\ Command!ControlsTakeEffect
    /\ Command!ExitTells

LEMMA CommandFacts ==
    /\ NumBars \in Nat \ {0} /\ None \notin Int
    /\ {"json"} \cup Command!ResultExports = Command!Exports
    /\ DOMAIN Command!Order = {1, 2, 3}
    /\ {Command!Order[i] : i \in {1, 2, 3}} = Command!Exports
    /\ args.command = "paper" => Command!Order[3] = "json"
<1>1. NumBars \in Nat \ {0} /\ None \notin Int
  BY FilesAssumption DEF Command!CommandAssumption
<1>2. {"json"} \cup Command!ResultExports = Command!Exports
  BY DEF Command!Exports, Command!ResultExports
<1>3. CASE args.command = "backtest"
  BY <1>1, <1>2, <1>3 DEF Command!Order, Command!Exports, Command!ResultExports
<1>4. CASE args.command # "backtest"
  BY <1>1, <1>2, <1>4 DEF Command!Order, Command!Exports, Command!ResultExports
<1> QED
  BY <1>3, <1>4

LEMMA NothingWritten == Command!ToSet(<<>>) = {}
BY DEF Command!ToSet

LEMMA CommandInit == Command!Init => CommandInv
<1> SUFFICES ASSUME Command!Init PROVE CommandInv
  OBVIOUS
<1>1. written = <<>> /\ Command!ToSet(written) = {}
  BY NothingWritten DEF Command!Init
<1>2. ArgsTyped
  BY DEF Command!Init, ArgsTyped
<1>3. Command!TypeOK
  BY <1>1, CommandFacts DEF Command!Init, Command!TypeOK
<1>4. Untouched /\ exit = None /\ raised = None /\ cliPc = "parsed"
  BY DEF Command!Init, Untouched
<1>5. Command!ControlsTakeEffect
  BY <1>4 DEF Untouched, Command!ControlsTakeEffect
<1>6. Command!ExitTells
  <2>1. exit # 0 /\ exit # 2
    BY <1>4, CommandFacts
  <2> QED
    BY <1>1, <2>1 DEF Command!ExitTells
<1>7. written \in Seq(Command!Exports)
  BY <1>1
<1> QED
  BY <1>1, <1>2, <1>3, <1>4, <1>5, <1>6, <1>7 DEF CommandInv, Untouched, Opened

LEMMA RefuseKeeps == CommandInv /\ Command!Refuse => CommandInv'
<1> SUFFICES ASSUME CommandInv, Command!Refuse PROVE CommandInv'
  OBVIOUS
<1>1. /\ cliPc' = "exited" /\ exit' = 2 /\ Untouched /\ exit = None
      /\ UNCHANGED <<args, status, cursor, pauses, failure, raised, sink, summary, disclosed,
                     written>>
  BY DEF CommandInv, Command!Refuse, Command!Exit
<1>2. Command!TypeOK'
  BY <1>1 DEF CommandInv, Command!TypeOK, Untouched, Command!ToSet, Command!ErrorCodes
<1>3. Command!ControlsTakeEffect'
  BY <1>1 DEF CommandInv, Command!ControlsTakeEffect
<1>4. Command!ExitTells'
  BY <1>1, NothingWritten DEF Untouched, Command!ExitTells
<1> QED
  BY <1>1, <1>2, <1>3, <1>4 DEF CommandInv, ArgsTyped, Opened

\* A call that has not ended and has written nothing tells nothing yet.
LEMMA TellsNothing ==
    ASSUME exit' = None, written' = <<>>
    PROVE  Command!ExitTells'
<1>1. exit' # 0 /\ exit' # 2
  BY CommandFacts
<1>2. Command!ToSet(written') = {}
  BY NothingWritten
<1> QED
  BY <1>1, <1>2 DEF Command!ExitTells

LEMMA OpenKeeps == CommandInv /\ Command!Open => CommandInv'
<1> SUFFICES ASSUME CommandInv, Command!Open PROVE CommandInv'
  OBVIOUS
<1>1. /\ Untouched /\ raised = None /\ exit = None /\ ArgsTyped /\ Command!TypeOK
      /\ Command!ArgumentsAreValid
      /\ UNCHANGED <<args, cursor, pauses, disclosed, written, exit>>
  BY DEF CommandInv, Command!Open
<1>2. ArgsTyped' /\ Command!ArgumentsAreValid'
  BY <1>1 DEF ArgsTyped, Command!ArgumentsAreValid, Command!TerminalAfter
<1>3. sink' \in {"open", "none"}
  BY DEF Command!Open
<1>4. Command!ExitTells'
  BY <1>1, TellsNothing DEF Untouched
<1>5. cliPc' \in {"loop", "closing"} => Command!TypeOK'
  BY <1>1, NothingWritten DEF Command!TypeOK, Untouched
<1>6. written' = <<>> /\ written' \in Seq(Command!Exports)
  BY <1>1 DEF Untouched
<1>7. CASE /\ raised' \in Command!ErrorCodes /\ cliPc' = "closing"
           /\ UNCHANGED <<status, failure, summary>>
  <2>1. Command!ControlsTakeEffect'
    BY <1>1, <1>7 DEF Untouched, Command!ControlsTakeEffect
  <2>2. Leaving'
    BY <1>1, <1>7, CommandFacts DEF Untouched, Leaving, Command!ErrorCodes
  <2> QED
    BY <1>1, <1>2, <1>4, <1>5, <1>6, <1>7, <2>1, <2>2 DEF CommandInv, Opened
<1>8. CASE /\ args.command = "backtest"
           /\ summary' = [status |-> "completed", bars |-> NumBars] /\ cliPc' = "closing"
           /\ UNCHANGED <<raised, status, failure>>
  <2>1. Command!ControlsTakeEffect'
    BY <1>1, <1>8 DEF Command!ControlsTakeEffect
  <2>2. Summed' /\ summary'.bars # 0
    BY <1>8, CommandFacts DEF Summed
  <2> QED
    BY <1>1, <1>2, <1>4, <1>5, <1>6, <1>8, <2>1, <2>2
    DEF CommandInv, Opened, Untouched, Leaving
<1>9. CASE /\ args.command = "paper"
           /\ \/ /\ status' = IF args.kill = 0 THEN "halted"
                              ELSE IF args.stop = 0 THEN "stopped" ELSE "running"
                 /\ UNCHANGED failure
              \/ status' = "failed" /\ failure' = TRUE
           /\ cliPc' = (IF status' = "running" THEN "loop" ELSE "closing")
           /\ summary' = IF status' = "running" THEN None ELSE [status |-> status', bars |-> 0]
           /\ UNCHANGED raised
  <2>1. CASE status' = "running"
    <3>1. args.kill # 0 /\ args.stop # 0 /\ failure' = FALSE /\ cliPc' = "loop"
          /\ summary' = None
      BY <1>1, <1>9, <2>1 DEF Untouched
    <3>2. Looping'
      BY <1>1, <1>9, <3>1, CommandFacts
      DEF Looping, Untouched, ArgsTyped, Command!Limits, Command!ArgumentsAreValid
    <3>3. Command!ControlsTakeEffect'
      BY <3>1 DEF Command!ControlsTakeEffect
    <3> QED
      BY <1>1, <1>2, <1>4, <1>5, <1>6, <1>9, <3>1, <3>2, <3>3 DEF CommandInv, Opened, Untouched
  <2>2. CASE status' # "running"
    <3>1. /\ status' \in {"halted", "stopped", "failed"}
          /\ summary' = [status |-> status', bars |-> 0] /\ cliPc' = "closing"
          /\ failure' \in BOOLEAN
      BY <1>1, <1>9, <2>2 DEF Untouched
    <3>2. Summed'
      BY <3>1, CommandFacts DEF Summed
    <3>3. summary'.bars = 0 /\ summary'.status = status'
      BY <3>1
    <3>4. failure' \/ args.exports \cap Command!ResultExports = {}
      BY <1>1, <1>9, <2>2, CommandFacts DEF Command!ArgumentsAreValid, Command!TerminalAfter
    <3>5. Command!ControlsTakeEffect'
      <4>1. Len(pauses') = 0
        BY <1>1 DEF Untouched
      <4>2. /\ args.kill # None => 0 <= args.kill /\ status' \in {"halted", "failed"}
            /\ args.stop # None => 0 <= args.stop /\ status' \in {"halted", "failed", "stopped"}
            /\ args.pause # None => ~(0 > args.pause)
        BY <1>1, <1>9, <2>2, <3>1, CommandFacts
        DEF ArgsTyped, Command!Limits, Command!ArgumentsAreValid
      <4> QED
        BY <1>1, <3>3, <4>1, <4>2 DEF Command!ControlsTakeEffect
    <3> QED
      BY <1>1, <1>2, <1>4, <1>5, <1>6, <1>9, <3>1, <3>2, <3>3, <3>4, <3>5
      DEF CommandInv, Opened, Leaving
  <2> QED
    BY <2>1, <2>2
<1> QED
  BY <1>7, <1>8, <1>9 DEF Command!Open

\* What one turn leaves on the loop, and where it may lead.
LEMMA TurnKeeps == CommandInv /\ Command!Turn => CommandInv'
<1> SUFFICES ASSUME CommandInv, Command!Turn PROVE CommandInv'
  OBVIOUS
<1>1. /\ Looping /\ ArgsTyped /\ Command!TypeOK /\ Command!ArgumentsAreValid
      /\ exit = None /\ raised = None /\ written = <<>> /\ cliPc = "loop"
      /\ UNCHANGED <<args, raised, sink, disclosed, written, exit>>
  BY DEF CommandInv, Command!Turn, Opened
<1>2. ArgsTyped' /\ Command!ArgumentsAreValid'
  BY <1>1 DEF ArgsTyped, Command!ArgumentsAreValid, Command!TerminalAfter
<1>3. Command!ExitTells'
  BY <1>1, TellsNothing
<1>4. /\ cliPc' = IF status' = "running" THEN "loop" ELSE "closing"
      /\ summary' = IF status' = "running" THEN None ELSE [status |-> status', bars |-> cursor']
  BY DEF Command!Turn
<1>5. /\ cursor \in Nat /\ cursor < NumBars /\ NumBars \in Nat /\ None \notin Int
      /\ args.pause \in {None} \cup 0 .. NumBars
      /\ args.kill \in {None} \cup 0 .. NumBars
      /\ args.stop \in {None} \cup 0 .. NumBars
      /\ args.kill = None \/ args.stop = None
  BY <1>1, CommandFacts
  DEF Looping, ArgsTyped, Command!TypeOK, Command!Limits, Command!ArgumentsAreValid
<1>6. written' = <<>> /\ written' \in Seq(Command!Exports)
  BY <1>1
\* The pause is noted at its bar and at no other.
<1>7. ASSUME cursor' = cursor + 1,
             pauses' = IF args.pause = cursor' THEN Append(pauses, cursor') ELSE pauses
      PROVE  pauses' = IF args.pause # None /\ args.pause <= cursor' THEN <<args.pause>> ELSE <<>>
  <2>1. CASE args.pause = cursor'
    <3>1. pauses = <<>>
      BY <1>1, <1>5, <1>7, <2>1 DEF Looping
    <3> QED
      BY <1>5, <1>7, <2>1, <3>1
  <2>2. CASE args.pause # cursor'
    BY <1>1, <1>5, <1>7, <2>2 DEF Looping
  <2> QED
    BY <2>1, <2>2
<1>8. ASSUME status' = "running", failure' = failure, cursor' = cursor + 1, cursor' < NumBars,
             args.kill # cursor', args.stop # cursor',
             pauses' = IF args.pause = cursor' THEN Append(pauses, cursor') ELSE pauses
      PROVE  CommandInv'
  <2>1. Looping'
    <3>1. cursor' < NumBars /\ args.command = "paper" /\ failure' = FALSE
      BY <1>1, <1>8 DEF Looping
    <3>2. args.kill # None => cursor' < args.kill
      BY <1>1, <1>5, <1>8 DEF Looping
    <3>3. args.stop # None => cursor' < args.stop
      BY <1>1, <1>5, <1>8 DEF Looping
    <3> QED
      BY <1>1, <1>7, <1>8, <3>1, <3>2, <3>3 DEF Looping
  <2>2. cliPc' = "loop" /\ summary' = None
    BY <1>4, <1>8
  <2>3. Command!TypeOK'
    BY <1>1, <1>5, <1>8, <2>2, NothingWritten DEF Command!TypeOK
  <2>4. Command!ControlsTakeEffect'
    BY <2>2 DEF Command!ControlsTakeEffect
  <2> QED
    BY <1>1, <1>2, <1>3, <1>6, <1>8, <2>1, <2>2, <2>3, <2>4
    DEF CommandInv, Opened, Looping
\* A turn that ends the loop leaves a summary that keeps to the controls.
<1>9. ASSUME status' \in {"halted", "stopped", "failed", "completed"},
             cursor' \in 0 .. NumBars, failure' \in BOOLEAN,
             args.kill # None => cursor' <= args.kill /\ status' \in {"halted", "failed"},
             args.stop # None => cursor' <= args.stop /\ status' \in {"halted", "failed", "stopped"},
             args.pause # None /\ cursor' > args.pause => pauses' = <<args.pause>>,
             Len(pauses') <= 1,
             cursor' = 0 => failure'
      PROVE  CommandInv'
  <2>1. /\ cliPc' = "closing" /\ summary' = [status |-> status', bars |-> cursor']
    BY <1>4, <1>9
  <2>2. summary'.status = status' /\ summary'.bars = cursor'
    BY <2>1
  <2>3. Summed'
    BY <1>9, <2>1 DEF Summed
  <2>4. Leaving'
    BY <1>1, <1>9, <2>2, <2>3 DEF Leaving
  <2>5. Command!TypeOK'
    BY <1>1, <1>5, <1>9, <2>1, NothingWritten DEF Command!TypeOK
  <2>6. Command!ControlsTakeEffect'
    BY <1>1, <1>9, <2>2 DEF Command!ControlsTakeEffect
  <2> QED
    BY <1>1, <1>2, <1>3, <1>6, <1>9, <2>1, <2>4, <2>5, <2>6 DEF CommandInv, Opened
\* The sequences of pauses that a turn may leave.
<1>10. ASSUME cursor' \in Nat,
              pauses' = IF args.pause # None /\ args.pause <= cursor'
                        THEN <<args.pause>> ELSE <<>>
       PROVE  /\ args.pause # None /\ cursor' > args.pause => pauses' = <<args.pause>>
              /\ Len(pauses') <= 1
  <2>1. CASE args.pause # None /\ args.pause <= cursor'
    BY <1>10, <2>1
  <2>2. CASE ~(args.pause # None /\ args.pause <= cursor')
    <3>1. pauses' = <<>> /\ (args.pause # None => ~(cursor' > args.pause))
      BY <1>5, <1>10, <2>2
    <3> QED
      BY <3>1
  <2> QED
    BY <2>1, <2>2
<1>11. ASSUME NEW s \in Command!StatusAfter(cursor + 1),
              cursor' = cursor + 1,
              pauses' = IF Command!Paused(s, cursor') THEN Append(pauses, cursor') ELSE pauses,
              status' = Command!Controlled(s, cursor'),
              failure' = failure
       PROVE  CommandInv'
  <2> DEFINE c == cursor + 1
  <2>1. c \in 1 .. NumBars /\ failure' = FALSE
    BY <1>1, <1>5, <1>11 DEF Looping
  <2>4. cursor' \in 0 .. NumBars /\ cursor' \in Nat /\ cursor' # 0
    BY <1>5, <1>11, <2>1
  <2>5. failure' \in BOOLEAN
    BY <2>1
  <2>2. CASE s = "running"
    <3>1. c < NumBars
      BY <1>5, <2>2, <2>1, <1>11 DEF Command!StatusAfter
    <3>2. pauses' = IF args.pause = cursor' THEN Append(pauses, cursor') ELSE pauses
      BY <1>11, <2>2 DEF Command!Paused
    <3>3. pauses' = IF args.pause # None /\ args.pause <= cursor' THEN <<args.pause>> ELSE <<>>
      BY <1>7, <1>11, <3>2
    <3>4. CASE args.kill = c
      <4>1. status' = "halted" /\ args.kill # None /\ args.stop = None
        BY <1>5, <1>11, <2>1, <2>2, <3>4 DEF Command!Controlled
      <4> QED
        <5>1. /\ status' \in {"halted", "stopped", "failed", "completed"}
              /\ cursor' \in 0 .. NumBars /\ cursor' \in Nat /\ cursor' # 0
              /\ failure' \in BOOLEAN
          BY <2>4, <2>5, <4>1
        <5>2. /\ args.kill # None => cursor' <= args.kill /\ status' \in {"halted", "failed"}
              /\ args.stop # None => /\ cursor' <= args.stop
                                     /\ status' \in {"halted", "failed", "stopped"}
          BY <1>5, <1>11, <2>1, <3>4, <4>1
        <5>3. /\ args.pause # None /\ cursor' > args.pause => pauses' = <<args.pause>>
              /\ Len(pauses') <= 1
          BY <1>10, <3>3, <5>1
        <5> QED
          BY <1>9, <5>1, <5>2, <5>3
    <3>5. CASE args.kill # c /\ args.stop = c
      <4>1. status' = "stopped" /\ args.stop # None /\ args.kill = None
        BY <1>5, <1>11, <2>1, <2>2, <3>5 DEF Command!Controlled
      <4> QED
        <5>1. /\ status' \in {"halted", "stopped", "failed", "completed"}
              /\ cursor' \in 0 .. NumBars /\ cursor' \in Nat /\ cursor' # 0
              /\ failure' \in BOOLEAN
          BY <2>4, <2>5, <4>1
        <5>2. /\ args.kill # None => cursor' <= args.kill /\ status' \in {"halted", "failed"}
              /\ args.stop # None => /\ cursor' <= args.stop
                                     /\ status' \in {"halted", "failed", "stopped"}
          BY <1>5, <1>11, <2>1, <3>5, <4>1
        <5>3. /\ args.pause # None /\ cursor' > args.pause => pauses' = <<args.pause>>
              /\ Len(pauses') <= 1
          BY <1>10, <3>3, <5>1
        <5> QED
          BY <1>9, <5>1, <5>2, <5>3
    <3>6. CASE args.kill # c /\ args.stop # c
      <4>1. status' = "running"
        BY <1>11, <2>2, <3>6 DEF Command!Controlled
      <4> QED
        BY <1>8, <1>11, <3>1, <3>2, <3>6, <4>1
    <3> QED
      BY <3>4, <3>5, <3>6
  <2>3. CASE s # "running"
    <3>1. pauses' = pauses /\ status' = s
      BY <1>11, <2>3 DEF Command!Paused, Command!Controlled
    <3>2. s \in {"halted", "completed"} /\ (s = "completed" => c = NumBars)
      BY <1>11, <2>3 DEF Command!StatusAfter
    <3>3. /\ args.kill # None => c <= args.kill
          /\ args.stop # None => c <= args.stop
      BY <1>1, <1>5 DEF Looping
    <3>4. s = "completed" => args.kill = None /\ args.stop = None
      BY <1>1, <1>5, <3>2, <3>3 DEF Command!ArgumentsAreValid
    <3>5. /\ args.pause # None /\ c > args.pause => pauses = <<args.pause>>
          /\ Len(pauses) <= 1
      <4>1. CASE args.pause # None /\ args.pause <= cursor
        BY <1>1, <4>1 DEF Looping
      <4>2. CASE args.pause = None \/ ~(args.pause <= cursor)
        BY <1>1, <1>5, <4>2 DEF Looping
      <4> QED
        BY <4>1, <4>2
    <3>6. /\ status' \in {"halted", "stopped", "failed", "completed"}
          /\ cursor' \in 0 .. NumBars /\ cursor' # 0 /\ failure' \in BOOLEAN
      BY <1>11, <2>4, <2>5, <3>1, <3>2
    <3>7. /\ args.kill # None => cursor' <= args.kill /\ status' \in {"halted", "failed"}
          /\ args.stop # None => cursor' <= args.stop /\ status' \in {"halted", "failed", "stopped"}
      BY <1>11, <3>1, <3>2, <3>3, <3>4
    <3>8. /\ args.pause # None /\ cursor' > args.pause => pauses' = <<args.pause>>
          /\ Len(pauses') <= 1
      BY <1>11, <3>1, <3>5
    <3> QED
      BY <1>9, <3>6, <3>7, <3>8
  <2> QED
    BY <2>2, <2>3
<1>12. CASE status' = "failed" /\ failure' = TRUE /\ UNCHANGED <<cursor, pauses>>
  <2>1. /\ args.kill # None => cursor <= args.kill
        /\ args.stop # None => cursor <= args.stop
    BY <1>1, <1>5 DEF Looping
  <2>2. pauses' = IF args.pause # None /\ args.pause <= cursor' THEN <<args.pause>> ELSE <<>>
    BY <1>1, <1>12 DEF Looping
  <2> QED
    BY <1>5, <1>9, <1>10, <1>12, <2>1, <2>2
<1>13. CASE /\ cursor' = cursor + 1 /\ cursor' < NumBars
            /\ status' = "failed" /\ failure' = TRUE
            /\ pauses' = IF Command!Paused("running", cursor')
                         THEN Append(pauses, cursor') ELSE pauses
  <2>1. /\ args.kill # None => cursor + 1 <= args.kill
        /\ args.stop # None => cursor + 1 <= args.stop
    BY <1>1, <1>5 DEF Looping
  <2>2. pauses' = IF args.pause # None /\ args.pause <= cursor' THEN <<args.pause>> ELSE <<>>
    BY <1>7, <1>13 DEF Command!Paused
  <2> QED
    BY <1>5, <1>9, <1>10, <1>13, <2>1, <2>2
<1> QED
  BY <1>11, <1>12, <1>13 DEF Command!Turn

LEMMA InterruptKeeps == CommandInv /\ Command!Interrupt => CommandInv'
<1> SUFFICES ASSUME CommandInv, Command!Interrupt PROVE CommandInv'
  OBVIOUS
<1>1. /\ Looping /\ Command!TypeOK /\ written = <<>> /\ exit = None /\ summary = None
      /\ Command!ArgumentsAreValid /\ cliPc' = "closing" /\ raised' = Command!Interrupted
      /\ UNCHANGED <<args, status, cursor, pauses, failure, sink, summary, disclosed, written,
                     exit>>
  BY DEF CommandInv, Command!Interrupt, Opened
<1>2. Command!ArgumentsAreValid'
  BY <1>1 DEF Command!ArgumentsAreValid, Command!TerminalAfter
<1>3. Command!ExitTells'
  BY <1>1, TellsNothing
<1>4. Command!TypeOK'
  BY <1>1, NothingWritten DEF Command!TypeOK
<1>5. Leaving'
  BY <1>1, CommandFacts DEF Leaving, Looping, Command!Interrupted
<1>6. Command!ControlsTakeEffect'
  BY <1>1 DEF Command!ControlsTakeEffect
<1> QED
  BY <1>1, <1>2, <1>3, <1>4, <1>5, <1>6 DEF CommandInv, ArgsTyped, Opened

LEMMA CloseKeeps == CommandInv /\ Command!CloseSink => CommandInv'
<1> SUFFICES ASSUME CommandInv, Command!CloseSink PROVE CommandInv'
  OBVIOUS
<1>1. /\ cliPc = "closing" /\ Leaving /\ Command!TypeOK /\ written = <<>> /\ exit = None
      /\ Command!ArgumentsAreValid /\ Command!ControlsTakeEffect /\ ArgsTyped
      /\ sink' = IF sink = "open" THEN "closed" ELSE sink
      /\ UNCHANGED <<args, status, cursor, pauses, failure, raised, summary, written>>
  BY DEF CommandInv, Command!CloseSink, Opened
<1>2. ArgsTyped' /\ Command!ArgumentsAreValid' /\ Command!ControlsTakeEffect' /\ Leaving'
      /\ sink' # "open"
  BY <1>1 DEF ArgsTyped, Command!ArgumentsAreValid, Command!TerminalAfter,
              Command!ControlsTakeEffect, Leaving, Summed
<1>3. Command!ToSet(written') = {}
  BY <1>1, NothingWritten
<1>4. CASE raised = None
  <2>1. cliPc' = "exporting" /\ exit' = None
    BY <1>1, <1>4 DEF Command!CloseSink
  <2>2. Command!ExitTells'
    BY <1>1, <2>1, TellsNothing
  <2>3. Command!TypeOK'
    BY <1>1, <1>3, <2>1 DEF Command!TypeOK
  <2> QED
    BY <1>1, <1>2, <1>3, <1>4, <2>1, <2>2, <2>3 DEF CommandInv, Opened
<1>5. CASE raised # None
  <2>1. cliPc' = "exited" /\ exit' = raised
    BY <1>1, <1>5 DEF Command!CloseSink, Command!Exit
  <2>2. raised \in {Command!Interrupted} \cup Command!ErrorCodes /\ failure = FALSE
    BY <1>1, <1>5 DEF CommandInv, Leaving
  <2>3. Command!ExitTells'
    BY <1>1, <1>3, <2>1, <2>2
    DEF Command!ExitTells, Command!ErrorCodes, Command!Interrupted
  <2>4. Command!TypeOK'
    BY <1>1, <1>2, <1>3, <2>1, <2>2 DEF Command!TypeOK
  <2> QED
    BY <1>1, <1>2, <1>3, <2>1, <2>2, <2>3, <2>4 DEF CommandInv, Opened
<1> QED
  BY <1>4, <1>5

LEMMA ExportKeeps == CommandInv /\ Command!Export => CommandInv'
<1> SUFFICES ASSUME CommandInv, Command!Export PROVE CommandInv'
  OBVIOUS
<1>1. /\ cliPc = "exporting" /\ Leaving /\ Command!TypeOK /\ exit = None /\ raised = None
      /\ sink # "open" /\ Command!ToSet(written) \subseteq Command!Named
      /\ written \in Seq(Command!Exports) /\ Command!ExitTells
      /\ Command!ArgumentsAreValid /\ Command!ControlsTakeEffect /\ ArgsTyped
      /\ UNCHANGED <<args, status, cursor, pauses, failure, raised, sink, summary, disclosed>>
  BY DEF CommandInv, Command!Export, Opened
<1>2. ArgsTyped' /\ Command!ArgumentsAreValid' /\ Command!ControlsTakeEffect' /\ Leaving'
      /\ Command!Named' = Command!Named
  BY <1>1 DEF ArgsTyped, Command!ArgumentsAreValid, Command!TerminalAfter,
              Command!ControlsTakeEffect, Leaving, Summed, Command!Named, Command!HasResult
<1>3. PICK i \in Command!Pending :
         /\ \A j \in Command!Pending : i <= j
         /\ \/ written' = Append(written, Command!Order[i]) /\ UNCHANGED <<cliPc, exit>>
            \/ /\ \E code \in Command!ErrorCodes \cup {Command!Interrupted} : Command!Exit(code)
               /\ UNCHANGED written
  BY DEF Command!Export
<1>4. /\ i \in {1, 2, 3} /\ Command!Order[i] \in Command!Named
      /\ Command!Order[i] \in Command!Exports
  BY <1>3, CommandFacts DEF Command!Pending, Command!Named
<1>5. CASE written' = Append(written, Command!Order[i]) /\ UNCHANGED <<cliPc, exit>>
  <2>1. Command!ToSet(written') = Command!ToSet(written) \cup {Command!Order[i]}
    BY <1>1, <1>4, <1>5 DEF Command!ToSet
  <2>2. written' \in Seq(Command!Exports)
    BY <1>1, <1>4, <1>5
  <2>3. Command!ToSet(written') \subseteq Command!Named'
    BY <1>1, <1>2, <1>4, <2>1
  <2>4. Command!ToSet(written') \subseteq args.exports
    BY <1>2, <2>3 DEF Command!Named
  <2>5. Command!TypeOK'
    BY <1>1, <1>5, <2>4 DEF Command!TypeOK
  <2>6. exit' # 0 /\ exit' # 2
    BY <1>1, <1>5, CommandFacts
  <2>7. ASSUME args.command = "paper", "json" \in Command!ToSet(written')
        PROVE  Command!Named \subseteq Command!ToSet(written')
    <3>1. CASE "json" \in Command!ToSet(written)
      BY <1>1, <2>1, <2>7, <3>1 DEF Command!ExitTells
    <3>2. CASE "json" \notin Command!ToSet(written)
      <4>1. Command!Order = <<"equity", "trades", "json">>
        BY <2>7 DEF Command!Order
      <4>2. Command!Order[i] = "json"
        BY <2>1, <2>7, <3>2
      <4>3. i = 3
        BY <1>4, <4>1, <4>2
      <4>4. 1 \notin Command!Pending /\ 2 \notin Command!Pending
        BY <1>3, <4>3
      <4>5. /\ "equity" \in Command!Named => "equity" \in Command!ToSet(written)
            /\ "trades" \in Command!Named => "trades" \in Command!ToSet(written)
        BY <4>1, <4>4, CommandFacts DEF Command!Pending, Command!Named
      <4>6. Command!Named \subseteq {"equity", "trades", "json"}
        BY <1>1 DEF Command!Named, ArgsTyped, Command!Exports, Command!ResultExports
      <4> QED
        BY <2>1, <4>2, <4>5, <4>6
    <3> QED
      BY <3>1, <3>2
  <2>8. Command!ExitTells'
    BY <1>1, <1>2, <2>6, <2>7 DEF Command!ExitTells
  <2> QED
    BY <1>1, <1>2, <1>5, <2>2, <2>3, <2>5, <2>8 DEF CommandInv, Opened
<1>6. CASE /\ \E code \in Command!ErrorCodes \cup {Command!Interrupted} : Command!Exit(code)
           /\ UNCHANGED written
  <2>1. /\ cliPc' = "exited" /\ exit' \in Command!ErrorCodes \cup {Command!Interrupted}
        /\ written' = written
    BY <1>6 DEF Command!Exit
  <2>2. Command!Pending' = Command!Pending
    BY <1>1, <2>1
    DEF Command!Pending, Command!Order, Command!HasResult, Command!ResultExports, Command!ToSet
  <2>3. exit' # 0
    BY <2>1 DEF Command!ErrorCodes, Command!Interrupted
  <2>4. Command!ExitTells'
    BY <1>1, <1>2, <1>3, <2>1, <2>2, <2>3 DEF Command!ExitTells
  <2>5. Command!TypeOK'
    BY <1>1, <2>1 DEF Command!TypeOK
  <2> QED
    BY <1>1, <1>2, <2>1, <2>4, <2>5 DEF CommandInv, Opened
<1> QED
  BY <1>3, <1>5, <1>6

LEMMA FinishKeeps == CommandInv /\ Command!Finish => CommandInv'
<1> SUFFICES ASSUME CommandInv, Command!Finish PROVE CommandInv'
  OBVIOUS
<1>1. /\ cliPc = "exporting" /\ Leaving /\ Command!TypeOK /\ exit = None /\ raised = None
      /\ sink # "open" /\ Command!ToSet(written) \subseteq Command!Named
      /\ written \in Seq(Command!Exports) /\ Command!ExitTells /\ failure \in BOOLEAN
      /\ Command!ControlsTakeEffect /\ ArgsTyped
      /\ cliPc' = "exited" /\ exit' = (IF failure THEN 2 ELSE 0) /\ Command!Pending = {}
      /\ UNCHANGED <<args, status, cursor, pauses, failure, raised, sink, summary, disclosed,
                     written>>
  BY DEF CommandInv, Command!Finish, Command!Exit, Opened
<1>2. ArgsTyped' /\ Command!ControlsTakeEffect' /\ Command!Named' = Command!Named
      /\ Command!ToSet(written') = Command!ToSet(written)
  BY <1>1 DEF ArgsTyped, Command!ControlsTakeEffect, Command!Named, Command!HasResult,
              Command!ToSet
<1>3. Command!TypeOK'
  BY <1>1, <1>2 DEF Command!TypeOK, Command!ErrorCodes
\* Nothing that has its data is left to be written.
<1>4. Command!Named \subseteq Command!ToSet(written)
  <2> SUFFICES ASSUME NEW e \in Command!Named PROVE e \in Command!ToSet(written)
    OBVIOUS
  <2>1. e \in Command!Exports
    BY <1>1 DEF Command!Named, ArgsTyped
  <2>2. PICK i \in DOMAIN Command!Order : Command!Order[i] = e
    BY <2>1, CommandFacts
  <2> QED
    BY <1>1, <2>2 DEF Command!Pending, Command!Named
<1>5. ~failure => Command!Named = args.exports
  <2>1. ~failure => summary.bars > 0 \/ args.exports \cap Command!ResultExports = {}
    BY <1>1, CommandFacts DEF Leaving, Summed
  <2> QED
    BY <2>1 DEF Command!Named, Command!HasResult
<1>6. Command!ExitTells'
  <2>1. Command!Named = Command!ToSet(written)
    BY <1>1, <1>4
  <2>2. exit' = 0 => ~failure' /\ Command!ToSet(written') = args'.exports
    BY <1>1, <1>2, <1>5, <2>1
  <2> QED
    BY <1>2, <2>1, <2>2 DEF Command!ExitTells
<1> QED
  BY <1>1, <1>2, <1>3, <1>6 DEF CommandInv, Opened

LEMMA CommandStep == CommandInv /\ [Command!Next]_cliVars => CommandInv'
<1>1. CommandInv /\ UNCHANGED cliVars => CommandInv'
  <2> SUFFICES ASSUME CommandInv, UNCHANGED cliVars PROVE CommandInv'
    OBVIOUS
  <2>1. Command!TypeOK' /\ Command!ControlsTakeEffect' /\ Command!ArgumentsAreValid' = Command!ArgumentsAreValid
    BY DEF CommandInv, cliVars, Command!TypeOK, Command!ToSet, Command!ControlsTakeEffect,
           Command!ArgumentsAreValid, Command!TerminalAfter
  <2>2. Command!ExitTells' /\ Command!Named' = Command!Named
    BY DEF CommandInv, cliVars, Command!ExitTells, Command!Named, Command!ToSet,
           Command!Pending, Command!Order, Command!HasResult
  <2> QED
    BY <2>1, <2>2 DEF CommandInv, cliVars, ArgsTyped, Untouched, Opened, Looping, Leaving,
                      Summed, Command!ToSet
<1> QED
  BY <1>1, RefuseKeeps, OpenKeeps, TurnKeeps, InterruptKeeps, CloseKeeps, ExportKeeps,
     FinishKeeps DEF Command!Next

(***************************************************************************)
(* Whatever controls and exports are asked for, and wherever a replay      *)
(* fails, halts or is interrupted, no control that was accepted is passed  *)
(* over and the exit code tells what was done (cli.py).                    *)
(***************************************************************************)
THEOREM CommandsAreHonest == AllSpec => []CommandIsHonest
<1> DEFINE Inv == part = "command" => CommandInv
<1>1. AllInit => Inv
  BY CommandInit DEF AllInit
<1>2. Inv /\ [AllNext]_all => Inv'
  <2> SUFFICES ASSUME Inv, [AllNext]_all, part' = "command" PROVE CommandInv'
    OBVIOUS
  <2>1. part = "command"
    BY DEF AllNext, all
  <2>2. Command!Next \/ UNCHANGED cliVars
    BY <2>1 DEF AllNext, all
  <2> QED
    BY <2>1, <2>2, CommandStep
<1>3. Inv => CommandIsHonest
  BY DEF CommandInv, CommandIsHonest
<1> QED
  BY <1>1, <1>2, <1>3, PTL DEF AllSpec

-----------------------------------------------------------------------------
(***************************************************************************)
(* The source of the parity fixture.                                       *)
(***************************************************************************)
\* The lines accepted so far are the first ones of the fixture, and nothing was
\* accepted before the source was validated.
SourceInv ==
    /\ Source!TypeOK
    /\ Len(received) \in 0 .. NumRows
    /\ received = [i \in 1 .. Len(received) |-> Source!True(i)]
    /\ fixturePc = "new" => selection = "none"
    /\ fixturePc = "ended" => Len(received) = NumRows

\* The fixture has the rows of the contract and no others.
LEMMA FixtureRows ==
    /\ NumRows \in Nat \ {0}
    /\ Source!Fixture \in Seq({Source!True(i) : i \in 1 .. NumRows})
    /\ Len(Source!Fixture) = NumRows /\ DOMAIN Source!Fixture = 1 .. NumRows
    /\ \A i \in 1 .. NumRows : Source!Fixture[i] = Source!True(i)
    /\ Source!Fixture \in Source!Contents
<1>1. NumRows \in Nat \ {0}
  BY FilesAssumption DEF Source!SourceAssumption
<1>2. Source!Fixture \in Source!Contents
  BY DEF Source!Contents
<1> QED
  BY <1>1, <1>2 DEF Source!Fixture

LEMMA SourceInit == Source!Init => SourceInv
BY FixtureRows, FilesAssumption
DEF Source!Init, SourceInv, Source!TypeOK, Source!SourceAssumption

LEMMA RowAccepted ==
    ASSUME SourceInv, Source!ReadRow
    PROVE  SourceInv'
<1>1. /\ fixturePc = "reading" /\ selection \in Source!Sources /\ expected = Source!Fixture
      /\ selection # "none"
  BY DEF Source!ReadRow, SourceInv, Source!TypeOK, Source!Sources
<1>2. UNCHANGED <<sources, selection, expected, changes>>
  BY DEF Source!ReadRow
<1>3. CASE received' = received /\ fixturePc' \in {"reading", "raised"}
  BY <1>1, <1>2, <1>3 DEF SourceInv, Source!TypeOK
<1>4. CASE /\ Source!Expects(Source!Lines[line])
           /\ Len(received) # NumRows
           /\ Source!Lines[line].session = Len(received) + 1
           /\ received' = Append(received, Source!Lines[line]) /\ fixturePc' = fixturePc
  <2>1. PICK i \in 1 .. NumRows : Source!Lines[line] = Source!True(i)
    BY <1>1, <1>4, FixtureRows DEF Source!Expects
  <2>2. i = Len(received) + 1
    BY <1>4, <2>1 DEF Source!True
  <2>3. received' = [j \in 1 .. Len(received) + 1 |-> Source!True(j)]
    BY <1>4, <2>1, <2>2 DEF SourceInv
  <2>4. Len(received') = Len(received) + 1 /\ Len(received') \in 0 .. NumRows
    <3>1. Len(received) \in 0 .. NumRows /\ NumRows \in Nat
      BY FixtureRows DEF SourceInv
    <3>2. Len(received') = Len(received) + 1
      BY <2>3, <3>1
    <3> QED
      BY <1>4, <3>1, <3>2
  <2> QED
    BY <1>1, <1>2, <1>4, <2>3, <2>4 DEF SourceInv, Source!TypeOK
<1> QED
  BY <1>1, <1>3, <1>4 DEF Source!ReadRow

LEMMA SourceStep == SourceInv /\ [Source!Next]_fixtureVars => SourceInv'
<1> SUFFICES ASSUME SourceInv, [Source!Next]_fixtureVars PROVE SourceInv'
  OBVIOUS
<1>1. ASSUME NEW transport, NEW keyGiven, Source!Initialize(transport, keyGiven)
      PROVE  SourceInv'
  <2>1. /\ fixturePc = "new" /\ selection = "none" /\ received = <<>>
        /\ UNCHANGED <<sources, line, received, changes>>
    BY <1>1 DEF Source!Initialize, SourceInv, Source!TypeOK
  <2>2. CASE fixturePc' = "raised" /\ selection' = selection /\ expected' = expected
    BY <2>1, <2>2 DEF SourceInv, Source!TypeOK
  <2>3. CASE /\ Source!Resolved(transport, keyGiven)
             /\ Source!Accepted(sources[transport])
             /\ fixturePc' = "reading" /\ selection' = transport
             /\ expected' = sources[transport]
    BY <2>1, <2>3 DEF SourceInv, Source!TypeOK, Source!Resolved, Source!Accepted, Source!Sources
  <2> QED
    BY <1>1, <2>2, <2>3 DEF Source!Initialize
<1>2. ASSUME NEW source \in Source!Sources, NEW payload \in Source!Contents,
             Source!Replace(source, payload)
      PROVE  SourceInv'
  <2>1. sources' \in [Source!Sources -> Source!Contents]
    BY <1>2 DEF Source!Replace, SourceInv, Source!TypeOK
  <2>2. changes' \in 0 .. MaxChanges
    <3>0. MaxChanges \in Nat
      BY FilesAssumption DEF Source!SourceAssumption
    <3>1. changes \in 0 .. MaxChanges
      BY DEF SourceInv, Source!TypeOK
    <3>2. changes < MaxChanges /\ changes' = changes + 1
      BY <1>2 DEF Source!Replace
    <3> QED
      BY <3>0, <3>1, <3>2
  <2> QED
    BY <1>2, <2>1, <2>2 DEF Source!Replace, SourceInv, Source!TypeOK
<1>3. CASE Source!ReadRow
  BY <1>3, RowAccepted
<1>4. CASE Source!End
  BY <1>4 DEF Source!End, SourceInv, Source!TypeOK
<1>5. CASE UNCHANGED fixtureVars
  BY <1>5 DEF fixtureVars, SourceInv, Source!TypeOK
<1> QED
  BY <1>1, <1>2, <1>3, <1>4, <1>5 DEF Source!Next

LEMMA SourceHolds == SourceInv => Source!TypeOK /\ Source!OnlyTheFixture
<1> SUFFICES ASSUME SourceInv PROVE Source!OnlyTheFixture
  BY DEF SourceInv
<1>1. Len(received) \in 0 .. NumRows /\ received = [i \in 1 .. Len(received) |-> Source!True(i)]
  BY DEF SourceInv
<1>2. received = SubSeq(Source!Fixture, 1, Len(received))
  <2>1. SubSeq(Source!Fixture, 1, Len(received))
           = [i \in 1 .. Len(received) |-> Source!Fixture[i]]
    BY <1>1, FixtureRows
  <2> QED
    BY <1>1, <2>1, FixtureRows
<1>3. fixturePc = "ended" => received = Source!Fixture
  BY <1>1, FixtureRows DEF SourceInv, Source!Fixture
<1> QED
  BY <1>2, <1>3 DEF Source!OnlyTheFixture

THEOREM FixtureIsTheContracts == AllSpec => []OnlyTheFixture
<1> DEFINE Inv == part = "fixture" => SourceInv
<1>1. AllInit => Inv
  BY SourceInit DEF AllInit
<1>2. Inv /\ [AllNext]_all => Inv'
  BY SourceStep DEF AllNext, all
<1>3. Inv => OnlyTheFixture
  BY SourceHolds DEF OnlyTheFixture
<1> QED
  BY <1>1, <1>2, <1>3, PTL DEF AllSpec
=============================================================================
