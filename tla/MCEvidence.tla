----------------------------- MODULE MCEvidence -----------------------------
(***************************************************************************)
(* The evidence of a walk-forward fold on its three ways into the          *)
(* repository, one of them at a time:                                      *)
(*   "log"       ObservationLog: the line a fold writes, wrapped by the    *)
(*               console among others, and its reader;                     *)
(*   "download"  ResultImport: the file the LEAN cloud offers, with one    *)
(*               thing wrong in it, and its importer;                      *)
(*   "phases"    WalkForwardOperator: the offline phases over the files of *)
(*               two folds.                                                *)
(* A way that is not taken stays as it began.                              *)
(***************************************************************************)
EXTENDS ObservationLog, TLC

CONSTANTS Ways,             \* the ways to take
          FoldNames, Readings, \* the folds and the figures of "phases",
          Phases,              \* those that run side by side,
          Named, ChangeLimit   \* what --output may name and how much is changed

VARIABLES way,
          clock, orders, events, position, equity, download, observation,
          input, files, process, shown, changes

imported == <<clock, orders, events, position, equity, download, observation>>
operated == <<input, files, process, shown, changes>>
all == <<way, vars, imported, operated>>

Import == INSTANCE ResultImport WITH
    MaxOrders <- 2, MaxQuantity <- 2, Days <- 3, Fees <- {33},
    Equities <- {100049007, 100000000}, StartEquity <- 100000000,
    RatioTolerance <- 50000, BoundaryTolerance <- 1

Operator == INSTANCE WalkForwardOperator WITH
    FoldIds <- FoldNames, Figures <- Readings, Processes <- Phases,
    Outputs <- Named, MaxChanges <- ChangeLimit

ASSUME EvidenceAssumption ==
    Import!ImportAssumption /\ Operator!OperatorAssumption

\* An observation with an escaped quote and a brace in a string, and one that
\* is nested; a line of noise, one that could end an object, one too long.
Flat == <<"{", "quote", "back", "quote", "}", "quote", "other", "}">>
Nested == <<"{", "[", "{", "quote", "]", "quote", "}", "]", "}">>
McPayloads == {Flat, Nested}
McFolds == <<"f1", "f2">>
McNoise == {<<"other", "other">>, <<"}", "other">>, [k \in 1 .. 14 |-> "other"]}

Interchangeable == Permutations(Phases)

AllInit == way \in Ways /\ Init /\ Import!Init /\ Operator!Init

AllNext ==
    /\ way' = way
    /\ \/ way = "log" /\ Next /\ UNCHANGED <<imported, operated>>
       \/ way = "download" /\ Import!Next /\ UNCHANGED <<vars, operated>>
       \/ way = "phases" /\ Operator!Next /\ UNCHANGED <<vars, imported>>

AllSpec == AllInit /\ [][AllNext]_all

-----------------------------------------------------------------------------
(***************************************************************************)
(* The reader's answer is the observation the fold emitted, alone and in   *)
(* one piece, and an observation that was written whole is not refused,    *)
(* wherever the console wrapped its lines (observation.py 613-704).        *)
(***************************************************************************)
LogIsRead == TypeOK /\ ReadIsEmitted /\ WholeIsRead

(***************************************************************************)
(* Whatever single record of a downloaded file is lost or doubled, and     *)
(* whichever single value of it is stale: evidence that is accepted has    *)
(* the orders, the position, the fees and the equity of the fold as it     *)
(* traded, and its benchmark spans the fold (result_json.py 525-809).      *)
(***************************************************************************)
AcceptedIsTrue ==
    Import!TypeOK /\ Import!EvidenceIsTrue /\ Import!EquityIsTrue /\ Import!BenchmarkSpansFold

(***************************************************************************)
(* A file with nothing wrong in it is accepted for every fold but the      *)
(* kinds the importer cannot take, however the file lists its orders       *)
(* (result_json.py 762-802).                                               *)
(***************************************************************************)
TruthIsAccepted == Import!TruthIsAccepted /\ Import!TruthIsImported

(***************************************************************************)
(* Shown evidence counts every fold once and sums up the very folds beside *)
(* it, though files are replaced between two reads or edited after they    *)
(* were written, and the order of the paths is free (observation.py        *)
(* 342-358, 425-430; result_json.py 252-264, 354-360).                     *)
(***************************************************************************)
ShownIsDerived == Operator!TypeOK /\ Operator!ShownIsDerived /\ Operator!OrderOfPathsIsFree
=============================================================================
