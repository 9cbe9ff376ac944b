------------------------------- MODULE MCFiles -------------------------------
(***************************************************************************)
(* What the program reads, writes and is told, one part at a time:         *)
(*   "writes"   ArtifactWrites: two paper replays into the same reports    *)
(*              and a backtest into one of them;                           *)
(*   "paths"    ArtifactPaths: two reports and a log among five names;     *)
(*   "log"      EventLog: five events, two backups;                        *)
(*   "command"  CommandLine: four bars, any controls and exports;          *)
(*   "csv"      MarketDataFile: three rows on four clocks;                 *)
(*   "fixture"  FixtureSource: three rows, two changes of the source.      *)
(* The variables of a part that is not run are None.                       *)
(***************************************************************************)
EXTENDS ArtifactWrites

CONSTANTS
    Parts,                                      \* the parts to run
    Names, Fold, Input, Backup, NumFiles, MaxFiles,  \* "paths", as in ArtifactPaths
    NumEvents, BackupCount, MaxBytes, Sizes,    \* "log", as in EventLog
    NumBars,                                    \* "command", as in CommandLine
    Clocks, Symbols, MaxGap, MaxRows,           \* "csv", as in MarketDataFile
    NumRows, MaxChanges,                        \* "fixture", as in FixtureSource
    Forged, Absent, None

VARIABLES part,
    chosen, caseBlind, dir, content, pathPc, report,
    logPc, files, size, stream, level, rotated, failed, warned,
    args, cliPc, status, cursor, pauses, failure, raised, sink, summary, disclosed, written, exit,
    config, openColumn, rows, bars, missingVolumeSeen, outcome, warnings,
    fixturePc, sources, selection, expected, line, received, changes

pathVars == <<chosen, caseBlind, dir, content, pathPc, report>>
logVars == <<logPc, files, size, stream, level, rotated, failed, warned>>
cliVars == <<args, cliPc, status, cursor, pauses, failure, raised, sink, summary, disclosed,
             written, exit>>
csvVars == <<config, openColumn, rows, bars, missingVolumeSeen, outcome, warnings>>
fixtureVars == <<fixturePc, sources, selection, expected, line, received, changes>>
all == <<part, vars, pathVars, logVars, cliVars, csvVars, fixtureVars>>

\* _paper_replay writes the manifest last, _backtest its report first.
CommandOrder(command) ==
    IF command = "paper" THEN <<"equity", "trades", "manifest">> ELSE <<"report", "equity">>

ThreeRuns == 1 .. 3
ThreePlans == [r \in ThreeRuns |-> CommandOrder(IF r = 3 THEN "backtest" ELSE "paper")]

FiveNames == {"data", "DATA", "out", "log", "log.1"}
LowerCase == [n \in FiveNames |-> IF n = "DATA" THEN "data" ELSE n]
Rotations == [log |-> "log.1", out |-> "log", data |-> "out"]

\* The second clock shows the first one's instant; the others are 3 and 5
\* half seconds later, and a gap of more than a second is large.
Shows(local, offset) == [local |-> local, offset |-> offset]
FourClocks == {Shows(0, 0), Shows(2, 2), Shows(3, 0), Shows(5, 0)}

Artifacts == INSTANCE ArtifactPaths WITH pc <- pathPc, next <- report
Log == INSTANCE EventLog WITH pc <- logPc
Command == INSTANCE CommandLine WITH pc <- cliPc
Csv == INSTANCE MarketDataFile WITH file <- rows
Source == INSTANCE FixtureSource WITH pc <- fixturePc, content <- sources, next <- line

ASSUME FilesAssumption ==
    /\ Artifacts!PathAssumption
    /\ Log!LogAssumption
    /\ Command!CommandAssumption
    /\ Csv!MarketDataFileAssumption
    /\ Source!SourceAssumption

-----------------------------------------------------------------------------
PathsIdle == chosen = None /\ caseBlind = None /\ dir = None /\ content = None
          /\ pathPc = None /\ report = None
LogIdle == logPc = None /\ files = None /\ size = None /\ stream = None /\ level = None
        /\ rotated = None /\ failed = None /\ warned = None
CommandIdle == args = None /\ cliPc = None /\ status = None /\ cursor = None /\ pauses = None
            /\ failure = None /\ raised = None /\ sink = None /\ summary = None
            /\ disclosed = None /\ written = None /\ exit = None
CsvIdle == config = None /\ openColumn = None /\ rows = None /\ bars = None
        /\ missingVolumeSeen = None /\ outcome = None /\ warnings = None
SourceIdle == fixturePc = None /\ sources = None /\ selection = None /\ expected = None
           /\ line = None /\ received = None /\ changes = None

AllInit ==
    /\ part \in Parts
    /\ Init /\ (part # "writes" => file = [p \in Paths |-> Old])
    /\ IF part = "paths" THEN Artifacts!Init ELSE PathsIdle
    /\ IF part = "log" THEN Log!Init ELSE LogIdle
    /\ IF part = "command" THEN Command!Init ELSE CommandIdle
    /\ IF part = "csv" THEN Csv!Init ELSE CsvIdle
    /\ IF part = "fixture" THEN Source!Init ELSE SourceIdle

AllNext ==
    /\ part' = part
    /\ \/ part = "writes" /\ Next
          /\ UNCHANGED <<pathVars, logVars, cliVars, csvVars, fixtureVars>>
       \/ part = "paths" /\ Artifacts!Next
          /\ UNCHANGED <<vars, logVars, cliVars, csvVars, fixtureVars>>
       \/ part = "log" /\ Log!Next
          /\ UNCHANGED <<vars, pathVars, cliVars, csvVars, fixtureVars>>
       \/ part = "command" /\ Command!Next
          /\ UNCHANGED <<vars, pathVars, logVars, csvVars, fixtureVars>>
       \/ part = "csv" /\ Csv!Next
          /\ UNCHANGED <<vars, pathVars, logVars, cliVars, fixtureVars>>
       \/ part = "fixture" /\ Source!Next
          /\ UNCHANGED <<vars, pathVars, logVars, cliVars, csvVars>>

AllSpec == AllInit /\ [][AllNext]_all

-----------------------------------------------------------------------------
(***************************************************************************)
(* Reports survive: no reader finds part of one, whatever fails and        *)
(* however calls overlap; a manifest is in place only after the files it   *)
(* names; and no path a call accepts makes it lose an artifact to another  *)
(* or write to its input (artifacts.py, cli.py).                           *)
(***************************************************************************)
ArtifactsSurvive ==
    /\ TypeOK /\ NeverTorn /\ ManifestIsLast
    /\ part = "paths" => Artifacts!InputIsUntouched /\ Artifacts!EveryArtifactSurvives

(***************************************************************************)
(* The event log loses nothing in silence: a missing event was rotated out *)
(* of it, the oldest first, or the summary warns (observability.py).       *)
(***************************************************************************)
LogIsHonest ==
    part = "log" =>
        Log!TypeOK /\ Log!LossIsDisclosed /\ Log!OldestLeaveFirst /\ Log!FilesAreBounded

(***************************************************************************)
(* No control that was accepted is passed over, and the exit code tells a  *)
(* call that did all it was asked from one that did not (cli.py).          *)
(***************************************************************************)
CommandIsHonest ==
    part = "command" => Command!TypeOK /\ Command!ControlsTakeEffect /\ Command!ExitTells

(***************************************************************************)
(* A file that is loaded is the file, in its order, with its gaps reported *)
(* and nothing in it that the engine would refuse (csv_data.py).           *)
(***************************************************************************)
LoadedIsTheFile ==
    part = "csv" => Csv!LoadedIsSimulatable /\ Csv!LoadedIsTheFile /\ Csv!GapsAreReported

(***************************************************************************)
(* However the source of the parity fixture changes after it was           *)
(* validated, the algorithm sees the contract's rows and no others         *)
(* (ParityFixtureV1/main.py).                                              *)
(***************************************************************************)
OnlyTheFixture == part = "fixture" => Source!TypeOK /\ Source!OnlyTheFixture
=============================================================================
