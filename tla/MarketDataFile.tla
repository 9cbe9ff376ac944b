--------------------------- MODULE MarketDataFile ---------------------------
(***************************************************************************)
(* load_market_data_csv: the rows of a file become bars one at a time,     *)
(* then the whole sequence is checked for its order and its gaps.  What it *)
(* returns goes to validate_simulation_bars before anything is simulated.  *)
(*                                                                         *)
(* Time is counted in half seconds, so that a gap can fall between two     *)
(* whole ones; a row has the time on its own clock and that clock's offset *)
(* from UTC.  A row's OHLC cells that are all well formed but contradict   *)
(* one another are `torn'; the content hash of the metadata is left out.   *)
(***************************************************************************)
EXTENDS Integers, Sequences, FiniteSets

CONSTANTS
    Clocks,         \* what the rows' clocks may show: [local, offset]
    Symbols,        \* the symbols in the file, upper case
    MaxGap,         \* max_gap_seconds, or Absent
    Absent,
    MaxRows         \* bound: rows in a file

\* What the parameters have to be.
MarketDataFileAssumption ==
    /\ \A clock \in Clocks : clock.local \in Int /\ clock.offset \in Int
    /\ Symbols # {}
    /\ MaxGap = Absent \/ MaxGap \in Nat \ {0}
    /\ MaxRows \in Nat

VARIABLES
    config,     \* expected, gap_policy and missing_volume_policy
    openColumn, \* the header has an open column
    file,       \* the rows read so far
    bars,
    missingVolumeSeen,
    outcome,    \* "reading", "refused" or "loaded"
    warnings

vars == <<config, openColumn, file, bars, missingVolumeSeen, outcome, warnings>>

Rows == [clock : Clocks, symbol : Symbols, open : {"price", "empty"},
         volume : {"number", "empty"}, torn : BOOLEAN]

\* A mutant of Instant: the offset of the clock is dropped.
OwnTime(row) == row.clock.local

\* normalize_timestamp_utc.
Instant(row) == row.clock.local - row.clock.offset

Parsed(row) == [timestamp |-> Instant(row), symbol |-> row.symbol,
                open |-> IF openColumn THEN row.open ELSE "absent"]

RowRefused(row) ==
    \/ openColumn /\ row.open = "empty"
    \/ row.torn
    \/ config.expected \notin {Absent, row.symbol}
    \/ config.missing_volume_policy = "reject" /\ row.volume = "empty"

\* Seconds between a bar and the one before, cut to a whole number.
GapSeconds(number) == (bars[number].timestamp - bars[number - 1].timestamp) \div 2

\* The bars that end a large gap.
LargeGaps ==
    {number \in 2 .. Len(bars) : MaxGap # Absent /\ GapSeconds(number) > MaxGap}

TimelineRefused ==
    \/ Cardinality({bars[number].symbol : number \in DOMAIN bars}) # 1
    \/ \E number \in 2 .. Len(bars) : bars[number].timestamp <= bars[number - 1].timestamp
    \/ config.gap_policy = "reject" /\ LargeGaps # {}

GapWarnings ==
    LET upTo[number \in 0 .. Len(bars)] ==
            IF number = 0 THEN <<>>
            ELSE IF number \in LargeGaps
                 THEN Append(upTo[number - 1],
                             [code |-> "large_time_gap", timestamp |-> bars[number].timestamp])
                 ELSE upTo[number - 1]
    IN  upTo[Len(bars)]

VolumeWarning ==
    IF missingVolumeSeen /\ config.missing_volume_policy = "warn"
    THEN <<[code |-> "missing_volume", timestamp |-> Absent]>> ELSE <<>>

-----------------------------------------------------------------------------
\* load_price_bars_csv is the member with "allow" and "reject".
Configs == [expected : Symbols \union {Absent}, gap_policy : {"warn", "reject"},
            missing_volume_policy : {"allow", "warn", "reject"}]

Init ==
    /\ config \in Configs
    /\ openColumn \in BOOLEAN
    /\ file = <<>>
    /\ bars = <<>>
    /\ missingVolumeSeen = FALSE
    /\ outcome = "reading"
    /\ warnings = <<>>

ReadRow(row) ==
    /\ outcome = "reading"
    /\ Len(file) < MaxRows
    /\ file' = Append(file, row)
    /\ IF RowRefused(row)
       THEN /\ outcome' = "refused"
            /\ UNCHANGED <<bars, missingVolumeSeen>>
       ELSE /\ bars' = Append(bars, Parsed(row))
            /\ missingVolumeSeen' = (missingVolumeSeen \/ row.volume = "empty")
            /\ UNCHANGED outcome
    /\ UNCHANGED <<config, openColumn, warnings>>

EndOfFile ==
    /\ outcome = "reading"
    /\ IF bars = <<>> \/ TimelineRefused
       THEN outcome' = "refused" /\ UNCHANGED warnings
       ELSE outcome' = "loaded" /\ warnings' = GapWarnings \o VolumeWarning
    /\ UNCHANGED <<config, openColumn, file, bars, missingVolumeSeen>>

Next == (\E row \in Rows : ReadRow(row)) \/ EndOfFile

Spec == Init /\ [][Next]_vars

\* What the engine is told about the bars it is given.
metadata == [symbol |-> bars[1].symbol, row_count |-> Len(bars),
             start |-> bars[1].timestamp, end |-> bars[Len(bars)].timestamp]

\* validate_simulation_bars, given bars and their metadata.
Simulatable(selected) ==
    /\ selected # <<>>
    /\ \A number \in DOMAIN selected :
          /\ selected[number].open \notin {"absent", "empty"}
          /\ selected[number].symbol = selected[1].symbol
          /\ number > 1 => selected[number].timestamp > selected[number - 1].timestamp
    /\ metadata = [symbol |-> selected[1].symbol, row_count |-> Len(selected),
                   start |-> selected[1].timestamp, end |-> selected[Len(selected)].timestamp]

-----------------------------------------------------------------------------
(***************************************************************************)
(* A loaded file that has an open column passes every check the engine     *)
(* makes before it simulates, one without never does: nothing the loader   *)
(* lets through fails half way.                                            *)
(***************************************************************************)
LoadedIsSimulatable == outcome = "loaded" => (Simulatable(bars) <=> openColumn)

(***************************************************************************)
(* Exactly the files whose every row is well formed and later, in UTC,     *)
(* than all the rows above it are loaded, and nothing is dropped or moved: *)
(* the loader "never sorts input" (csv_data.py:84).                        *)
(***************************************************************************)
LoadedIsTheFile ==
    LET When(i) == file[i].clock.local - file[i].clock.offset
        Ordered == \A i, j \in DOMAIN file : i < j => When(i) < When(j)
        OneSymbol == \E symbol \in Symbols :
                        /\ config.expected \in {Absent, symbol}
                        /\ \A i \in DOMAIN file : file[i].symbol = symbol
    IN  /\ outcome = "loaded" =>
              /\ Ordered /\ OneSymbol
              /\ \A i \in DOMAIN file : ~ file[i].torn
              /\ Len(bars) = Len(file)
              /\ \A i \in DOMAIN file : bars[i].timestamp = When(i)
        /\ outcome = "refused" =>
              \/ file = <<>> \/ ~ Ordered \/ ~ OneSymbol
              \/ config.gap_policy = "reject"
              \/ \E i \in DOMAIN file :
                    \/ file[i].torn
                    \/ openColumn /\ file[i].open = "empty"
                    \/ config.missing_volume_policy = "reject" /\ file[i].volume = "empty"

(***************************************************************************)
(* Whole seconds are compared, so a gap less than a second over the limit  *)
(* may stay silent; a longer one never does, and none within the limit is  *)
(* reported.  A file loaded where gaps are refused has none to report.     *)
(***************************************************************************)
GapsAreReported ==
    outcome = "loaded" /\ MaxGap # Absent =>
        \A i \in 2 .. Len(bars) :
            LET halves == bars[i].timestamp - bars[i - 1].timestamp
                reported == \E n \in DOMAIN warnings :
                                /\ warnings[n].code = "large_time_gap"
                                /\ warnings[n].timestamp = bars[i].timestamp
            IN  /\ halves >= 2 * (MaxGap + 1) => reported
                /\ halves <= 2 * MaxGap => ~ reported
                /\ reported => config.gap_policy = "warn"
=============================================================================
