--------------------------- MODULE ObservationLog ---------------------------
(***************************************************************************)
(* The log of a fold and its reader (trading_bot_lab.walk_forward.         *)
(* observation).  A console writes the observation behind a prefix, wraps  *)
(* it wherever a line is full, writes other lines before, between and      *)
(* after, and may stop at any time; the reader scans the lines once.  A    *)
(* line is the tokens that the reader tells apart.                         *)
(***************************************************************************)
EXTENDS Integers, Sequences, FiniteSets, SequencesExt

CONSTANTS Payloads,        \* canonical JSON objects, as tokens
          NoiseTexts,      \* what else the log holds
          MaxPayload,      \* MAX_OBSERVATION_PAYLOAD_BYTES
          MaxLine,         \* _MAX_LOG_LINE_BYTES
          MaxLog,          \* _MAX_INPUT_LOG_BYTES
          MaxLines,        \* bound of the log
          None, Refused

\* What the reader tells apart; "prefix" is the prefix where it is not stripped.
Tokens == {"{", "}", "[", "]", "quote", "back", "other", "prefix"}

ASSUME LogAssumption ==
    /\ {MaxPayload, MaxLine, MaxLog, MaxLines} \subseteq Nat
    /\ MaxPayload < MaxLine /\ MaxLine < MaxLog
    /\ None # Refused /\ {None, Refused} \cap (Nat \cup Seq(Tokens)) = {}

VARIABLES log,             \* lines [prefixed, text]
          left,            \* what the console still has to write of an observation
          emitted, torn,   \* the observations begun; whether another line stands in
                           \* one or looks like one
          at,              \* the line the reader reads next; None before it starts
          bytes,           \* what it has read
          selected,        \* the observation it found
          partial,         \* the observation whose lines it is joining
          result

vars == <<log, left, emitted, torn, at, bytes, selected, partial, result>>
written == <<log, left, emitted, torn>>

Init ==
    /\ log = <<>> /\ left = <<>> /\ emitted = <<>> /\ torn = FALSE
    /\ at = None /\ bytes = 0 /\ selected = None /\ partial = None /\ result = None

-----------------------------------------------------------------------------
\* The console (external).
Line(prefixed, text) == [prefixed |-> prefixed, text |-> text]
Writing == at = None /\ Len(log) < MaxLines /\ UNCHANGED <<at, bytes, selected, partial, result>>

Noise(prefixed, text) ==
    /\ Writing /\ log' = Append(log, Line(prefixed, text)) /\ torn' = (torn \/ prefixed \/ left # <<>>)
    /\ UNCHANGED <<left, emitted>>

Piece(payload, k, prefixed) ==
    /\ log' = Append(log, Line(prefixed, SubSeq(payload, 1, k))) /\ left' = SubSeq(payload, k + 1, Len(payload))
Emit(payload, k) ==
    /\ Writing /\ Piece(payload, k, TRUE)
    /\ emitted' = Append(emitted, payload) /\ torn' = (torn \/ left # <<>>)
Wrap(k) ==
    /\ Writing /\ k \in 1 .. Len(left) /\ Piece(left, k, FALSE) /\ UNCHANGED <<emitted, torn>>

\* A blank line harms nothing: it is skipped, or joined as no token at all.
Blank == Writing /\ log' = Append(log, Line(FALSE, <<>>)) /\ UNCHANGED <<left, emitted, torn>>

-----------------------------------------------------------------------------
\* The reader.
Size(line) == Len(line.text) + (IF line.prefixed THEN 1 ELSE 0)
Oversize(line) == Size(line) > MaxLine

\* _json_object_is_complete: the first object is closed, not counting what
\* stands in a string.
Escaped(text, k) == Cardinality({j \in 1 .. k - 1 : \A i \in j .. k - 1 : text[i] = "back"}) % 2 = 1
InString(text, k) == Cardinality({j \in 1 .. k - 1 : text[j] = "quote" /\ ~Escaped(text, j)}) % 2 = 1
Outside(text, k) == ~InString(text, k)
Opened(text, k) == {j \in 1 .. k : text[j] \in {"{", "["} /\ Outside(text, j)}
Closed(text, k) == {j \in 1 .. k : text[j] \in {"}", "]"} /\ Outside(text, j)}
Complete(text) ==
    \/ text = <<>> \/ text[1] # "{"
    \/ \E k \in Closed(text, Len(text)) : Cardinality(Opened(text, k)) <= Cardinality(Closed(text, k))

Reading == at # None /\ result = None
Stop(r) == result' = r /\ UNCHANGED <<written, at, bytes, selected, partial>>
Raise == Stop(Refused)
Advance(sel, par) == at' = at + 1 /\ bytes' = bytes + Size(log[at]) /\ selected' = sel /\ partial' = par
                   /\ UNCHANGED <<written, result>>

BeginReading == at = None /\ at' = 1 /\ UNCHANGED <<written, bytes, selected, partial, result>>

Overflows == at <= Len(log) /\ bytes + Size(log[at]) > MaxLog

\* An observation is whole, or its next line has to be joined.
Join(text) ==
    IF Len(text) > MaxPayload THEN Raise
    ELSE IF Complete(text) THEN Advance(text, None) ELSE Advance(selected, text)

\* _read_single_payload, outside an observation.
Skip == ~log[at].prefixed /\ Advance(selected, None)
TooLong == log[at].prefixed /\ Oversize(log[at]) /\ Raise
\* (A mutant of Second: a second observation is ignored.)
SecondIgnored ==
    /\ log[at].prefixed /\ ~Oversize(log[at]) /\ (selected # None \/ log[at].text = <<>>)
    /\ Advance(selected, None)
Second == log[at].prefixed /\ ~Oversize(log[at]) /\ (selected # None \/ log[at].text = <<>>) /\ Raise
First == log[at].prefixed /\ ~Oversize(log[at]) /\ selected = None /\ log[at].text # <<>> /\ Join(log[at].text)

\* _read_wrapped_payload: the next line, with all it holds, belongs to it.
Continue == Join(partial \o (IF log[at].prefixed THEN <<"prefix">> ELSE <<>>) \o log[at].text)

\* _decode_canonical_payload: only the canonical text of an observation passes.
Decode(text) == IF text \in Payloads THEN text ELSE Refused
EndOfLog ==
    IF partial # None THEN Stop(Decode(partial))
    ELSE IF selected = None THEN Raise ELSE Stop(Decode(selected))

ReadLine ==
    /\ Reading
    /\ IF at > Len(log) THEN EndOfLog
       ELSE IF Overflows THEN Raise
       ELSE IF partial # None THEN Continue
       ELSE Skip \/ TooLong \/ Second \/ First

Done == result # None /\ UNCHANGED vars

\* What the texts have to be.  An observation is one JSON object, closed by its
\* last token, that fits and does not hold the prefix; what else stands in a log,
\* but for blank lines, does not go on as an observation would where one is
\* wrapped, or begin as one.
PayloadAssumption ==
    \A p \in Payloads :
        /\ p \in Seq(Tokens) /\ p # <<>> /\ Len(p) <= MaxPayload
        /\ \A k \in 1 .. Len(p) : p[k] # "prefix" /\ (Complete(SubSeq(p, 1, k)) <=> k = Len(p))
NoiseAssumption ==
    /\ NoiseTexts \subseteq Seq(Tokens)
    /\ \A p, q \in Payloads, text \in NoiseTexts : \A k \in 0 .. Len(p) - 1 :
          ~IsPrefix(SubSeq(p, 1, k) \o text, q)

ASSUME TextAssumption == PayloadAssumption /\ NoiseAssumption

Next ==
    \/ BeginReading \/ ReadLine \/ Done \/ Blank
    \/ \E prefixed \in BOOLEAN, text \in NoiseTexts : Noise(prefixed, text)
    \/ \E payload \in Payloads : \E k \in 0 .. Len(payload) : Emit(payload, k)
    \/ \E k \in 1 .. MaxPayload : Wrap(k)
Spec == Init /\ [][Next]_vars

-----------------------------------------------------------------------------
(* Correctness. *)

\* The types of the state (observation.py 613-644).
TypeOK ==
    /\ at \in 1 .. Len(log) + 1 \cup {None} /\ bytes \in 0 .. MaxLog
    /\ result \in Payloads \cup {None, Refused}
    /\ partial # None => Len(partial) <= MaxPayload /\ ~Complete(partial)

\* What is read is what the fold emitted, alone and in one piece: never the
\* pieces of two observations, or of one with other lines among them, and never
\* one of several (observation.py 630-643, 652-662).
ReadIsEmitted == result \notin {None, Refused} => emitted = <<result>> /\ ~torn /\ left = <<>>

\* An observation that was written whole is read, wherever its lines were
\* wrapped, inside a string or before a brace as well, and whatever long lines
\* are around it; only an empty first piece is not (observation.py 621-629,
\* 681-704).
BytesOf(n) == UNION {{i} \X (1 .. Size(log[i])) : i \in 1 .. n}
Total == Cardinality(BytesOf(Len(log)))
Readable ==
    /\ Len(emitted) = 1 /\ ~torn /\ left = <<>> /\ Total <= MaxLog
    /\ \A i \in DOMAIN log : log[i].prefixed => log[i].text # <<>>
WholeIsRead == result = Refused => ~Readable
=============================================================================
