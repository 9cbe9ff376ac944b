--------------------------- MODULE FixtureSource ---------------------------
(***************************************************************************)
(* Where ParityFixtureV1 takes its rows from: one of two sources, chosen   *)
(* by two parameters, is read and validated whole before LEAN subscribes;  *)
(* LEAN then opens the same source again and hands each line to the        *)
(* reader.  Whoever owns the staged file or the Object Store may change it *)
(* between the two, or while LEAN reads.                                   *)
(*                                                                         *)
(* A line is a session with the values that belong to it, or Forged ones;  *)
(* a source is a sequence of lines, or Missing.  LEAN may go on with the   *)
(* next line after the reader has refused one.                             *)
(***************************************************************************)
EXTENDS Integers, Sequences

CONSTANTS NumRows, Forged, Missing, MaxChanges

\* What the parameters have to be.
SourceAssumption == NumRows \in Nat \ {0} /\ MaxChanges \in Nat

Sources == {"local-file", "object-store"}

VARIABLES pc,        \* "new", "reading", "raised" or "ended"
          content,   \* what each source holds
          selection, \* the source resolve_transport chose
          expected,  \* the lines configure was given
          next,      \* the line LEAN reads next
          received,  \* the lines on_data has accepted
          changes

vars == <<pc, content, selection, expected, next, received, changes>>

True(session)   == [session |-> session, values |-> session]
Spoilt(session) == [session |-> session, values |-> Forged]
Fixture == [i \in 1 .. NumRows |-> True(i)]

\* The fixture with a line spoilt, dropped, repeated or swapped with the next.
Contents ==
    {Missing, Fixture}
    \cup {[Fixture EXCEPT ![i] = Spoilt(i)] : i \in 1 .. NumRows}
    \cup {SubSeq(Fixture, 1, i - 1) \o SubSeq(Fixture, i + 1, NumRows) : i \in 1 .. NumRows}
    \cup {SubSeq(Fixture, 1, i) \o SubSeq(Fixture, i, NumRows) : i \in 1 .. NumRows}
    \cup {[Fixture EXCEPT ![i] = True(i + 1), ![i + 1] = True(i)] : i \in 1 .. NumRows - 1}

Init ==
    /\ pc = "new" /\ content \in [Sources -> Contents]
    /\ selection = "none" /\ expected = <<>> /\ next = 1 /\ received = <<>> /\ changes = 0

\* parse_fixture_bytes: the digest of the fixture has one preimage; what is
\* checked after it holds of the fixture.
Accepted(payload) == payload = Fixture

\* resolve_transport: the key is the fixed one exactly when the store is used.
Resolved(transport, keyGiven) ==
    transport \in Sources /\ (keyGiven <=> transport = "object-store")

\* read_fixture_source: there is no other source to fall back to.
Readable(transport) == content[transport] # Missing

\* initialize
Initialize(transport, keyGiven) ==
    /\ pc = "new"
    /\ IF /\ Resolved(transport, keyGiven)
          /\ Readable(transport)
          /\ Accepted(content[transport])
         THEN /\ pc' = "reading" /\ selection' = transport
              /\ expected' = content[transport]
         ELSE pc' = "raised" /\ UNCHANGED <<selection, expected>>
    /\ UNCHANGED <<content, next, received, changes>>

\* The owner of a source puts something else there.
Replace(source, payload) ==
    /\ changes < MaxChanges /\ pc \in {"new", "reading"}
    /\ payload # content[source]
    /\ content' = [content EXCEPT ![source] = payload]
    /\ changes' = changes + 1
    /\ UNCHANGED <<pc, selection, expected, next, received>>

\* What LEAN finds when it opens the selected source.
Lines == IF content[selection] = Missing THEN <<>> ELSE content[selection]

\* A mutant of Expects: the reader accepts what parses.
ExpectsAny(line) == TRUE

\* reader: the line must be the prevalidated one of its session.
Expects(line) == \E i \in DOMAIN expected : expected[i] = line

\* reader, then on_data, which must be given the next session.
ReadRow ==
    /\ pc = "reading" /\ next <= Len(Lines) /\ next' = next + 1
    /\ IF ~Expects(Lines[next])
         THEN pc' \in {"reading", "raised"} /\ UNCHANGED received
         ELSE IF \/ Len(received) = NumRows
                 \/ Lines[next].session # Len(received) + 1
           THEN pc' = "raised" /\ UNCHANGED received
           ELSE received' = Append(received, Lines[next]) /\ UNCHANGED pc
    /\ UNCHANGED <<content, selection, expected, changes>>

\* on_end_of_algorithm: a trace needs every row.
End ==
    /\ pc = "reading" /\ next > Len(Lines)
    /\ pc' = IF Len(received) = NumRows THEN "ended" ELSE "raised"
    /\ UNCHANGED <<content, selection, expected, next, received, changes>>

Next ==
    \/ \E transport \in Sources \cup {"other"}, keyGiven \in BOOLEAN :
          Initialize(transport, keyGiven)
    \/ \E source \in Sources, payload \in Contents : Replace(source, payload)
    \/ ReadRow
    \/ End

Spec == Init /\ [][Next]_vars

-----------------------------------------------------------------------------
(***************************************************************************)
(* Types, and no source is read before one was selected and validated.     *)
(***************************************************************************)
TypeOK ==
    /\ pc \in {"new", "reading", "raised", "ended"}
    /\ content \in [Sources -> Contents] /\ changes \in 0 .. MaxChanges
    /\ pc \in {"reading", "ended"} => selection \in Sources /\ expected = Fixture
    /\ selection = "none" => received = <<>>

(***************************************************************************)
(* However the source changes after it was validated, on_data only ever    *)
(* sees rows of the contract's fixture, in order; and a trace is built     *)
(* from all of them.                                                       *)
(***************************************************************************)
OnlyTheFixture ==
    /\ received = SubSeq(Fixture, 1, Len(received))
    /\ pc = "ended" => received = Fixture
=============================================================================
