-------------------------- MODULE Evidence_proofs --------------------------
(***************************************************************************)
(* The evidence of a walk-forward fold, for every value of the constants:  *)
(* what the reader of a log makes of an observation that was wrapped,      *)
(* broken off or followed by another, for any texts, limits and length of  *)
(* log; and what the offline phases show, for any folds, files, number of  *)
(* phases side by side and changes between their steps.                    *)
(***************************************************************************)
EXTENDS MCEvidence, SequenceTheorems, FiniteSetTheorems, TLAPS

-----------------------------------------------------------------------------
(***************************************************************************)
(* Texts and their parts.                                                  *)
(***************************************************************************)
Text == Seq(Tokens)

LEMMA PayloadsAreTexts ==
    ASSUME NEW p \in Payloads
    PROVE  /\ p \in Text /\ Len(p) \in 1 .. MaxPayload /\ MaxPayload \in Nat
           /\ p \notin {None, Refused}
           /\ \A k \in 1 .. Len(p) : p[k] # "prefix" /\ (Complete(SubSeq(p, 1, k)) <=> k = Len(p))
<1>1. p \in Seq(Tokens) /\ p # <<>> /\ Len(p) <= MaxPayload
  BY TextAssumption DEF PayloadAssumption
<1>2. MaxPayload \in Nat /\ p \notin {None, Refused}
  BY <1>1, LogAssumption
<1>3. Len(p) \in 1 .. MaxPayload
  BY <1>1, <1>2
<1> QED
  BY <1>1, <1>2, <1>3, TextAssumption DEF PayloadAssumption, Text

\* The pieces of a text.
LEMMA PiecesOfText ==
    ASSUME NEW p \in Text, NEW m \in 0 .. Len(p), NEW n \in m .. Len(p)
    PROVE  /\ SubSeq(p, m + 1, n) \in Text /\ Len(SubSeq(p, m + 1, n)) = n - m
           /\ \A i \in 1 .. n - m : SubSeq(p, m + 1, n)[i] = p[m + i]
           /\ SubSeq(p, 1, m) \o SubSeq(p, m + 1, n) = SubSeq(p, 1, n)
<1>1. Len(p) \in Nat /\ m \in Nat /\ n \in Nat /\ \A i \in m + 1 .. n : p[i] \in Tokens
  BY DEF Text
<1>2. /\ SubSeq(p, m + 1, n) \in Text
      /\ Len(SubSeq(p, m + 1, n)) = IF m + 1 <= n THEN n - (m + 1) + 1 ELSE 0
      /\ \A i \in 1 .. n - (m + 1) + 1 : SubSeq(p, m + 1, n)[i] = p[(m + 1) + i - 1]
  BY <1>1, SubSeqProperties DEF Text
<1>3. SubSeq(p, 1, m) \o SubSeq(p, m + 1, n) = SubSeq(p, 1, n)
  <2>1. 1 \in 1 .. Len(p) + 1 /\ m \in 1 - 1 .. Len(p)
    BY <1>1
  <2> QED
    BY <2>1, ConcatAdjacentSubSeq DEF Text
<1> QED
  BY <1>1, <1>2, <1>3

\* What is left of a text, and of that.
LEMMA RestOfText ==
    ASSUME NEW p \in Text, NEW m \in 0 .. Len(p), NEW k \in 0 .. Len(p) - m
    PROVE  LET rest == SubSeq(p, m + 1, Len(p))
           IN  /\ rest \in Text /\ Len(rest) = Len(p) - m
               /\ SubSeq(rest, 1, k) = SubSeq(p, m + 1, m + k)
               /\ SubSeq(rest, k + 1, Len(rest)) = SubSeq(p, m + k + 1, Len(p))
<1> DEFINE rest == SubSeq(p, m + 1, Len(p))
           a == SubSeq(rest, 1, k)
           b == SubSeq(p, m + 1, m + k)
           c == SubSeq(rest, k + 1, Len(rest))
           d == SubSeq(p, m + k + 1, Len(p))
<1>1. Len(p) \in Nat /\ m \in Nat /\ k \in Nat /\ m + k \in 0 .. Len(p) /\ Len(p) \in m + k .. Len(p)
      /\ m + k \in m .. Len(p) /\ Len(p) \in m .. Len(p)
  BY DEF Text
<1>2. rest \in Text /\ Len(rest) = Len(p) - m /\ \A i \in 1 .. Len(p) - m : rest[i] = p[m + i]
  BY <1>1, PiecesOfText
<1> HIDE DEF rest
<1>3. k \in 0 .. Len(rest) /\ 0 \in 0 .. Len(rest) /\ k \in 0 .. Len(rest) /\ Len(rest) \in k .. Len(rest)
  BY <1>1, <1>2
<1>4. a \in Text /\ Len(a) = k /\ \A i \in 1 .. k : a[i] = rest[i]
  <2>1. SubSeq(rest, 0 + 1, k) \in Text /\ Len(SubSeq(rest, 0 + 1, k)) = k - 0
        /\ \A i \in 1 .. k - 0 : SubSeq(rest, 0 + 1, k)[i] = rest[0 + i]
    BY <1>2, <1>3, PiecesOfText
  <2>2. 0 + 1 = 1 /\ k - 0 = k /\ \A i \in 1 .. k : 0 + i = i
    BY <1>1
  <2> QED
    BY <2>1, <2>2
<1>5. b \in Text /\ Len(b) = k /\ \A i \in 1 .. k : b[i] = p[m + i]
  <2>1. (m + k) - m = k
    BY <1>1
  <2> QED
    BY <1>1, <2>1, PiecesOfText
<1>6. c \in Text /\ Len(c) = Len(rest) - k /\ \A i \in 1 .. Len(rest) - k : c[i] = rest[k + i]
  BY <1>2, <1>3, PiecesOfText
<1>7. d \in Text /\ Len(d) = Len(p) - (m + k) /\ \A i \in 1 .. Len(p) - (m + k) : d[i] = p[(m + k) + i]
  BY <1>1, PiecesOfText
<1> HIDE DEF a, b, c, d
<1>8. a = b
  <2>1. \A i \in 1 .. k : i \in 1 .. Len(p) - m
    BY <1>1
  <2>2. \A i \in 1 .. Len(a) : a[i] = b[i]
    BY <1>2, <1>4, <1>5, <2>1
  <2> QED
    BY <1>4, <1>5, <2>2, SeqEqual DEF Text
<1>9. c = d
  <2>1. \A i \in 1 .. Len(rest) - k : k + i \in 1 .. Len(p) - m /\ m + (k + i) = (m + k) + i
    BY <1>1, <1>2
  <2>2. Len(rest) - k = Len(p) - (m + k)
    BY <1>1, <1>2
  <2>3. \A i \in 1 .. Len(c) : c[i] = d[i]
    BY <1>2, <1>6, <1>7, <2>1, <2>2
  <2> QED
    BY <1>6, <1>7, <2>2, <2>3, SeqEqual DEF Text
<1> QED
  BY <1>2, <1>8, <1>9 DEF rest, a, b, c, d

\* No observation begins like this.
Spoilt(text) == \A q \in Payloads : ~IsPrefix(text, q)

\* What is spoilt stays so, whatever is joined.
LEMMA SpoiltForGood ==
    ASSUME NEW s \in Text, NEW t \in Text, Spoilt(s)
    PROVE  Spoilt(s \o t)
<1> SUFFICES ASSUME NEW q \in Payloads, IsPrefix(s \o t, q)
             PROVE  IsPrefix(s, q)
  BY DEF Spoilt
<1>1. q \in Text /\ Len(q) \in Nat /\ Len(s) \in Nat /\ Len(t) \in Nat
  BY PayloadsAreTexts DEF Text
<1>2. /\ s \o t \in Text /\ Len(s \o t) = Len(s) + Len(t)
      /\ \A i \in 1 .. Len(s) + Len(t) : (s \o t)[i] = IF i <= Len(s) THEN s[i] ELSE t[i - Len(s)]
  BY ConcatProperties DEF Text
<1> DEFINE st == s \o t
<1> HIDE DEF st
<1>3. Len(st) <= Len(q) /\ SubSeq(st, 1, Len(st)) = SubSeq(q, 1, Len(st))
  BY DEF IsPrefix, st
<1>4. Len(s) <= Len(st) /\ Len(s) <= Len(q) /\ Len(st) \in Nat
  BY <1>1, <1>2, <1>3 DEF st
<1>5. ASSUME NEW u \in Text, NEW n \in Nat, n <= Len(u)
      PROVE  /\ SubSeq(u, 1, n) \in Text /\ Len(SubSeq(u, 1, n)) = n
             /\ \A i \in 1 .. n : SubSeq(u, 1, n)[i] = u[i]
  <2>1. 0 \in 0 .. Len(u) /\ n \in 0 .. Len(u) /\ 0 + 1 = 1 /\ n - 0 = n
        /\ \A i \in 1 .. n : 0 + i = i
    BY <1>5 DEF Text
  <2> QED
    BY <2>1, PiecesOfText
<1>6. \A i \in 1 .. Len(st) : st[i] = q[i]
  BY <1>1, <1>2, <1>3, <1>4, <1>5 DEF st
<1>7. \A i \in 1 .. Len(s) : s[i] = q[i]
  <2>1. \A i \in 1 .. Len(s) : i \in 1 .. Len(st) /\ i \in 1 .. Len(s) + Len(t) /\ i <= Len(s)
    BY <1>1, <1>4
  <2> QED
    BY <1>2, <1>6, <2>1 DEF st
<1>8. SubSeq(s, 1, Len(s)) = SubSeq(q, 1, Len(s))
  <2>1. \A i \in 1 .. Len(s) : SubSeq(s, 1, Len(s))[i] = SubSeq(q, 1, Len(s))[i]
    BY <1>1, <1>4, <1>5, <1>7
  <2>2. Len(SubSeq(s, 1, Len(s))) = Len(s) /\ Len(SubSeq(q, 1, Len(s))) = Len(s)
        /\ SubSeq(s, 1, Len(s)) \in Text /\ SubSeq(q, 1, Len(s)) \in Text
    BY <1>1, <1>4, <1>5
  <2> QED
    BY <2>1, <2>2, SeqEqual DEF Text
<1> QED
  BY <1>4, <1>8 DEF IsPrefix

\* The prefix in the middle of it spoils a text, and so does anything else that is
\* no piece of an observation.
LEMMA PrefixSpoils ==
    ASSUME NEW s \in Text
    PROVE  Spoilt(s \o <<"prefix">>)
<1> SUFFICES ASSUME NEW q \in Payloads, IsPrefix(s \o <<"prefix">>, q)
             PROVE  FALSE
  BY DEF Spoilt
<1> DEFINE n == Len(s) + 1
           st == s \o <<"prefix">>
<1>1. n \in Nat /\ n >= 1 /\ q \in Text /\ Len(q) \in Nat
  BY PayloadsAreTexts DEF Text
<1>2. st \in Text /\ Len(st) = n /\ st[n] = "prefix"
  <2>1. <<"prefix">> \in Seq(Tokens) /\ Len(<<"prefix">>) = 1 /\ <<"prefix">>[1] = "prefix"
    <3>1. <<"prefix">>[1] = "prefix"
      OBVIOUS
    <3>2. Len(<<"prefix">>) = 1
      OBVIOUS
    <3>3. "prefix" \in Tokens
      BY DEF Tokens
    <3>4. \A S : \A x \in S : <<x>> \in Seq(S)
      OBVIOUS
    <3> QED
      BY <3>1, <3>2, <3>3, <3>4
  <2>2. /\ st \in Text /\ Len(st) = Len(s) + 1
        /\ \A i \in 1 .. Len(s) + 1 : st[i] = IF i <= Len(s) THEN s[i] ELSE <<"prefix">>[i - Len(s)]
    BY <2>1, ConcatProperties DEF Text
  <2>3. n \in 1 .. Len(s) + 1 /\ ~(n <= Len(s)) /\ n - Len(s) = 1
    BY DEF Text
  <2> HIDE DEF st
  <2> QED
    BY <2>1, <2>2, <2>3
<1> HIDE DEF st
<1>3. n <= Len(q) /\ SubSeq(st, 1, n) = SubSeq(q, 1, n)
  BY <1>2 DEF IsPrefix, st
<1>4. ASSUME NEW u \in Text, n <= Len(u)
      PROVE  SubSeq(u, 1, n)[n] = u[n]
  <2>1. 0 \in 0 .. Len(u) /\ n \in 0 .. Len(u) /\ 0 + 1 = 1 /\ n \in 1 .. n - 0 /\ 0 + n = n
    BY <1>1, <1>4 DEF Text
  <2> QED
    BY <2>1, PiecesOfText
<1>5. q[n] = "prefix" /\ n \in 1 .. Len(q)
  BY <1>1, <1>2, <1>3, <1>4
<1> QED
  BY <1>5, PayloadsAreTexts

LEMMA NoiseSpoils ==
    ASSUME NEW p \in Payloads, NEW k \in 0 .. Len(p) - 1, NEW text \in NoiseTexts
    PROVE  /\ text \in Text /\ Spoilt(SubSeq(p, 1, k) \o text)
           /\ Spoilt(text)
<1>1. text \in Text
  BY TextAssumption DEF NoiseAssumption, Text
<1>2. \A j \in 0 .. Len(p) - 1 : Spoilt(SubSeq(p, 1, j) \o text)
  BY TextAssumption DEF NoiseAssumption, Spoilt
<1>3. SubSeq(p, 1, 0) \o text = text
  <2>1. SubSeq(p, 1, 0) = <<>>
    BY SubSeqEmpty
  <2> QED
    BY <1>1, <2>1, ConcatEmptySeq DEF Text
<1>4. 0 \in 0 .. Len(p) - 1
  BY PayloadsAreTexts
<1> QED
  BY <1>1, <1>2, <1>3, <1>4

-----------------------------------------------------------------------------
(***************************************************************************)
(* What is written.  The first prefixed line tells the story of the log:   *)
(* it is noise, or the lines from it on are the pieces of one observation, *)
(* which is whole, broken off by another line, or still being written.     *)
(***************************************************************************)
Lines == [prefixed : BOOLEAN, text : Text]

NonePrefixed == \A i \in 1 .. Len(log) : ~log[i].prefixed
IsFirst(a) == a \in 1 .. Len(log) /\ log[a].prefixed /\ \A i \in 1 .. a - 1 : ~log[i].prefixed
Sole(a) == \A i \in 1 .. Len(log) : log[i].prefixed => i = a

\* The lines a .. c are the text p, cut after so many tokens each; blank lines
\* between them hold none, and none comes after the last token.
Pieces(a, c, p, cut) ==
    /\ p \in Payloads /\ c \in a .. Len(log) /\ cut \in [a .. c -> 0 .. Len(p)]
    /\ log[a].text = SubSeq(p, 1, cut[a])
    /\ \A i \in a + 1 .. c : ~log[i].prefixed /\ log[i].text = SubSeq(p, cut[i - 1] + 1, cut[i])
    /\ \A i, j \in a .. c : i < j => cut[i] <= cut[j] /\ cut[i] < Len(p)

Whole(a, c, p, cut) ==
    cut[c] = Len(p) /\ (Sole(a) => emitted = <<p>> /\ left = <<>> /\ ~torn)
Broken(c, p, cut) ==
    /\ cut[c] < Len(p) /\ torn /\ c < Len(log)
    /\ log[c + 1].prefixed \/ log[c + 1].text \in NoiseTexts
Unfinished(c, p, cut) ==
    /\ cut[c] < Len(p) /\ c = Len(log) /\ ~torn
    /\ emitted = <<p>> /\ left = SubSeq(p, cut[c] + 1, Len(p))

Told(a, c, p, cut) ==
    Pieces(a, c, p, cut) /\ (Whole(a, c, p, cut) \/ Broken(c, p, cut) \/ Unfinished(c, p, cut))
Forged(a) == torn /\ log[a].text \in NoiseTexts

Story == \E a : IsFirst(a) /\ (Forged(a) \/ \E c, p, cut : Told(a, c, p, cut))

WrittenInv ==
    /\ log \in Seq(Lines) /\ left \in Text /\ emitted \in Seq(Payloads) /\ torn \in BOOLEAN
    /\ (NonePrefixed /\ emitted = <<>> /\ left = <<>> /\ ~torn) \/ Story
    /\ ~torn /\ Len(emitted) <= 1 =>
          \A i, j \in 1 .. Len(log) : log[i].prefixed /\ log[j].prefixed => i = j
    /\ ~torn /\ emitted = <<>> => NonePrefixed
    /\ IsFiniteSet(BytesOf(Len(log)))

\* One more line leaves the others alone.
LEMMA OneMoreLine ==
    ASSUME log \in Seq(Lines), NEW line \in Lines, log' = Append(log, line)
    PROVE  /\ Len(log) \in Nat /\ log' \in Seq(Lines) /\ Len(log') = Len(log) + 1
           /\ \A i \in 1 .. Len(log) : log'[i] = log[i]
           /\ log'[Len(log) + 1] = line
BY AppendProperties

LEMMA StaysFirst ==
    ASSUME log \in Seq(Lines), NEW line \in Lines, log' = Append(log, line), NEW a
    PROVE  /\ IsFirst(a) => IsFirst(a)'
           /\ IsFirst(a) /\ Sole(a)' => Sole(a) /\ ~line.prefixed
           /\ \A c, p, cut : IsFirst(a) /\ Pieces(a, c, p, cut) => Pieces(a, c, p, cut)'
<1>1. /\ Len(log) \in Nat /\ Len(log') = Len(log) + 1
      /\ \A i \in 1 .. Len(log) : log'[i] = log[i]
      /\ log'[Len(log) + 1] = line
  BY OneMoreLine
<1>2. IsFirst(a) => IsFirst(a)'
  BY <1>1 DEF IsFirst
<1>3. IsFirst(a) /\ Sole(a)' => Sole(a) /\ ~line.prefixed
  BY <1>1 DEF IsFirst, Sole
<1>4. ASSUME NEW c, NEW p, NEW cut, IsFirst(a), Pieces(a, c, p, cut)
      PROVE  Pieces(a, c, p, cut)'
  <2>1. a \in 1 .. Len(log) /\ c \in a .. Len(log) /\ \A i \in a .. c : i \in 1 .. Len(log)
    BY <1>1, <1>4 DEF IsFirst, Pieces
  <2>2. \A i \in a + 1 .. c : i \in a .. c
    BY <2>1
  <2>3. c \in a .. Len(log')
    BY <1>1, <2>1
  <2> QED
    BY <1>1, <1>4, <2>1, <2>2, <2>3 DEF Pieces
<1> QED
  BY <1>2, <1>3, <1>4

\* The bytes of one more line are some more.
LEMMA BytesOfOneMore ==
    ASSUME NEW n \in Nat, IsFiniteSet(BytesOf(n)), Size(log[n + 1]) \in Nat
    PROVE  /\ BytesOf(n + 1) = BytesOf(n) \cup ({n + 1} \X (1 .. Size(log[n + 1])))
           /\ IsFiniteSet(BytesOf(n + 1))
           /\ Cardinality(BytesOf(n + 1)) = Cardinality(BytesOf(n)) + Size(log[n + 1])
<1> DEFINE size == Size(log[n + 1])
           more == {n + 1} \X (1 .. size)
<1>1. 1 .. n + 1 = (1 .. n) \cup {n + 1}
  OBVIOUS
<1>2. BytesOf(n + 1) = BytesOf(n) \cup more
  BY <1>1 DEF BytesOf
<1>3. IsFiniteSet(more) /\ Cardinality(more) = size
  <2>1. IsFiniteSet({n + 1}) /\ Cardinality({n + 1}) = 1
    BY FS_Singleton
  <2>2. IsFiniteSet(1 .. size) /\ Cardinality(1 .. size) = size
    BY FS_Interval
  <2> QED
    BY <2>1, <2>2, FS_Product
<1>4. BytesOf(n) \cap more = {}
  BY DEF BytesOf
<1>5. Cardinality({}) = 0 /\ Cardinality(BytesOf(n)) \in Nat
  BY FS_EmptySet, FS_CardinalityType
<1> HIDE DEF more
<1>6. /\ IsFiniteSet(BytesOf(n) \cup more)
      /\ Cardinality(BytesOf(n) \cup more)
            = Cardinality(BytesOf(n)) + Cardinality(more) - Cardinality(BytesOf(n) \cap more)
  BY <1>3, FS_Union
<1>7. Cardinality(BytesOf(n + 1)) = Cardinality(BytesOf(n)) + size
  <2>1. Cardinality(BytesOf(n) \cap more) = 0
    BY <1>4, <1>5
  <2>2. Cardinality(BytesOf(n) \cup more) = Cardinality(BytesOf(n)) + size - 0
    BY <1>3, <1>6, <2>1
  <2>3. Cardinality(BytesOf(n + 1)) = Cardinality(BytesOf(n) \cup more)
    BY <1>2
  <2>4. \A k \in Nat : k + size - 0 = k + size
    OBVIOUS
  <2> QED
    BY <1>5, <2>2, <2>3, <2>4
<1> QED
  BY <1>2, <1>6, <1>7 DEF more

LEMMA SizeTyped == \A line \in Lines : Size(line) \in Nat /\ Len(line.text) \in Nat
<1> SUFFICES ASSUME NEW line \in Lines
             PROVE  Size(line) \in Nat /\ Len(line.text) \in Nat
  OBVIOUS
<1>1. line.text \in Seq(Tokens)
  BY DEF Lines, Text
<1>2. Len(line.text) \in Nat
  BY <1>1
<1>3. Size(line) = Len(line.text) + (IF line.prefixed THEN 1 ELSE 0)
  BY DEF Size
<1>4. CASE line.prefixed
  <2>1. Size(line) = Len(line.text) + 1
    BY <1>3, <1>4
  <2> QED
    BY <1>2, <2>1
<1>5. CASE ~line.prefixed
  <2>1. Size(line) = Len(line.text) + 0
    BY <1>3, <1>5
  <2> QED
    BY <1>2, <2>1
<1> QED
  BY <1>4, <1>5

LEMMA BytesStayFinite ==
    ASSUME log \in Seq(Lines), NEW line \in Lines, log' = Append(log, line),
           IsFiniteSet(BytesOf(Len(log)))
    PROVE  IsFiniteSet(BytesOf(Len(log)))'
<1> DEFINE n == Len(log)
           more == {n + 1} \X (1 .. Size(line))
<1>1. /\ n \in Nat /\ Len(log') = n + 1
      /\ \A i \in 1 .. n : log'[i] = log[i]
      /\ log'[n + 1] = line
  BY OneMoreLine
<1>2. 1 .. n + 1 = (1 .. n) \cup {n + 1}
  BY <1>1
<1>3. BytesOf(Len(log))' = UNION {{i} \X (1 .. Size(log'[i])) : i \in 1 .. n + 1}
  BY <1>1 DEF BytesOf, Size
<1>4. UNION {{i} \X (1 .. Size(log'[i])) : i \in 1 .. n + 1} = BytesOf(n) \cup more
  BY <1>1, <1>2 DEF BytesOf
<1>5. IsFiniteSet(more)
  <2>1. Size(line) \in Nat
    BY SizeTyped
  <2>2. IsFiniteSet({n + 1}) /\ IsFiniteSet(1 .. Size(line))
    <3>1. IsFiniteSet({n + 1})
      BY FS_Singleton
    <3>2. 1 \in Int /\ Size(line) \in Int
      BY <2>1
    <3> QED
      BY <3>1, <3>2, FS_Interval
  <2> QED
    BY <2>2, FS_Product
<1> HIDE DEF more
<1>6. IsFiniteSet(BytesOf(n) \cup more)
  BY <1>5, FS_Union
<1> QED
  BY <1>3, <1>4, <1>6

\* The pieces fit their text.
LEMMA CutsFit ==
    ASSUME NEW a, NEW c, NEW p, NEW cut, Pieces(a, c, p, cut), a \in Nat, Len(log) \in Nat
    PROVE  /\ p \in Payloads /\ p \in Text /\ Len(p) \in Nat
           /\ c \in Nat /\ a <= c /\ c <= Len(log)
           /\ \A i \in a .. c : cut[i] \in 0 .. Len(p)
<1>1. p \in Payloads /\ c \in a .. Len(log) /\ cut \in [a .. c -> 0 .. Len(p)]
  BY DEF Pieces
<1> QED
  BY <1>1, PayloadsAreTexts

\* Nothing is left of an observation but of an unfinished one, and that is something.
LEMMA UnfinishedIsLeft ==
    ASSUME NEW a, NEW c, NEW p, NEW cut, Pieces(a, c, p, cut), Unfinished(c, p, cut),
           a \in Nat, Len(log) \in Nat
    PROVE  /\ left # <<>> /\ Len(left) = Len(p) - cut[c] /\ cut[c] \in 0 .. Len(p) - 1
           /\ c \in a .. c
<1>1. p \in Text /\ Len(p) \in Nat /\ c \in a .. c /\ cut[c] \in 0 .. Len(p) /\ cut[c] < Len(p)
  <2>1. c \in a .. c
    BY CutsFit
  <2> QED
    BY <2>1, CutsFit DEF Unfinished
<1>2. Len(p) \in cut[c] .. Len(p)
  BY <1>1
<1>3. Len(left) = Len(p) - cut[c]
  BY <1>1, <1>2, PiecesOfText DEF Unfinished
<1>4. Len(left) > 0
  BY <1>1, <1>3
<1>5. left # <<>>
  BY <1>4
<1> QED
  BY <1>1, <1>3, <1>5

\* A line that is no piece: the story goes on without it.
LEMMA StoryGoesOn ==
    ASSUME WrittenInv, Story, NEW line \in Lines, log' = Append(log, line),
           torn' \in BOOLEAN, torn => torn', left # <<>> => torn',
           left # <<>> => line.prefixed \/ line.text \in NoiseTexts,
           ~line.prefixed =>
               emitted' = emitted /\ left' = left /\ (torn' => torn \/ left # <<>>)
    PROVE  Story'
<1>1. PICK a : IsFirst(a) /\ (Forged(a) \/ \E c, p, cut : Told(a, c, p, cut))
  BY DEF Story
<1>2. log \in Seq(Lines) /\ torn \in BOOLEAN
  BY DEF WrittenInv
<1>3. /\ Len(log) \in Nat /\ Len(log') = Len(log) + 1
      /\ \A i \in 1 .. Len(log) : log'[i] = log[i]
      /\ log'[Len(log) + 1] = line
  BY <1>2, OneMoreLine
<1>4. IsFirst(a)' /\ a \in 1 .. Len(log)
  BY <1>1, <1>2, StaysFirst DEF IsFirst
<1>5. CASE Forged(a)
  BY <1>3, <1>4, <1>5 DEF Forged, Story
<1>6. ASSUME NEW c, NEW p, NEW cut, Told(a, c, p, cut)
      PROVE  Told(a, c, p, cut)'
  <2>1. Pieces(a, c, p, cut) /\ Pieces(a, c, p, cut)'
    BY <1>1, <1>2, <1>6, StaysFirst DEF Told
  <2>2. c \in Nat /\ c <= Len(log)
    BY <1>3, <1>4, <2>1, CutsFit
  <2>3. CASE Whole(a, c, p, cut)
    <3>1. ASSUME Sole(a)'
          PROVE  emitted' = <<p>> /\ left' = <<>> /\ ~torn'
      <4>1. Sole(a) /\ ~line.prefixed
        BY <1>1, <1>2, <3>1, StaysFirst
      <4> QED
        BY <2>3, <4>1 DEF Whole
    <3> QED
      BY <2>1, <2>3, <3>1 DEF Whole, Told
  <2>4. CASE Broken(c, p, cut)
    <3>1. c + 1 \in 1 .. Len(log)
      BY <1>3, <2>2, <2>4 DEF Broken
    <3>2. Broken(c, p, cut)'
      BY <1>3, <2>2, <2>4, <3>1 DEF Broken
    <3> QED
      BY <2>1, <3>2 DEF Told
  <2>5. CASE Unfinished(c, p, cut)
    <3>1. torn' /\ (line.prefixed \/ line.text \in NoiseTexts)
      BY <1>3, <1>4, <2>1, <2>5, UnfinishedIsLeft
    <3>2. Broken(c, p, cut)'
      BY <1>3, <2>5, <3>1 DEF Broken, Unfinished
    <3> QED
      BY <2>1, <3>2 DEF Told
  <2> QED
    BY <1>6, <2>3, <2>4, <2>5 DEF Told
<1> QED
  BY <1>1, <1>4, <1>5, <1>6 DEF Story

LEMMA LinesTyped ==
    ASSUME NEW prefixed \in BOOLEAN, NEW text \in Text
    PROVE  /\ Line(prefixed, text) \in Lines
           /\ Line(prefixed, text).prefixed = prefixed /\ Line(prefixed, text).text = text
BY DEF Line, Lines

LEMMA NoiseKeepsWritten ==
    ASSUME WrittenInv, NEW prefixed \in BOOLEAN, NEW text \in NoiseTexts, Noise(prefixed, text)
    PROVE  WrittenInv'
<1> DEFINE line == Line(prefixed, text)
<1>1. line \in Lines /\ line.prefixed = prefixed /\ line.text = text /\ text \in NoiseTexts
  <2>1. text \in Text
    BY TextAssumption DEF NoiseAssumption, Text
  <2> QED
    BY <2>1, LinesTyped
<1> HIDE DEF line
<1>2. /\ log' = Append(log, line) /\ torn' = (torn \/ prefixed \/ left # <<>>)
      /\ left' = left /\ emitted' = emitted
  BY DEF Noise, line
<1>3. /\ Len(log) \in Nat /\ log' \in Seq(Lines) /\ Len(log') = Len(log) + 1
      /\ \A i \in 1 .. Len(log) : log'[i] = log[i]
      /\ log'[Len(log) + 1] = line
  BY <1>1, <1>2, OneMoreLine DEF WrittenInv
<1>4. log' \in Seq(Lines) /\ left' \in Text /\ emitted' \in Seq(Payloads) /\ torn' \in BOOLEAN
  BY <1>1, <1>2, <1>3 DEF WrittenInv
<1>5. ((NonePrefixed /\ emitted = <<>> /\ left = <<>> /\ ~torn) \/ Story)'
  <2>1. CASE Story
    <3>1. /\ torn => torn'
          /\ left # <<>> => torn'
          /\ left # <<>> => line.prefixed \/ line.text \in NoiseTexts
          /\ ~line.prefixed =>
               emitted' = emitted /\ left' = left /\ (torn' => torn \/ left # <<>>)
      BY <1>1, <1>2
    <3> QED
      BY <1>1, <1>2, <1>4, <2>1, <3>1, StoryGoesOn
  <2>2. CASE NonePrefixed /\ emitted = <<>> /\ left = <<>> /\ ~torn
    <3>1. CASE prefixed
      <4>1. PICK a \in Nat : a = Len(log) + 1
        BY <1>3
      <4>2. IsFirst(a)'
        <5>1. line.prefixed
          BY <1>1, <3>1
        <5> QED
          BY <1>3, <2>2, <4>1, <5>1 DEF NonePrefixed, IsFirst
      <4>3. Forged(a)'
        BY <1>1, <1>2, <1>3, <3>1, <4>1 DEF Forged
      <4> QED
        BY <4>2, <4>3 DEF Story
    <3>2. CASE ~prefixed
      BY <1>1, <1>2, <1>3, <2>2, <3>2 DEF NonePrefixed
    <3> QED
      BY <3>1, <3>2
  <2> QED
    BY <2>1, <2>2 DEF WrittenInv
<1>6. (~torn /\ Len(emitted) <= 1 =>
          \A i, j \in 1 .. Len(log) : log[i].prefixed /\ log[j].prefixed => i = j)'
  BY <1>1, <1>2, <1>3 DEF WrittenInv
<1>7. (~torn /\ emitted = <<>> => NonePrefixed)'
  BY <1>1, <1>2, <1>3 DEF WrittenInv, NonePrefixed
<1>8. IsFiniteSet(BytesOf(Len(log)))'
  BY <1>1, <1>2, BytesStayFinite DEF WrittenInv
<1> QED
  BY <1>4, <1>5, <1>6, <1>7, <1>8 DEF WrittenInv

LEMMA EmitKeepsWritten ==
    ASSUME WrittenInv, NEW p \in Payloads, NEW k \in 0 .. Len(p), Emit(p, k)
    PROVE  WrittenInv'
<1> DEFINE line == Line(TRUE, SubSeq(p, 1, k))
<1>1. /\ p \in Text /\ Len(p) \in Nat /\ k \in Nat /\ SubSeq(p, 1, k) \in Text
      /\ SubSeq(p, k + 1, Len(p)) \in Text /\ Len(SubSeq(p, k + 1, Len(p))) = Len(p) - k
  <2>1. p \in Text /\ Len(p) \in Nat /\ 0 \in 0 .. Len(p) /\ k \in 0 .. Len(p) /\ Len(p) \in k .. Len(p)
        /\ 0 + 1 = 1
    BY PayloadsAreTexts
  <2> QED
    BY <2>1, PiecesOfText
<1>2. line \in Lines /\ line.prefixed /\ line.text = SubSeq(p, 1, k)
  BY <1>1, LinesTyped
<1> HIDE DEF line
<1>3. /\ log' = Append(log, line) /\ torn' = (torn \/ left # <<>>)
      /\ left' = SubSeq(p, k + 1, Len(p)) /\ emitted' = Append(emitted, p)
  BY DEF Emit, Piece, line
<1>4. /\ Len(log) \in Nat /\ log' \in Seq(Lines) /\ Len(log') = Len(log) + 1
      /\ \A i \in 1 .. Len(log) : log'[i] = log[i]
      /\ log'[Len(log) + 1] = line
  BY <1>2, <1>3, OneMoreLine DEF WrittenInv
<1>5. emitted' \in Seq(Payloads) /\ Len(emitted) \in Nat /\ Len(emitted') = Len(emitted) + 1
      /\ emitted' # <<>> /\ (Len(emitted) = 0 => emitted = <<>>)
  <2>1. emitted \in Seq(Payloads)
    BY DEF WrittenInv
  <2>2. \A S : \A s \in Seq(S) : Len(s) \in Nat /\ (Len(s) = 0 => s = <<>>)
    OBVIOUS
  <2> QED
    BY <1>3, <2>1, <2>2, AppendProperties
<1>6. log' \in Seq(Lines) /\ left' \in Text /\ emitted' \in Seq(Payloads) /\ torn' \in BOOLEAN
  BY <1>1, <1>3, <1>4, <1>5 DEF WrittenInv
<1>7. Story'
  <2>1. CASE Story
    <3>1. /\ torn => torn'
          /\ left # <<>> => torn'
          /\ left # <<>> => line.prefixed \/ line.text \in NoiseTexts
          /\ ~line.prefixed =>
               emitted' = emitted /\ left' = left /\ (torn' => torn \/ left # <<>>)
      BY <1>2, <1>3
    <3> QED
      BY <1>2, <1>3, <1>6, <2>1, <3>1, StoryGoesOn
  <2>2. CASE NonePrefixed /\ emitted = <<>> /\ left = <<>> /\ ~torn
    <3>0. PICK a \in Nat : a = Len(log) + 1
      BY <1>4
    <3> DEFINE cut == [i \in a .. a |-> k]
    <3>1. IsFirst(a)'
      BY <1>2, <1>4, <2>2, <3>0 DEF NonePrefixed, IsFirst
    <3>2. a \in a .. a /\ a \in Nat /\ cut[a] = k /\ cut \in [a .. a -> 0 .. Len(p)]
          /\ a + 1 .. a = {} /\ \A i, j \in a .. a : ~(i < j)
      BY <1>4
    <3>3. Pieces(a, a, p, cut)'
      <4> HIDE DEF cut
      <4>1. a \in a .. Len(log') /\ log'[a].text = SubSeq(p, 1, cut[a])
        BY <1>2, <1>4, <3>0, <3>2
      <4> QED
        BY <3>2, <4>1 DEF Pieces
    <3>4. emitted' = <<p>> /\ ~torn'
      <4>1. Append(<<>>, p) = <<p>>
        OBVIOUS
      <4> QED
        BY <1>3, <2>2, <4>1
    <3> HIDE DEF cut
    <3>5. CASE k = Len(p)
      <4>1. left' = <<>>
        BY <1>1, <1>3, <3>5, SubSeqEmpty
      <4>2. Whole(a, a, p, cut)'
        BY <3>2, <3>4, <3>5, <4>1 DEF Whole
      <4> QED
        BY <3>1, <3>3, <4>2 DEF Story, Told
    <3>6. CASE k # Len(p)
      <4>1. Unfinished(a, p, cut)'
        BY <1>1, <1>3, <1>4, <3>0, <3>2, <3>4, <3>6 DEF Unfinished
      <4> QED
        BY <3>1, <3>3, <4>1 DEF Story, Told
    <3> QED
      BY <3>5, <3>6
  <2> QED
    BY <2>1, <2>2 DEF WrittenInv
<1>8. (~torn /\ Len(emitted) <= 1 =>
          \A i, j \in 1 .. Len(log) : log[i].prefixed /\ log[j].prefixed => i = j)'
  <2> SUFFICES ASSUME ~torn', Len(emitted') <= 1
               PROVE  \A i, j \in 1 .. Len(log') : log'[i].prefixed /\ log'[j].prefixed => i = j
    OBVIOUS
  <2>1. NonePrefixed
    BY <1>3, <1>5 DEF WrittenInv
  <2> QED
    BY <1>4, <2>1 DEF NonePrefixed
<1>9. IsFiniteSet(BytesOf(Len(log)))'
  BY <1>2, <1>3, BytesStayFinite DEF WrittenInv
<1> QED
  BY <1>5, <1>6, <1>7, <1>8, <1>9 DEF WrittenInv

\* What is left of an observation goes on in the next line, which may hold none of it.
LEMMA PieceKeepsWritten ==
    ASSUME WrittenInv, left # <<>>, NEW k \in 0 .. Len(left), Piece(left, k, FALSE),
           UNCHANGED <<emitted, torn>>
    PROVE  WrittenInv'
<1> DEFINE line == Line(FALSE, SubSeq(left, 1, k))
<1>1. /\ left \in Text /\ Len(left) \in Nat /\ k \in 0 .. Len(left) /\ k \in Nat /\ left # <<>>
      /\ SubSeq(left, 1, k) \in Text /\ SubSeq(left, k + 1, Len(left)) \in Text
  <2>1. left \in Text
    BY DEF WrittenInv
  <2>2. Len(left) \in Nat
    <3>1. \A S : \A s \in Seq(S) : Len(s) \in Nat
      OBVIOUS
    <3> QED
      BY <2>1, <3>1 DEF Text
  <2>3. 0 \in 0 .. Len(left) /\ k \in 0 .. Len(left) /\ Len(left) \in k .. Len(left) /\ 0 + 1 = 1
    BY <2>1, <2>2
  <2> QED
    BY <2>1, <2>2, <2>3, PiecesOfText
<1>2. line \in Lines /\ ~line.prefixed /\ line.text = SubSeq(left, 1, k)
  BY <1>1, LinesTyped
<1> HIDE DEF line
<1>3. /\ log' = Append(log, line) /\ torn' = torn
      /\ left' = SubSeq(left, k + 1, Len(left)) /\ emitted' = emitted
  BY DEF Piece, line
<1>4. /\ Len(log) \in Nat /\ log' \in Seq(Lines) /\ Len(log') = Len(log) + 1
      /\ \A i \in 1 .. Len(log) : log'[i] = log[i]
      /\ log'[Len(log) + 1] = line
  BY <1>2, <1>3, OneMoreLine DEF WrittenInv
<1>5. log' \in Seq(Lines) /\ left' \in Text /\ emitted' \in Seq(Payloads) /\ torn' \in BOOLEAN
  BY <1>1, <1>3, <1>4 DEF WrittenInv
<1>6. Story'
  <2>1. PICK a : IsFirst(a) /\ (Forged(a) \/ \E c, p, cut : Told(a, c, p, cut))
    BY <1>1 DEF WrittenInv, Story
  <2>2. IsFirst(a)' /\ a \in 1 .. Len(log) /\ a \in Nat
    BY <1>2, <1>3, <1>4, <2>1, StaysFirst DEF IsFirst, WrittenInv
  <2>3. CASE Forged(a)
    BY <1>3, <1>4, <2>2, <2>3 DEF Forged, Story
  <2>4. ASSUME NEW c, NEW p, NEW cut, Told(a, c, p, cut)
        PROVE  \E d, dealt : Told(a, d, p, dealt)'
    <3>1. Pieces(a, c, p, cut) /\ Pieces(a, c, p, cut)'
      BY <1>2, <1>3, <2>1, <2>4, StaysFirst DEF Told, WrittenInv
    <3>2. /\ p \in Payloads /\ p \in Text /\ Len(p) \in Nat
          /\ c \in Nat /\ a <= c /\ c <= Len(log)
          /\ \A i \in a .. c : cut[i] \in 0 .. Len(p)
      BY <1>4, <2>2, <3>1, CutsFit
    <3>3. CASE Whole(a, c, p, cut)
      <4>1. ~Sole(a)'
        <5> SUFFICES ASSUME Sole(a)' PROVE FALSE
          OBVIOUS
        <5>1. Sole(a)
          BY <1>2, <1>3, <2>1, StaysFirst DEF WrittenInv
        <5> QED
          BY <1>1, <3>3, <5>1 DEF Whole
      <4>2. Whole(a, c, p, cut)'
        BY <3>3, <4>1 DEF Whole
      <4> QED
        BY <3>1, <4>2 DEF Told
    <3>4. CASE Broken(c, p, cut)
      <4>1. c + 1 \in 1 .. Len(log)
        BY <1>4, <3>2, <3>4 DEF Broken
      <4>2. Broken(c, p, cut)'
        BY <1>3, <1>4, <3>2, <3>4, <4>1 DEF Broken
      <4> QED
        BY <3>1, <4>2 DEF Told
    <3>5. CASE Unfinished(c, p, cut)
      <4>1. /\ c = Len(log) /\ ~torn /\ emitted = <<p>> /\ left = SubSeq(p, cut[c] + 1, Len(p))
            /\ cut[c] \in 0 .. Len(p) - 1 /\ Len(left) = Len(p) - cut[c] /\ c \in a .. c
        <5>1. c = Len(log) /\ ~torn /\ emitted = <<p>> /\ left = SubSeq(p, cut[c] + 1, Len(p))
          BY <3>5 DEF Unfinished
        <5>2. cut[c] \in 0 .. Len(p) - 1 /\ Len(left) = Len(p) - cut[c] /\ c \in a .. c
          BY <1>4, <2>2, <3>1, <3>5, UnfinishedIsLeft
        <5> QED
          BY <5>1, <5>2
      <4>2. PICK n \in Nat : n = cut[c]
        BY <3>2, <4>1
      <4>3. PICK d \in Nat : d = c + 1
        BY <3>2
      <4>4. n + k \in 0 .. Len(p) /\ n <= n + k /\ n \in 0 .. Len(p) - 1
        <5>1. n \in 0 .. Len(p) - 1 /\ Len(left) = Len(p) - n /\ k <= Len(left) /\ k >= 0
          BY <1>1, <4>1, <4>2
        <5> QED
          BY <3>2, <5>1
      <4> DEFINE dealt == [i \in a .. d |-> IF i = d THEN n + k ELSE cut[i]]
      <4>5. /\ d \in a .. d /\ c \in a .. d /\ c # d /\ d \in a + 1 .. d
            /\ \A i \in a .. d : i # d => i \in a .. c
            /\ \A i \in a + 1 .. d : i - 1 \in a .. d /\ i - 1 # d /\ (i # d => i \in a + 1 .. c)
            /\ d - 1 = c
        BY <2>2, <3>2, <4>3
      <4>6. /\ dealt \in [a .. d -> 0 .. Len(p)] /\ dealt[d] = n + k
            /\ \A i \in a .. c : i # d /\ i \in a .. d /\ dealt[i] = cut[i]
        BY <2>2, <3>2, <4>3, <4>4, <4>5
      <4> HIDE DEF dealt
      <4>7. /\ SubSeq(left, 1, k) = SubSeq(p, n + 1, n + k)
            /\ SubSeq(left, k + 1, Len(left)) = SubSeq(p, n + k + 1, Len(p))
        <5>1. n \in 0 .. Len(p) /\ k \in 0 .. Len(p) - n
          BY <1>1, <3>2, <4>1, <4>2, SMTT(30)
        <5> QED
          BY <3>2, <4>1, <4>2, <5>1, RestOfText
      <4>8. Pieces(a, d, p, dealt)'
        <5>1. d \in a .. Len(log')
          BY <1>4, <2>2, <3>2, <4>1, <4>3
        <5>2. log'[a].text = SubSeq(p, 1, dealt[a])
          <6>1. a \in a .. c
            BY <2>2, <3>2
          <6> QED
            BY <3>1, <4>6, <6>1 DEF Pieces
        <5>3. ASSUME NEW i \in a + 1 .. d
              PROVE  ~log'[i].prefixed /\ log'[i].text = SubSeq(p, dealt[i - 1] + 1, dealt[i])
          <6>1. CASE i = d
            <7>1. log'[d] = line
              BY <1>4, <4>1, <4>3
            <7>2. dealt[d - 1] = n
              BY <4>1, <4>2, <4>5, <4>6
            <7> QED
              BY <1>2, <4>6, <4>7, <6>1, <7>1, <7>2
          <6>2. CASE i # d
            <7>1. i \in a + 1 .. c /\ i \in a .. c /\ i - 1 \in a .. c
              BY <2>2, <3>2, <4>5, <6>2
            <7> QED
              BY <3>1, <4>6, <7>1 DEF Pieces
          <6> QED
            BY <6>1, <6>2
        <5>4. ASSUME NEW i \in a .. d, NEW j \in a .. d, i < j
              PROVE  dealt[i] <= dealt[j] /\ dealt[i] < Len(p)
          <6>1. i \in a .. c
            BY <2>2, <4>3, <4>5, <5>4
          <6>2. CASE j # d
            <7>1. j \in a .. c
              BY <4>5, <6>2
            <7> QED
              BY <3>1, <4>6, <5>4, <6>1, <7>1 DEF Pieces
          <6>3. CASE j = d
            <7>1. cut[i] <= n
              <8>1. CASE i = c
                BY <3>2, <4>1, <4>2, <8>1
              <8>2. CASE i # c
                <9>1. cut[i] <= cut[c]
                  BY <2>2, <3>1, <3>2, <4>1, <6>1, <8>2 DEF Pieces
                <9> QED
                  BY <3>2, <4>1, <4>2, <6>1, <9>1
              <8> QED
                BY <8>1, <8>2
            <7> QED
              BY <1>1, <3>2, <4>4, <4>6, <6>1, <6>3, <7>1
          <6> QED
            BY <6>2, <6>3
        <5> QED
          BY <3>2, <4>6, <5>1, <5>2, <5>3, <5>4 DEF Pieces
      <4>9. CASE n + k = Len(p)
        <5>1. left' = <<>>
          BY <1>3, <3>2, <4>4, <4>7, <4>9, SubSeqEmpty
        <5>2. Whole(a, d, p, dealt)'
          BY <1>3, <4>1, <4>6, <4>9, <5>1 DEF Whole
        <5> QED
          BY <4>8, <5>2 DEF Told
      <4>10. CASE n + k # Len(p)
        <5>1. Unfinished(d, p, dealt)'
          <6>1. dealt[d] < Len(p) /\ d = Len(log')
            BY <1>4, <3>2, <4>1, <4>3, <4>4, <4>6, <4>10
          <6>2. left' = SubSeq(p, dealt[d] + 1, Len(p))
            BY <1>3, <4>6, <4>7
          <6>3. emitted' = <<p>> /\ ~torn'
            BY <1>3, <4>1
          <6> QED
            BY <6>1, <6>2, <6>3 DEF Unfinished
        <5> QED
          BY <4>8, <5>1 DEF Told
      <4> QED
        BY <4>9, <4>10
    <3> QED
      BY <2>4, <3>3, <3>4, <3>5 DEF Told
  <2> QED
    BY <2>1, <2>2, <2>3, <2>4 DEF Story
<1>7. (~torn /\ Len(emitted) <= 1 =>
          \A i, j \in 1 .. Len(log) : log[i].prefixed /\ log[j].prefixed => i = j)'
  BY <1>2, <1>3, <1>4 DEF WrittenInv
<1>8. (~torn /\ emitted = <<>> => NonePrefixed)'
  BY <1>2, <1>3, <1>4 DEF WrittenInv, NonePrefixed
<1>9. IsFiniteSet(BytesOf(Len(log)))'
  BY <1>2, <1>3, BytesStayFinite DEF WrittenInv
<1> QED
  BY <1>5, <1>6, <1>7, <1>8, <1>9 DEF WrittenInv

LEMMA WrapKeepsWritten ==
    ASSUME WrittenInv, NEW k \in Nat, Wrap(k)
    PROVE  WrittenInv'
<1>1. k \in 1 .. Len(left) /\ Piece(left, k, FALSE) /\ UNCHANGED <<emitted, torn>>
  BY DEF Wrap
<1>2. left # <<>> /\ k \in 0 .. Len(left)
  BY <1>1
<1> QED
  BY <1>1, <1>2, PieceKeepsWritten

\* A blank line is one more piece, without a token, of an observation that is not
\* all written, and nothing to any other.
LEMMA BlankKeepsWritten ==
    ASSUME WrittenInv, Blank
    PROVE  WrittenInv'
<1> DEFINE line == Line(FALSE, <<>>)
<1>1. <<>> \in Text
  BY DEF Text
<1>2. line \in Lines /\ ~line.prefixed /\ line.text = <<>>
  BY <1>1, LinesTyped
<1> HIDE DEF line
<1>3. log' = Append(log, line) /\ UNCHANGED <<left, emitted, torn>>
  BY DEF Blank, line
<1>4. CASE left # <<>>
  <2>1. left \in Text /\ Len(left) \in Nat
    <3>1. \A S : \A s \in Seq(S) : Len(s) \in Nat
      OBVIOUS
    <3> QED
      BY <3>1 DEF WrittenInv, Text
  <2>2. SubSeq(left, 1, 0) = <<>> /\ SubSeq(left, 0 + 1, Len(left)) = left /\ 0 \in 0 .. Len(left)
    BY <2>1, SubSeqEmpty, SubSeqFull DEF Text
  <2>3. Piece(left, 0, FALSE)
    BY <1>3, <2>2 DEF Piece, line
  <2> QED
    BY <1>3, <1>4, <2>2, <2>3, PieceKeepsWritten
<1>5. CASE left = <<>>
  <2>1. /\ Len(log) \in Nat /\ log' \in Seq(Lines) /\ Len(log') = Len(log) + 1
        /\ \A i \in 1 .. Len(log) : log'[i] = log[i]
        /\ log'[Len(log) + 1] = line
    BY <1>2, <1>3, OneMoreLine DEF WrittenInv
  <2>2. log' \in Seq(Lines) /\ left' \in Text /\ emitted' \in Seq(Payloads) /\ torn' \in BOOLEAN
    BY <1>3, <2>1 DEF WrittenInv
  <2>3. ((NonePrefixed /\ emitted = <<>> /\ left = <<>> /\ ~torn) \/ Story)'
    <3>1. CASE Story
      BY <1>2, <1>3, <1>5, <2>2, <3>1, StoryGoesOn
    <3>2. CASE NonePrefixed /\ emitted = <<>> /\ left = <<>> /\ ~torn
      BY <1>2, <1>3, <2>1, <3>2 DEF NonePrefixed
    <3> QED
      BY <3>1, <3>2 DEF WrittenInv
  <2>4. (~torn /\ Len(emitted) <= 1 =>
            \A i, j \in 1 .. Len(log) : log[i].prefixed /\ log[j].prefixed => i = j)'
    BY <1>2, <1>3, <2>1 DEF WrittenInv
  <2>5. (~torn /\ emitted = <<>> => NonePrefixed)'
    BY <1>2, <1>3, <2>1 DEF WrittenInv, NonePrefixed
  <2>6. IsFiniteSet(BytesOf(Len(log)))'
    BY <1>2, <1>3, BytesStayFinite DEF WrittenInv
  <2> QED
    BY <2>2, <2>3, <2>4, <2>5, <2>6 DEF WrittenInv
<1> QED
  BY <1>4, <1>5

-----------------------------------------------------------------------------
(***************************************************************************)
(* What is read.  What the reader has joined is the observation as far as  *)
(* its pieces went, or begins as no observation does.                      *)
(***************************************************************************)
\* What an observation needs to be read, but for the limits.
Legible == Len(emitted) = 1 /\ ~torn /\ left = <<>>

\* The text joined of the lines a .. b.
Joined(a, b, text) ==
    \/ Spoilt(text) /\ ~Legible
    \/ \E c, p, cut : Told(a, c, p, cut) /\ b \in a .. c /\ text = SubSeq(p, 1, cut[b])

Looking == selected = None /\ partial = None /\ \A i \in 1 .. at - 1 : ~log[i].prefixed
Joining ==
    /\ selected = None /\ partial \in Text /\ Len(partial) <= MaxPayload /\ ~Complete(partial)
    /\ \E a : IsFirst(a) /\ a < at /\ log[a].text # <<>> /\ Joined(a, at - 1, partial)
Found ==
    /\ partial = None /\ selected \in Text /\ Complete(selected)
    /\ \E a, b : /\ IsFirst(a) /\ log[a].text # <<>> /\ b \in a .. at - 1
                 /\ Joined(a, b, selected)
                 /\ \A i \in b + 1 .. at - 1 : ~log[i].prefixed

ReadInv ==
    \/ /\ at = None /\ bytes = 0 /\ selected = None /\ partial = None /\ result = None
    \/ /\ at \in 1 .. Len(log) + 1
       /\ bytes = Cardinality(BytesOf(at - 1)) /\ IsFiniteSet(BytesOf(at - 1)) /\ bytes \in 0 .. MaxLog
       /\ Looking \/ Joining \/ Found
       /\ result \in Payloads \cup {None, Refused} /\ ReadIsEmitted /\ WholeIsRead

LogInv == WrittenInv /\ ReadInv

\* What is joined of an observation, as long as it is not spoilt.
LEMMA BeginningOf ==
    ASSUME NEW p \in Payloads, NEW n \in 0 .. Len(p)
    PROVE  /\ SubSeq(p, 1, n) \in Text /\ Len(SubSeq(p, 1, n)) = n
           /\ SubSeq(p, 1, n) # <<>> => (Complete(SubSeq(p, 1, n)) <=> n = Len(p))
           /\ n = Len(p) => SubSeq(p, 1, n) = p
<1>1. p \in Text /\ Len(p) \in Nat /\ n \in Nat /\ 0 \in 0 .. Len(p) /\ n \in 0 .. Len(p) /\ 0 + 1 = 1
      /\ n - 0 = n
  BY PayloadsAreTexts
<1>2. SubSeq(p, 1, n) \in Text /\ Len(SubSeq(p, 1, n)) = n
  BY <1>1, PiecesOfText
<1>3. SubSeq(p, 1, n) # <<>> => n \in 1 .. Len(p)
  <2>1. n = 0 => SubSeq(p, 1, n) = <<>>
    BY SubSeqEmpty
  <2> QED
    BY <1>1, <2>1
<1>4. n = Len(p) => SubSeq(p, 1, n) = p
  BY <1>1, SubSeqFull DEF Text
<1> QED
  BY <1>2, <1>3, <1>4, PayloadsAreTexts

LEMMA FirstIsALine ==
    ASSUME log \in Seq(Lines), NEW a, IsFirst(a)
    PROVE  /\ Len(log) \in Nat /\ a \in 1 .. Len(log) /\ a \in Nat
           /\ \A i \in 1 .. Len(log) : log[i] \in Lines /\ log[i].text \in Text
                                         /\ log[i].prefixed \in BOOLEAN
<1>1. Len(log) \in Nat /\ \A i \in 1 .. Len(log) : log[i] \in Lines
  BY ElementOfSeq
<1> QED
  BY <1>1 DEF IsFirst, Lines

LEMMA OneFirst ==
    ASSUME NEW a, NEW b, IsFirst(a), IsFirst(b), Len(log) \in Nat
    PROVE  a = b
BY DEF IsFirst

\* The first prefixed line begins to be joined.
LEMMA JoinedFirst ==
    ASSUME WrittenInv, NEW a, IsFirst(a)
    PROVE  Joined(a, a, log[a].text)
<1>1. log \in Seq(Lines) /\ Len(log) \in Nat /\ a \in 1 .. Len(log)
  BY FirstIsALine DEF WrittenInv
<1>2. Story
  BY <1>1 DEF WrittenInv, NonePrefixed, IsFirst
<1>3. Forged(a) \/ \E c, p, cut : Told(a, c, p, cut)
  BY <1>1, <1>2, OneFirst DEF Story
<1>4. CASE Forged(a)
  <2>1. Spoilt(log[a].text)
    <3> SUFFICES ASSUME NEW q \in Payloads PROVE Spoilt(log[a].text)
      BY DEF Spoilt
    <3>1. 0 \in 0 .. Len(q) - 1
      BY PayloadsAreTexts
    <3> QED
      BY <1>4, <3>1, NoiseSpoils DEF Forged
  <2> QED
    BY <1>4, <2>1 DEF Joined, Forged, Legible
<1>5. CASE \E c, p, cut : Told(a, c, p, cut)
  <2>1. PICK c, p, cut : Told(a, c, p, cut)
    BY <1>5
  <2>2. a \in a .. c /\ log[a].text = SubSeq(p, 1, cut[a])
    <3>1. Pieces(a, c, p, cut)
      BY <2>1 DEF Told
    <3>2. c \in Nat /\ a <= c
      BY <1>1, <3>1, CutsFit
    <3> QED
      BY <1>1, <3>1, <3>2 DEF Pieces
  <2> QED
    BY <2>1, <2>2 DEF Joined
<1> QED
  BY <1>3, <1>4, <1>5

\* One more line is joined.
LEMMA JoinedNext ==
    ASSUME WrittenInv, NEW a, IsFirst(a), NEW n \in a .. Len(log) - 1,
           NEW text \in Text, text # <<>>, ~Complete(text), Joined(a, n, text)
    PROVE  LET line == log[n + 1]
               more == text \o (IF line.prefixed THEN <<"prefix">> ELSE <<>>) \o line.text
           IN  more \in Text /\ Joined(a, n + 1, more)
<1> DEFINE line == log[n + 1]
           mark == IF line.prefixed THEN <<"prefix">> ELSE <<>>
           more == text \o mark \o line.text
<1>1. /\ Len(log) \in Nat /\ a \in Nat /\ a \in 1 .. Len(log) /\ n \in Nat
      /\ n + 1 \in 1 .. Len(log) /\ line.text \in Text /\ line.prefixed \in BOOLEAN
  <2>1. Len(log) \in Nat /\ a \in Nat /\ a \in 1 .. Len(log)
    BY FirstIsALine DEF WrittenInv
  <2>2. n \in Nat /\ n + 1 \in 1 .. Len(log)
    BY <2>1
  <2> QED
    BY <2>1, <2>2, FirstIsALine DEF WrittenInv
<1>2. \A s, t \in Text : s \o t \in Text
  BY ConcatProperties DEF Text
<1>3. mark \in Text /\ <<>> \in Text /\ <<"prefix">> \in Text
  <2>1. <<>> \in Text
    BY DEF Text
  <2>2. <<"prefix">> \in Text
    <3>1. "prefix" \in Tokens
      BY DEF Tokens
    <3>2. \A S : \A x \in S : <<x>> \in Seq(S)
      OBVIOUS
    <3> QED
      BY <3>1, <3>2 DEF Text
  <2> QED
    BY <2>1, <2>2
<1> HIDE DEF line
<1>4. ~line.prefixed => more = text \o line.text
  <2> SUFFICES ASSUME ~line.prefixed PROVE text \o mark = text
    OBVIOUS
  <2>1. mark = <<>>
    OBVIOUS
  <2> HIDE DEF mark
  <2> QED
    BY <2>1, ConcatEmptySeq DEF Text
<1>5. line.prefixed => mark = <<"prefix">>
  OBVIOUS
<1> HIDE DEF mark
<1>6. text \o mark \in Text /\ more \in Text
  BY <1>1, <1>2, <1>3
<1>7. CASE Spoilt(text) /\ ~Legible
  <2>1. Spoilt(text \o mark)
    BY <1>3, <1>7, SpoiltForGood
  <2>2. Spoilt(more)
    BY <1>1, <1>6, <2>1, SpoiltForGood
  <2> QED
    BY <1>6, <1>7, <2>2 DEF Joined, line, mark
<1>8. CASE \E c, p, cut : Told(a, c, p, cut) /\ n \in a .. c /\ text = SubSeq(p, 1, cut[n])
  <2>1. PICK c, p, cut : Told(a, c, p, cut) /\ n \in a .. c /\ text = SubSeq(p, 1, cut[n])
    BY <1>8
  <2>2. Pieces(a, c, p, cut)
    BY <2>1 DEF Told
  <2>3. /\ p \in Payloads /\ p \in Text /\ Len(p) \in Nat
        /\ c \in Nat /\ a <= c /\ c <= Len(log)
        /\ \A i \in a .. c : cut[i] \in 0 .. Len(p)
    BY <1>1, <2>2, CutsFit
  <2>4. cut[n] \in 0 .. Len(p) - 1
    <3>1. cut[n] \in 0 .. Len(p)
      BY <2>1, <2>3
    <3>2. cut[n] # Len(p)
      BY <2>1, <2>3, <3>1, BeginningOf
    <3> QED
      BY <2>3, <3>1, <3>2
  <2>5. CASE n # c
    <3>1. n + 1 \in a + 1 .. c /\ n + 1 \in a .. c /\ n \in a .. c /\ (n + 1) - 1 = n /\ n < n + 1
      BY <1>1, <2>1, <2>3, <2>5
    <3>2. ~line.prefixed /\ line.text = SubSeq(p, cut[n] + 1, cut[n + 1])
      BY <2>2, <3>1 DEF Pieces, line
    <3>3. cut[n] <= cut[n + 1]
      BY <2>2, <3>1 DEF Pieces
    <3>4. cut[n] \in 0 .. Len(p) /\ cut[n + 1] \in cut[n] .. Len(p)
      BY <2>3, <3>1, <3>3
    <3>5. more = SubSeq(p, 1, cut[n + 1])
      <4>1. SubSeq(p, 1, cut[n]) \o SubSeq(p, cut[n] + 1, cut[n + 1]) = SubSeq(p, 1, cut[n + 1])
        BY <2>3, <3>4, PiecesOfText
      <4> QED
        BY <1>4, <2>1, <3>2, <4>1
    <3> QED
      BY <1>6, <2>1, <3>1, <3>5 DEF Joined, line, mark
  <2>6. CASE n = c
    <3>1. ~Whole(a, c, p, cut)
      BY <2>3, <2>4, <2>6 DEF Whole
    <3>2. ~Unfinished(c, p, cut)
      BY <1>1, <2>6 DEF Unfinished
    <3>3. Broken(c, p, cut)
      BY <2>1, <3>1, <3>2 DEF Told
    <3>4. Spoilt(more)
      <4>1. CASE line.prefixed
        <5>1. Spoilt(text \o mark)
          BY <1>5, <4>1, PrefixSpoils
        <5> QED
          BY <1>1, <1>6, <5>1, SpoiltForGood
      <4>2. CASE ~line.prefixed
        <5>1. line.text \in NoiseTexts
          BY <2>6, <3>3, <4>2 DEF Broken, line
        <5> QED
          BY <1>4, <2>1, <2>3, <2>4, <4>2, <5>1, NoiseSpoils
      <4> QED
        BY <4>1, <4>2
    <3>5. ~Legible
      BY <3>3 DEF Broken, Legible
    <3> QED
      BY <1>6, <3>4, <3>5 DEF Joined, line, mark
  <2> QED
    BY <2>5, <2>6
<1> QED
  BY <1>7, <1>8 DEF Joined

\* What is joined of a legible log is an observation written whole.
LEMMA LegibleIsWhole ==
    ASSUME WrittenInv, Legible, NEW a, IsFirst(a), NEW b, NEW text, Joined(a, b, text)
    PROVE  \E c, p, cut : /\ Pieces(a, c, p, cut) /\ cut[c] = Len(p) /\ b \in a .. c
                          /\ text = SubSeq(p, 1, cut[b])
<1>1. PICK c, p, cut : Told(a, c, p, cut) /\ b \in a .. c /\ text = SubSeq(p, 1, cut[b])
  BY DEF Joined
<1>2. Pieces(a, c, p, cut) /\ a \in Nat /\ Len(log) \in Nat
  BY <1>1, FirstIsALine DEF Told, WrittenInv
<1>3. ~Broken(c, p, cut)
  BY DEF Broken, Legible
<1>4. ~Unfinished(c, p, cut)
  BY <1>2, UnfinishedIsLeft DEF Legible
<1> QED
  BY <1>1, <1>2, <1>3, <1>4 DEF Told, Whole

\* A text that is an observation was emitted alone and whole.
LEMMA JoinedIsEmitted ==
    ASSUME WrittenInv, NEW a, IsFirst(a), NEW b \in a .. Len(log), NEW text \in Payloads,
           Joined(a, b, text), \A i \in b + 1 .. Len(log) : ~log[i].prefixed
    PROVE  emitted = <<text>> /\ ~torn /\ left = <<>>
<1>1. ~Spoilt(text)
  <2>1. IsPrefix(text, text)
    BY PayloadsAreTexts DEF IsPrefix
  <2> QED
    BY <2>1 DEF Spoilt
<1>2. PICK c, p, cut : Told(a, c, p, cut) /\ b \in a .. c /\ text = SubSeq(p, 1, cut[b])
  BY <1>1 DEF Joined
<1>3. Pieces(a, c, p, cut) /\ a \in Nat /\ a \in 1 .. Len(log) /\ Len(log) \in Nat
  BY <1>2, FirstIsALine DEF Told, WrittenInv
<1>4. /\ p \in Payloads /\ p \in Text /\ Len(p) \in Nat
      /\ c \in Nat /\ a <= c /\ c <= Len(log)
      /\ \A i \in a .. c : cut[i] \in 0 .. Len(p)
  BY <1>3, CutsFit
<1>5. text = p /\ cut[b] = Len(p)
  <2>1. text # <<>> /\ Complete(text)
    <3>1. Len(text) \in 1 .. Len(text) /\ Len(text) \in Nat /\ text \in Text
      BY PayloadsAreTexts
    <3>2. Complete(SubSeq(text, 1, Len(text)))
      BY <3>1, PayloadsAreTexts
    <3>3. SubSeq(text, 1, Len(text)) = text
      BY <3>1, SubSeqFull DEF Text
    <3>4. text # <<>>
      BY TextAssumption DEF PayloadAssumption
    <3> QED
      BY <3>2, <3>3, <3>4
  <2>2. cut[b] \in 0 .. Len(p)
    BY <1>2, <1>4
  <2> QED
    BY <1>2, <1>4, <2>1, <2>2, BeginningOf
<1>6. b = c
  <2> SUFFICES ASSUME b # c PROVE FALSE
    OBVIOUS
  <2>1. b \in a .. c /\ c \in a .. c /\ b < c
    BY <1>2, <1>3, <1>4
  <2>2. cut[b] < Len(p)
    BY <1>3, <2>1 DEF Pieces
  <2> QED
    BY <1>4, <1>5, <2>1, <2>2
<1>7. Whole(a, c, p, cut)
  BY <1>2, <1>4, <1>5, <1>6 DEF Told, Broken, Unfinished
<1>8. Sole(a)
  <2> SUFFICES ASSUME NEW i \in 1 .. Len(log), log[i].prefixed, i # a PROVE FALSE
    BY DEF Sole
  <2>1. ~(i < a)
    BY <1>3 DEF IsFirst
  <2>2. i \in a + 1 .. c \/ i \in b + 1 .. Len(log)
    BY <1>3, <1>4, <1>6, <2>1
  <2> QED
    BY <1>3, <2>2 DEF Pieces
<1> QED
  BY <1>5, <1>7, <1>8 DEF Whole

\* Reading changes nothing that was written.
LEMMA ReadingKeeps ==
    ASSUME UNCHANGED written
    PROVE  /\ WrittenInv' <=> WrittenInv
           /\ \A a, b, text : (Joined(a, b, text)' <=> Joined(a, b, text)) /\ (IsFirst(a)' <=> IsFirst(a))
           /\ Readable' <=> Readable
           /\ \A n : BytesOf(n)' = BytesOf(n)
<1>1. log' = log /\ left' = left /\ emitted' = emitted /\ torn' = torn
  BY DEF written
<1>2. \A n : BytesOf(n)' = BytesOf(n)
  BY <1>1 DEF BytesOf
<1>3. \A a : (IsFirst(a)' <=> IsFirst(a)) /\ (Sole(a)' <=> Sole(a)) /\ (Forged(a)' <=> Forged(a))
  BY <1>1 DEF IsFirst, Sole, Forged
<1>4. \A a, c, p, cut : Told(a, c, p, cut)' <=> Told(a, c, p, cut)
  BY <1>1, <1>3 DEF Told, Pieces, Whole, Broken, Unfinished
<1>5. \A a, b, text : Joined(a, b, text)' <=> Joined(a, b, text)
  BY <1>1, <1>4 DEF Joined, Legible
<1>6. Story' <=> Story
  BY <1>3, <1>4 DEF Story
<1>7. WrittenInv' <=> WrittenInv
  BY <1>1, <1>2, <1>6 DEF WrittenInv, NonePrefixed
<1>8. Readable' <=> Readable
  BY <1>1, <1>2 DEF Readable, Total
<1> QED
  BY <1>2, <1>3, <1>5, <1>7, <1>8

\* An answer that says no more than what is known.
LEMMA StopKeepsRead ==
    ASSUME ReadInv, NEW r \in Payloads \cup {Refused}, Reading, Stop(r),
           r \in Payloads => emitted = <<r>> /\ ~torn /\ left = <<>>,
           r = Refused => ~Readable
    PROVE  ReadInv'
<1>1. /\ UNCHANGED <<written, at, bytes, selected, partial>> /\ result' = r
      /\ at # None /\ at \in 1 .. Len(log) + 1
  BY DEF Stop, Reading, ReadInv
<1>2. /\ at' = at /\ bytes' = bytes /\ selected' = selected /\ partial' = partial
      /\ log' = log /\ emitted' = emitted /\ left' = left /\ torn' = torn /\ UNCHANGED written
  BY <1>1 DEF written
<1>3. (Looking \/ Joining \/ Found)' <=> (Looking \/ Joining \/ Found)
  BY <1>2, ReadingKeeps DEF Looking, Joining, Found
<1>4. ReadIsEmitted' /\ WholeIsRead'
  BY <1>1, <1>2, ReadingKeeps DEF ReadIsEmitted, WholeIsRead
<1> QED
  BY <1>1, <1>2, <1>3, <1>4, ReadingKeeps DEF ReadInv, Reading

\* The reader steps to the next line.
LEMMA AdvanceCounts ==
    ASSUME LogInv, Reading, at <= Len(log), ~Overflows, NEW sel, NEW par, Advance(sel, par)
    PROVE  /\ UNCHANGED written /\ selected' = sel /\ partial' = par /\ result' = None
           /\ at \in Nat /\ at' = at + 1 /\ at' \in 1 .. Len(log') + 1 /\ at' - 1 = at
           /\ (bytes = Cardinality(BytesOf(at - 1)) /\ IsFiniteSet(BytesOf(at - 1)))'
           /\ bytes' \in 0 .. MaxLog
           /\ ReadIsEmitted' /\ WholeIsRead'
<1>1. /\ UNCHANGED written /\ selected' = sel /\ partial' = par /\ result' = None
      /\ at' = at + 1 /\ bytes' = bytes + Size(log[at])
  BY DEF Advance, Reading
<1>2. /\ at \in 1 .. Len(log) + 1 /\ bytes = Cardinality(BytesOf(at - 1))
      /\ IsFiniteSet(BytesOf(at - 1)) /\ bytes \in 0 .. MaxLog
  BY DEF LogInv, ReadInv, Reading
<1>3. Len(log) \in Nat /\ at \in 1 .. Len(log) /\ log[at] \in Lines
  <2>1. log \in Seq(Lines)
    BY DEF LogInv, WrittenInv
  <2>2. Len(log) \in Nat
    BY <2>1
  <2>3. at \in 1 .. Len(log)
    BY <1>2, <2>2
  <2> QED
    BY <2>1, <2>2, <2>3, ElementOfSeq
<1>4. PICK n \in Nat : n = at - 1 /\ n + 1 = at
  BY <1>3
<1>5. Size(log[at]) \in Nat
  BY <1>3, SizeTyped
<1>6. IsFiniteSet(BytesOf(at)) /\ Cardinality(BytesOf(at)) = bytes + Size(log[at])
  BY <1>2, <1>4, <1>5, BytesOfOneMore
<1>7. log' = log /\ at' - 1 = at
  BY <1>1, <1>3 DEF written
<1>8. BytesOf(at - 1)' = BytesOf(at)
  BY <1>1, <1>7 DEF BytesOf
<1>9. bytes' \in 0 .. MaxLog
  <2>1. bytes + Size(log[at]) <= MaxLog
    <3>1. MaxLog \in Nat /\ bytes + Size(log[at]) \in Nat
      BY <1>2, <1>5, LogAssumption
    <3> QED
      BY <3>1 DEF Overflows
  <2> QED
    BY <1>1, <1>2, <1>5, <2>1, LogAssumption
<1>10. ReadIsEmitted' /\ WholeIsRead'
  BY <1>1, LogAssumption DEF ReadIsEmitted, WholeIsRead
<1> QED
  BY <1>1, <1>3, <1>6, <1>7, <1>8, <1>9, <1>10

\* A log that is readable holds no line too many.
LEMMA ReadableFits ==
    ASSUME LogInv, Reading, at <= Len(log), Readable
    PROVE  ~Overflows
<1>1. /\ at \in 1 .. Len(log) + 1 /\ bytes = Cardinality(BytesOf(at - 1))
      /\ IsFiniteSet(BytesOf(at - 1)) /\ IsFiniteSet(BytesOf(Len(log)))
  BY DEF LogInv, ReadInv, Reading, WrittenInv
<1>2. Len(log) \in Nat /\ at \in 1 .. Len(log) /\ log[at] \in Lines
  <2>1. log \in Seq(Lines)
    BY DEF LogInv, WrittenInv
  <2>2. Len(log) \in Nat
    BY <2>1
  <2>3. at \in 1 .. Len(log)
    BY <1>1, <2>2
  <2> QED
    BY <2>1, <2>2, <2>3, ElementOfSeq
<1>3. PICK n \in Nat : n = at - 1 /\ n + 1 = at
  BY <1>2
<1>4. IsFiniteSet(BytesOf(at)) /\ Cardinality(BytesOf(at)) = bytes + Size(log[at])
  BY <1>1, <1>2, <1>3, SizeTyped, BytesOfOneMore
<1>5. BytesOf(at) \in SUBSET BytesOf(Len(log))
  <2>1. 1 .. at \subseteq 1 .. Len(log)
    BY <1>2
  <2> QED
    BY <2>1 DEF BytesOf
<1>6. Cardinality(BytesOf(at)) <= Cardinality(BytesOf(Len(log)))
  BY <1>1, <1>5, FS_Subset
<1>7. Cardinality(BytesOf(Len(log))) <= MaxLog
  BY DEF Readable, Total
<1>8. Cardinality(BytesOf(at)) \in Nat /\ Cardinality(BytesOf(Len(log))) \in Nat /\ MaxLog \in Nat
  BY <1>1, <1>4, FS_CardinalityType, LogAssumption
<1> QED
  BY <1>4, <1>6, <1>7, <1>8 DEF Overflows

\* A text is joined: it is too long, whole, or to be continued.
LEMMA JoinKeepsRead ==
    ASSUME LogInv, Reading, at <= Len(log), ~Overflows, selected = None, NEW text \in Text, Join(text),
           NEW a, IsFirst(a), a <= at, log[a].text # <<>>, Joined(a, at, text)
    PROVE  ReadInv'
<1>1. WrittenInv /\ ReadInv /\ at \in 1 .. Len(log) + 1 /\ log \in Seq(Lines)
  BY DEF LogInv, ReadInv, Reading, WrittenInv
<1>2. a \in Nat /\ a \in 1 .. Len(log) /\ Len(log) \in Nat /\ at \in Nat
  BY <1>1, FirstIsALine
<1>3. CASE Len(text) > MaxPayload
  <2>1. Stop(Refused)
    BY <1>3 DEF Join, Raise
  <2>2. ~Readable
    <3> SUFFICES ASSUME Legible PROVE FALSE
      BY DEF Readable, Legible
    <3>1. PICK c, p, cut : Pieces(a, c, p, cut) /\ at \in a .. c /\ text = SubSeq(p, 1, cut[at])
      BY <1>1, LegibleIsWhole
    <3>2. p \in Payloads /\ cut[at] \in 0 .. Len(p)
      BY <1>2, <3>1, CutsFit
    <3>3. Len(text) = cut[at]
      BY <3>1, <3>2, BeginningOf
    <3> QED
      BY <1>3, <3>2, <3>3, PayloadsAreTexts
  <2>3. Refused \notin Payloads
    BY PayloadsAreTexts
  <2> QED
    BY <1>1, <2>1, <2>2, <2>3, StopKeepsRead
<1>4. CASE ~(Len(text) > MaxPayload) /\ Complete(text)
  <2>1. Advance(text, None)
    BY <1>4 DEF Join
  <2>2. /\ UNCHANGED written /\ selected' = text /\ partial' = None /\ result' = None
        /\ at' = at + 1 /\ at' \in 1 .. Len(log') + 1 /\ at' - 1 = at
        /\ (bytes = Cardinality(BytesOf(at - 1)) /\ IsFiniteSet(BytesOf(at - 1)))'
        /\ bytes' \in 0 .. MaxLog
        /\ ReadIsEmitted' /\ WholeIsRead'
    BY <2>1, AdvanceCounts
  <2>3. Found'
    <3>0. PICK b \in Nat : b = at
      BY <1>2
    <3>1. IsFirst(a)' /\ Joined(a, b, text)' /\ log'[a].text # <<>> /\ b \in a .. at' - 1
          /\ b + 1 .. at' - 1 = {}
      <4>1. log' = log
        BY <2>2 DEF written
      <4>2. b \in a .. at' - 1 /\ b + 1 .. at' - 1 = {}
        BY <1>2, <2>2, <3>0
      <4> QED
        BY <2>2, <3>0, <4>1, <4>2, ReadingKeeps
    <3> QED
      BY <1>4, <2>2, <3>1 DEF Found
  <2> QED
    BY <2>2, <2>3 DEF ReadInv
<1>5. CASE ~(Len(text) > MaxPayload) /\ ~Complete(text)
  <2>1. Advance(selected, text)
    BY <1>5 DEF Join
  <2>2. /\ UNCHANGED written /\ selected' = selected /\ partial' = text /\ result' = None
        /\ at' = at + 1 /\ at' \in 1 .. Len(log') + 1 /\ at' - 1 = at
        /\ (bytes = Cardinality(BytesOf(at - 1)) /\ IsFiniteSet(BytesOf(at - 1)))'
        /\ bytes' \in 0 .. MaxLog
        /\ ReadIsEmitted' /\ WholeIsRead'
    BY <2>1, AdvanceCounts
  <2>3. Joining'
    <3>1. Len(text) <= MaxPayload
      BY <1>5, LogAssumption DEF Text
    <3>2. log' = log /\ a < at'
      BY <1>2, <2>2 DEF written
    <3>3. Joined(a, at - 1, partial)' /\ IsFirst(a)'
      <4>1. PICK b \in Nat : b = at
        BY <1>2
      <4>2. Joined(a, b, text)' /\ IsFirst(a)'
        BY <2>2, <4>1, ReadingKeeps
      <4> QED
        BY <2>2, <4>1, <4>2
    <3> QED
      BY <1>5, <2>2, <3>1, <3>2, <3>3 DEF Joining
  <2> QED
    BY <2>2, <2>3 DEF ReadInv
<1> QED
  BY <1>3, <1>4, <1>5

\* The log ends: what was found is the observation, or there is none to be read.
LEMMA EndKeepsRead ==
    ASSUME LogInv, Reading, at > Len(log), EndOfLog
    PROVE  ReadInv'
<1>1. WrittenInv /\ ReadInv /\ at \in 1 .. Len(log) + 1 /\ log \in Seq(Lines) /\ Len(log) \in Nat
  <2>1. log \in Seq(Lines) /\ at \in 1 .. Len(log) + 1
    BY DEF LogInv, ReadInv, Reading, WrittenInv
  <2> QED
    BY <2>1 DEF LogInv
<1>2. at - 1 = Len(log)
  BY <1>1
<1>3. Looking \/ Joining \/ Found
  BY DEF LogInv, ReadInv, Reading
<1>4. None \notin Text /\ Refused \notin Payloads
  BY PayloadsAreTexts, LogAssumption DEF Text
<1>5. CASE Looking
  <2>1. Stop(Refused)
    BY <1>5 DEF EndOfLog, Raise, Looking
  <2>2. ~Readable
    <3>1. NonePrefixed
      BY <1>2, <1>5 DEF Looking, NonePrefixed
    <3>2. emitted = <<>>
      BY <1>1, <3>1 DEF WrittenInv, Story, IsFirst, NonePrefixed
    <3> QED
      BY <3>2 DEF Readable
  <2> QED
    BY <1>1, <1>4, <2>1, <2>2, StopKeepsRead
<1>6. CASE Joining
  <2>1. PICK a : IsFirst(a) /\ a < at /\ log[a].text # <<>> /\ Joined(a, at - 1, partial)
    BY <1>6 DEF Joining
  <2>2. partial \in Text /\ ~Complete(partial) /\ partial # None
    BY <1>4, <1>6 DEF Joining
  <2>3. partial \notin Payloads
    <3> SUFFICES ASSUME partial \in Payloads PROVE FALSE
      OBVIOUS
    <3>1. Len(partial) \in 1 .. Len(partial) /\ SubSeq(partial, 1, Len(partial)) = partial
      BY PayloadsAreTexts, SubSeqFull DEF Text
    <3> QED
      BY <2>2, <3>1, PayloadsAreTexts
  <2>4. Stop(Refused)
    BY <2>2, <2>3 DEF EndOfLog, Decode
  <2>5. ~Readable
    <3> SUFFICES ASSUME Legible PROVE FALSE
      BY DEF Readable, Legible
    <3>1. PICK c, p, cut : /\ Pieces(a, c, p, cut) /\ cut[c] = Len(p) /\ Len(log) \in a .. c
                           /\ partial = SubSeq(p, 1, cut[Len(log)])
      BY <1>1, <1>2, <2>1, LegibleIsWhole
    <3>2. /\ a \in Nat /\ p \in Payloads /\ Len(p) \in Nat /\ c \in Nat /\ c <= Len(log)
      BY <1>1, <2>1, <3>1, FirstIsALine, CutsFit
    <3>3. c = Len(log)
      BY <1>1, <3>1, <3>2
    <3>4. partial = p
      BY <3>1, <3>2, <3>3, BeginningOf
    <3> QED
      BY <2>3, <3>2, <3>4
  <2> QED
    BY <1>1, <1>4, <2>4, <2>5, StopKeepsRead
<1>7. CASE Found
  <2>1. PICK a, b : /\ IsFirst(a) /\ log[a].text # <<>> /\ b \in a .. at - 1
                    /\ Joined(a, b, selected)
                    /\ \A i \in b + 1 .. at - 1 : ~log[i].prefixed
    BY <1>7 DEF Found
  <2>2. selected \in Text /\ Complete(selected) /\ selected # None /\ partial = None
    BY <1>4, <1>7 DEF Found
  <2>3. Stop(Decode(selected))
    BY <2>2 DEF EndOfLog
  <2>4. CASE selected \in Payloads
    <3>1. emitted = <<selected>> /\ ~torn /\ left = <<>>
      BY <1>1, <1>2, <2>1, <2>4, JoinedIsEmitted
    <3>2. Stop(selected) /\ selected # Refused
      BY <1>4, <2>3, <2>4 DEF Decode
    <3> QED
      BY <1>1, <2>4, <3>1, <3>2, StopKeepsRead
  <2>5. CASE selected \notin Payloads
    <3>1. Stop(Refused)
      BY <2>3, <2>5 DEF Decode
    <3>2. ~Readable
      <4> SUFFICES ASSUME Legible, Readable PROVE FALSE
        BY DEF Readable, Legible
      <4>1. PICK c, p, cut : /\ Pieces(a, c, p, cut) /\ b \in a .. c
                             /\ selected = SubSeq(p, 1, cut[b])
        BY <1>1, <2>1, LegibleIsWhole
      <4>2. /\ a \in Nat /\ a \in 1 .. Len(log) /\ p \in Payloads /\ Len(p) \in Nat
            /\ cut[b] \in 0 .. Len(p) /\ cut[a] \in 0 .. Len(p)
            /\ a \in a .. c /\ b \in Nat
        <5>1. a \in Nat /\ a \in 1 .. Len(log)
          BY <1>1, <2>1, FirstIsALine
        <5>2. p \in Payloads /\ Len(p) \in Nat /\ c \in Nat /\ a <= c
              /\ \A i \in a .. c : cut[i] \in 0 .. Len(p)
          BY <1>1, <4>1, <5>1, CutsFit
        <5>3. a \in a .. c /\ b \in Nat
          BY <4>1, <5>1, <5>2
        <5> QED
          BY <4>1, <5>1, <5>2, <5>3
      <4>3. cut[a] # 0
        <5>1. log[a].text = SubSeq(p, 1, cut[a])
          BY <4>1 DEF Pieces
        <5> QED
          BY <2>1, <5>1, SubSeqEmpty
      <4>4. cut[b] # 0
        <5>1. CASE a = b
          BY <4>3, <5>1
        <5>2. CASE a # b
          <6>1. a < b /\ b \in a .. c
            BY <4>1, <4>2, <5>2
          <6>2. cut[a] <= cut[b]
            BY <4>1, <4>2, <6>1 DEF Pieces
          <6> QED
            BY <4>2, <4>3, <6>2
        <5> QED
          BY <5>1, <5>2
      <4>5. selected # <<>>
        <5>1. Len(selected) = cut[b]
          BY <4>1, <4>2, BeginningOf
        <5>2. Len(<<>>) = 0
          OBVIOUS
        <5> QED
          BY <4>4, <5>1, <5>2
      <4>6. selected = p
        BY <2>2, <4>1, <4>2, <4>5, BeginningOf
      <4> QED
        BY <2>5, <4>2, <4>6
    <3> QED
      BY <1>1, <1>4, <3>1, <3>2, StopKeepsRead
  <2> QED
    BY <2>4, <2>5
<1> QED
  BY <1>3, <1>5, <1>6, <1>7

\* A line that is not joined: it is passed over, begins the observation or is refused.
LEMMA LookKeepsRead ==
    ASSUME LogInv, Reading, at <= Len(log), ~Overflows, partial = None,
           Skip \/ TooLong \/ Second \/ First
    PROVE  ReadInv'
<1>1. /\ WrittenInv /\ ReadInv /\ at \in 1 .. Len(log) + 1 /\ log \in Seq(Lines)
      /\ Len(log) \in Nat /\ at \in 1 .. Len(log) /\ at \in Nat
  <2>1. log \in Seq(Lines) /\ at \in 1 .. Len(log) + 1
    BY DEF LogInv, ReadInv, Reading, WrittenInv
  <2> QED
    BY <2>1 DEF LogInv
<1>2. Looking \/ Found
  <2>1. Looking \/ Joining \/ Found
    BY DEF LogInv, ReadInv, Reading
  <2>2. None \notin Text
    BY LogAssumption DEF Text
  <2> QED
    BY <2>1, <2>2 DEF Joining
<1>3. Refused \notin Payloads /\ None \notin Text
  BY PayloadsAreTexts, LogAssumption DEF Text
<1>4. log[at].text \in Text /\ log[at].prefixed \in BOOLEAN /\ log[at] \in Lines
      /\ Len(log[at].text) \in Nat
  <2>1. log[at] \in Lines
    BY <1>1, ElementOfSeq
  <2> QED
    BY <2>1, SizeTyped DEF Lines
<1>5. log[at].prefixed /\ Looking => IsFirst(at)
  BY <1>1 DEF Looking, IsFirst
<1>6. CASE Skip
  <2>1. ~log[at].prefixed /\ Advance(selected, None)
    BY <1>6 DEF Skip
  <2>2. /\ UNCHANGED written /\ selected' = selected /\ partial' = None /\ result' = None
        /\ at' = at + 1 /\ at' \in 1 .. Len(log') + 1 /\ at' - 1 = at
        /\ (bytes = Cardinality(BytesOf(at - 1)) /\ IsFiniteSet(BytesOf(at - 1)))'
        /\ bytes' \in 0 .. MaxLog
        /\ ReadIsEmitted' /\ WholeIsRead'
    BY <2>1, AdvanceCounts
  <2>3. log' = log
    BY <2>2 DEF written
  <2>4. CASE Looking
    <3>1. Looking'
      BY <1>1, <2>1, <2>2, <2>3, <2>4 DEF Looking
    <3> QED
      BY <2>2, <3>1 DEF ReadInv
  <2>5. CASE Found
    <3>1. PICK a, b : /\ IsFirst(a) /\ log[a].text # <<>> /\ b \in a .. at - 1
                      /\ Joined(a, b, selected)
                      /\ \A i \in b + 1 .. at - 1 : ~log[i].prefixed
      BY <2>5 DEF Found
    <3>2. a \in Nat
      BY <1>1, <3>1, FirstIsALine
    <3>3. b \in a .. at' - 1 /\ \A i \in b + 1 .. at' - 1 : ~log'[i].prefixed
      BY <1>1, <2>1, <2>2, <2>3, <3>1, <3>2
    <3>4. IsFirst(a)' /\ Joined(a, b, selected)'
      <4>1. PICK text : text = selected
        OBVIOUS
      <4>2. IsFirst(a)' /\ Joined(a, b, text)'
        BY <2>2, <3>1, <4>1, ReadingKeeps
      <4> QED
        BY <2>2, <4>1, <4>2
    <3>5. Found'
      BY <2>2, <2>3, <2>5, <3>1, <3>3, <3>4 DEF Found
    <3> QED
      BY <2>2, <3>5 DEF ReadInv
  <2> QED
    BY <1>2, <2>4, <2>5
<1>7. CASE TooLong
  <2>1. log[at].prefixed /\ Oversize(log[at]) /\ Stop(Refused)
    BY <1>7 DEF TooLong, Raise
  <2>2. ~Readable
    <3> SUFFICES ASSUME Legible PROVE FALSE
      BY DEF Readable, Legible
    <3>1. PICK a : IsFirst(a)
      BY <1>1, <2>1 DEF WrittenInv, NonePrefixed, Story
    <3>2. a \in 1 .. Len(log) /\ log[a].prefixed
      BY <3>1 DEF IsFirst
    <3>3. a = at
      BY <1>1, <2>1, <3>2 DEF WrittenInv, Legible
    <3>4. PICK c, p, cut : /\ Pieces(a, c, p, cut) /\ a \in a .. c
                           /\ log[a].text = SubSeq(p, 1, cut[a])
      BY <1>1, <3>1, JoinedFirst, LegibleIsWhole
    <3>5. p \in Payloads /\ cut[a] \in 0 .. Len(p)
      BY <1>1, <3>3, <3>4, CutsFit
    <3>6. Len(log[at].text) <= MaxPayload
      <4>1. Len(log[at].text) = cut[a]
        BY <3>3, <3>4, <3>5, BeginningOf
      <4> QED
        BY <3>5, <4>1, PayloadsAreTexts
    <3>7. Size(log[at]) = Len(log[at].text) + 1
      BY <2>1 DEF Size
    <3>8. MaxPayload \in Nat /\ MaxLine \in Nat /\ MaxPayload < MaxLine
      BY LogAssumption
    <3> QED
      BY <1>4, <2>1, <3>6, <3>7, <3>8 DEF Oversize
  <2> QED
    BY <1>1, <1>3, <2>1, <2>2, StopKeepsRead
<1>8. CASE Second
  <2>1. log[at].prefixed /\ (selected # None \/ log[at].text = <<>>) /\ Stop(Refused)
    BY <1>8 DEF Second, Raise
  <2>2. ~Readable
    <3> SUFFICES ASSUME Readable PROVE FALSE
      OBVIOUS
    <3>1. log[at].text # <<>>
      BY <1>1, <2>1 DEF Readable
    <3>2. Found
      BY <1>2, <2>1, <3>1 DEF Looking
    <3>3. PICK a, b : IsFirst(a) /\ b \in a .. at - 1
      BY <3>2 DEF Found
    <3>4. a \in 1 .. Len(log) /\ log[a].prefixed /\ a # at
      BY <1>1, <3>3 DEF IsFirst
    <3> QED
      BY <1>1, <2>1, <3>4 DEF WrittenInv, Readable
  <2> QED
    BY <1>1, <1>3, <2>1, <2>2, StopKeepsRead
<1>9. CASE First
  <2>1. log[at].prefixed /\ selected = None /\ log[at].text # <<>> /\ Join(log[at].text)
    BY <1>9 DEF First
  <2>2. IsFirst(at)
    BY <1>2, <1>3, <1>5, <2>1 DEF Found
  <2>3. Joined(at, at, log[at].text) /\ at <= at
    BY <1>1, <2>2, JoinedFirst
  <2>4. PICK a \in Nat, text \in Text : a = at /\ text = log[at].text
    BY <1>1, <1>4
  <2> QED
    BY <1>1, <2>1, <2>2, <2>3, <2>4, JoinKeepsRead
<1> QED
  BY <1>6, <1>7, <1>8, <1>9

\* The line that is joined to what was read of the observation.
LEMMA ContinueKeepsRead ==
    ASSUME LogInv, Reading, at <= Len(log), ~Overflows, partial # None, Continue
    PROVE  ReadInv'
<1>1. Joining
  BY DEF LogInv, ReadInv, Reading, Looking, Found
<1>2. PICK a : IsFirst(a) /\ a < at /\ log[a].text # <<>> /\ Joined(a, at - 1, partial)
  BY <1>1 DEF Joining
<1>3. selected = None /\ partial \in Text /\ ~Complete(partial) /\ partial # <<>>
  BY <1>1 DEF Joining, Complete
<1>4. WrittenInv /\ at \in 1 .. Len(log) + 1 /\ log \in Seq(Lines)
  BY DEF LogInv, ReadInv, Reading, WrittenInv
<1>5. a \in Nat /\ Len(log) \in Nat
  BY <1>2, <1>4, FirstIsALine
<1>6. PICK n \in Nat : n = at - 1 /\ n + 1 = at
  BY <1>4, <1>5
<1>7. n \in a .. Len(log) - 1
  BY <1>2, <1>5, <1>6
<1> DEFINE more == partial \o (IF log[n + 1].prefixed THEN <<"prefix">> ELSE <<>>) \o log[n + 1].text
<1>8. more \in Text /\ Joined(a, n + 1, more)
  BY <1>2, <1>3, <1>4, <1>6, <1>7, JoinedNext
<1>9. Join(more)
  BY <1>6 DEF Continue
<1> HIDE DEF more
<1>10. PICK text \in Text : text = more
  BY <1>8
<1>11. Join(text) /\ Joined(a, at, text) /\ a <= at
  BY <1>2, <1>5, <1>6, <1>8, <1>9, <1>10
<1> QED
  BY <1>2, <1>3, <1>11, JoinKeepsRead

\* One line is read, or the log ends.
LEMMA LineKeepsRead ==
    ASSUME LogInv, ReadLine
    PROVE  LogInv'
<1>1. Reading /\ ReadInv
  BY DEF ReadLine, LogInv
<1>2. at \in 1 .. Len(log) + 1 /\ Len(log) \in Nat
  <2>1. log \in Seq(Lines) /\ at \in 1 .. Len(log) + 1
    BY <1>1 DEF LogInv, ReadInv, Reading, WrittenInv
  <2> QED
    BY <2>1
<1>3. UNCHANGED written
  BY DEF ReadLine, EndOfLog, Continue, Skip, TooLong, Second, First, Join, Raise, Stop, Advance
<1>4. CASE at > Len(log)
  <2>1. EndOfLog
    BY <1>4 DEF ReadLine
  <2> QED
    BY <1>1, <1>3, <1>4, <2>1, EndKeepsRead, ReadingKeeps DEF LogInv
<1>5. CASE at <= Len(log) /\ Overflows
  <2>1. Stop(Refused)
    BY <1>2, <1>5 DEF ReadLine, Raise
  <2>2. ~Readable
    BY <1>1, <1>5, ReadableFits
  <2>3. Refused \notin Payloads
    BY PayloadsAreTexts
  <2> QED
    BY <1>1, <1>3, <2>1, <2>2, <2>3, StopKeepsRead, ReadingKeeps DEF LogInv
<1>6. CASE at <= Len(log) /\ ~Overflows /\ partial # None
  <2>1. Continue
    BY <1>2, <1>6 DEF ReadLine
  <2> QED
    BY <1>1, <1>3, <1>6, <2>1, ContinueKeepsRead, ReadingKeeps DEF LogInv
<1>7. CASE at <= Len(log) /\ ~Overflows /\ partial = None
  <2>1. Skip \/ TooLong \/ Second \/ First
    BY <1>2, <1>7 DEF ReadLine
  <2> QED
    BY <1>1, <1>3, <1>7, <2>1, LookKeepsRead, ReadingKeeps DEF LogInv
<1> QED
  BY <1>2, <1>4, <1>5, <1>6, <1>7

\* The reader starts: no byte and no observation so far.
LEMMA BeginKeepsRead ==
    ASSUME LogInv, BeginReading
    PROVE  LogInv'
<1>1. /\ UNCHANGED written /\ at = None /\ at' = 1 /\ log' = log
      /\ bytes' = bytes /\ selected' = selected /\ partial' = partial /\ result' = result
  BY DEF BeginReading, written
<1>2. log \in Seq(Lines) /\ Len(log) \in Nat /\ None \notin Nat
  <2>1. log \in Seq(Lines)
    BY DEF LogInv, WrittenInv
  <2> QED
    BY <2>1, LogAssumption
<1>3. bytes = 0 /\ selected = None /\ partial = None /\ result = None
  BY <1>1, <1>2 DEF LogInv, ReadInv
<1>4. BytesOf(0) = {} /\ IsFiniteSet({}) /\ Cardinality({}) = 0
  BY FS_EmptySet DEF BytesOf
<1>5. (bytes = Cardinality(BytesOf(at - 1)) /\ IsFiniteSet(BytesOf(at - 1)))'
  <2>1. at' - 1 = 0
    BY <1>1
  <2>2. BytesOf(at - 1)' = {}
    BY <2>1 DEF BytesOf
  <2> QED
    BY <1>1, <1>3, <1>4, <2>2
<1>6. Looking'
  BY <1>1, <1>3 DEF Looking
<1>7. ReadIsEmitted' /\ WholeIsRead'
  BY <1>1, <1>3, LogAssumption DEF ReadIsEmitted, WholeIsRead
<1>8. at' \in 1 .. Len(log') + 1 /\ bytes' \in 0 .. MaxLog
  BY <1>1, <1>2, <1>3, LogAssumption
<1>9. ReadInv'
  BY <1>1, <1>3, <1>5, <1>6, <1>7, <1>8 DEF ReadInv
<1> QED
  BY <1>1, <1>9, ReadingKeeps DEF LogInv

LEMMA LogBegins == Init => LogInv
<1> SUFFICES ASSUME Init PROVE LogInv
  OBVIOUS
<1>1. /\ log = <<>> /\ left = <<>> /\ emitted = <<>> /\ torn = FALSE
      /\ at = None /\ bytes = 0 /\ selected = None /\ partial = None /\ result = None
  BY DEF Init
<1>2. \A S : <<>> \in Seq(S)
  OBVIOUS
<1>3. Len(log) = 0
  BY <1>1
<1>4. NonePrefixed
  BY <1>3 DEF NonePrefixed
<1>5. BytesOf(Len(log)) = {} /\ IsFiniteSet({})
  BY <1>3, FS_EmptySet DEF BytesOf
<1>6. \A i, j \in 1 .. Len(log) : log[i].prefixed /\ log[j].prefixed => i = j
  BY <1>3
<1>7. WrittenInv
  BY <1>1, <1>2, <1>4, <1>5, <1>6 DEF WrittenInv, Text
<1>8. ReadInv
  BY <1>1 DEF ReadInv
<1> QED
  BY <1>7, <1>8 DEF LogInv

\* While the console writes, the reader has not begun.
LEMMA WritingKeepsRead ==
    ASSUME LogInv, Writing
    PROVE  ReadInv'
BY LogAssumption DEF LogInv, ReadInv, Writing

LEMMA LogUnread ==
    ASSUME LogInv, UNCHANGED vars
    PROVE  LogInv'
<1>1. /\ UNCHANGED written /\ at' = at /\ bytes' = bytes /\ selected' = selected
      /\ partial' = partial /\ result' = result /\ log' = log /\ emitted' = emitted
      /\ torn' = torn /\ left' = left
  BY DEF vars, written
<1>2. (Looking \/ Joining \/ Found)' <=> (Looking \/ Joining \/ Found)
  BY <1>1, ReadingKeeps DEF Looking, Joining, Found
<1>3. (ReadIsEmitted /\ WholeIsRead)' <=> (ReadIsEmitted /\ WholeIsRead)
  BY <1>1, ReadingKeeps DEF ReadIsEmitted, WholeIsRead
<1> QED
  BY <1>1, <1>2, <1>3, ReadingKeeps DEF LogInv, ReadInv

LEMMA LogGoesOn ==
    ASSUME LogInv, Next
    PROVE  LogInv'
<1>1. ASSUME NEW prefixed \in BOOLEAN, NEW text \in NoiseTexts, Noise(prefixed, text)
      PROVE  LogInv'
  BY <1>1, NoiseKeepsWritten, WritingKeepsRead DEF LogInv, Noise
<1>2. ASSUME NEW payload \in Payloads, NEW k \in 0 .. Len(payload), Emit(payload, k)
      PROVE  LogInv'
  BY <1>2, EmitKeepsWritten, WritingKeepsRead DEF LogInv, Emit
<1>3. ASSUME NEW k \in 1 .. MaxPayload, Wrap(k)
      PROVE  LogInv'
  <2>1. k \in Nat
    BY LogAssumption
  <2> QED
    BY <1>3, <2>1, WrapKeepsWritten, WritingKeepsRead DEF LogInv, Wrap
<1>4. CASE Done
  BY <1>4, LogUnread DEF Done
<1>5. CASE Blank
  BY <1>5, BlankKeepsWritten, WritingKeepsRead DEF LogInv, Blank
<1> QED
  BY <1>1, <1>2, <1>3, <1>4, <1>5, BeginKeepsRead, LineKeepsRead DEF Next


LEMMA LogInvSuffices == LogInv => LogIsRead
<1> SUFFICES ASSUME LogInv PROVE LogIsRead
  OBVIOUS
<1>1. None \notin Text
  BY LogAssumption DEF Text
<1>2. partial # None => Len(partial) <= MaxPayload /\ ~Complete(partial)
  BY DEF LogInv, ReadInv, Looking, Joining, Found
<1>3. CASE at = None /\ bytes = 0 /\ result = None
  <2>1. bytes \in 0 .. MaxLog
    BY <1>3, LogAssumption
  <2> QED
    BY <1>2, <1>3, <2>1, LogAssumption DEF LogIsRead, TypeOK, ReadIsEmitted, WholeIsRead
<1>4. CASE ~(at = None /\ bytes = 0 /\ result = None)
  BY <1>2, <1>4 DEF LogInv, ReadInv, LogIsRead, TypeOK
<1> QED
  BY <1>3, <1>4

(***************************************************************************)
(* However the console wraps, breaks off, repeats and surrounds what it    *)
(* writes, and wherever it stops, the reader's answer is the observation   *)
(* the fold emitted, alone and in one piece; and one that was written      *)
(* whole, in a log within the limits, is not refused (observation.py       *)
(* 613-704).                                                               *)
(***************************************************************************)
THEOREM LogsAreRead == AllSpec => []LogIsRead
<1>1. AllInit => LogInv
  BY LogBegins DEF AllInit
<1>2. LogInv /\ [AllNext]_all => LogInv'
  <2>1. ASSUME LogInv, Next PROVE LogInv'
    BY <2>1, LogGoesOn
  <2>2. ASSUME LogInv, UNCHANGED vars PROVE LogInv'
    BY <2>2, LogUnread
  <2>3. UNCHANGED all => UNCHANGED vars
    BY DEF all
  <2> QED
    BY <2>1, <2>2, <2>3 DEF AllNext
<1>3. LogInv => LogIsRead
  BY LogInvSuffices
<1> QED
  BY <1>1, <1>2, <1>3, PTL DEF AllSpec

-----------------------------------------------------------------------------
(***************************************************************************)
(* The offline phases.  What is stored is an observation or an aggregate   *)
(* of as many folds as there are, all of its format, whatever was edited;  *)
(* and a phase holds no more than it may have read.                        *)
(***************************************************************************)
Tallied(format) == [format : {format}, fold : Operator!Folds, figure : Int]

Stored(content) ==
    \/ content = None \/ content \in Operator!Observations
    \/ \E format \in Operator!Formats : \E folds \in [DOMAIN FoldNames -> Tallied(format)] : \E summary :
          content = [aggregate |-> format, folds |-> folds, summary |-> summary]

Of(format) == {o \in Operator!Observations : o.format = format}

Phase(r) ==
    \/ r = Operator!Idle
    \/ \E format \in Operator!Formats : \E out :
          r = [phase |-> "extract", format |-> format, out |-> out, paths |-> <<>>, read |-> <<>>]
    \/ \E format \in Operator!Formats : \E out : \E o \in Of(format) :
          r = [phase |-> "write", format |-> format, out |-> out, paths |-> <<>>, read |-> <<o>>]
    \/ \E format \in Operator!Formats : \E out : \E paths \in Operator!PathLists, read \in Seq(Of(format)) :
          /\ Len(read) <= Len(FoldNames)
          /\ r = [phase |-> "aggregate", format |-> format, out |-> out, paths |-> paths, read |-> read]

OperatorInv ==
    /\ DOMAIN input = Operator!Formats
    /\ \A format \in Operator!Formats : input[format] \in Of(format) \cup {None}
    /\ DOMAIN files = Operator!Paths /\ \A path \in Operator!Paths : Stored(files[path])
    /\ DOMAIN process = Phases /\ \A p \in Phases : Phase(process[p])
    /\ Operator!ShownIsDerived

LEMMA OperatorParameters == Readings \subseteq Int /\ Operator!OperatorAssumption
BY EvidenceAssumption DEF Operator!OperatorAssumption

LEMMA FoldsOfProtocol ==
    /\ Len(FoldNames) \in Nat /\ 1 <= Len(FoldNames) /\ DOMAIN FoldNames = 1 .. Len(FoldNames)
    /\ Operator!Folds = {FoldNames[i] : i \in 1 .. Len(FoldNames)} /\ Operator!Folds \subseteq Operator!Paths
<1>1. FoldNames \in Seq(Operator!ToSet(FoldNames)) /\ FoldNames # <<>>
  BY OperatorParameters DEF Operator!OperatorAssumption
<1>2. Len(FoldNames) \in Nat /\ 1 <= Len(FoldNames) /\ DOMAIN FoldNames = 1 .. Len(FoldNames)
  BY <1>1
<1>3. Operator!Folds = {FoldNames[i] : i \in 1 .. Len(FoldNames)}
  BY <1>2 DEF Operator!Folds, Operator!ToSet
<1> QED
  BY <1>2, <1>3 DEF Operator!Paths

\* The folds in their order are all there, of one format if what was read is.
LEMMA InOrder ==
    ASSUME NEW observed, NEW S, {observed[i] : i \in DOMAIN observed} \subseteq S, Operator!CoversFolds(observed)
    PROVE  /\ Operator!InFoldOrder(observed) \in [DOMAIN FoldNames -> S]
           /\ \A i \in DOMAIN FoldNames : Operator!InFoldOrder(observed)[i].fold = FoldNames[i]
<1> SUFFICES ASSUME NEW i \in DOMAIN FoldNames
             PROVE  LET o == CHOOSE o \in Operator!ToSet(observed) : o.fold = FoldNames[i]
                    IN  o \in S /\ o.fold = FoldNames[i]
  BY DEF Operator!InFoldOrder
<1>1. FoldNames[i] \in Operator!Folds
  BY FoldsOfProtocol
<1>2. \E j \in DOMAIN observed : observed[j].fold = FoldNames[i]
  BY <1>1 DEF Operator!CoversFolds
<1>3. \E o \in Operator!ToSet(observed) : o.fold = FoldNames[i]
  BY <1>2 DEF Operator!ToSet
<1>4. Operator!ToSet(observed) \subseteq S
  BY DEF Operator!ToSet
<1> QED
  BY <1>3, <1>4

LEMMA StoredObservation ==
    ASSUME NEW content, Stored(content), NEW format \in Operator!Formats
    PROVE  /\ Operator!IsObservation(content, format) => content \in Of(format)
           /\ content # None /\ "aggregate" \in DOMAIN content =>
                 \E tag \in Operator!Formats : \E folds \in [DOMAIN FoldNames -> Tallied(tag)] : \E summary :
                    content = [aggregate |-> tag, folds |-> folds, summary |-> summary]
<1>1. content \in Operator!Observations => "aggregate" \notin DOMAIN content
  BY DEF Operator!Observations
<1>2. (\E tag \in Operator!Formats : \E folds \in [DOMAIN FoldNames -> Tallied(tag)] : \E summary :
          content = [aggregate |-> tag, folds |-> folds, summary |-> summary])
      => "format" \notin DOMAIN content
  OBVIOUS
<1> QED
  BY <1>1, <1>2 DEF Stored, Operator!IsObservation, Of

\* What is written of an aggregate.
LEMMA AggregateStored ==
    ASSUME NEW format \in Operator!Formats, NEW read \in Seq(Of(format)), Operator!CoversFolds(read)
    PROVE  Stored(Operator!Aggregate(format, read))
<1> DEFINE folds == Operator!InFoldOrder(read)
<1>1. {read[i] : i \in DOMAIN read} \subseteq Tallied(format)
  <2>1. \A i \in DOMAIN read : read[i] \in Of(format)
    BY ElementOfSeq
  <2>2. Of(format) \subseteq Tallied(format)
    BY OperatorParameters DEF Of, Tallied, Operator!Observations
  <2> QED
    BY <2>1, <2>2
<1>2. folds \in [DOMAIN FoldNames -> Tallied(format)]
  BY <1>1, InOrder
<1>3. Operator!Aggregate(format, read)
        = [aggregate |-> format, folds |-> folds, summary |-> Operator!Summary(folds)]
  BY DEF Operator!Aggregate
<1> HIDE DEF folds
<1> QED
  BY <1>2, <1>3 DEF Stored

\* What an edit leaves of an aggregate.
LEMMA EditStored ==
    ASSUME NEW format \in Operator!Formats, NEW folds \in [DOMAIN FoldNames -> Tallied(format)], NEW summary,
           NEW content, content = [aggregate |-> format, folds |-> folds, summary |-> summary]
    PROVE  /\ Stored([content EXCEPT !.summary.worst = @ + 1])
           /\ Stored([content EXCEPT !.folds[1].figure = @ + 1])
           /\ Stored([content EXCEPT !.folds[1] = folds[Len(FoldNames)]])
<1>0. \A other \in [DOMAIN FoldNames -> Tallied(format)] : \A s :
        Stored([aggregate |-> format, folds |-> other, summary |-> s])
  BY DEF Stored
<1>1. 1 \in DOMAIN FoldNames /\ Len(FoldNames) \in DOMAIN FoldNames
  BY FoldsOfProtocol
<1>2. folds[1] \in Tallied(format) /\ folds[Len(FoldNames)] \in Tallied(format)
  BY <1>1
<1>3. Stored([content EXCEPT !.summary.worst = @ + 1])
  <2> DEFINE other == [summary EXCEPT !.worst = @ + 1]
  <2>1. [content EXCEPT !.summary.worst = @ + 1] = [aggregate |-> format, folds |-> folds, summary |-> other]
    OBVIOUS
  <2> HIDE DEF other
  <2> QED
    BY <1>0, <2>1
<1>4. Stored([content EXCEPT !.folds[1].figure = @ + 1])
  <2> DEFINE fold == [folds[1] EXCEPT !.figure = @ + 1]
             other == [folds EXCEPT ![1] = fold]
  <2>1. fold \in Tallied(format)
    BY <1>2 DEF Tallied
  <2>2. [content EXCEPT !.folds[1].figure = @ + 1]
          = [aggregate |-> format, folds |-> other, summary |-> summary]
    OBVIOUS
  <2> HIDE DEF fold
  <2>3. other \in [DOMAIN FoldNames -> Tallied(format)]
    BY <2>1
  <2> HIDE DEF other
  <2> QED
    BY <1>0, <2>2, <2>3
<1>5. Stored([content EXCEPT !.folds[1] = folds[Len(FoldNames)]])
  <2> DEFINE last == folds[Len(FoldNames)]
             other == [folds EXCEPT ![1] = last]
  <2>0. last \in Tallied(format)
    BY <1>2
  <2> HIDE DEF last
  <2>1. [content EXCEPT !.folds[1] = last]
          = [aggregate |-> format, folds |-> other, summary |-> summary]
    OBVIOUS
  <2>2. other \in [DOMAIN FoldNames -> Tallied(format)]
    BY <2>0
  <2> HIDE DEF other
  <2> QED
    BY <1>0, <2>1, <2>2 DEF last
<1> QED
  BY <1>3, <1>4, <1>5

\* An aggregate that holds is derived from its folds.
LEMMA HoldsIsDerived ==
    ASSUME NEW content, Stored(content), NEW format \in Operator!Formats,
           Operator!AggregateHolds(content, format)
    PROVE  /\ \A i \in DOMAIN FoldNames : /\ content.folds[i].fold = FoldNames[i]
                                          /\ content.folds[i].format = content.aggregate
           /\ Len(content.folds) = Len(FoldNames) /\ content.summary = Operator!Summary(content.folds)
<1>1. content # None /\ "aggregate" \in DOMAIN content /\ Operator!CoversFolds(content.folds)
      /\ content = Operator!Aggregate(format, content.folds)
  BY DEF Operator!AggregateHolds, Operator!IsAggregate
<1>2. PICK tag \in Operator!Formats :
         \E folds \in [DOMAIN FoldNames -> Tallied(tag)] : \E summary :
            content = [aggregate |-> tag, folds |-> folds, summary |-> summary]
  BY <1>1, StoredObservation
<1>2a. PICK folds \in [DOMAIN FoldNames -> Tallied(tag)] : \E summary :
         content = [aggregate |-> tag, folds |-> folds, summary |-> summary]
  BY <1>2
<1>2b. PICK summary : content = [aggregate |-> tag, folds |-> folds, summary |-> summary]
  BY <1>2a
<1>3. content.folds = folds /\ content.aggregate = tag
  BY <1>2b
<1>4. content.folds = Operator!InFoldOrder(folds) /\ content.summary = Operator!Summary(Operator!InFoldOrder(folds))
  <2>1. content = [aggregate |-> format, folds |-> Operator!InFoldOrder(folds),
                   summary |-> Operator!Summary(Operator!InFoldOrder(folds))]
    BY <1>1, <1>3 DEF Operator!Aggregate
  <2> QED
    BY <2>1
<1>5. \A i \in DOMAIN FoldNames : folds[i].fold = FoldNames[i]
  <2>1. {folds[i] : i \in DOMAIN folds} \subseteq Tallied(tag)
    OBVIOUS
  <2>2. Operator!CoversFolds(folds)
    BY <1>1, <1>3
  <2>3. \A i \in DOMAIN FoldNames : Operator!InFoldOrder(folds)[i].fold = FoldNames[i]
    BY <2>1, <2>2, InOrder
  <2> QED
    BY <1>3, <1>4, <2>3
<1>6. \A i \in DOMAIN FoldNames : folds[i].format = tag
  BY DEF Tallied
<1>7. Len(folds) = Len(FoldNames)
  BY <1>1, <1>3 DEF Operator!CoversFolds
<1> QED
  BY <1>3, <1>4, <1>5, <1>6, <1>7

LEMMA OperatorBegins == Operator!Init => OperatorInv
BY DEF Operator!Init, OperatorInv, Stored, Phase, Operator!ShownIsDerived

\* One phase goes on, or the download or the files change, and nothing is shown.
LEMMA PhaseGoesOn ==
    ASSUME OperatorInv, NEW p \in Phases, NEW r, Operator!Become(p, r), Phase(r),
           UNCHANGED <<input, files>>, shown' = None
    PROVE  OperatorInv'
<1>1. /\ DOMAIN process' = Phases /\ \A q \in Phases : process'[q] = IF q = p THEN r ELSE process[q]
      /\ input' = input /\ files' = files
  BY DEF OperatorInv, Operator!Become
<1>2. \A q \in Phases : Phase(process[q])'
  BY <1>1 DEF OperatorInv, Phase
<1> QED
  BY <1>1, <1>2 DEF OperatorInv, Operator!ShownIsDerived, Stored

LEMMA FileWritten ==
    ASSUME OperatorInv, NEW out, NEW content, Stored(content),
           files' = [files EXCEPT ![out] = content], UNCHANGED input,
           DOMAIN process' = Phases, \A p \in Phases : Phase(process'[p]), shown' = None
    PROVE  OperatorInv'
<1>1. DOMAIN files' = Operator!Paths
      /\ \A path \in Operator!Paths : files'[path] = content \/ files'[path] = files[path]
  BY DEF OperatorInv
<1>2. \A path \in Operator!Paths : Stored(files'[path])
  BY <1>1 DEF OperatorInv
<1> QED
  BY <1>1, <1>2 DEF OperatorInv, Operator!ShownIsDerived, Stored, Phase

LEMMA FailKeeps ==
    ASSUME OperatorInv, NEW p \in Phases, Operator!Fail(p)
    PROVE  OperatorInv'
BY PhaseGoesOn DEF Operator!Fail, Operator!Reads, Phase

LEMMA BecomesIdle ==
    ASSUME OperatorInv, NEW p \in Phases, Operator!Become(p, Operator!Idle)
    PROVE  DOMAIN process' = Phases /\ \A q \in Phases : Phase(process'[q])
<1>1. Phase(Operator!Idle)
  BY DEF Phase
<1>2. /\ DOMAIN process' = Phases
      /\ \A q \in Phases : process'[q] = IF q = p THEN Operator!Idle ELSE process[q]
  BY DEF OperatorInv, Operator!Become
<1> QED
  BY <1>1, <1>2 DEF OperatorInv

\* A file that is replaced by what may be stored, or not at all.
LEMMA StoreKeeps ==
    ASSUME OperatorInv, NEW p \in Phases, NEW content, Stored(content), Operator!Store(p, content)
    PROVE  OperatorInv'
<1>1. CASE Operator!Fail(p)
  BY <1>1, FailKeeps
<1>2. CASE ~Operator!Fail(p)
  <2>1. /\ files' = [files EXCEPT ![process[p].out] = content] /\ shown' = None /\ input' = input
        /\ Operator!Become(p, Operator!Idle)
    BY <1>2 DEF Operator!Store
  <2>2. DOMAIN process' = Phases /\ \A q \in Phases : Phase(process'[q])
    BY <2>1, BecomesIdle
  <2> QED
    BY <2>1, <2>2, FileWritten
<1> QED
  BY <1>1, <1>2

Record(phase, format, out, paths, read) ==
    [phase |-> phase, format |-> format, out |-> out, paths |-> paths, read |-> read]

\* What parsing, reading and writing keep.
LEMMA ExtractKeeps ==
    ASSUME OperatorInv, NEW p \in Phases,
           \/ \E format \in Operator!Formats, out \in Named \cup {None} : Operator!Parse(p, format, out)
           \/ Operator!Reparse(p) \/ Operator!Write(p)
    PROVE  OperatorInv'
<1>1. ASSUME NEW format \in Operator!Formats, NEW out \in Named \cup {None}, Operator!Parse(p, format, out)
      PROVE  OperatorInv'
  <2>1. CASE input[format] = None
    BY <1>1, <2>1, FailKeeps DEF Operator!Parse
  <2>2. CASE input[format] # None
    <3> DEFINE name == IF out = None THEN input[format].fold ELSE out
               r == [Operator!Idle EXCEPT !.phase = "extract", !.format = format, !.out = name]
    <3>1. Operator!Become(p, r) /\ Operator!Reads
      BY <1>1, <2>2 DEF Operator!Parse
    <3>2. r = [phase |-> "extract", format |-> format, out |-> name, paths |-> <<>>, read |-> <<>>]
      <4> DEFINE s == [Operator!Idle EXCEPT !.phase = "extract"]
                 t == [s EXCEPT !.format = format]
      <4>1. s = Record("extract", None, None, <<>>, <<>>) /\ r = [t EXCEPT !.out = name]
        BY DEF Operator!Idle, Record
      <4> HIDE DEF s, name
      <4>2. t = Record("extract", format, None, <<>>, <<>>)
        BY <4>1 DEF Record
      <4> HIDE DEF t
      <4> QED
        BY <4>1, <4>2 DEF Record
    <3> HIDE DEF name, r
    <3>3. Phase(r)
      BY <3>2 DEF Phase
    <3> QED
      BY <3>1, <3>3, PhaseGoesOn DEF Operator!Reads
  <2> QED
    BY <2>1, <2>2
<1>2. CASE Operator!Reparse(p)
  <2>1. PICK format \in Operator!Formats : \E out :
           process[p] = [phase |-> "extract", format |-> format, out |-> out, paths |-> <<>>, read |-> <<>>]
    BY <1>2 DEF Operator!Reparse, OperatorInv, Phase, Operator!Idle
  <2>2. PICK out :
           process[p] = [phase |-> "extract", format |-> format, out |-> out, paths |-> <<>>, read |-> <<>>]
    BY <2>1
  <2>3. CASE input[format] = None
    BY <1>2, <2>2, <2>3, FailKeeps DEF Operator!Reparse
  <2>4. CASE input[format] # None
    <3> DEFINE r == [process[p] EXCEPT !.phase = "write", !.read = <<input[process[p].format]>>]
    <3>1. Operator!Become(p, r) /\ Operator!Reads
      BY <1>2, <2>2, <2>4 DEF Operator!Reparse
    <3>2. r = [phase |-> "write", format |-> format, out |-> out, paths |-> <<>>, read |-> <<input[format]>>]
      <4>1. process[p].format = format
        BY <2>2
      <4> QED
        <5> DEFINE s == [process[p] EXCEPT !.phase = "write"]
                   read == <<input[process[p].format]>>
        <5>1. s = Record("write", format, out, <<>>, <<>>) /\ r = [s EXCEPT !.read = read]
          BY <2>2 DEF Record
        <5>2. read = <<input[format]>>
          BY <4>1
        <5> HIDE DEF s, read, r
        <5> QED
          BY <5>1, <5>2 DEF Record
    <3>3. input[format] \in Of(format)
      BY <2>4 DEF OperatorInv
    <3> HIDE DEF r
    <3>4. Phase(r)
      BY <3>2, <3>3 DEF Phase
    <3> QED
      BY <3>1, <3>4, PhaseGoesOn DEF Operator!Reads
  <2> QED
    BY <2>3, <2>4
<1>3. CASE Operator!Write(p)
  <2>1. PICK format \in Operator!Formats : \E out : \E o \in Of(format) :
           process[p] = [phase |-> "write", format |-> format, out |-> out, paths |-> <<>>, read |-> <<o>>]
    BY <1>3 DEF Operator!Write, OperatorInv, Phase, Operator!Idle
  <2>2. process[p].read[1] \in Operator!Observations
    BY <2>1 DEF Of
  <2>3. Stored(process[p].read[1])
    BY <2>2 DEF Stored
  <2> QED
    BY <1>3, <2>3, StoreKeeps DEF Operator!Write
<1> QED
  BY <1>1, <1>2, <1>3

LEMMA AggregateKeeps ==
    ASSUME OperatorInv, NEW p \in Phases,
           \/ \E format \in Operator!Formats, paths \in Operator!PathLists, out \in Named :
                 Operator!BeginAggregate(p, format, paths, out)
           \/ Operator!Load(p) \/ Operator!WriteAggregate(p)
    PROVE  OperatorInv'
<1>1. ASSUME NEW format \in Operator!Formats, NEW paths \in Operator!PathLists, NEW out \in Named,
             Operator!BeginAggregate(p, format, paths, out)
      PROVE  OperatorInv'
  <2>1. CASE out \in Operator!ToSet(paths)
    BY <1>1, <2>1, FailKeeps DEF Operator!BeginAggregate
  <2>2. CASE out \notin Operator!ToSet(paths)
    <3> DEFINE r == [Operator!Idle EXCEPT !.phase = "aggregate", !.format = format, !.paths = paths, !.out = out]
    <3>1. Operator!Become(p, r) /\ Operator!Reads
      BY <1>1, <2>2 DEF Operator!BeginAggregate
    <3>2. r = [phase |-> "aggregate", format |-> format, out |-> out, paths |-> paths, read |-> <<>>]
      <4> DEFINE s == [Operator!Idle EXCEPT !.phase = "aggregate"]
                 t == [s EXCEPT !.format = format]
                 u == [t EXCEPT !.paths = paths]
      <4>1. s = Record("aggregate", None, None, <<>>, <<>>) /\ r = [u EXCEPT !.out = out]
        BY DEF Operator!Idle, Record
      <4> HIDE DEF s
      <4>2. t = Record("aggregate", format, None, <<>>, <<>>)
        BY <4>1 DEF Record
      <4> HIDE DEF t
      <4>3. u = Record("aggregate", format, None, paths, <<>>)
        BY <4>2 DEF Record
      <4> HIDE DEF u
      <4> QED
        BY <4>1, <4>3 DEF Record
    <3>3. <<>> \in Seq(Of(format)) /\ Len(<<>>) <= Len(FoldNames)
      BY FoldsOfProtocol
    <3> HIDE DEF r
    <3>4. Phase(r)
      BY <3>2, <3>3 DEF Phase
    <3> QED
      BY <3>1, <3>4, PhaseGoesOn DEF Operator!Reads
  <2> QED
    BY <2>1, <2>2
<1>2. ASSUME Operator!Load(p) \/ Operator!WriteAggregate(p)
      PROVE  \E format \in Operator!Formats : \E out : \E paths \in Operator!PathLists, read \in Seq(Of(format)) :
                /\ Len(read) <= Len(FoldNames)
                /\ process[p] = [phase |-> "aggregate", format |-> format, out |-> out, paths |-> paths, read |-> read]
  <2>1. process[p].phase = "aggregate"
    BY <1>2 DEF Operator!Load, Operator!WriteAggregate
  <2> QED
    BY <2>1 DEF OperatorInv, Phase, Operator!Idle
<1>3. CASE Operator!Load(p)
  <2>1. PICK format \in Operator!Formats : \E out : \E paths \in Operator!PathLists, read \in Seq(Of(format)) :
                /\ Len(read) <= Len(FoldNames)
                /\ process[p] = [phase |-> "aggregate", format |-> format, out |-> out, paths |-> paths, read |-> read]
    BY <1>2, <1>3
  <2>2. PICK out : \E paths \in Operator!PathLists, read \in Seq(Of(format)) :
                /\ Len(read) <= Len(FoldNames)
                /\ process[p] = [phase |-> "aggregate", format |-> format, out |-> out, paths |-> paths, read |-> read]
    BY <2>1
  <2>3. PICK paths \in Operator!PathLists, read \in Seq(Of(format)) :
                /\ Len(read) <= Len(FoldNames)
                /\ process[p] = [phase |-> "aggregate", format |-> format, out |-> out, paths |-> paths, read |-> read]
    BY <2>2
  <2> DEFINE content == files[paths[Len(read) + 1]]
  <2>4. paths \in [1 .. Len(FoldNames) -> Operator!Folds] /\ Len(paths) = Len(FoldNames)
    BY FoldsOfProtocol DEF Operator!PathLists
  <2>5. Len(read) \in Nat /\ Len(read) < Len(paths) /\ Len(read) + 1 \in 1 .. Len(FoldNames)
    BY <1>3, <2>3, <2>4, FoldsOfProtocol DEF Operator!Load
  <2>6. Stored(content)
    BY <2>4, <2>5, FoldsOfProtocol DEF OperatorInv
  <2> HIDE DEF content
  <2>7. IF ~Operator!IsObservation(content, format) THEN Operator!Fail(p)
        ELSE Operator!Become(p, [process[p] EXCEPT !.read = Append(@, content)]) /\ Operator!Reads
    BY <1>3, <2>3 DEF Operator!Load, content
  <2>8. CASE ~Operator!IsObservation(content, format)
    BY <2>7, <2>8, FailKeeps
  <2>9. CASE Operator!IsObservation(content, format)
    <3> DEFINE more == Append(read, content)
               r == [process[p] EXCEPT !.read = Append(@, content)]
    <3>1. r = [phase |-> "aggregate", format |-> format, out |-> out, paths |-> paths, read |-> more]
      <4>1. process[p].read = read
        BY <2>3
      <4>2. r = [process[p] EXCEPT !.read = more]
        BY <4>1
      <4> HIDE DEF more, r
      <4> QED
        BY <2>3, <4>2
    <3>2. content \in Of(format)
      BY <2>6, <2>9, StoredObservation
    <3>3. more \in Seq(Of(format)) /\ Len(more) <= Len(FoldNames)
      BY <2>5, <3>2, AppendProperties
    <3>4. Operator!Become(p, r) /\ Operator!Reads
      BY <2>7, <2>9
    <3> HIDE DEF more, r
    <3>5. Phase(r)
      BY <3>1, <3>3 DEF Phase
    <3> QED
      BY <3>4, <3>5, PhaseGoesOn DEF Operator!Reads
  <2> QED
    BY <2>8, <2>9
<1>4. CASE Operator!WriteAggregate(p)
  <2>1. PICK format \in Operator!Formats : \E out : \E paths \in Operator!PathLists, read \in Seq(Of(format)) :
                process[p] = [phase |-> "aggregate", format |-> format, out |-> out, paths |-> paths, read |-> read]
    BY <1>2, <1>4
  <2>2. process[p].format = format /\ process[p].read \in Seq(Of(format))
    BY <2>1
  <2>3. CASE ~Operator!CoversFolds(process[p].read)
    BY <1>4, <2>3, FailKeeps DEF Operator!WriteAggregate
  <2>4. CASE Operator!CoversFolds(process[p].read)
    <3> DEFINE content == Operator!Aggregate(process[p].format, process[p].read)
    <3>1. Stored(content)
      BY <2>2, <2>4, AggregateStored
    <3>2. Operator!Store(p, content)
      BY <1>4, <2>4 DEF Operator!WriteAggregate
    <3> HIDE DEF content
    <3> QED
      BY <3>1, <3>2, StoreKeeps
  <2> QED
    BY <2>3, <2>4
<1> QED
  BY <1>1, <1>3, <1>4

LEMMA EvidenceKeeps ==
    ASSUME OperatorInv, NEW p \in Phases, NEW format \in Operator!Formats, NEW path \in Operator!Paths,
           Operator!Evidence(p, format, path)
    PROVE  OperatorInv'
<1>1. CASE ~Operator!AggregateHolds(files[path], format)
  BY <1>1, FailKeeps DEF Operator!Evidence
<1>2. CASE Operator!AggregateHolds(files[path], format)
  <2>1. shown' = files[path] /\ input' = input /\ files' = files /\ process' = process
    BY <1>2 DEF Operator!Evidence
  <2>2. Stored(files[path])
    BY DEF OperatorInv
  <2>3. Operator!ShownIsDerived'
    <3>1. PICK content : content = files[path]
      OBVIOUS
    <3>2. shown' = content
      BY <2>1, <3>1
    <3>3. /\ \A i \in DOMAIN FoldNames : /\ content.folds[i].fold = FoldNames[i]
                                          /\ content.folds[i].format = content.aggregate
          /\ Len(content.folds) = Len(FoldNames) /\ content.summary = Operator!Summary(content.folds)
      BY <1>2, <2>2, <3>1, HoldsIsDerived
    <3> QED
      BY <3>2, <3>3 DEF Operator!ShownIsDerived
  <2> QED
    BY <2>1, <2>3 DEF OperatorInv, Stored, Phase
<1> QED
  BY <1>1, <1>2

LEMMA ChangesKeep ==
    ASSUME OperatorInv,
           \/ \E content \in Operator!Observations : Operator!NewInput(content.format, content)
           \/ \E format \in Operator!Formats : Operator!NewInput(format, None)
           \/ \E path \in Operator!Paths : Operator!Edit(path)
    PROVE  OperatorInv'
<1>1. ASSUME NEW format \in Operator!Formats, NEW content \in Of(format) \cup {None},
             Operator!NewInput(format, content)
      PROVE  OperatorInv'
  <2>1. /\ input' = [input EXCEPT ![format] = content] /\ shown' = None
        /\ files' = files /\ process' = process
    BY <1>1 DEF Operator!NewInput
  <2>2. /\ DOMAIN input' = Operator!Formats
        /\ \A f \in Operator!Formats : input'[f] \in Of(f) \cup {None}
    BY <2>1 DEF OperatorInv
  <2>3. DOMAIN files' = Operator!Paths /\ \A path \in Operator!Paths : Stored(files'[path])
    BY <2>1 DEF OperatorInv
  <2>4. DOMAIN process' = Phases /\ \A p \in Phases : Phase(process'[p])
    BY <2>1 DEF OperatorInv
  <2>5. Operator!ShownIsDerived'
    BY <2>1 DEF Operator!ShownIsDerived
  <2> QED
    BY <2>2, <2>3, <2>4, <2>5 DEF OperatorInv
<1>2. \A content \in Operator!Observations : content.format \in Operator!Formats /\ content \in Of(content.format)
  BY DEF Operator!Observations, Of
<1>3. ASSUME NEW path \in Operator!Paths, Operator!Edit(path)
      PROVE  OperatorInv'
  <2>1. Stored(files[path]) /\ files[path] # None /\ "aggregate" \in DOMAIN files[path]
    BY <1>3 DEF OperatorInv, Operator!Edit
  <2>2. \E tag \in Operator!Formats : \E folds \in [DOMAIN FoldNames -> Tallied(tag)] : \E summary :
           files[path] = [aggregate |-> tag, folds |-> folds, summary |-> summary]
    <3>1. "log" \in Operator!Formats
      BY DEF Operator!Formats
    <3> QED
      BY <2>1, <3>1, StoredObservation
  <2>3. PICK tag \in Operator!Formats : \E folds \in [DOMAIN FoldNames -> Tallied(tag)] : \E summary :
           files[path] = [aggregate |-> tag, folds |-> folds, summary |-> summary]
    BY <2>2
  <2>4. PICK folds \in [DOMAIN FoldNames -> Tallied(tag)] : \E summary :
           files[path] = [aggregate |-> tag, folds |-> folds, summary |-> summary]
    BY <2>3
  <2>5. PICK summary : files[path] = [aggregate |-> tag, folds |-> folds, summary |-> summary]
    BY <2>4
  <2> DEFINE worse == [files[path] EXCEPT !.summary.worst = @ + 1]
             other == [files[path] EXCEPT !.folds[1].figure = @ + 1]
             twice == [files[path] EXCEPT !.folds[1] = folds[Len(FoldNames)]]
  <2>6. Stored(worse) /\ Stored(other) /\ Stored(twice)
    BY <2>5, EditStored
  <2>7. files[path].folds[Len(FoldNames)] = folds[Len(FoldNames)]
    BY <2>5
  <2>8. path \in DOMAIN files
    BY DEF OperatorInv
  <2>9. \/ files' = [files EXCEPT ![path] = worse]
        \/ files' = [files EXCEPT ![path] = other]
        \/ files' = [files EXCEPT ![path] = twice]
    BY <1>3, <2>7, <2>8 DEF Operator!Edit
  <2> HIDE DEF worse, other, twice
  <2>10. input' = input /\ process' = process /\ shown' = None
    BY <1>3 DEF Operator!Edit
  <2>11. DOMAIN process' = Phases /\ \A q \in Phases : Phase(process'[q])
    BY <2>10 DEF OperatorInv, Phase
  <2> QED
    BY <2>6, <2>9, <2>10, <2>11, FileWritten
<1> QED
  BY <1>1, <1>2, <1>3

LEMMA OperatorGoesOn ==
    ASSUME OperatorInv, Operator!Next
    PROVE  OperatorInv'
<1>1. \/ \E p \in Phases, format \in Operator!Formats, out \in Named \cup {None} : Operator!Parse(p, format, out)
      \/ \E p \in Phases : Operator!Reparse(p) \/ Operator!Write(p) \/ Operator!Load(p) \/ Operator!WriteAggregate(p)
      \/ \E p \in Phases, format \in Operator!Formats, paths \in Operator!PathLists, out \in Named :
            Operator!BeginAggregate(p, format, paths, out)
      \/ \E p \in Phases, format \in Operator!Formats, path \in Operator!Paths : Operator!Evidence(p, format, path)
      \/ \E content \in Operator!Observations : Operator!NewInput(content.format, content)
      \/ \E format \in Operator!Formats : Operator!NewInput(format, None)
      \/ \E path \in Operator!Paths : Operator!Edit(path)
  BY DEF Operator!Next
<1> QED
  BY <1>1, ExtractKeeps, AggregateKeeps, EvidenceKeeps, ChangesKeep

LEMMA OperatorUnchanged ==
    ASSUME OperatorInv, UNCHANGED operated
    PROVE  OperatorInv'
BY DEF operated, OperatorInv, Operator!ShownIsDerived, Stored, Phase

\* Two lists of the same files come to the same record.
LEMMA OrderIsFree == Operator!OrderOfPathsIsFree
<1> SUFFICES ASSUME NEW format \in Operator!Formats,
                    NEW one \in Operator!PathLists, NEW other \in Operator!PathLists,
                    Operator!ToSet(one) = Operator!Folds, Operator!ToSet(other) = Operator!Folds
             PROVE  Operator!Aggregate(format, Operator!Contents(one))
                      = Operator!Aggregate(format, Operator!Contents(other))
  BY DEF Operator!OrderOfPathsIsFree
<1>1. \A paths : Operator!ToSet(Operator!Contents(paths)) = {files[path] : path \in Operator!ToSet(paths)}
  BY DEF Operator!ToSet, Operator!Contents
<1>2. Operator!ToSet(Operator!Contents(one)) = Operator!ToSet(Operator!Contents(other))
  BY <1>1
<1>3. Operator!InFoldOrder(Operator!Contents(one)) = Operator!InFoldOrder(Operator!Contents(other))
  BY <1>2 DEF Operator!InFoldOrder
<1> QED
  BY <1>3 DEF Operator!Aggregate

LEMMA OperatorInvSuffices == OperatorInv => ShownIsDerived
<1> SUFFICES ASSUME OperatorInv PROVE ShownIsDerived
  OBVIOUS
<1>1. ASSUME NEW p \in Phases
      PROVE  /\ process[p].phase \in {"idle", "extract", "write", "aggregate"}
             /\ Len(process[p].read) <= Len(FoldNames)
             /\ \A i \in DOMAIN process[p].read : process[p].read[i].format = process[p].format
  <2>1. Phase(process[p])
    BY DEF OperatorInv
  <2>2. CASE process[p] = Operator!Idle
    BY <2>2, FoldsOfProtocol DEF Operator!Idle
  <2>3. CASE \E format \in Operator!Formats : \E out :
                process[p] = [phase |-> "extract", format |-> format, out |-> out, paths |-> <<>>, read |-> <<>>]
    BY <2>3, FoldsOfProtocol
  <2>4. CASE \E format \in Operator!Formats : \E out : \E o \in Of(format) :
                process[p] = [phase |-> "write", format |-> format, out |-> out, paths |-> <<>>, read |-> <<o>>]
    BY <2>4, FoldsOfProtocol DEF Of
  <2>5. CASE \E format \in Operator!Formats : \E out : \E paths \in Operator!PathLists, read \in Seq(Of(format)) :
                /\ Len(read) <= Len(FoldNames)
                /\ process[p] = [phase |-> "aggregate", format |-> format, out |-> out, paths |-> paths, read |-> read]
    BY <2>5, ElementOfSeq DEF Of
  <2> QED
    BY <2>1, <2>2, <2>3, <2>4, <2>5 DEF Phase
<1>2. ASSUME NEW path \in Operator!Paths
      PROVE  \/ files[path] \in Operator!Observations \cup {None}
             \/ files[path].aggregate \in Operator!Formats /\ Len(files[path].folds) = Len(FoldNames)
  BY FoldsOfProtocol DEF OperatorInv, Stored
<1>3. Operator!TypeOK
  BY <1>1, <1>2 DEF Operator!TypeOK, OperatorInv, Of
<1> QED
  BY <1>3, OrderIsFree DEF ShownIsDerived, OperatorInv

(***************************************************************************)
(* Whatever files are replaced between two reads of a phase, hold another  *)
(* fold than their names say or are edited after they were written, and    *)
(* however many phases run side by side: evidence that is shown counts     *)
(* every fold once, in the order of the protocol and of one format, and    *)
(* sums up the very folds beside it; and the order of the paths is free    *)
(* (observation.py 342-358, 425-430; result_json.py 252-264, 354-360).     *)
(***************************************************************************)
THEOREM ShownEvidenceIsDerived == AllSpec => []ShownIsDerived
<1>1. AllInit => OperatorInv
  BY OperatorBegins DEF AllInit
<1>2. OperatorInv /\ [AllNext]_all => OperatorInv'
  <2>1. ASSUME OperatorInv, Operator!Next PROVE OperatorInv'
    BY <2>1, OperatorGoesOn
  <2>2. ASSUME OperatorInv, UNCHANGED operated PROVE OperatorInv'
    BY <2>2, OperatorUnchanged
  <2>3. UNCHANGED all => UNCHANGED operated
    BY DEF all
  <2> QED
    BY <2>1, <2>2, <2>3 DEF AllNext
<1>3. OperatorInv => ShownIsDerived
  BY OperatorInvSuffices
<1> QED
  BY <1>1, <1>2, <1>3, PTL DEF AllSpec
=============================================================================
