--------------------------- MODULE StatsScanProofs ---------------------------
(***************************************************************************)
(* Theorems about the incremental scan of the transcripts, with proofs:    *)
(* types, what an entry of the index can never cover, and that a scan of   *)
(* files at rest turns a right index into the report an independent parse  *)
(* would make.                                                             *)
(***************************************************************************)
EXTENDS StatsScan, FiniteSetTheorems, SequenceTheorems, NaturalsInduction, TLAPS

-----------------------------------------------------------------------------
(* The inductive invariant *)

\* An entry ends within its file and no line it reaches into is too long to read.
Readable(e, t) ==
    e = NoEntry \/ /\ e.size <= Size(t)
                   /\ \A i \in DOMAIN t.text :
                        2 * i - 2 < e.size => t.text[i].kind # "huge"

EntriesReadable ==
    \A f \in Files : /\ Readable(index[f], file[f])
                     /\ Readable(disk.index[f], file[f])
                     /\ Readable(scan.entries[f], file[f])

\* A line is caught half written only if there is one, and only a short one.
HalvesFit ==
    \A f \in Files : file[f].half =>
       /\ file[f].text # <<>>
       /\ file[f].text[Len(file[f].text)].kind # "huge"

OpenFits ==
    scan.open # NoFile => scan.open \in scan.todo /\ scan.size <= Size(file[scan.open])

\* No entry, in memory or on disk, promises more than a read could give.
Base == TypeOK /\ EntriesReadable /\ HalvesFit /\ OpenFits

\* The files a scan is done with add up, and the one in hand has grown.
Adds(s) ==
    /\ s.open # NoFile =>
          /\ s.size = Size(file[s.open])
          /\ index[s.open] = NoEntry \/ index[s.open].size < s.size
    /\ \A f \in Files \ s.todo :
          HasHuge(file[f], DOMAIN file[f].text) => SourceOf(file[f]) \in s.partial
    /\ \A m \in Filings :
          m[1] \in s.partial \/ s.tally[m] = Cardinality(Requests(Files \ s.todo, m))

\* So a scan of files at rest does when it set out from a right index.
Accounted ==
    scan.phase = "walk" /\ quiet /\ (\A f \in Files : RightEntry(f)) => Adds(scan)
-----------------------------------------------------------------------------
(* Lines of a transcript *)

\* scan.go:251-279: of the lines with some mark there is a first.
LEMMA Least ==
    ASSUME NEW S, S \subseteq Nat, S # {}
    PROVE  \E x \in S : \A y \in S : x <= y
<1> DEFINE R == OpToRel(<, Nat)
<1>1. IsWellFoundedOn(R, Nat)
  BY NatLessThanWellFounded
<1>2. \A x, y \in Nat : <<x, y>> \in R <=> x < y
  BY DEF OpToRel
<1> HIDE DEF R
<1>3. PICK x \in S : \A y \in S : ~(<<y, x>> \in R)
  BY <1>1, WFMin
<1>4. ASSUME NEW y \in S PROVE x <= y
  <2>1. x \in Nat /\ y \in Nat /\ ~(<<y, x>> \in R)
    BY <1>3
  <2>2. ~(y < x)
    BY <1>2, <2>1
  <2>3. QED
    BY <2>1, <2>2
<1>5. QED
  BY <1>4

\* scan.go:571-617: of finitely many context lines there is a last.
LEMMA Greatest ==
    ASSUME NEW S, S \subseteq Nat, S # {}, NEW n \in Nat, \A s \in S : s <= n
    PROVE  Max(S) \in S /\ \A y \in S : Max(S) >= y
<1> DEFINE T == {n - s : s \in S}
<1>1. ASSUME NEW s \in S PROVE n - s \in Nat
  <2>1. s \in Nat /\ s <= n
    OBVIOUS
  <2>2. QED
    BY <2>1
<1>2. T \subseteq Nat /\ T # {}
  BY <1>1
<1>3. PICK x \in S : \A u \in T : n - x <= u
  <2>1. PICK t \in T : \A u \in T : t <= u
    BY <1>2, Least
  <2>2. QED
    BY <2>1
<1>4. ASSUME NEW y \in S PROVE x >= y
  <2>1. n - x <= n - y
    BY <1>3
  <2>2. x \in Nat /\ y \in Nat
    OBVIOUS
  <2>3. QED
    BY <2>1, <2>2
<1>5. QED
  BY <1>4 DEF Max

\* scan.go:571-617: the last of one set of lines is that of another with the same
\* bound from above.
LEMMA GreatestIs ==
    ASSUME NEW S, S \subseteq Nat, NEW x \in S, \A y \in S : x >= y
    PROVE  Max(S) = x
<1>1. Max(S) \in S /\ \A y \in S : Max(S) >= y
  BY DEF Max
<1>2. Max(S) >= x /\ x >= Max(S)
  BY <1>1
<1>3. Max(S) \in Nat /\ x \in Nat
  BY <1>1
<1>4. QED
  BY <1>2, <1>3

\* The lines a writer appends (LineAssumption).
Line == [kind : LineKinds, id : Nat, model : Models]

Transcript == [claude : BOOLEAN, text : Texts, half : BOOLEAN, mtime : 0..MaxTouches]

LinesFit(t) ==
    /\ Len(t.text) \in 0..MaxLines /\ DOMAIN t.text = 1..Len(t.text)
    /\ \A i \in DOMAIN t.text : t.text[i] \in Line

HalfFits(t) == t.half => t.text # <<>> /\ t.text[Len(t.text)].kind # "huge"

\* scan.go:189-222: a transcript in its domain has lines of the kinds a writer appends.
LEMMA LinesTyped ==
    ASSUME NEW t \in Transcript
    PROVE  LinesFit(t) /\ t.half \in BOOLEAN /\ t.claude \in BOOLEAN
<1>1. t.half \in BOOLEAN /\ t.claude \in BOOLEAN /\ t.text \in Texts
  BY DEF Transcript
<1>2. MaxLines \in Nat
  BY BoundAssumption
<1>3. UNION {LinesOf[g] : g \in Files} \subseteq Line
  BY LineAssumption DEF Line
<1>4. PICK n \in 0..MaxLines : t.text \in [1..n -> UNION {LinesOf[g] : g \in Files}]
  BY <1>1 DEF Texts
<1>5. DOMAIN t.text = 1..n /\ Len(t.text) = n
  BY <1>2, <1>4
<1>6. \A i \in 1..n : t.text[i] \in Line
  BY <1>3, <1>4
<1>7. QED
  BY <1>1, <1>4, <1>5, <1>6 DEF LinesFit

\* scan.go:208-212: the size of a transcript.
LEMMA SizeTyped ==
    ASSUME NEW t, LinesFit(t), t.half \in BOOLEAN, HalfFits(t)
    PROVE  /\ Size(t) \in 0..(2 * MaxLines)
           /\ Size(t) <= 2 * Len(t.text) /\ 2 * Len(t.text) <= Size(t) + 1
           /\ Size(t) = 2 * Len(t.text) \/ t.half
<1>1. MaxLines \in Nat /\ Len(t.text) \in Nat /\ Len(t.text) <= MaxLines
  BY BoundAssumption DEF LinesFit
<1>2. CASE t.half
  <2>1. Len(t.text) # 0
    BY <1>2 DEF LinesFit, HalfFits
  <2>2. Size(t) = 2 * Len(t.text) - 1
    BY <1>2 DEF Size
  <2>3. QED
    BY <1>1, <1>2, <2>1, <2>2
<1>3. CASE ~t.half
  <2>1. Size(t) = 2 * Len(t.text)
    BY <1>1, <1>3 DEF Size
  <2>2. QED
    BY <1>1, <2>1
<1>4. QED
  BY <1>2, <1>3

\* scan.go:283-294: a line too long to read is never half written.
LEMMA HugeWhole ==
    ASSUME NEW t, LinesFit(t), t.half \in BOOLEAN, HalfFits(t),
           NEW i \in DOMAIN t.text, t.text[i].kind = "huge"
    PROVE  2 * i <= Size(t)
<1> DEFINE n == Len(t.text)
<1>1. n \in Nat /\ i \in Nat /\ i <= n /\ MaxLines \in Nat
  BY BoundAssumption DEF LinesFit
<1>2. Size(t) \in Nat /\ 2 * n <= Size(t) + 1 /\ (Size(t) = 2 * n \/ t.half)
  BY <1>1, SizeTyped
<1>3. CASE i = n
  <2>1. ~t.half
    BY <1>3 DEF HalfFits
  <2>2. QED
    BY <1>2, <1>3, <2>1
<1>4. CASE i # n
  BY <1>1, <1>2, <1>4
<1>5. QED
  BY <1>3, <1>4

\* scan.go:242-250: the lines of a read are lines of the transcript, and finitely many.
LEMMA LinesFinite ==
    ASSUME NEW t, LinesFit(t), NEW lines \in SUBSET (DOMAIN t.text)
    PROVE  IsFiniteSet(lines) /\ lines \subseteq Nat
<1>1. IsFiniteSet(DOMAIN t.text) /\ DOMAIN t.text \subseteq Nat
  BY FS_Interval DEF LinesFit
<1>2. QED
  BY <1>1, FS_Subset

\* scan.go:619-641: what a read counts is a number per model.
LEMMA TallyTyped ==
    ASSUME NEW t, LinesFit(t), NEW lines \in SUBSET (DOMAIN t.text), NEW carried
    PROVE  Tally(t, lines, carried) \in Tallies
<1>1. ASSUME NEW m \in Filings
      PROVE  Cardinality({i \in Counted(t, lines) : FilingOf(t, lines, carried, i) = m}) \in Nat
  <2>1. IsFiniteSet({i \in Counted(t, lines) : FilingOf(t, lines, carried, i) = m})
    BY LinesFinite DEF Counted
  <2>2. QED
    BY <2>1, FS_CardinalityType
<1>2. QED
  BY <1>1 DEF Tally, Tallies

\* scan.go:116-143: amounts are merged model by model.
LEMMA AddTyped ==
    ASSUME NEW a \in Tallies, NEW b \in Tallies
    PROVE  Add(a, b) \in Tallies
  BY DEF Add, Tallies

\* scan.go:571-617: the last context of a read names a model.
LEMMA LastTyped ==
    ASSUME NEW t, LinesFit(t), NEW contexts \in SUBSET (DOMAIN t.text), contexts # {}
    PROVE  /\ Max(contexts) \in contexts /\ \A i \in contexts : Max(contexts) >= i
           /\ t.text[Max(contexts)].model \in Models
<1>1. contexts \subseteq Nat /\ Len(t.text) \in Nat /\ \A i \in contexts : i <= Len(t.text)
  BY DEF LinesFit
<1>2. Max(contexts) \in contexts /\ \A i \in contexts : Max(contexts) >= i
  BY <1>1, Greatest
<1>3. QED
  BY <1>2 DEF LinesFit, Line
-----------------------------------------------------------------------------
(* Writers *)

\* What a writer leaves of a transcript: no byte less, and the lines there were.
Grown(t, u) ==
    /\ Size(t) <= Size(u)
    /\ \A i \in DOMAIN u.text :
          2 * i - 2 < Size(t) => i \in DOMAIN t.text /\ u.text[i] = t.text[i]

\* Claude Code and Codex: a line appended is one line more.
LEMMA Appended ==
    ASSUME NEW s \in Texts, Len(s) < MaxLines, NEW f \in Files, NEW x \in LinesOf[f]
    PROVE  /\ Append(s, x) \in Texts /\ Append(s, x)[Len(s) + 1] = x
           /\ \A i \in 1..Len(s) : Append(s, x)[i] = s[i]
           /\ Len(Append(s, x)) = Len(s) + 1 /\ DOMAIN Append(s, x) = 1..(Len(s) + 1)
<1> DEFINE L == UNION {LinesOf[g] : g \in Files}
<1>1. PICK n \in 0..MaxLines : s \in [1..n -> L]
  BY DEF Texts
<1>2. x \in L /\ MaxLines \in Nat
  BY BoundAssumption
<1> HIDE DEF L
<1>3. n \in Nat /\ s \in Seq(L) /\ Len(s) = n
  BY <1>1, <1>2
<1>4. Append(s, x) \in Seq(L) /\ Len(Append(s, x)) = n + 1
  BY <1>2, <1>3
<1>5. Append(s, x)[n + 1] = x /\ \A i \in 1..n : Append(s, x)[i] = s[i]
  BY <1>2, <1>3
<1>6. PICK k \in Nat : Append(s, x) \in [1..k -> L]
  <2>1. Append(s, x) \in UNION {[1..k -> L] : k \in Nat}
    BY <1>4, SeqDef, Zenon
  <2>2. QED
    BY <2>1
<1>7. k = n + 1 /\ k \in 0..MaxLines
  BY <1>2, <1>3, <1>4, <1>6
<1>8. Append(s, x) \in Texts
  BY <1>6, <1>7 DEF Texts, L
<1>9. QED
  BY <1>3, <1>4, <1>5, <1>6, <1>7, <1>8

\* Claude Code and Codex: a transcript only grows.
LEMMA WriterGrows ==
    ASSUME TypeOK, HalvesFit, NEW f \in Files, WriterStep(f)
    PROVE  \E t \in Transcript : Write(f, t) /\ Grown(file[f], t) /\ HalfFits(t)
<1> DEFINE t == file[f]
           n == Len(t.text)
<1>0. /\ t \in Transcript /\ LinesFit(t) /\ HalfFits(t) /\ n \in Nat /\ MaxLines \in Nat
      /\ MaxTouches \in Nat
  BY LinesTyped, BoundAssumption DEF TypeOK, Transcript, LinesFit, HalvesFit, HalfFits
<1>1. DOMAIN t = {"claude", "text", "half", "mtime"} /\ t.half \in BOOLEAN
  BY <1>0 DEF Transcript
<1>2. /\ Size(t) <= 2 * n /\ 2 * n <= Size(t) + 1 /\ (Size(t) = 2 * n \/ t.half)
      /\ Size(t) \in Nat
  BY <1>0, <1>1, SizeTyped DEF HalfFits
<1>3. ASSUME NEW line \in LinesOf[f], AppendLine(f, line)
      PROVE  \E u \in Transcript : Write(f, u) /\ Grown(t, u) /\ HalfFits(u)
  <2>1. PICK half \in {FALSE, TornWrites /\ line.kind # "huge"} :
           Write(f, [t EXCEPT !.text = Append(t.text, line), !.half = half])
    BY <1>3 DEF AppendLine
  <2> DEFINE u == [t EXCEPT !.text = Append(t.text, line), !.half = half]
  <2>2. n < MaxLines /\ ~t.half
    BY <1>3 DEF AppendLine
  <2>4. /\ Append(t.text, line) \in Texts /\ Append(t.text, line)[n + 1] = line
        /\ \A i \in 1..n : Append(t.text, line)[i] = t.text[i]
        /\ Len(Append(t.text, line)) = n + 1 /\ DOMAIN Append(t.text, line) = 1..(n + 1)
    BY <1>0, <2>2, Appended DEF Transcript
  <2>5. half \in BOOLEAN /\ (half => line.kind # "huge")
    BY FlagAssumption
  <2>6. /\ u.text = Append(t.text, line) /\ u.half = half /\ u.claude = t.claude
        /\ u.mtime = t.mtime /\ u \in Transcript
    BY <1>0, <1>1, <2>4, <2>5 DEF Transcript
  <2> HIDE DEF u
  <2>10. HalfFits(u)
    <3>1. CASE half
      <4>1. Len(u.text) = n + 1 /\ n \in Nat
        BY <1>0, <2>4, <2>6
      <4>2. u.text # <<>>
        BY <4>1
      <4>3. u.text[n + 1] = line /\ line.kind # "huge"
        BY <2>4, <2>5, <2>6, <3>1
      <4>4. QED
        BY <4>1, <4>2, <4>3 DEF HalfFits
    <3>2. CASE ~half
      BY <2>6, <3>2 DEF HalfFits
    <3>3. QED
      BY <3>1, <3>2
  <2>7. Size(u) \in Int /\ 2 * n < Size(u)
    <3>1. Size(u) \in 0..(2 * MaxLines) /\ 2 * (n + 1) <= Size(u) + 1
      BY <2>4, <2>6, <2>10, LinesTyped, SizeTyped DEF HalfFits
    <3>2. QED
      BY <1>0, <3>1
  <2>8. Size(t) = 2 * n
    BY <1>2, <2>2
  <2>9. Grown(t, u)
    <3>1. ASSUME NEW i \in 1..(n + 1), 2 * i - 2 < 2 * n PROVE i \in 1..n
      BY <1>0, <3>1
    <3>2. DOMAIN u.text = 1..(n + 1) /\ DOMAIN t.text = 1..n
      BY <1>0, <2>4, <2>6 DEF LinesFit
    <3>3. QED
      BY <1>0, <2>4, <2>6, <2>7, <2>8, <3>1, <3>2 DEF Grown
  <2>11. QED
    BY <2>1, <2>6, <2>9, <2>10 DEF u
<1>4. CASE FinishLine(f)
  <2> DEFINE u == [t EXCEPT !.half = FALSE]
  <2>1. Write(f, u)
    BY <1>4 DEF FinishLine
  <2>2. u.text = t.text /\ u.half = FALSE /\ u \in Transcript
    BY <1>0, <1>1 DEF Transcript
  <2> HIDE DEF u
  <2>3. Size(u) = 2 * n
    BY <2>2, LinesTyped, SizeTyped DEF HalfFits
  <2>4. Grown(t, u) /\ HalfFits(u)
    <3>1. ASSUME NEW i \in DOMAIN u.text PROVE i \in DOMAIN t.text /\ u.text[i] = t.text[i]
      BY <2>2, <3>1
    <3>2. QED
      BY <1>2, <2>2, <2>3, <3>1 DEF Grown, HalfFits
  <2>5. QED
    BY <2>1, <2>2, <2>4
<1>5. CASE Touch(f)
  <2> DEFINE u == [t EXCEPT !.mtime = t.mtime + 1]
  <2>1. Write(f, u) /\ t.mtime < MaxTouches
    BY <1>5 DEF Touch
  <2>2. u.text = t.text /\ u.half = t.half /\ u \in Transcript
    BY <1>0, <1>1, <2>1 DEF Transcript
  <2> HIDE DEF u
  <2>3. Size(u) = Size(t)
    BY <2>2 DEF Size
  <2>4. Grown(t, u) /\ HalfFits(u)
    <3>1. ASSUME NEW i \in DOMAIN u.text PROVE i \in DOMAIN t.text /\ u.text[i] = t.text[i]
      BY <2>2, <3>1
    <3>2. QED
      BY <1>0, <1>2, <2>2, <2>3, <3>1 DEF Grown, HalfFits
  <2>5. QED
    BY <2>1, <2>2, <2>4
<1>6. QED
  BY <1>3, <1>4, <1>5 DEF WriterStep

\* scan.go:321: an entry that ends within a file still does when the file has grown.
LEMMA StillReadable ==
    ASSUME NEW t, NEW u, Grown(t, u), LinesFit(u), Size(t) \in Nat, Size(u) \in Nat,
           NEW e \in Entries \union {NoEntry}, Readable(e, t)
    PROVE  Readable(e, u)
<1>1. CASE e # NoEntry
  <2>1. e.size \in Nat /\ e.size <= Size(t) /\ e.size <= Size(u)
    BY <1>1 DEF Entries, Readable, Grown
  <2>2. ASSUME NEW i \in DOMAIN u.text, 2 * i - 2 < e.size PROVE u.text[i].kind # "huge"
    <3>1. i \in Nat
      BY DEF LinesFit
    <3>2. i \in DOMAIN t.text /\ u.text[i] = t.text[i]
      BY <2>1, <2>2, <3>1 DEF Grown
    <3>3. QED
      BY <1>1, <2>2, <3>2 DEF Readable
  <2>3. QED
    BY <2>1, <2>2 DEF Readable
<1>2. QED
  BY <1>1 DEF Readable

-----------------------------------------------------------------------------
(* Types, and what entries cover *)

Scans == [phase : {"idle", "walk", "saveIndex", "saveReport"},
          todo : SUBSET Files, open : Files \union {NoFile},
          size : 0..(2 * MaxLines), mtime : 0..MaxTouches,
          tally : Tallies, entries : Indexes,
          partial : SUBSET Sources, failed : BOOLEAN]

\* scan.go:43-60 and index.go:38-48: what a scan and a store start from.
LEMMA StartsTyped ==
    /\ NoScan \in Scans /\ NoTally \in Tallies
    /\ Empty.index \in Indexes /\ Empty \in [index : Indexes, report : Reports]
<1>1. MaxLines \in Nat /\ MaxTouches \in Nat
  BY BoundAssumption
<1>2. NoTally \in Tallies /\ [f \in Files |-> NoEntry] \in Indexes /\ NoReport \in Reports
  BY DEF NoTally, Tallies, Indexes, Reports
<1>3. 0 \in 0..(2 * MaxLines) /\ 0 \in 0..MaxTouches
  BY <1>1
<1>4. QED
  BY <1>2, <1>3 DEF NoScan, Scans, Empty

\* scan.go:189-222: the transcripts of a typed state, and their sizes.
LEMMA FileTyped ==
    ASSUME TypeOK, HalvesFit, NEW f \in Files
    PROVE  /\ file[f] \in Transcript /\ LinesFit(file[f]) /\ HalfFits(file[f])
           /\ Size(file[f]) \in 0..(2 * MaxLines) /\ Size(file[f]) \in Nat
           /\ MaxLines \in Nat /\ file[f].mtime \in 0..MaxTouches
<1>1. file[f] \in Transcript /\ HalfFits(file[f]) /\ MaxLines \in Nat
  BY BoundAssumption DEF TypeOK, Transcript, HalvesFit, HalfFits
<1>2. LinesFit(file[f]) /\ file[f].half \in BOOLEAN
  BY <1>1, LinesTyped
<1>3. Size(file[f]) \in 0..(2 * MaxLines)
  BY <1>1, <1>2, SizeTyped DEF HalfFits
<1>4. file[f].mtime \in 0..MaxTouches
  BY <1>1 DEF Transcript
<1>5. QED
  BY <1>1, <1>2, <1>3, <1>4

\* index.go:38-48: a daemon without a saved index starts with no entry.
LEMMA BaseStarts == Init => Base
<1> SUFFICES ASSUME Init PROVE Base
  OBVIOUS
<1>1. MaxLines \in Nat /\ MaxTouches \in Nat
  BY BoundAssumption
<1>2. <<>> \in Texts
  <2>1. <<>> \in [1..0 -> UNION {LinesOf[f] : f \in Files}] /\ 0 \in 0..MaxLines
    BY <1>1
  <2>2. QED
    BY <2>1 DEF Texts
<1>3. TypeOK
  <2>1. file \in [Files -> Transcript]
    BY <1>1, <1>2 DEF Init, Transcript
  <2>2. NoReport \in Reports /\ {scans, crashes} \subseteq Nat /\ quiet \in BOOLEAN
    BY DEF Init, Reports
  <2>3. QED
    BY <2>1, <2>2, StartsTyped DEF Init, TypeOK, Transcript, Scans
<1>4. \A f \in Files : /\ index[f] = NoEntry /\ disk.index[f] = NoEntry
                       /\ scan.entries[f] = NoEntry /\ file[f].half = FALSE
  BY DEF Init, Empty, NoScan
<1>5. scan.open = NoFile
  BY DEF Init, NoScan
<1>6. QED
  BY <1>3, <1>4, <1>5 DEF Base, EntriesReadable, HalvesFit, OpenFits, Readable

\* Claude Code and Codex: no step of a writer makes an entry cover what it could not.
LEMMA WriterKeeps ==
    ASSUME Base, NEW f \in Files, WriterStep(f)
    PROVE  Base'
<1>1. PICK t \in Transcript : Write(f, t) /\ Grown(file[f], t) /\ HalfFits(t)
  BY WriterGrows DEF Base
<1>2. /\ file' = [file EXCEPT ![f] = t] /\ quiet' = FALSE
      /\ UNCHANGED <<index, report, disk, scan, scans, crashes>>
  BY <1>1 DEF Write
<1>3. DOMAIN file = Files /\ file'[f] = t /\ \A g \in Files \ {f} : file'[g] = file[g]
  BY <1>2 DEF Base, TypeOK
<1>4. TypeOK'
  BY <1>1, <1>2 DEF Base, TypeOK, Transcript
<1>5. HalvesFit'
  BY <1>1, <1>3 DEF Base, HalvesFit, HalfFits
<1>6. LinesFit(t) /\ Size(t) \in Nat /\ Size(file[f]) \in Nat /\ Size(file[f]) <= Size(t)
  <2>1. LinesFit(t) /\ t.half \in BOOLEAN
    BY LinesTyped
  <2>2. Size(t) \in 0..(2 * MaxLines) /\ MaxLines \in Nat
    BY <1>1, <2>1, SizeTyped, BoundAssumption DEF HalfFits
  <2>3. QED
    BY <1>1, <2>1, <2>2, FileTyped DEF Base, Grown
<1>7. EntriesReadable'
  <2>1. ASSUME NEW g \in Files, NEW e \in Entries \union {NoEntry}, Readable(e, file[g])
        PROVE  Readable(e, file'[g])
    <3>1. CASE g = f
      BY <1>1, <1>3, <1>6, <2>1, <3>1, StillReadable
    <3>2. CASE g # f
      BY <1>3, <2>1, <3>2
    <3>3. QED
      BY <3>1, <3>2
  <2>2. \A g \in Files :
           {index[g], disk.index[g], scan.entries[g]} \subseteq Entries \union {NoEntry}
    BY DEF Base, TypeOK, Indexes
  <2>3. QED
    BY <1>2, <2>1, <2>2 DEF Base, EntriesReadable
<1>8. OpenFits'
  <2>1. ASSUME scan.open # NoFile
        PROVE  scan.open \in scan.todo /\ scan.size <= Size(file'[scan.open])
    <3>1. /\ scan.open \in Files /\ scan.open \in scan.todo /\ scan.size \in Nat
          /\ scan.size <= Size(file[scan.open])
      BY <2>1 DEF Base, TypeOK, OpenFits
    <3>2. CASE scan.open = f
      BY <1>3, <1>6, <3>1, <3>2
    <3>3. CASE scan.open # f
      BY <1>3, <3>1, <3>3
    <3>4. QED
      BY <3>2, <3>3
  <2>2. QED
    BY <1>2, <2>1 DEF OpenFits
<1>9. QED
  BY <1>4, <1>5, <1>7, <1>8 DEF Base

\* scan.go:172-192: what is known of a file from its entry.
LEMMA KnownTyped ==
    ASSUME Base, NEW f \in Files
    PROVE  /\ Carried(f) \in Names /\ Before(f) \in Tallies
           /\ StartOffset(f) \in Nat /\ scan.size \in Nat
           /\ index[f] # NoEntry => index[f] \in Entries
<1>1. index[f] \in Entries \union {NoEntry} /\ scan.size \in 0..(2 * MaxLines)
  BY DEF Base, TypeOK, Indexes
<1>2. MaxLines \in Nat /\ NoTally \in Tallies /\ Unknown \in Names
  BY BoundAssumption, StartsTyped DEF Names
<1>3. CASE index[f] = NoEntry
  BY <1>1, <1>2, <1>3 DEF Carried, Before, StartOffset
<1>4. CASE index[f] # NoEntry
  <2>1. /\ index[f].carried \in Names /\ index[f].tally \in Tallies
        /\ index[f].size \in Nat
    BY <1>1, <1>4 DEF Entries
  <2>2. QED
    BY <1>1, <1>2, <1>4, <2>1 DEF Carried, Before, StartOffset
<1>5. QED
  BY <1>3, <1>4

\* What a read makes of the file in hand.
ReadOf(f) == WholeLines(file[f], StartOffset(f), Size(file[f]))
ContextsOf(f) == {i \in ReadOf(f) : file[f].text[i].kind = "context"}
LastOf(f) == IF ContextsOf(f) = {} THEN Carried(f)
                                   ELSE file[f].text[Max(ContextsOf(f))].model
TallyOf(f) == Tally(file[f], ReadOf(f), Carried(f))
EntryOf(f) == Entry(scan.size, scan.mtime, TallyOf(f), LastOf(f))

\* scan.go:308-331, 676-691: a read in terms of those.
LEMMA ReadMakes ==
    ASSUME Base, Read
    PROVE  /\ scan.open \in Files /\ scan.open \in scan.todo
           /\ LET f == scan.open
              IN  \/ scan' = [scan EXCEPT !.open = NoFile, !.todo = scan.todo \ {f},
                                          !.partial = scan.partial \union {SourceOf(file[f])}]
                  \/ /\ ~HasHuge(file[f], ReadOf(f))
                     /\ scan' = [scan EXCEPT !.open = NoFile, !.todo = scan.todo \ {f},
                                             !.tally = Add(Add(scan.tally, Before(f)), TallyOf(f)),
                                             !.entries[f] = EntryOf(f)]
           /\ UNCHANGED <<file, index, report, disk, quiet, scans, crashes>>
<1> DEFINE f == scan.open
<1>1. f # NoFile /\ f \in Files /\ f \in scan.todo
  BY DEF Read, Base, TypeOK, OpenFits
<1>2. QED
  BY <1>1 DEF Read, ScanError, ReadOf, TallyOf, EntryOf, LastOf, ContextsOf

\* scan.go:312-331: the entry a read leaves is typed, and covers what could be read.
LEMMA EntryFits ==
    ASSUME Base, NEW f \in Files, f = scan.open, f # NoFile
    PROVE  /\ TallyOf(f) \in Tallies /\ EntryOf(f) \in Entries
           /\ ~HasHuge(file[f], ReadOf(f)) => Readable(EntryOf(f), file[f])
<1> DEFINE t == file[f]
           n == Len(t.text)
<1>1. /\ LinesFit(t) /\ HalfFits(t) /\ t.half \in BOOLEAN /\ Size(t) \in Nat
      /\ n \in Nat /\ DOMAIN t.text = 1..n
  BY FileTyped, LinesTyped DEF Base, LinesFit
<1>2. /\ Carried(f) \in Names /\ StartOffset(f) \in Nat /\ scan.size \in Nat
      /\ index[f] # NoEntry => index[f] \in Entries
  BY KnownTyped
<1>3. ReadOf(f) \in SUBSET (DOMAIN t.text) /\ ContextsOf(f) \in SUBSET (DOMAIN t.text)
  BY DEF ReadOf, ContextsOf, WholeLines
<1>4. TallyOf(f) \in Tallies
  BY <1>1, <1>3, TallyTyped DEF TallyOf
<1>5. LastOf(f) \in Names
  BY <1>1, <1>2, <1>3, LastTyped DEF LastOf, Names
<1>6. EntryOf(f) \in Entries
  <2>1. scan.size \in 0..(2 * MaxLines) /\ scan.mtime \in 0..MaxTouches
    BY DEF Base, TypeOK
  <2>2. QED
    BY <1>4, <1>5, <2>1 DEF EntryOf, Entry, Entries
<1>7. ASSUME ~HasHuge(t, ReadOf(f)) PROVE Readable(EntryOf(f), t)
  <2>1. scan.size <= Size(t) /\ EntryOf(f).size = scan.size
    BY DEF Base, OpenFits, EntryOf, Entry
  <2>2. ASSUME NEW i \in DOMAIN t.text, 2 * i - 2 < scan.size, t.text[i].kind = "huge"
        PROVE  FALSE
    <3>1. i \in Nat /\ i <= n
      BY <1>1
    <3>2. 2 * i <= Size(t)
      BY <1>1, <2>2, HugeWhole
    <3>3. 2 * i - 2 < StartOffset(f)
      BY <1>2, <1>7, <2>2, <3>1, <3>2 DEF HasHuge, ReadOf, WholeLines
    <3>4. index[f] # NoEntry /\ StartOffset(f) = index[f].size
      BY <3>1, <3>3, <2>2 DEF StartOffset
    <3>5. Readable(index[f], t)
      BY DEF Base, EntriesReadable
    <3>6. QED
      BY <2>2, <3>3, <3>4, <3>5 DEF Readable
  <2>3. QED
    BY <2>1, <2>2 DEF Readable
<1>8. QED
  BY <1>4, <1>6, <1>7

\* scan.go:43-88: the entries a scan made and those it keeps are no less careful.
LEMMA MergedFits ==
    ASSUME Base
    PROVE  Merged \in Indexes /\ \A f \in Files : Readable(Merged[f], file[f])
  BY DEF Base, TypeOK, EntriesReadable, Merged, Indexes

\* scan.go:189-331 and 476-695: no step of a scan makes an entry cover what it could not.
LEMMA ScanKeeps ==
    ASSUME Base, ScanStep
    PROVE  Base'
<1>0. /\ scan \in Scans /\ DOMAIN scan.entries = Files
      /\ disk \in [index : Indexes, report : Reports] /\ index \in Indexes /\ report \in Reports
      /\ file \in [Files -> Transcript] /\ quiet \in BOOLEAN /\ {scans, crashes} \subseteq Nat
  BY DEF Base, TypeOK, Scans, Indexes, Transcript
<1>1. ASSUME NEW s \in Scans, scan' = s,
             \A f \in Files : Readable(s.entries[f], file[f]),
             s.open # NoFile => s.open \in s.todo /\ s.size <= Size(file[s.open]),
             index' \in Indexes, \A f \in Files : Readable(index'[f], file[f]),
             disk' \in [index : Indexes, report : Reports],
             \A f \in Files : Readable(disk'.index[f], file[f]),
             report' \in Reports, quiet' \in BOOLEAN, {scans', crashes'} \subseteq Nat,
             UNCHANGED file
      PROVE  Base'
  <2>1. TypeOK'
    BY <1>0, <1>1 DEF TypeOK, Scans, Transcript
  <2>2. HalvesFit'
    BY <1>1 DEF Base, HalvesFit
  <2>3. EntriesReadable'
    BY <1>1 DEF EntriesReadable, Readable, Size
  <2>4. OpenFits'
    BY <1>1 DEF OpenFits, Size
  <2>5. QED
    BY <2>1, <2>2, <2>3, <2>4 DEF Base
<1>2. \A f \in Files : /\ Readable(index[f], file[f]) /\ Readable(disk.index[f], file[f])
                       /\ Readable(scan.entries[f], file[f])
  BY DEF Base, EntriesReadable
<1>3. NoScan \in Scans /\ NoScan.open = NoFile /\ \A f \in Files : NoScan.entries[f] = NoEntry
  BY StartsTyped DEF NoScan
<1>4. \A f \in Files : Readable(NoEntry, file[f])
  BY DEF Readable
<1>5. CASE StartScan
  <2> DEFINE s == [NoScan EXCEPT !.phase = "walk", !.todo = Files]
  <2>1. s \in Scans /\ s.open = NoFile /\ s.entries = NoScan.entries
    BY <1>3 DEF Scans
  <2>2. scan' = s /\ quiet' = TRUE /\ scans' = scans + 1
        /\ UNCHANGED <<file, index, report, disk, crashes>>
    BY <1>5 DEF StartScan
  <2> HIDE DEF s
  <2>3. QED
    BY <1>0, <1>1, <1>2, <1>3, <1>4, <2>1, <2>2
<1>6. ASSUME NEW f \in Files, UseCached(f) PROVE Base'
  <2> DEFINE s == [scan EXCEPT !.todo = scan.todo \ {f},
                               !.tally = Add(scan.tally, index[f].tally),
                               !.entries = [scan.entries EXCEPT ![f] = index[f]]]
  <2>1. index[f] \in Entries /\ index[f].tally \in Tallies
    BY <1>0, <1>6 DEF UseCached, Cached, Indexes, Entries
  <2>2. Add(scan.tally, index[f].tally) \in Tallies
    BY <1>0, <2>1, AddTyped DEF Scans
  <2>3. [scan.entries EXCEPT ![f] = index[f]] \in Indexes
    BY <1>0, <2>1 DEF Scans, Indexes
  <2>4. /\ s \in Scans /\ s.open = NoFile
        /\ s.entries = [scan.entries EXCEPT ![f] = index[f]]
    BY <1>0, <1>6, <2>2, <2>3 DEF UseCached, Scans
  <2>5. scan' = s /\ UNCHANGED <<file, index, report, disk, quiet, scans, crashes>>
    BY <1>6 DEF UseCached
  <2> HIDE DEF s
  <2>6. \A g \in Files : Readable(s.entries[g], file[g])
    BY <1>0, <1>2, <2>4
  <2>7. QED
    BY <1>0, <1>1, <1>2, <2>4, <2>5, <2>6
<1>7. ASSUME NEW f \in Files, Open(f) PROVE Base'
  <2> DEFINE s == [scan EXCEPT !.open = f, !.size = Size(file[f]), !.mtime = file[f].mtime]
  <2>1. Size(file[f]) \in 0..(2 * MaxLines) /\ file[f].mtime \in 0..MaxTouches
        /\ Size(file[f]) \in Nat
    BY FileTyped DEF Base
  <2>2. /\ s \in Scans /\ s.open = f /\ s.todo = scan.todo /\ s.size = Size(file[f])
        /\ s.entries = scan.entries
    BY <1>0, <2>1 DEF Scans
  <2>3. /\ scan' = s /\ f \in scan.todo
        /\ UNCHANGED <<file, index, report, disk, quiet, scans, crashes>>
    BY <1>7 DEF Open
  <2> HIDE DEF s
  <2>4. s.open \in s.todo /\ s.size <= Size(file[s.open])
    BY <2>1, <2>2, <2>3
  <2>5. QED
    BY <1>0, <1>1, <1>2, <2>2, <2>3, <2>4
<1>8. CASE Read
  <2> DEFINE f == scan.open
  <2>1. f \in Files /\ f # NoFile /\ UNCHANGED <<file, index, report, disk, quiet, scans, crashes>>
    BY <1>8, ReadMakes DEF Read
  <2> DEFINE skipped == [scan EXCEPT !.open = NoFile, !.todo = scan.todo \ {f},
                                     !.partial = scan.partial \union {SourceOf(file[f])}]
             counted == [scan EXCEPT !.open = NoFile, !.todo = scan.todo \ {f},
                                     !.tally = Add(Add(scan.tally, Before(f)), TallyOf(f)),
                                     !.entries = [scan.entries EXCEPT ![f] = EntryOf(f)]]
  <2>2. CASE scan' = skipped
    <3> DEFINE s == skipped
    <3>1. scan' = s
      BY <2>2
    <3>2. s \in Scans /\ s.open = NoFile /\ s.entries = scan.entries
      BY <1>0 DEF Scans, SourceOf, Sources
    <3> HIDE DEF s
    <3>3. QED
      BY <1>0, <1>1, <1>2, <2>1, <3>1, <3>2
  <2>3. CASE ~HasHuge(file[f], ReadOf(f)) /\ scan' = counted
    <3> DEFINE s == counted
    <3>1. scan' = s
      BY <2>3
    <3>2. /\ TallyOf(f) \in Tallies /\ EntryOf(f) \in Entries
          /\ Readable(EntryOf(f), file[f])
      BY <2>1, <2>3, EntryFits
    <3>3. Add(Add(scan.tally, Before(f)), TallyOf(f)) \in Tallies
      BY <1>0, <2>1, <3>2, KnownTyped, AddTyped DEF Scans
    <3>4. [scan.entries EXCEPT ![f] = EntryOf(f)] \in Indexes
      BY <1>0, <3>2 DEF Scans, Indexes
    <3>5. /\ s \in Scans /\ s.open = NoFile
          /\ s.entries = [scan.entries EXCEPT ![f] = EntryOf(f)]
      BY <1>0, <3>3, <3>4 DEF Scans
    <3> HIDE DEF s
    <3>6. \A g \in Files : Readable(s.entries[g], file[g])
      BY <1>0, <1>2, <2>1, <3>2, <3>5
    <3>7. QED
      BY <1>0, <1>1, <1>2, <2>1, <3>1, <3>5, <3>6
  <2>4. QED
    BY <1>8, <2>2, <2>3, ReadMakes
<1>9. CASE FinishScan \/ FailScan
  <2>1. PICK s \in Scans : scan' = s /\ s.open = NoFile /\ s.entries = NoScan.entries
    BY <1>3, <1>9 DEF FinishScan, FailScan, Scans
  <2>2. report' \in Reports
    BY <1>0, <1>9 DEF FinishScan, FailScan, Reports, Scans
  <2>3. index' = Merged /\ UNCHANGED <<file, disk, quiet, scans, crashes>>
    BY <1>9 DEF FinishScan, FailScan
  <2>4. QED
    BY <1>0, <1>1, <1>2, <1>3, <1>4, <2>1, <2>2, <2>3, MergedFits
<1>10. CASE SaveIndex \/ SaveReport
  <2>1. PICK s \in Scans :
           /\ scan' = s /\ s.entries \in {scan.entries, NoScan.entries}
           /\ s.open = NoFile \/ (s.open = scan.open /\ s.todo = scan.todo /\ s.size = scan.size)
    <3>1. CASE scan' = NoScan
      BY <1>3, <3>1
    <3>2. CASE scan' = [scan EXCEPT !.phase = "saveReport"]
      <4> DEFINE s == [scan EXCEPT !.phase = "saveReport"]
      <4>1. /\ s \in Scans /\ s.entries = scan.entries /\ s.open = scan.open
            /\ s.todo = scan.todo /\ s.size = scan.size
        BY <1>0 DEF Scans
      <4> HIDE DEF s
      <4>2. QED
        BY <3>2, <4>1 DEF s
    <3>3. QED
      BY <1>10, <3>1, <3>2 DEF SaveIndex, SaveReport
  <2>2. /\ disk' = disk \/ disk' = [disk EXCEPT !.index = index]
                        \/ disk' = [disk EXCEPT !.report = report]
        /\ UNCHANGED <<file, index, report, quiet, scans, crashes>>
    BY <1>10 DEF SaveIndex, SaveReport
  <2>3. /\ disk' \in [index : Indexes, report : Reports]
        /\ disk'.index = disk.index \/ disk'.index = index
    BY <1>0, <2>2
  <2>4. \A f \in Files : Readable(s.entries[f], file[f])
    BY <1>2, <1>3, <1>4, <2>1
  <2>5. s.open # NoFile => s.open \in s.todo /\ s.size <= Size(file[s.open])
    BY <2>1 DEF Base, OpenFits
  <2>6. QED
    BY <1>0, <1>1, <1>2, <2>1, <2>2, <2>3, <2>4, <2>5
<1>11. QED
  BY <1>5, <1>6, <1>7, <1>8, <1>9, <1>10 DEF ScanStep

\* index.go:35-60: a restart reads what was saved, or nothing.
LEMMA RestartKeeps ==
    ASSUME Base, Restart
    PROVE  Base'
<1>1. /\ index' = disk.index \/ index' = Empty.index
      /\ report' = disk.report /\ scan' = NoScan /\ crashes' = crashes + 1
      /\ UNCHANGED <<file, disk, quiet, scans>>
  BY DEF Restart
<1>2. TypeOK'
  BY <1>1, StartsTyped DEF Base, TypeOK, Scans
<1>3. \A f \in Files : Empty.index[f] = NoEntry /\ NoScan.entries[f] = NoEntry
  BY DEF Empty, NoScan
<1>4. EntriesReadable'
  BY <1>1, <1>3 DEF Base, EntriesReadable, Readable, Size
<1>5. HalvesFit' /\ OpenFits'
  BY <1>1 DEF Base, HalvesFit, OpenFits, NoScan
<1>6. QED
  BY <1>2, <1>4, <1>5 DEF Base

\* scan.go, index.go: no writer, scan or kill makes an entry cover what it could not.
LEMMA BaseKept == Base /\ [Next]_vars => Base'
<1> SUFFICES ASSUME Base, [Next]_vars PROVE Base'
  OBVIOUS
<1>1. CASE UNCHANGED vars
  <2>1. TypeOK'
    BY <1>1 DEF vars, Base, TypeOK
  <2>2. HalvesFit' /\ EntriesReadable' /\ OpenFits'
    BY <1>1 DEF vars, Base, HalvesFit, EntriesReadable, OpenFits, Readable, Size
  <2>3. QED
    BY <2>1, <2>2 DEF Base
<1>2. QED
  BY <1>1, WriterKeeps, ScanKeeps, RestartKeeps DEF Next

-----------------------------------------------------------------------------
(* Counting in two reads what one read counts *)

\* scan.go:242-250: an offset that ends a line divides the lines of a transcript.
LEMMA Divided ==
    ASSUME NEW t, LinesFit(t), NEW h \in Nat, Size(t) \in Nat, 2 * h <= Size(t)
    PROVE  LET A == WholeLines(t, 0, 2 * h)
               B == WholeLines(t, 2 * h, Size(t))
           IN  /\ WholeLines(t, 0, Size(t)) = A \union B
               /\ \A i \in A : i \in Nat /\ i < 2 * h /\ \A j \in B : i < j /\ j \in Nat
<1> DEFINE A == WholeLines(t, 0, 2 * h)
           B == WholeLines(t, 2 * h, Size(t))
<1>1. ASSUME NEW i \in DOMAIN t.text
      PROVE  /\ i \in Nat /\ i > 0
             /\ (0 <= 2 * i - 2 /\ 2 * i <= Size(t))
                  <=> (0 <= 2 * i - 2 /\ 2 * i <= 2 * h)
                        \/ (2 * h <= 2 * i - 2 /\ 2 * i <= Size(t))
  BY <1>1 DEF LinesFit
<1>2. WholeLines(t, 0, Size(t)) = A \union B
  BY <1>1 DEF WholeLines
<1>3. \A i \in A : i \in Nat /\ i > 0 /\ i <= h
  BY <1>1 DEF WholeLines
<1>4. \A j \in B : j \in Nat /\ h < j
  BY <1>1 DEF WholeLines
<1>5. QED
  BY <1>2, <1>3, <1>4

\* scan.go:251-279: messages are dropped as one read would drop them, if none of
\* the second part is one of the first.
LEMMA CountedApart ==
    ASSUME NEW t, LinesFit(t), NEW A, NEW B, A \subseteq Nat, B \subseteq Nat,
           \A i \in A, j \in B : i < j,
           t.claude => \A i \in Counted(t, A), j \in B : t.text[i] # t.text[j]
    PROVE  Counted(t, A \union B) = Counted(t, A) \union Counted(t, B)
<1>1. ASSUME NEW i \in A
      PROVE  i \in Counted(t, A \union B) <=> i \in Counted(t, A)
  <2>1. \A j \in B : ~(j < i)
    BY <1>1
  <2>2. QED
    BY <1>1, <2>1 DEF Counted
<1>2. ASSUME NEW i \in Counted(t, B), t.claude, NEW j \in A, t.text[j] = t.text[i]
      PROVE  FALSE
  <2> DEFINE S == {k \in A : t.text[k] = t.text[i]}
  <2>1. PICK k \in S : \A l \in S : k <= l
    BY <1>2, Least
  <2>2. k \in A /\ t.text[k] = t.text[i] /\ i \in B /\ t.text[i].kind = "tokens"
    BY <1>2 DEF Counted
  <2>3. ASSUME NEW l \in A, l < k, t.text[l] = t.text[k] PROVE FALSE
    <3>1. l \in S /\ l \in Nat /\ k \in Nat
      BY <2>2, <2>3
    <3>2. k <= l
      BY <2>1, <3>1
    <3>3. QED
      BY <2>3, <3>1, <3>2
  <2>4. k \in Counted(t, A)
    BY <2>2, <2>3 DEF Counted
  <2>5. QED
    BY <1>2, <2>2, <2>4
<1>3. ASSUME NEW i \in B
      PROVE  i \in Counted(t, A \union B) <=> i \in Counted(t, B)
  <2>1. i \in Counted(t, A \union B) => i \in Counted(t, B)
    BY DEF Counted
  <2>2. i \in Counted(t, B) => i \in Counted(t, A \union B)
    BY <1>2 DEF Counted
  <2>3. QED
    BY <2>1, <2>2
<1>4. Counted(t, A \union B) \subseteq A \union B
      /\ Counted(t, A) \subseteq A /\ Counted(t, B) \subseteq B
  BY DEF Counted
<1>5. A \cap B = {}
  OBVIOUS
<1>6. QED
  BY <1>1, <1>3, <1>4, <1>5

\* scan.go:550-617: the context lines of a read that come before one of its lines.
ContextsIn(t, lines, i) == {j \in lines : j < i /\ t.text[j].kind = "context"}

\* scan.go:550-617: what follows a line does not change its model.
LEMMA ModelsFirst ==
    ASSUME NEW t, NEW A, NEW B, A \subseteq Nat, B \subseteq Nat,
           \A i \in A, j \in B : i < j, NEW i \in A
    PROVE  ModelOf(t, A \union B, Unknown, i) = ModelOf(t, A, Unknown, i)
<1>1. \A j \in B : ~(j < i)
  OBVIOUS
<1>2. ContextsIn(t, A \union B, i) = ContextsIn(t, A, i)
  BY <1>1 DEF ContextsIn
<1>3. QED
  BY <1>2 DEF ModelOf, ContextAt, ContextsIn

\* scan.go:550-617: a line of a second part has the model one read would give it, if
\* the part starts with the model the first ended with.
LEMMA ModelsSecond ==
    ASSUME NEW t, LinesFit(t), NEW A \in SUBSET (DOMAIN t.text), NEW B \in SUBSET (DOMAIN t.text),
           \A i \in A, j \in B : i < j,
           NEW k \in Nat, \A i \in A : i < k, NEW i \in B
    PROVE  ContextAt(t, A \union B, Unknown, i) = ContextAt(t, B, ContextAt(t, A, Unknown, k), i)
<1> DEFINE first == ContextsIn(t, A, k)
           second == ContextsIn(t, B, i)
           all == ContextsIn(t, A \union B, i)
<1>0. A \subseteq Nat /\ B \subseteq Nat
  BY DEF LinesFit
<1>1. all = first \union second
  BY DEF ContextsIn
<1>2. /\ ContextAt(t, A \union B, Unknown, i) = IF all = {} THEN Unknown ELSE t.text[Max(all)].model
      /\ ContextAt(t, A, Unknown, k) = IF first = {} THEN Unknown ELSE t.text[Max(first)].model
      /\ ContextAt(t, B, ContextAt(t, A, Unknown, k), i) =
            IF second = {} THEN ContextAt(t, A, Unknown, k) ELSE t.text[Max(second)].model
  BY DEF ContextAt, ContextsIn
<1>3. first \subseteq A /\ second \subseteq B /\ second \in SUBSET (DOMAIN t.text)
  BY DEF ContextsIn
<1> HIDE DEF first, second, all
<1>4. CASE second = {}
  BY <1>1, <1>2, <1>4
<1>5. CASE second # {}
  <2>1. PICK x \in second : x = Max(second) /\ \A y \in second : x >= y
    BY <1>3, <1>5, LastTyped
  <2>2. x \in all /\ all \subseteq Nat
    BY <1>0, <1>1, <1>3
  <2>3. \A y \in first : x >= y
    BY <1>0, <1>3
  <2>4. Max(all) = x
    BY <1>1, <2>1, <2>2, <2>3, GreatestIs
  <2>5. QED
    BY <1>2, <1>5, <2>1, <2>2, <2>4
<1>6. QED
  BY <1>4, <1>5

\* scan.go:230-240, 312-318: what was counted up to an offset and what is counted
\* from there add up to the count of the whole transcript.
LEMMA TallySplits ==
    ASSUME NEW t, LinesFit(t), NEW h \in Nat, Size(t) \in Nat, 2 * h <= Size(t), NEW c,
           ~t.claude => \A i \in WholeLines(t, 2 * h, Size(t)) :
                           ContextAt(t, WholeLines(t, 0, 2 * h), Unknown, 2 * h) = c,
           t.claude => \A i \in Counted(t, WholeLines(t, 0, 2 * h)),
                          j \in WholeLines(t, 2 * h, Size(t)) : t.text[i] # t.text[j],
           NEW m \in Filings
    PROVE  Cardinality(Filed(t, m)) =
              Tally(t, WholeLines(t, 0, 2 * h), Unknown)[m]
                + Tally(t, WholeLines(t, 2 * h, Size(t)), c)[m]
<1> DEFINE A == WholeLines(t, 0, 2 * h)
           B == WholeLines(t, 2 * h, Size(t))
           P == {i \in Counted(t, A) : FilingOf(t, A, Unknown, i) = m}
           Q == {i \in Counted(t, B) : FilingOf(t, B, c, i) = m}
<1>1. /\ WholeLines(t, 0, Size(t)) = A \union B /\ 2 * h \in Nat
      /\ \A i \in A, j \in B : i < j
      /\ \A i \in A : i < 2 * h
      /\ A \in SUBSET (DOMAIN t.text) /\ B \in SUBSET (DOMAIN t.text)
  BY Divided DEF WholeLines
<1>2. A \subseteq Nat /\ B \subseteq Nat /\ IsFiniteSet(A) /\ IsFiniteSet(B)
  BY <1>1, LinesFinite
<1>3. /\ ~t.claude => \A i \in B : ContextAt(t, A, Unknown, 2 * h) = c
      /\ t.claude => \A i \in Counted(t, A), j \in B : t.text[i] # t.text[j]
  OBVIOUS
<1> HIDE DEF A, B
<1>4. Counted(t, A \union B) = Counted(t, A) \union Counted(t, B)
  BY <1>1, <1>2, <1>3, CountedApart
<1>5. /\ \A i \in A : ModelOf(t, A \union B, Unknown, i) = ModelOf(t, A, Unknown, i)
      /\ \A i \in B : ModelOf(t, A \union B, Unknown, i) = ModelOf(t, B, c, i)
  <2>1. ASSUME NEW i \in A
        PROVE  ModelOf(t, A \union B, Unknown, i) = ModelOf(t, A, Unknown, i)
    BY <1>1, <1>2, ModelsFirst
  <2>2. ASSUME NEW i \in B
        PROVE  ModelOf(t, A \union B, Unknown, i) = ModelOf(t, B, c, i)
    <3> DEFINE k == 2 * h
    <3>1. k \in Nat /\ \A j \in A : j < k
      BY <1>1
    <3>2. ~t.claude => ContextAt(t, A, Unknown, k) = c
      BY <1>3
    <3> HIDE DEF k
    <3>3. ContextAt(t, A \union B, Unknown, i) = ContextAt(t, B, ContextAt(t, A, Unknown, k), i)
      BY <1>1, <3>1, ModelsSecond
    <3>4. QED
      BY <3>2, <3>3 DEF ModelOf
  <2>3. QED
    BY <2>1, <2>2
<1>6. Counted(t, A) \subseteq A /\ Counted(t, B) \subseteq B
  BY DEF Counted
<1>7. Filed(t, m) = P \union Q
  BY <1>1, <1>4, <1>5, <1>6 DEF Filed, FilingOf
<1>8. P \cap Q = {}
  BY <1>1, <1>2, <1>6
<1>9. IsFiniteSet(P) /\ IsFiniteSet(Q)
  BY <1>2, <1>6, FS_Subset
<1>10. Cardinality(P \union Q) = Cardinality(P) + Cardinality(Q)
  <2> HIDE DEF P, Q
  <2>1. Cardinality(P \cap Q) = 0
    BY <1>8, FS_EmptySet
  <2>2. Cardinality(P) \in Nat /\ Cardinality(Q) \in Nat
    BY <1>9, FS_CardinalityType
  <2>3. Cardinality(P \union Q) = Cardinality(P) + Cardinality(Q) - Cardinality(P \cap Q)
    BY <1>9, FS_Union
  <2>4. QED
    BY <2>1, <2>2, <2>3
<1>11. Tally(t, A, Unknown)[m] = Cardinality(P) /\ Tally(t, B, c)[m] = Cardinality(Q)
  BY DEF Tally
<1>12. QED
  BY <1>7, <1>10, <1>11 DEF A, B

-----------------------------------------------------------------------------
(* A scan of files at rest *)

\* scan.go:206-212, 512-520: an entry that reaches the end of its file holds the
\* count of the whole file.
LEMMA WholeEntry ==
    ASSUME Base, NEW f \in Files, RightEntry(f), index[f] # NoEntry,
           index[f].size = Size(file[f]), NEW m \in Filings
    PROVE  index[f].tally[m] = Cardinality(Filed(file[f], m))
<1>1. index[f].tally = Tally(file[f], WholeLines(file[f], 0, Size(file[f])), Unknown)
  BY DEF RightEntry
<1>2. QED
  BY <1>1 DEF Tally, Filed

\* scan.go:230-240, 312-318: what was known of a file and what a read finds add up
\* to the count of the whole file.
LEMMA ReadAddsUp ==
    ASSUME Base, NEW f \in Files, RightEntry(f), scan.size = Size(file[f]),
           index[f] = NoEntry \/ index[f].size < scan.size, NEW m \in Filings
    PROVE  Before(f)[m] + TallyOf(f)[m] = Cardinality(Filed(file[f], m))
<1> DEFINE t == file[f]
<1>1. LinesFit(t) /\ Size(t) \in Nat
  BY FileTyped DEF Base
<1>2. CASE index[f] = NoEntry
  <2>1. Before(f)[m] = 0
    BY <1>2 DEF Before, NoTally
  <2>2. TallyOf(f) = Tally(t, WholeLines(t, 0, Size(t)), Unknown)
    BY <1>2 DEF TallyOf, ReadOf, StartOffset, Carried
  <2>3. TallyOf(f)[m] = Cardinality(Filed(t, m))
    BY <2>2 DEF Tally, Filed
  <2>4. TallyOf(f)[m] \in Nat
    <3>1. WholeLines(t, 0, Size(t)) \in SUBSET (DOMAIN t.text)
      BY DEF WholeLines
    <3>2. TallyOf(f) \in Tallies
      BY <1>1, <2>2, <3>1, TallyTyped
    <3>3. QED
      BY <3>2 DEF Tallies
  <2>5. QED
    BY <2>1, <2>3, <2>4
<1>3. CASE index[f] # NoEntry
  <2> DEFINE e == index[f]
  <2>1. e.size \in Nat /\ e.size < Size(t) /\ e.size % 2 = 0
    <3>1. e \in Entries
      BY <1>3, KnownTyped
    <3>2. QED
      BY <1>3, <3>1 DEF Entries, RightEntry
  <2>2. PICK h \in Nat : e.size = 2 * h
    <3>1. e.size \div 2 \in Nat /\ e.size = 2 * (e.size \div 2)
      BY <2>1
    <3>2. QED
      BY <3>1
  <2>3. /\ e.tally = Tally(t, WholeLines(t, 0, e.size), Unknown)
        /\ ~t.claude => \A i \in WholeLines(t, e.size, Size(t)) :
              ContextAt(t, WholeLines(t, 0, e.size), Unknown, e.size) = e.carried
        /\ t.claude => \A i \in Counted(t, WholeLines(t, 0, e.size)),
                          j \in WholeLines(t, e.size, Size(t)) : t.text[i] # t.text[j]
    BY <1>3 DEF RightEntry
  <2>4. Before(f) = e.tally /\ TallyOf(f) = Tally(t, WholeLines(t, e.size, Size(t)), e.carried)
    BY <1>3 DEF Before, TallyOf, ReadOf, StartOffset, Carried
  <2>5. 2 * h <= Size(t)
    BY <1>1, <2>1, <2>2
  <2> DEFINE c == e.carried
  <2>6. /\ ~t.claude => \A i \in WholeLines(t, 2 * h, Size(t)) :
              ContextAt(t, WholeLines(t, 0, 2 * h), Unknown, 2 * h) = c
        /\ t.claude => \A i \in Counted(t, WholeLines(t, 0, 2 * h)),
                          j \in WholeLines(t, 2 * h, Size(t)) : t.text[i] # t.text[j]
    BY <2>2, <2>3
  <2>7. /\ Before(f) = Tally(t, WholeLines(t, 0, 2 * h), Unknown)
        /\ TallyOf(f) = Tally(t, WholeLines(t, 2 * h, Size(t)), c)
    BY <2>2, <2>3, <2>4
  <2> HIDE DEF t, c
  <2>8. QED
    BY <1>1, <2>5, <2>6, <2>7, TallySplits DEF t
<1>4. QED
  BY <1>2, <1>3

\* scan.go:283-294: what is left of a file to read holds every line of it that cannot
\* be read.
LEMMA ReadSeesHuge ==
    ASSUME Base, NEW f \in Files
    PROVE  HasHuge(file[f], ReadOf(f)) <=> HasHuge(file[f], DOMAIN file[f].text)
<1> DEFINE t == file[f]
           n == Len(t.text)
<1>1. /\ LinesFit(t) /\ HalfFits(t) /\ t.half \in BOOLEAN /\ Size(t) \in Nat
      /\ n \in Nat /\ DOMAIN t.text = 1..n
  BY FileTyped, LinesTyped DEF Base, LinesFit
<1>2. ASSUME NEW i \in DOMAIN t.text, t.text[i].kind = "huge"
      PROVE  i \in ReadOf(f)
  <2>1. i \in Nat /\ i > 0 /\ i <= n
    BY <1>1
  <2>2. 2 * i <= Size(t)
    BY <1>1, <1>2, HugeWhole
  <2>3. StartOffset(f) <= 2 * i - 2
    <3>1. CASE StartOffset(f) = 0
      BY <2>1, <3>1
    <3>2. CASE StartOffset(f) # 0
      <4>1. index[f] # NoEntry /\ StartOffset(f) = index[f].size
        BY <3>2 DEF StartOffset
      <4>2. Readable(index[f], t) /\ index[f].size \in Nat
        BY <4>1, KnownTyped DEF Base, EntriesReadable
      <4>3. ~(2 * i - 2 < index[f].size)
        BY <1>2, <4>1, <4>2 DEF Readable
      <4>4. QED
        BY <2>1, <4>1, <4>2, <4>3
    <3>3. QED
      BY <3>1, <3>2
  <2>4. QED
    BY <2>2, <2>3 DEF ReadOf, WholeLines
<1>3. ReadOf(f) \subseteq DOMAIN t.text
  BY DEF ReadOf, WholeLines
<1>4. QED
  BY <1>2, <1>3 DEF HasHuge

\* scan.go:206-212: neither does an entry that reaches the end of its file cover one.
LEMMA WholeUnhuge ==
    ASSUME Base, NEW f \in Files, index[f] # NoEntry, index[f].size = Size(file[f])
    PROVE  ~HasHuge(file[f], DOMAIN file[f].text)
<1> DEFINE t == file[f]
           n == Len(t.text)
<1>1. /\ LinesFit(t) /\ HalfFits(t) /\ t.half \in BOOLEAN /\ Size(t) \in Nat
      /\ n \in Nat /\ DOMAIN t.text = 1..n
  BY FileTyped, LinesTyped DEF Base, LinesFit
<1>2. 2 * n <= Size(t) + 1
  BY <1>1, SizeTyped DEF HalfFits
<1>3. \A i \in DOMAIN t.text : 2 * i - 2 < Size(t)
  BY <1>1, <1>2
<1>4. Readable(index[f], t)
  BY DEF Base, EntriesReadable
<1>5. QED
  BY <1>3, <1>4 DEF Readable, HasHuge

\* scan.go:116-143: the report has the requests of one transcript more.
LEMMA OneMore ==
    ASSUME Base, NEW S \in SUBSET Files, NEW f \in Files \ S, NEW m \in Filings
    PROVE  /\ Cardinality(Requests(S, m)) \in Nat /\ Cardinality(Filed(file[f], m)) \in Nat
           /\ Cardinality(Requests(S \union {f}, m)) =
                 Cardinality(Requests(S, m)) + Cardinality(Filed(file[f], m))
<1> DEFINE A == Filed(file[f], m)
           R == Requests(S, m)
           one == {f} \X A
<1>1. LinesFit(file[f]) /\ MaxLines \in Nat
  BY FileTyped DEF Base
<1>2. A \subseteq DOMAIN file[f].text
  BY DEF Filed, Counted, WholeLines
<1>3. A \subseteq 1..MaxLines
  BY <1>1, <1>2 DEF LinesFit
<1>4. IsFiniteSet(A)
  BY <1>1, <1>2, LinesFinite
<1>5. IsFiniteSet(R)
  <2>1. IsFiniteSet(S) /\ IsFiniteSet(1..MaxLines)
    BY <1>1, NameAssumption, FS_Subset, FS_Interval
  <2>2. IsFiniteSet(S \X (1..MaxLines))
    BY <2>1, FS_Product
  <2>3. R \subseteq S \X (1..MaxLines)
    BY DEF Requests
  <2>4. QED
    BY <2>2, <2>3, FS_Subset
<1>6. IsFiniteSet(one) /\ Cardinality(one) = Cardinality(A)
  <2>1. IsFiniteSet({f}) /\ Cardinality({f}) = 1
    BY FS_Singleton
  <2>2. IsFiniteSet(one) /\ Cardinality(one) = 1 * Cardinality(A)
    <3> HIDE DEF A
    <3>1. QED
      BY <1>4, <2>1, FS_Product
  <2>3. Cardinality(A) \in Nat
    BY <1>4, FS_CardinalityType
  <2>4. QED
    BY <2>2, <2>3
<1>7. Requests(S \union {f}, m) = R \union one
  <2>1. ASSUME NEW r \in Requests(S \union {f}, m) PROVE r \in R \union one
    BY DEF Requests
  <2>2. ASSUME NEW r \in R \union one PROVE r \in Requests(S \union {f}, m)
    BY <1>3 DEF Requests
  <2>3. QED
    BY <2>1, <2>2
<1>8. R \cap one = {}
  BY DEF Requests
<1> HIDE DEF R, one, A
<1>9. Cardinality(R \cap one) = 0 /\ Cardinality(R) \in Nat /\ Cardinality(A) \in Nat
  BY <1>4, <1>5, <1>8, FS_EmptySet, FS_CardinalityType
<1>10. Cardinality(R \union one) = Cardinality(R) + Cardinality(one) - Cardinality(R \cap one)
  BY <1>5, <1>6, FS_Union
<1>11. Cardinality(Requests(S \union {f}, m)) = Cardinality(R) + Cardinality(A)
  <2>1. Cardinality(R \union one) = Cardinality(R) + Cardinality(A)
    BY <1>6, <1>9, <1>10
  <2>2. QED
    BY <1>7, <2>1
<1>12. QED
  BY <1>9, <1>11 DEF R, A

\* scan.go:43-88: the state of the files, seen from the index, as a scan finds it.
LEMMA SameFiles ==
    ASSUME UNCHANGED <<file, index>>
    PROVE  /\ \A f \in Files : RightEntry(f)' <=> RightEntry(f)
           /\ \A S, m : Requests(S, m)' = Requests(S, m)
  BY DEF RightEntry, Requests

\* scan.go:108-143, 283-294: a file adds its requests to those done before, or makes
\* its source partial, which is the only one it has requests of.
LEMMA FileDone ==
    ASSUME Base, Adds(scan), NEW f \in scan.todo, NEW s,
           s.open = NoFile, s.todo = scan.todo \ {f},
           \/ s.partial = scan.partial \union {SourceOf(file[f])} /\ s.tally = scan.tally
           \/ /\ ~HasHuge(file[f], DOMAIN file[f].text) /\ s.partial = scan.partial
              /\ \A m \in Filings : s.tally[m] = scan.tally[m] + Cardinality(Filed(file[f], m))
    PROVE  Adds(s)
<1> DEFINE S == Files \ scan.todo
<1>1. f \in Files /\ scan.todo \subseteq Files
  BY DEF Base, TypeOK
<1>2. Files \ s.todo = S \union {f} /\ S \in SUBSET Files /\ f \in Files \ S
  BY <1>1
<1> HIDE DEF S
<1>3. /\ \A g \in S : HasHuge(file[g], DOMAIN file[g].text) => SourceOf(file[g]) \in scan.partial
      /\ \A m \in Filings : m[1] \in scan.partial \/ scan.tally[m] = Cardinality(Requests(S, m))
  BY DEF Adds, S
<1>4. \A g \in S \union {f} :
         HasHuge(file[g], DOMAIN file[g].text) => SourceOf(file[g]) \in s.partial
  BY <1>3
<1>5. ASSUME NEW m \in Filings, m[1] \notin s.partial
      PROVE  s.tally[m] = Cardinality(Requests(S \union {f}, m))
  <2>1. scan.tally[m] = Cardinality(Requests(S, m))
    BY <1>3, <1>5
  <2>2. /\ Cardinality(Requests(S, m)) \in Nat
        /\ Cardinality(Requests(S \union {f}, m)) =
              Cardinality(Requests(S, m)) + Cardinality(Filed(file[f], m))
    BY <1>2, OneMore
  <2>3. CASE s.partial = scan.partial \union {SourceOf(file[f])} /\ s.tally = scan.tally
    <3>1. m[1] # SourceOf(file[f])
      BY <1>5, <2>3
    <3>2. Filed(file[f], m) = {}
      BY <3>1 DEF Filed, FilingOf
    <3>3. Cardinality(Filed(file[f], m)) = 0
      BY <3>2, FS_EmptySet
    <3>4. QED
      BY <2>1, <2>2, <2>3, <3>3
  <2>4. CASE \A n \in Filings : s.tally[n] = scan.tally[n] + Cardinality(Filed(file[f], n))
    BY <2>1, <2>2, <2>4
  <2>5. QED
    BY <2>3, <2>4
<1>6. QED
  BY <1>2, <1>4, <1>5 DEF Adds

\* scheduler.go:226-272, serve.go:95-101: what ends a walk, and what follows it.
LEMMA ScanEndings ==
    ASSUME Base
    PROVE  /\ FinishScan \/ SaveIndex \/ SaveReport \/ Restart \/ FailScan => scan'.phase # "walk"
           /\ FailScan => scan'.failed
           /\ Restart => scan'.phase = "idle"
<1>1. DOMAIN NoScan = DOMAIN scan /\ NoScan.phase = "idle"
      /\ DOMAIN NoScan = {"phase", "todo", "open", "size", "mtime", "tally", "entries",
                          "partial", "failed"}
  BY DEF NoScan, Base, TypeOK
<1>2. FinishScan => scan'.phase = "saveIndex"
  BY <1>1 DEF FinishScan
<1>3. FailScan => scan'.phase = "saveIndex" /\ scan'.failed
  BY <1>1 DEF FailScan
<1>4. SaveIndex => scan'.phase = "idle" \/ scan'.phase = "saveReport"
  BY <1>1 DEF SaveIndex
<1>5. SaveReport \/ Restart => scan'.phase = "idle"
  BY <1>1 DEF SaveReport, Restart
<1>6. QED
  BY <1>2, <1>3, <1>4, <1>5

\* scan.go:43-88: the accounts of a scan are kept step by step.
LEMMA AccountedKept == Base /\ Accounted /\ [Next]_vars => Accounted'
<1> SUFFICES ASSUME Base, Accounted, [Next]_vars,
                    scan'.phase = "walk", quiet', \A f \in Files : RightEntry(f)'
             PROVE  Adds(scan)'
  BY DEF Accounted
<1> DEFINE right == \A f \in Files : RightEntry(f)
<1>0. scan \in Scans
  BY DEF Base, TypeOK, Scans
<1>1. ASSUME NEW s, scan' = s, UNCHANGED <<file, index>>, right => Adds(s)
      PROVE  Adds(scan)'
  <2>1. right /\ \A S, m : Requests(S, m)' = Requests(S, m)
    BY <1>1, SameFiles
  <2>2. Adds(s)
    BY <1>1, <2>1
  <2>3. QED
    BY <1>1, <2>1, <2>2 DEF Adds
<1>2. scan.phase = "walk" /\ quiet /\ right => Adds(scan)
  BY DEF Accounted
<1>3. CASE UNCHANGED vars
  BY <1>1, <1>2, <1>3 DEF vars
<1>4. ASSUME NEW f \in Files, WriterStep(f) PROVE FALSE
  BY <1>4 DEF WriterStep, AppendLine, FinishLine, Touch, Write
<1>5. CASE StartScan
  <2> DEFINE s == [NoScan EXCEPT !.phase = "walk", !.todo = Files]
  <2>1. scan' = s /\ UNCHANGED <<file, index>>
    BY <1>5 DEF StartScan
  <2>2. s.open = NoFile /\ s.tally = NoTally /\ Files \ s.todo = {}
    BY DEF NoScan
  <2> HIDE DEF s
  <2>3. ASSUME NEW m \in Filings PROVE s.tally[m] = Cardinality(Requests({}, m))
    <3>1. Requests({}, m) = {} /\ s.tally[m] = 0
      BY <2>2 DEF Requests, NoTally
    <3>2. QED
      BY <3>1, FS_EmptySet
  <2>4. Adds(s)
    BY <2>2, <2>3 DEF Adds
  <2>5. QED
    BY <1>1, <2>1, <2>4
<1>6. ASSUME NEW f \in Files, UseCached(f) PROVE Adds(scan)'
  <2> DEFINE s == [scan EXCEPT !.todo = scan.todo \ {f},
                               !.tally = Add(scan.tally, index[f].tally),
                               !.entries[f] = index[f]]
  <2>1. /\ f \in scan.todo /\ scan' = s /\ UNCHANGED <<file, index, quiet>>
        /\ index[f] # NoEntry /\ index[f].size = Size(file[f]) /\ scan.open = NoFile
    BY <1>6 DEF UseCached, Cached
  <2>2. /\ s.open = NoFile /\ s.todo = scan.todo \ {f} /\ s.partial = scan.partial
        /\ s.tally = Add(scan.tally, index[f].tally) /\ s.phase = scan.phase
    BY <1>0, <2>1 DEF Scans
  <2> HIDE DEF s
  <2>3. ASSUME right PROVE Adds(s)
    <3>1. Adds(scan)
      BY <1>2, <2>1, <2>2, <2>3
    <3>2. ~HasHuge(file[f], DOMAIN file[f].text)
      BY <2>1, WholeUnhuge
    <3>3. ASSUME NEW m \in Filings
          PROVE  s.tally[m] = scan.tally[m] + Cardinality(Filed(file[f], m))
      <4>1. index[f].tally[m] = Cardinality(Filed(file[f], m))
        BY <2>1, <2>3, WholeEntry
      <4>2. QED
        BY <2>2, <4>1 DEF Add
    <3>4. QED
      BY <2>1, <2>2, <3>1, <3>2, <3>3, FileDone
  <2>4. QED
    BY <1>1, <2>1, <2>3
<1>7. ASSUME NEW f \in Files, Open(f) PROVE Adds(scan)'
  <2> DEFINE s == [scan EXCEPT !.open = f, !.size = Size(file[f]), !.mtime = file[f].mtime]
  <2>1. /\ f \in scan.todo /\ scan' = s /\ UNCHANGED <<file, index, quiet>>
        /\ index[f] = NoEntry \/ index[f].size # Size(file[f])
                              \/ index[f].mtime # file[f].mtime
    BY <1>7 DEF Open, Cached
  <2>2. /\ s.open = f /\ s.todo = scan.todo /\ s.partial = scan.partial
        /\ s.tally = scan.tally /\ s.phase = scan.phase /\ s.size = Size(file[f])
    BY <1>0, <2>1 DEF Scans
  <2> HIDE DEF s
  <2>3. ASSUME right PROVE Adds(s)
    <3>1. Adds(scan)
      BY <1>2, <2>1, <2>2, <2>3
    <3>2. index[f] = NoEntry \/ index[f].size < Size(file[f])
      <4>1. CASE index[f] # NoEntry
        <5>1. index[f].size <= Size(file[f]) /\ index[f].size \in Nat /\ Size(file[f]) \in Nat
          BY <4>1, KnownTyped, FileTyped DEF Base, EntriesReadable, Readable, Entries
        <5>2. index[f].size < Size(file[f]) \/ index[f].mtime = file[f].mtime
          BY <2>3, <4>1 DEF RightEntry
        <5>3. QED
          BY <2>1, <4>1, <5>1, <5>2
      <4>2. QED
        BY <4>1
    <3>3. QED
      BY <2>2, <3>1, <3>2 DEF Adds
  <2>4. QED
    BY <1>1, <2>1, <2>3
<1>8. CASE Read
  <2> DEFINE f == scan.open
             s == scan'
  <2>1. /\ f \in Files /\ f \in scan.todo /\ f # NoFile
        /\ UNCHANGED <<file, index, report, disk, quiet, scans, crashes>>
    BY <1>8, ReadMakes DEF Read
  <2>2. HasHuge(file[f], ReadOf(f)) <=> HasHuge(file[f], DOMAIN file[f].text)
    BY <2>1, ReadSeesHuge
  <2>3. /\ s.open = NoFile /\ s.todo = scan.todo \ {f} /\ s.phase = scan.phase
        /\ \/ s.partial = scan.partial \union {SourceOf(file[f])} /\ s.tally = scan.tally
           \/ /\ ~HasHuge(file[f], ReadOf(f)) /\ s.partial = scan.partial
              /\ s.tally = Add(Add(scan.tally, Before(f)), TallyOf(f))
    BY <1>0, <1>8, ReadMakes DEF Scans
  <2> HIDE DEF s
  <2>4. ASSUME right PROVE Adds(s)
    <3>1. Adds(scan)
      BY <1>2, <2>1, <2>3, <2>4 DEF s
    <3>2. scan.size = Size(file[f]) /\ (index[f] = NoEntry \/ index[f].size < scan.size)
      BY <2>1, <3>1 DEF Adds
    <3>3. ASSUME s.tally = Add(Add(scan.tally, Before(f)), TallyOf(f)), NEW m \in Filings
          PROVE  s.tally[m] = scan.tally[m] + Cardinality(Filed(file[f], m))
      <4>1. Before(f)[m] + TallyOf(f)[m] = Cardinality(Filed(file[f], m))
        BY <2>1, <2>4, <3>2, ReadAddsUp
      <4>2. Before(f)[m] \in Nat /\ TallyOf(f)[m] \in Nat /\ scan.tally[m] \in Nat
        BY <1>0, <2>1, KnownTyped, EntryFits DEF Tallies, Scans
      <4>3. s.tally[m] = (scan.tally[m] + Before(f)[m]) + TallyOf(f)[m]
        BY <3>3 DEF Add
      <4>4. QED
        BY <4>1, <4>2, <4>3
    <3>4. QED
      BY <2>1, <2>2, <2>3, <3>1, <3>3, FileDone
  <2>5. QED
    BY <1>1, <2>1, <2>4 DEF s
<1>9. CASE FinishScan \/ FailScan \/ SaveIndex \/ SaveReport \/ Restart
  BY <1>9, ScanEndings
<1>10. QED
  BY <1>3, <1>4, <1>5, <1>6, <1>7, <1>8, <1>9 DEF Next, ScanStep

\* scan.go:43-331: what every reachable state of the scan satisfies.
LEMMA AlwaysScan == Spec => [](Base /\ Accounted)
<1>1. Init => Accounted
  BY DEF Init, NoScan, Accounted
<1>2. QED
  BY <1>1, BaseStarts, BaseKept, AccountedKept, PTL DEF Spec
-----------------------------------------------------------------------------
(* Theorems *)

\* scan.go, index.go: every variable stays in the domain the code gives it.
THEOREM ScanTypeOK == Spec => []TypeOK
<1>1. Base => TypeOK
  BY DEF Base
<1>2. QED
  BY <1>1, AlwaysScan, PTL

\* "no entry covers that line" (the comments at scan.go:283-286 and 644-647):
\* whatever is written, lost or killed meanwhile, no entry, in memory or on disk,
\* reaches into a line that cannot be read, nor past the end of its file.
THEOREM EntriesNeverCoverHuge == Spec => []EntriesReadable
<1>1. Base => EntriesReadable
  BY DEF Base
<1>2. QED
  BY <1>1, AlwaysScan, PTL

\* scan.go:206-240, 312-318 and 557-564: of every source it read without an error, a
\* scan of files at rest makes the report of an independent parse from a right index,
\* and a source with a line no read can pass is partial in it.
THEOREM ScansRight == Spec => RightIndexRightReport
<1> DEFINE Right == Reported /\ quiet /\ (\A f \in Files : RightEntry(f)) =>
                      AgreesWithParse(report') /\ Unreadable \subseteq report'.partial
<1>1. ASSUME Base, Accounted, Reported, quiet, \A f \in Files : RightEntry(f), [Next]_vars
      PROVE  AgreesWithParse(report') /\ Unreadable \subseteq report'.partial
  <2>1. FinishScan
    <3>1. scan.phase = "walk" /\ scan'.phase = "saveIndex" /\ ~scan'.failed
      BY <1>1 DEF Reported
    <3>2. ~SaveIndex /\ ~SaveReport /\ ~StartScan
      BY <3>1 DEF SaveIndex, SaveReport, StartScan
    <3>3. ~FailScan /\ ~Restart
      BY <1>1, <3>1, ScanEndings
    <3>4. scan \in Scans
      BY <1>1 DEF Base, TypeOK, Scans
    <3>5. ASSUME NEW f \in Files, UseCached(f) \/ Open(f) PROVE FALSE
      BY <3>1, <3>4, <3>5 DEF UseCached, Open, Scans
    <3>6. ~Read
      BY <1>1, <3>1, <3>4, ReadMakes DEF Scans
    <3>7. ASSUME NEW f \in Files, WriterStep(f) PROVE FALSE
      BY <3>1, <3>7 DEF WriterStep, AppendLine, FinishLine, Touch, Write
    <3>8. ~UNCHANGED vars
      BY <3>1 DEF vars
    <3>9. QED
      BY <1>1, <3>2, <3>3, <3>5, <3>6, <3>7, <3>8 DEF Next, ScanStep
  <2>2. scan.todo = {} /\ report' = [tally |-> scan.tally, partial |-> scan.partial]
    BY <2>1 DEF FinishScan
  <2>3. /\ \A f \in Files :
              HasHuge(file[f], DOMAIN file[f].text) => SourceOf(file[f]) \in scan.partial
        /\ \A m \in Filings :
              m[1] \in scan.partial \/ scan.tally[m] = Cardinality(Requests(Files, m))
    <3>1. Files \ scan.todo = Files
      BY <2>2
    <3>2. QED
      BY <1>1, <3>1 DEF Accounted, Adds, Reported
  <2>4. AgreesWithParse(report')
    BY <2>2, <2>3 DEF AgreesWithParse, IndependentParse
  <2>5. Unreadable \subseteq report'.partial
    BY <2>2, <2>3 DEF Unreadable
  <2>6. QED
    BY <2>4, <2>5
<1>2. Base /\ Accounted /\ [Next]_vars => [Right]_vars
  BY <1>1
<1>3. QED
  BY <1>2, AlwaysScan, PTL DEF Spec, RightIndexRightReport
=============================================================================
