------------------------------ MODULE StatsScan ------------------------------
(***************************************************************************)
(* The incremental scan of transcripts (internal/stats/scan.go, index.go)  *)
(* that ends every poll (scheduler.go, scanStats).  Other programs append  *)
(* lines to the transcripts while the daemon reads them; an index          *)
(* remembers, per file, the size read so far and what was counted, so that *)
(* a later scan reads the appended part only.  Index and report are kept   *)
(* in memory and, each in a file of its own, on disk.                      *)
(*                                                                         *)
(* A line counts for one request; token amounts, prices and the windows of *)
(* days add up the same way and are left out, and with the prices the      *)
(* other reason the code has to call a source partial, a model it has no   *)
(* price for (scan.go:374-381, 738-745).  A size is measured in half       *)
(* lines, because a writer can be caught in the middle of a line.          *)
(***************************************************************************)
EXTENDS Integers, Sequences, FiniteSets, FiniteSetsExt

CONSTANTS
    Files,          \* transcripts
    ClaudeFiles,    \* those of Claude Code: a message counts once; in the others,
                    \* Codex's, lines carry a model on
    Models,         \* model names
    Unknown,        \* the model of requests no context names
    LinesOf,        \* LinesOf[f]: the lines a writer can append to f
    NoEntry, NoReport, NoFile,
    FailingFiles,   \* transcripts the disk may fail to read
    MaxLines,       \* bound: lines of a transcript
    MaxScans,       \* bound: scans
    MaxTouches,     \* bound: changes of a file's mtime alone
    MaxCrashes,     \* bound: kills of the daemon
    TornWrites,     \* may a scan catch a line half written?
    BusyWriters     \* may a file grow while a scan runs?

\* A context line names the model of what follows (Codex), a tokens line is one
\* request, a huge line exceeds the scanner's buffer.
LineKinds == {"context", "tokens", "huge"}

ASSUME LineAssumption ==
    LinesOf \in [Files -> SUBSET [kind : LineKinds, id : Nat, model : Models]]
ASSUME NameAssumption ==
    Unknown \notin Models /\ IsFiniteSet(Files) /\ ClaudeFiles \subseteq Files
ASSUME BoundAssumption == {MaxLines, MaxScans, MaxTouches, MaxCrashes} \subseteq Nat
ASSUME FlagAssumption == {TornWrites, BusyWriters} \subseteq BOOLEAN

VARIABLES
    file,      \* transcripts: dialect, text, whether the last line is half written, mtime
    index,     \* Scheduler.StatsIndex
    report,    \* Scheduler.StatsReport
    disk,      \* stats index and report as last saved
    scan,      \* the scan in progress
    quiet,     \* nothing was written since the scan began
    scans, crashes

vars == <<file, index, report, disk, scan, quiet, scans, crashes>>
-----------------------------------------------------------------------------
(* Counting *)

Names == Models \union {Unknown}
Sources == {"claude_code", "codex"}
SourceOf(t) == IF t.claude THEN "claude_code" ELSE "codex"

\* What a request is filed under: its source, and in it its model.
Filings == Sources \X Names
Tallies == [Filings -> Nat]
NoTally == [m \in Filings |-> 0]
Add(a, b) == [m \in Filings |-> a[m] + b[m]]

Size(t) == 2 * Len(t.text) - (IF t.half THEN 1 ELSE 0)

\* Lines that lie between two offsets with both ends.
WholeLines(t, from, to) ==
    {i \in DOMAIN t.text : from <= 2 * i - 2 /\ 2 * i <= to}

\* Repeated lines of a message count once per read.
Counted(t, lines) ==
    {i \in lines : /\ t.text[i].kind = "tokens"
                   /\ t.claude =>
                        ~\E j \in lines : j < i /\ t.text[j] = t.text[i]}

\* The model in effect before line i of a read.
ContextAt(t, lines, carried, i) ==
    LET contexts == {j \in lines : j < i /\ t.text[j].kind = "context"}
    IN  IF contexts = {} THEN carried ELSE t.text[Max(contexts)].model
ModelOf(t, lines, carried, i) ==
    IF t.claude THEN t.text[i].model ELSE ContextAt(t, lines, carried, i)
FilingOf(t, lines, carried, i) == <<SourceOf(t), ModelOf(t, lines, carried, i)>>

Tally(t, lines, carried) ==
    [m \in Filings |->
        Cardinality({i \in Counted(t, lines) : FilingOf(t, lines, carried, i) = m})]

HasHuge(t, lines) == \E i \in lines : t.text[i].kind = "huge"
-----------------------------------------------------------------------------
\* Mutant: an entry forgets the instant of the file it describes.
EntryUndated(size, mtime, tally, carried) ==
    [size |-> size, tally |-> tally, carried |-> carried]
Entry(size, mtime, tally, carried) ==
    [size |-> size, mtime |-> mtime, tally |-> tally, carried |-> carried]

NoScan == [phase |-> "idle", todo |-> {}, open |-> NoFile, size |-> 0, mtime |-> 0,
           tally |-> NoTally, entries |-> [f \in Files |-> NoEntry],
           partial |-> {}, failed |-> FALSE]

Empty == [index |-> [f \in Files |-> NoEntry], report |-> NoReport]

Init ==
    /\ file = [f \in Files |-> [claude |-> f \in ClaudeFiles, text |-> <<>>,
                             half |-> FALSE, mtime |-> 0]]
    /\ index = Empty.index
    /\ report = Empty.report
    /\ disk = Empty
    /\ scan = NoScan
    /\ quiet = TRUE
    /\ scans = 0
    /\ crashes = 0
-----------------------------------------------------------------------------
(* Writers: Claude Code and Codex *)

WriterRuns == BusyWriters \/ scan.phase # "walk"

Write(f, t) ==
    /\ file' = [file EXCEPT ![f] = t]
    /\ quiet' = FALSE
    /\ UNCHANGED <<index, report, disk, scan, scans, crashes>>

AppendLine(f, line) ==
    /\ WriterRuns /\ ~file[f].half
    /\ Len(file[f].text) < MaxLines
    /\ \E half \in {FALSE, TornWrites /\ line.kind # "huge"} :
           Write(f, [file[f] EXCEPT !.text = Append(@, line), !.half = half])

FinishLine(f) ==
    /\ WriterRuns /\ file[f].half
    /\ Write(f, [file[f] EXCEPT !.half = FALSE])

\* Copied, restored or touched: a new mtime on the same bytes.
Touch(f) ==
    /\ WriterRuns /\ ~file[f].half
    /\ file[f].mtime < MaxTouches
    /\ Write(f, [file[f] EXCEPT !.mtime = @ + 1])
-----------------------------------------------------------------------------
(* The scan, performed at the end of a poll *)

StartScan ==
    /\ scan.phase = "idle"
    /\ scans < MaxScans
    /\ scans' = scans + 1
    /\ scan' = [NoScan EXCEPT !.phase = "walk", !.todo = Files]
    /\ quiet' = TRUE
    /\ UNCHANGED <<file, index, report, disk, crashes>>

\* Same size and mtime as last time: the cached count stands.
Cached(f) == /\ index[f] # NoEntry
             /\ index[f].size = Size(file[f])
             /\ index[f].mtime = file[f].mtime

UseCached(f) ==
    /\ f \in scan.todo
    /\ scan.open = NoFile
    /\ Cached(f)
    /\ scan' = [scan EXCEPT !.todo = @ \ {f},
                            !.tally = Add(@, index[f].tally),
                            !.entries[f] = index[f]]
    /\ UNCHANGED <<file, index, report, disk, quiet, scans, crashes>>

\* The walk hands over the size it saw, and the file is opened.
Open(f) ==
    /\ f \in scan.todo
    /\ scan.open = NoFile
    /\ ~Cached(f)
    /\ scan' = [scan EXCEPT !.open = f, !.size = Size(file[f]), !.mtime = file[f].mtime]
    /\ UNCHANGED <<file, index, report, disk, quiet, scans, crashes>>

\* Only the appended part of a file that grew is read.
StartOffset(f) ==
    IF index[f] # NoEntry /\ scan.size > index[f].size THEN index[f].size ELSE 0

\* Mutant: an appended part starts with no model.
CarriedNothing(f) == Unknown
Carried(f) == IF index[f] # NoEntry THEN index[f].carried ELSE Unknown

Before(f) == IF index[f] # NoEntry THEN index[f].tally ELSE NoTally

\* Mutant: a line too long for the scanner's buffer ends the read unnoticed.
ScanErrorIgnored(t, lines) == FALSE
ScanError(t, lines) == HasHuge(t, lines)

\* From the offset to the end the file has by now.  What is remembered is the
\* count of this read, the size the walk saw and the last model.  A read that
\* ends in an error, that of a huge line or one of the disk, makes the source of
\* the file partial, and nothing of the file is counted or remembered.
Read ==
    LET f == scan.open
        lines == WholeLines(file[f], StartOffset(f), Size(file[f]))
        tally == Tally(file[f], lines, Carried(f))
        contexts == {i \in lines : file[f].text[i].kind = "context"}
        last == IF contexts = {} THEN Carried(f) ELSE file[f].text[Max(contexts)].model
        done == [scan EXCEPT !.open = NoFile, !.todo = @ \ {f}]
    IN  /\ f # NoFile
        /\ \/ /\ ScanError(file[f], lines) \/ f \in FailingFiles
              /\ scan' = [done EXCEPT !.partial = @ \union {SourceOf(file[f])}]
           \/ /\ ~ScanError(file[f], lines)
              /\ scan' = [done EXCEPT
                            !.tally = Add(Add(@, Before(f)), tally),
                            !.entries[f] = Entry(scan.size, scan.mtime, tally, last)]
        /\ UNCHANGED <<file, index, report, disk, quiet, scans, crashes>>

\* Entries of files the scan did not finish stay as they were.
Merged == [f \in Files |-> IF scan.entries[f] # NoEntry THEN scan.entries[f]
                                                        ELSE index[f]]

FinishScan ==
    /\ scan.phase = "walk"
    /\ scan.todo = {}
    /\ report' = [tally |-> scan.tally, partial |-> scan.partial]
    /\ index' = Merged
    /\ scan' = [NoScan EXCEPT !.phase = "saveIndex"]
    /\ UNCHANGED <<file, disk, quiet, scans, crashes>>

\* An unreadable directory or file, or 30 s gone: the report is kept, what was
\* read is remembered.
FailScan ==
    /\ scan.phase = "walk"
    /\ scan.todo # {}
    /\ index' = Merged
    /\ scan' = [NoScan EXCEPT !.phase = "saveIndex", !.failed = TRUE]
    /\ UNCHANGED <<file, report, disk, quiet, scans, crashes>>

\* Saves replace a file as a whole; an error is ignored.
SaveIndex ==
    /\ scan.phase = "saveIndex"
    /\ disk' \in {disk, [disk EXCEPT !.index = index]}
    /\ scan' = IF scan.failed THEN NoScan ELSE [scan EXCEPT !.phase = "saveReport"]
    /\ UNCHANGED <<file, index, report, quiet, scans, crashes>>

SaveReport ==
    /\ scan.phase = "saveReport"
    /\ disk' \in {disk, [disk EXCEPT !.report = report]}
    /\ scan' = NoScan
    /\ UNCHANGED <<file, index, report, quiet, scans, crashes>>

\* Killed and started again; an upgrade may bump the schema version, which
\* discards the saved index.
Restart ==
    /\ crashes < MaxCrashes
    /\ crashes' = crashes + 1
    /\ index' \in {disk.index, Empty.index}
    /\ report' = disk.report
    /\ scan' = NoScan
    /\ UNCHANGED <<file, disk, quiet, scans>>
-----------------------------------------------------------------------------
WriterStep(f) ==
    \/ \E line \in LinesOf[f] : AppendLine(f, line)
    \/ FinishLine(f)
    \/ Touch(f)

ScanStep ==
    \/ StartScan
    \/ \E f \in Files : UseCached(f) \/ Open(f)
    \/ Read
    \/ FinishScan
    \/ FailScan
    \/ SaveIndex
    \/ SaveReport

Next ==
    \/ \E f \in Files : WriterStep(f)
    \/ ScanStep
    \/ Restart

Spec == Init /\ [][Next]_vars
-----------------------------------------------------------------------------
(* Properties *)

Texts == UNION {[1..n -> UNION {LinesOf[f] : f \in Files}] : n \in 0..MaxLines}
Entries == [size : 0..(2 * MaxLines), mtime : 0..MaxTouches,
            tally : Tallies, carried : Names]
Indexes == [Files -> Entries \union {NoEntry}]
Reports == [tally : Tallies, partial : SUBSET Sources] \union {NoReport}

\* Every variable stays in the domain the code gives it.
TypeOK ==
    /\ file \in [Files -> [claude : BOOLEAN, text : Texts, half : BOOLEAN, mtime : 0..MaxTouches]]
    /\ index \in Indexes
    /\ report \in Reports
    /\ disk \in [index : Indexes, report : Reports]
    /\ scan \in [phase : {"idle", "walk", "saveIndex", "saveReport"},
                 todo : SUBSET Files, open : Files \union {NoFile},
                 size : 0..(2 * MaxLines), mtime : 0..MaxTouches,
                 tally : Tallies, entries : Indexes,
                 partial : SUBSET Sources, failed : BOOLEAN]
    /\ quiet \in BOOLEAN
    /\ {scans, crashes} \subseteq Nat

\* The report of a scan that reached the end of its walk.
Reported == scan.phase = "walk" /\ scan'.phase = "saveIndex" /\ ~scan'.failed

\* What a parse of a whole transcript files under m, and one of several transcripts.
Filed(t, m) ==
    LET lines == WholeLines(t, 0, Size(t))
    IN  {i \in Counted(t, lines) : FilingOf(t, lines, Unknown, i) = m}
Requests(S, m) == {r \in S \X (1..MaxLines) : r[2] \in Filed(file[r[1]], m)}

IndependentParse == [m \in Filings |-> Cardinality(Requests(Files, m))]

\* The report of every source it does not call partial is that of a parse.
AgreesWithParse(r) ==
    \A m \in Filings : m[1] \in r.partial \/ r.tally[m] = IndependentParse[m]

\* Sources with a line no read can pass.
Unreadable ==
    {SourceOf(file[f]) : f \in {g \in Files : HasHuge(file[g], DOMAIN file[g].text)}}

\* What README.md:71 says of every scan, "identical totals, request counts and
\* per-model split" as an independent parse: a scan during which no transcript was
\* written reports what a parse of the whole transcripts finds (scan.go:169-331,
\* 476-695).
MatchesIndependentParse ==
    [][Reported /\ quiet => AgreesWithParse(report')]_vars

\* No request is counted twice (scan.go:164-168 and 230-235: repeated messages are
\* dropped, and bytes are read once).
NeverOvercounts ==
    [][Reported => \A m \in Filings : report'.tally[m] <= IndependentParse[m]]_vars

\* An entry that holds the count of all the bytes before its size.
RightEntry(f) ==
    LET e == index[f]
        t == file[f]
        lines == WholeLines(t, 0, e.size)
        rest == WholeLines(t, e.size, Size(t))
    IN  \/ e = NoEntry
        \/ /\ e.size % 2 = 0
           /\ e.size < Size(t) \/ e.mtime = t.mtime
           /\ e.tally = Tally(t, lines, Unknown)
           /\ ~t.claude => \A i \in rest :
                 ContextAt(t, lines, Unknown, e.size) = e.carried
           /\ t.claude => \A i \in Counted(t, lines), j \in rest : t.text[i] # t.text[j]

\* From a right index a scan of files at rest makes a right report of every source
\* it read without an error, whatever it finds cached, appended to or new
\* (scan.go:206-240, 312-318; 557-564), and a source with a line no read can pass
\* stays partial at every scan: no entry covers that line (the comments at
\* scan.go:283-286 and 644-647).
RightIndexRightReport ==
    [][Reported /\ quiet /\ (\A f \in Files : RightEntry(f)) =>
         AgreesWithParse(report') /\ Unreadable \subseteq report'.partial]_vars
=============================================================================
