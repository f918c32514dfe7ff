----------------------------- MODULE BleDecoder ------------------------------
(***************************************************************************)
(* The device's decoder of a provisioning transfer                         *)
(* (firmware/src/usage/bleprov.cpp): BEGIN, numbered chunks, COMMIT, and    *)
(* the outcomes the hardware layer reports back through it.  Any central   *)
(* may write anything at any time; this module says what the decoder makes *)
(* of it.                                                                  *)
(*                                                                         *)
(* The bytes of a stream are cut into units; a chunk carries some units.   *)
(* The CRC makes a buffer acceptable just when it is some stream, whole    *)
(* and in order.                                                           *)
(***************************************************************************)
EXTENDS Integers, Sequences

CONSTANTS
    Streams,        \* the streams a daemon can send
    LenOf,          \* LenOf[s]: units of stream s
    Sound,          \* streams whose payload parses into a joinable record
    RecordOf,       \* RecordOf[s]: the record of stream s
    Cleared,        \* the record with every field empty
    ChunkData,      \* what chunks can carry: sequences of units
    Totals,         \* what BEGIN can declare
    MinStream, MaxStream,
    SeqMod          \* 256 in the code: chunk numbers wrap

Units == [stream : Streams, index : Nat]

ASSUME StreamAssumption ==
    /\ LenOf \in [Streams -> Nat \ {0}]
    /\ Sound \subseteq Streams
    /\ ChunkData \subseteq Seq(Units) \ {<<>>}
ASSUME SizeAssumption ==
    Totals \subseteq Nat /\ MinStream \in Nat /\ MaxStream \in Nat /\ SeqMod \in Nat \ {0}

VARIABLE dec

\* What the hardware layer reports; the other errors are found by the decoder.
Outcomes == {"saveFailed", "joinFailed"}
Errors == {"none", "malformedControl", "badVersion", "badSize", "notBegun",
           "malformedChunk", "outOfOrder", "overflow", "truncated", "badStream"}
              \union Outcomes
DecoderStates == {"idle", "receiving", "ready", "applying", "applied", "failed"}
Contents == {RecordOf[s] : s \in Streams} \union {Cleared}
Decoders == [state : DecoderStates, error : Errors, declared : 0..MaxStream,
             nextSeq : 0..(SeqMod - 1), buf : Seq(Units), rec : Contents]

Controls ==
    [op : {"begin"}, version : BOOLEAN, total : Totals]
        \union [op : {"commit", "abort", "malformed"}]
\* Data is empty in a chunk shorter than two bytes.
Chunks == [seq : 0..(SeqMod - 1), data : ChunkData \union {<<>>}]
-----------------------------------------------------------------------------
Fresh == [state |-> "idle", error |-> "none", declared |-> 0, nextSeq |-> 0,
          buf |-> <<>>, rec |-> Cleared]

\* The secrets go, the verdict stays.
Scrub(d) == [d EXCEPT !.buf = <<>>, !.rec = Cleared, !.declared = 0, !.nextSeq = 0]

\* The first error is the one that is kept.  The buffer goes either way.
Fail(d, e) ==
    [d EXCEPT !.state = "failed",
              !.error = IF d.state = "failed" THEN @ ELSE e,
              !.buf = <<>>]

BeginError(c) ==
    IF ~c.version THEN "badVersion"
    ELSE IF c.total \notin MinStream..MaxStream THEN "badSize" ELSE "none"

Begin(d, c) ==
    IF BeginError(c) # "none" THEN Fail(d, BeginError(c))
    ELSE [Fresh EXCEPT !.state = "receiving", !.declared = c.total]

Whole(s) == [i \in 1..LenOf[s] |-> [stream |-> s, index |-> i]]
Parses(buf) == {s \in Sound : buf = Whole(s)}

\* Mutant: whatever arrived is parsed.
CommitUnverified(d) ==
    IF d.state # "receiving" THEN Fail(d, "notBegun")
    ELSE IF Len(d.buf) # d.declared THEN Fail(d, "truncated")
    ELSE [d EXCEPT !.state = "ready", !.error = "none",
                   !.rec = RecordOf[d.buf[1].stream]]
Commit(d) ==
    IF d.state # "receiving" THEN Fail(d, "notBegun")
    ELSE IF Len(d.buf) # d.declared THEN Fail(d, "truncated")
    ELSE IF Parses(d.buf) = {} THEN Fail([d EXCEPT !.rec = Cleared], "badStream")
    ELSE [d EXCEPT !.state = "ready", !.error = "none",
                   !.rec = RecordOf[CHOOSE s \in Parses(d.buf) : TRUE]]

OnControl(d, c) ==
    CASE c.op = "begin" -> Begin(d, c)
      [] c.op = "commit" -> Commit(d)
      [] c.op = "abort" -> Fresh
      [] OTHER -> Fail(d, "malformedControl")

ChunkError(d, k) ==
    CASE d.state # "receiving" -> "notBegun"
      [] d.state = "receiving" /\ k.data = <<>> -> "malformedChunk"
      [] d.state = "receiving" /\ k.data # <<>> /\ k.seq # d.nextSeq -> "outOfOrder"
      [] d.state = "receiving" /\ k.data # <<>> /\ k.seq = d.nextSeq
            /\ Len(d.buf) + Len(k.data) > d.declared -> "overflow"
      [] OTHER -> "none"

\* Mutant: chunk numbers do not wrap.
OnChunkUnwrapped(d, k) ==
    IF ChunkError(d, k) # "none" THEN Fail(d, ChunkError(d, k))
    ELSE [d EXCEPT !.buf = @ \o k.data, !.nextSeq = @ + 1]
OnChunk(d, k) ==
    IF ChunkError(d, k) # "none" THEN Fail(d, ChunkError(d, k))
    ELSE [d EXCEPT !.buf = @ \o k.data, !.nextSeq = (@ + 1) % SeqMod]

MarkApplying(d) == IF d.state = "ready" THEN [d EXCEPT !.state = "applying"] ELSE d
MarkApplied(d) ==
    IF d.state \in {"ready", "applying"}
    THEN [d EXCEPT !.state = "applied", !.error = "none"] ELSE d
MarkFailed(d, e) == [d EXCEPT !.state = "failed", !.error = e]

\* What the status characteristic tells.
Status(d) == [state |-> d.state, error |-> d.error,
              nextSeq |-> d.nextSeq, received |-> Len(d.buf)]
-----------------------------------------------------------------------------
DecInit == dec = Fresh

\* The hardware layer scrubs in the same critical section as it reports.
DecNext ==
    \/ \E c \in Controls : dec' = OnControl(dec, c)
    \/ \E k \in Chunks : dec' = OnChunk(dec, k)
    \/ dec' = MarkApplying(dec)
    \/ dec' = Scrub(MarkApplied(dec))
    \/ \E e \in Outcomes : dec' = Scrub(MarkFailed(dec, e))
    \/ dec' = Fresh

DecSpec == DecInit /\ [][DecNext]_dec
-----------------------------------------------------------------------------
DecTypeOK == dec \in Decoders

\* bleprov.h:137 "COMMIT validated; record() is populated" and 213: as long as a
\* record can be applied, the buffer is one stream, whole and in order, and the
\* record is that stream's, whatever was written in between.
RecordIsWhole ==
    dec.state \in {"ready", "applying"} =>
        \E s \in Sound : dec.buf = Whole(s) /\ dec.rec = RecordOf[s]

\* bleprov.cpp:112-116 and bleprov.h:225-229: outside of a transfer no unit of a
\* stream is left in the buffer; within one the buffer never exceeds what BEGIN
\* declared.
BufferIsBounded ==
    /\ dec.state \in {"idle", "applied", "failed"} => dec.buf = <<>>
    /\ Len(dec.buf) <= dec.declared \/ dec.buf = <<>>
=============================================================================
