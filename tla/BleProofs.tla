------------------------------ MODULE BleProofs ------------------------------
(***************************************************************************)
(* Proofs about BleDecoder and BleDevice.                                  *)
(***************************************************************************)
EXTENDS BleDevice, TLAPS

-----------------------------------------------------------------------------
(* The decoder *)

\* What the three properties of the decoder say of one of its values.
Sane(d) ==
    /\ d \in Decoders
    /\ d.state \in {"ready", "applying"} =>
           \E s \in Sound : d.buf = Whole(s) /\ d.rec = RecordOf[s]
    /\ d.state \in {"idle", "applied", "failed"} => d.buf = <<>>
    /\ Len(d.buf) <= d.declared \/ d.buf = <<>>

\* bleprov.cpp:82-91: a reset leaves the decoder sane.
LEMMA FreshSane == Sane(Fresh)
<1>1. Fresh \in Decoders
  BY SizeAssumption DEF Fresh, Decoders, DecoderStates, Errors, Contents
<1>2. QED
  BY <1>1 DEF Sane, Fresh

\* bleprov.cpp:104-117: so does a refusal.
LEMMA FailSane ==
    ASSUME NEW d, Sane(d), NEW e \in Errors
    PROVE Sane(Fail(d, e))
<1> DEFINE kept == IF d.state = "failed" THEN d.error ELSE e
<1>1. kept \in Errors
  BY DEF Sane, Decoders
<1>2. Fail(d, e) = [d EXCEPT !.state = "failed", !.error = kept, !.buf = <<>>]
  BY DEF Sane, Decoders, Fail
<1>3. Fail(d, e) \in Decoders
  <2>1. <<>> \in Seq(Units) /\ "failed" \in DecoderStates
    BY DEF DecoderStates
  <2>2. QED
    BY <1>1, <1>2, <2>1 DEF Sane, Decoders
<1>4. Fail(d, e).state = "failed" /\ Fail(d, e).buf = <<>>
  BY <1>2 DEF Sane, Decoders
<1>5. QED
  BY <1>3, <1>4 DEF Sane

\* bleprov.cpp:125-148: BEGIN.
LEMMA BeginSane ==
    ASSUME NEW d, Sane(d), NEW c \in Controls, c.op = "begin"
    PROVE Sane(Begin(d, c))
<1>1. CASE BeginError(c) # "none"
  BY <1>1, FailSane DEF Begin, BeginError, Errors
<1>2. CASE BeginError(c) = "none"
  <2>1. c.total \in 0..MaxStream
    BY <1>2, SizeAssumption DEF BeginError
  <2>2. Begin(d, c) = [Fresh EXCEPT !.state = "receiving", !.declared = c.total]
    BY <1>2 DEF Begin
  <2>3. Begin(d, c) \in Decoders
    BY <2>1, <2>2, FreshSane DEF Sane, Decoders, DecoderStates
  <2>4. QED
    BY <2>2, <2>3 DEF Sane, Fresh
<1>3. QED
  BY <1>1, <1>2

\* bleprov.cpp:150-170: COMMIT, which alone makes a record of the buffer.
LEMMA CommitSane ==
    ASSUME NEW d, Sane(d)
    PROVE Sane(Commit(d))
<1>1. CASE d.state # "receiving" \/ Len(d.buf) # d.declared
  BY <1>1, FailSane DEF Commit, Errors
<1>2. CASE d.state = "receiving" /\ Len(d.buf) = d.declared /\ Parses(d.buf) = {}
  <2>1. Sane([d EXCEPT !.rec = Cleared])
    BY <1>2 DEF Sane, Decoders, Contents
  <2>2. QED
    BY <1>2, <2>1, FailSane DEF Commit, Errors
<1>3. CASE d.state = "receiving" /\ Len(d.buf) = d.declared /\ Parses(d.buf) # {}
  <2> DEFINE s == CHOOSE x \in Parses(d.buf) : TRUE
  <2>1. s \in Sound /\ d.buf = Whole(s)
    BY <1>3 DEF Parses
  <2>2. Commit(d) = [d EXCEPT !.state = "ready", !.error = "none", !.rec = RecordOf[s]]
    BY <1>3 DEF Commit
  <2>0. RecordOf[s] \in Contents
    BY <2>1, StreamAssumption DEF Contents
  <2> HIDE DEF s
  <2>3. Commit(d) \in Decoders
    BY <2>0, <2>2 DEF Sane, Decoders, DecoderStates, Errors
  <2>4. /\ Commit(d).state = "ready" /\ Commit(d).buf = d.buf
        /\ Commit(d).rec = RecordOf[s] /\ Commit(d).declared = d.declared
    BY <2>2 DEF Sane, Decoders
  <2>5. QED
    BY <2>1, <2>3, <2>4 DEF Sane
<1>4. QED
  BY <1>1, <1>2, <1>3

\* bleprov.cpp:119-184: whatever is written to the control characteristic.
LEMMA OnControlSane ==
    ASSUME NEW d, Sane(d), NEW c \in Controls
    PROVE Sane(OnControl(d, c))
<1>1. CASE c.op = "begin"
  BY <1>1, BeginSane DEF OnControl
<1>2. CASE c.op = "commit"
  BY <1>2, CommitSane DEF OnControl
<1>3. CASE c.op = "abort"
  BY <1>3, FreshSane DEF OnControl
<1>4. CASE c.op = "malformed"
  <2>1. OnControl(d, c) = Fail(d, "malformedControl")
    BY <1>4 DEF OnControl
  <2>2. QED
    BY <2>1, FailSane DEF Errors
<1>5. QED
  BY <1>1, <1>2, <1>3, <1>4 DEF Controls

\* bleprov.cpp:186-211: a chunk, whose number is counted modulo SeqMod.
LEMMA OnChunkSane ==
    ASSUME NEW d, Sane(d), NEW k \in Chunks
    PROVE Sane(OnChunk(d, k))
<1>1. CASE ChunkError(d, k) # "none"
  <2>1. ChunkError(d, k) \in Errors
    BY DEF ChunkError, Errors
  <2>2. QED
    BY <1>1, <2>1, FailSane DEF OnChunk
<1>2. CASE ChunkError(d, k) = "none"
  <2>1. /\ d.state = "receiving" /\ k.data # <<>>
        /\ ~(Len(d.buf) + Len(k.data) > d.declared)
    BY <1>2 DEF ChunkError
  <2>2. d.buf \in Seq(Units) /\ k.data \in Seq(Units) /\ d.declared \in Int
    BY <2>1, StreamAssumption, SizeAssumption DEF Sane, Decoders, Chunks
  <2>3. /\ d.buf \o k.data \in Seq(Units)
        /\ Len(d.buf \o k.data) = Len(d.buf) + Len(k.data)
    BY <2>2
  <2>4. (d.nextSeq + 1) % SeqMod \in 0..(SeqMod - 1)
    BY SizeAssumption DEF Sane, Decoders
  <2>5. OnChunk(d, k) = [d EXCEPT !.buf = d.buf \o k.data,
                                  !.nextSeq = (d.nextSeq + 1) % SeqMod]
    BY <1>2 DEF OnChunk, Sane, Decoders
  <2>6. OnChunk(d, k) \in Decoders
    BY <2>3, <2>4, <2>5 DEF Sane, Decoders
  <2>7. /\ OnChunk(d, k).state = "receiving"
        /\ OnChunk(d, k).declared = d.declared
        /\ OnChunk(d, k).buf = d.buf \o k.data
    BY <2>1, <2>5 DEF Sane, Decoders
  <2>8. Len(OnChunk(d, k).buf) <= OnChunk(d, k).declared
    <3>1. Len(d.buf) \in Nat /\ Len(k.data) \in Nat
      BY <2>2
    <3>2. Len(d.buf) + Len(k.data) <= d.declared
      <4>1. \A a, b \in Nat, c \in Int : ~(a + b > c) => a + b <= c
        OBVIOUS
      <4>2. ~(Len(d.buf) + Len(k.data) > d.declared) /\ d.declared \in Int
        BY <2>1, <2>2
      <4>3. QED
        BY <3>1, <4>1, <4>2, ZenonT(20)
    <3>3. QED
      BY <2>3, <2>7, <3>2
  <2>9. QED
    BY <2>6, <2>7, <2>8 DEF Sane
<1>3. QED
  BY <1>1, <1>2

\* bleprov.cpp:93-102 and 213-233: the hardware layer's reports.
LEMMA ReportsSane ==
    ASSUME NEW d, Sane(d)
    PROVE /\ Sane(MarkApplying(d))
          /\ Sane(Scrub(MarkApplied(d)))
          /\ \A e \in Outcomes : Sane(Scrub(MarkFailed(d, e)))
<1>1. Sane(MarkApplying(d))
  BY DEF MarkApplying, Sane, Decoders, DecoderStates
<1>2. ASSUME NEW x \in Decoders, x.state \notin {"ready", "applying"}
      PROVE Sane(Scrub(x))
  <2>1. Scrub(x) = [x EXCEPT !.buf = <<>>, !.rec = Cleared, !.declared = 0, !.nextSeq = 0]
    BY DEF Scrub
  <2>2. /\ 0 \in 0..MaxStream /\ 0 \in 0..(SeqMod - 1)
        /\ Cleared \in Contents /\ <<>> \in Seq(Units)
    BY SizeAssumption DEF Contents
  <2>3. Scrub(x) \in Decoders
    BY <2>1, <2>2 DEF Decoders
  <2>4. Scrub(x).state = x.state /\ Scrub(x).buf = <<>>
    BY <2>1 DEF Decoders
  <2>5. QED
    BY <1>2, <2>3, <2>4 DEF Sane
<1>3. /\ MarkApplied(d) \in Decoders
      /\ MarkApplied(d).state \notin {"ready", "applying"}
  BY DEF MarkApplied, Sane, Decoders, DecoderStates, Errors
<1>4. ASSUME NEW e \in Outcomes
      PROVE MarkFailed(d, e) \in Decoders /\ MarkFailed(d, e).state = "failed"
  BY DEF MarkFailed, Sane, Decoders, DecoderStates, Errors
<1>5. QED
  BY <1>1, <1>2, <1>3, <1>4

LEMMA DecNextSane == ASSUME Sane(dec), DecNext PROVE Sane(dec')
  BY OnControlSane, OnChunkSane, ReportsSane, FreshSane DEF DecNext

\* The decoder's invariant: what a central writes, and when, does not matter.
THEOREM DecoderSane == DecSpec => []Sane(dec)
<1>1. DecInit => Sane(dec)
  BY FreshSane DEF DecInit
<1>2. Sane(dec) /\ [DecNext]_dec => Sane(dec)'
  BY DecNextSane
<1>3. QED
  BY <1>1, <1>2, PTL DEF DecSpec

\* bleprov.h:137 and 213, "COMMIT validated; record() is populated": what can be
\* applied is one stream's record, for every stream, chunk and order of writes.
THEOREM DecoderRecordIsWhole == DecSpec => []RecordIsWhole
<1>1. Sane(dec) => RecordIsWhole
  BY DEF Sane, RecordIsWhole
<1>2. QED
  BY <1>1, DecoderSane, PTL

\* bleprov.cpp:112-116 and 199-208: the buffer never exceeds what BEGIN declared,
\* and nothing of a stream is left in it outside of a transfer.
THEOREM DecoderBufferIsBounded == DecSpec => []BufferIsBounded
<1>1. Sane(dec) => BufferIsBounded
  BY DEF Sane, BufferIsBounded
<1>2. QED
  BY <1>1, DecoderSane, PTL
-----------------------------------------------------------------------------
(* The device *)

\* A boot, whatever the store holds, starts with a fresh decoder.
LEMMA BootedDecoder == Booted(nvs) => dec' = Fresh
  BY DEF Booted

\* Every action of the device moves the decoder as its contract allows.
LEMMA StepUsesDecoder == [Next]_devVars => [DecNext]_dec
<1> SUFFICES ASSUME [Next]_devVars PROVE [DecNext]_dec
  OBVIOUS
<1> USE DEF DecNext
<1>1. CASE CentralStep
  BY <1>1 DEF CentralStep, Connect, Disconnect, WriteControl, WriteChunk, Written, ReadStatus
<1>2. CASE Advertise \/ PublishDirty \/ Acknowledge \/ PublishOutcome \/ NothingReady
  BY <1>2 DEF Advertise, PublishDirty, Acknowledge, PublishOutcome, PublishAt, NothingReady
<1>3. CASE StartApply \/ CopyRecord \/ OtaNotSaved \/ SaveKey \/ Saved
  BY <1>3 DEF StartApply, CopyRecord, OtaNotSaved, SaveKey, Saved
<1>4. CASE SaveOta \/ Joined
  BY <1>4 DEF SaveOta, Joined, Succeeded
<1>5. CASE NotSaved \/ JoinFailed
  BY <1>5 DEF NotSaved, JoinFailed, Failed, Outcomes
<1>6. CASE StillJoining \/ Dwell \/ Refresh \/ KeepSetup \/ RadioStep
  BY <1>6 DEF StillJoining, Dwell, Refresh, KeepSetup, RadioStep, StationUp, StationLost
<1>7. CASE Provisioned \/ PowerCut
  BY <1>7, BootedDecoder DEF Provisioned, PowerCut
<1>8. CASE CloseWindow
  BY <1>8 DEF CloseWindow
<1>9. CASE UNCHANGED devVars
  BY <1>9 DEF devVars
<1>10. QED
  BY <1>1, <1>2, <1>3, <1>4, <1>5, <1>6, <1>7, <1>8, <1>9 DEF Next, LoopStep

\* hal/sticks3/bleprov.cpp keeps the decoder's contract (bleprov.h:211-230): with any
\* two tasks' interleaving, flash errors and power cuts, a device is a decoder.
THEOREM DeviceUsesDecoder == Spec => UsesDecoder
<1>1. Init => DecInit
  BY DEF Init
<1>2. QED
  BY <1>1, StepUsesDecoder, PTL DEF Spec, UsesDecoder, DecSpec

\* So the record of a device that is applying one is a whole one.
THEOREM DeviceRecordIsWhole == Spec => []RecordIsWhole
  BY DeviceUsesDecoder, DecoderRecordIsWhole DEF UsesDecoder

LEMMA DeviceSane == Spec => []Sane(dec)
  BY DeviceUsesDecoder, DecoderSane DEF UsesDecoder
-----------------------------------------------------------------------------
(* No central is left with an old status *)

\* hal/sticks3/bleprov.cpp:198-217 and 849-854: every step that moves the decoder
\* leaves dirty set or the loop on its way to publish; the publication reads the
\* decoder as it is then.
THEOREM DeviceStatusIsCurrent == Spec => []StatusIsCurrent
<1>1. Init => StatusIsCurrent
  BY DEF Init, DecInit, StatusIsCurrent
<1>2. StatusIsCurrent /\ [Next]_devVars => StatusIsCurrent'
  <2> SUFFICES ASSUME StatusIsCurrent, [Next]_devVars PROVE StatusIsCurrent'
    OBVIOUS
  <2> USE DEF StatusIsCurrent
  <2>1. CASE CentralStep
    BY <2>1 DEF CentralStep, Connect, Disconnect, WriteControl, WriteChunk, Written, ReadStatus
  <2>2. CASE PublishDirty \/ Acknowledge \/ PublishOutcome
    BY <2>2 DEF PublishDirty, Acknowledge, PublishOutcome, PublishAt
  <2>3. CASE SaveOta \/ NotSaved \/ Joined \/ JoinFailed
    BY <2>3 DEF SaveOta, NotSaved, Joined, JoinFailed, AfterVerdict
  <2>4. CASE Advertise \/ NothingReady \/ StillJoining \/ Dwell \/ Refresh \/ KeepSetup
    BY <2>4 DEF Advertise, NothingReady, StillJoining, Dwell, Refresh, KeepSetup, At
  <2>5. CASE StartApply \/ CopyRecord \/ OtaNotSaved \/ SaveKey \/ Saved
    BY <2>5 DEF StartApply, CopyRecord, OtaNotSaved, SaveKey, Saved, At
  <2>6. CASE RadioStep
    BY <2>6 DEF RadioStep, StationUp, StationLost
  <2>7. CASE Provisioned \/ PowerCut
    BY <2>7 DEF Provisioned, PowerCut, Booted
  <2>8. CASE CloseWindow
    BY <2>8 DEF CloseWindow
  <2>9. CASE UNCHANGED devVars
    BY <2>9 DEF devVars, device
  <2>10. QED
    BY <2>1, <2>2, <2>3, <2>4, <2>5, <2>6, <2>7, <2>8, <2>9 DEF Next, LoopStep
<1>3. QED
  BY <1>1, <1>2, PTL DEF Spec
-----------------------------------------------------------------------------
(* The window does not eat a setup *)

\* A central that has written was seen by the loop: its pass at the time, or one that
\* has ended since, found the link.
CentralSeen ==
    /\ shown # "advertising" /\ pc # "judge" => engaged
    /\ dec.state # "idle" \/ phase # "serving" \/ pc \in {"acknowledge", "copy", "save"}
           => engaged \/ shown # "advertising"

LEMMA CentralSeenInit == Init => CentralSeen
  BY DEF Init, DecInit, Fresh, CentralSeen

LEMMA CentralSeenStep == CentralSeen /\ [Next]_devVars => CentralSeen'
<1> SUFFICES ASSUME CentralSeen, [Next]_devVars PROVE CentralSeen'
  OBVIOUS
<1> USE DEF CentralSeen
<1>1. CASE CentralStep
  BY <1>1 DEF CentralStep, Connect, Disconnect, WriteControl, WriteChunk, Written, ReadStatus,
              Paired
<1>2. CASE PublishDirty \/ Acknowledge \/ PublishOutcome
  BY <1>2 DEF PublishDirty, Acknowledge, PublishOutcome, PublishAt, At
<1>3. CASE SaveOta
  BY <1>3 DEF SaveOta, AfterVerdict, At
<1>4. CASE NotSaved
  BY <1>4 DEF NotSaved, AfterVerdict, At
<1>5. CASE Joined \/ JoinFailed
  BY <1>5 DEF Joined, JoinFailed, AfterVerdict, At
<1>6. CASE Advertise \/ NothingReady \/ StillJoining \/ Dwell
  BY <1>6 DEF Advertise, NothingReady, StillJoining, Dwell, At
<1>7. CASE StartApply \/ CopyRecord \/ OtaNotSaved \/ SaveKey \/ Saved
  BY <1>7 DEF StartApply, CopyRecord, OtaNotSaved, SaveKey, Saved, At
<1>8. CASE Refresh \/ KeepSetup
  BY <1>8 DEF Refresh, KeepSetup, At
<1>9. CASE RadioStep
  BY <1>9 DEF RadioStep, StationUp, StationLost
<1>10. CASE Provisioned \/ PowerCut
  BY <1>10 DEF Provisioned, PowerCut, Booted, Fresh
<1>11. CASE CloseWindow
  BY <1>11 DEF CloseWindow, WindowMayClose, Fresh
<1>12. CASE UNCHANGED devVars
  BY <1>12 DEF devVars, device
<1>13. QED
  BY <1>1, <1>2, <1>3, <1>4, <1>5, <1>6, <1>7, <1>8, <1>9, <1>10, <1>11, <1>12
     DEF Next, LoopStep

LEMMA CentralIsSeen == Spec => []CentralSeen
<1>1. QED
  BY CentralSeenInit, CentralSeenStep, PTL DEF Spec

\* main.cpp:224-241: whatever the order of connections, writes, disconnections and the
\* window's end, setup is handed to the portal only when nothing is under way.
THEOREM DeviceSuccessIsNotEaten == Spec => SuccessIsNotEaten
<1>1. CentralSeen /\ [Next]_devVars
          => [mode = "setup" /\ mode' = "portal" => phase = "serving"]_devVars
  <2> SUFFICES ASSUME CentralSeen, Next, mode = "setup", mode' = "portal"
               PROVE phase = "serving"
    BY DEF devVars, device
  <2>1. CASE CloseWindow
    BY <2>1 DEF CloseWindow, WindowMayClose, CentralSeen
  <2>2. CASE Provisioned \/ PowerCut
    BY <2>2 DEF Provisioned, PowerCut, Booted
  <2>3. CASE CentralStep
    BY <2>3 DEF CentralStep, Connect, Disconnect, WriteControl, WriteChunk, Written,
                ReadStatus
  <2>4. CASE RadioStep
    BY <2>4 DEF RadioStep, StationUp, StationLost
  <2>5. CASE PublishDirty \/ Acknowledge \/ PublishOutcome \/ Advertise \/ NothingReady
                 \/ StillJoining \/ Dwell \/ Refresh \/ KeepSetup
    BY <2>5 DEF PublishDirty, Acknowledge, PublishOutcome, PublishAt, Advertise, NothingReady,
                StillJoining, Dwell, Refresh, KeepSetup
  <2>6. CASE StartApply \/ CopyRecord \/ OtaNotSaved \/ SaveKey \/ Saved \/ SaveOta
                 \/ NotSaved \/ Joined \/ JoinFailed
    BY <2>6 DEF StartApply, CopyRecord, OtaNotSaved, SaveKey, Saved, SaveOta, NotSaved,
                Joined, JoinFailed
  <2>7. QED
    BY <2>1, <2>2, <2>3, <2>4, <2>5, <2>6 DEF Next, LoopStep
<1>2. QED
  BY <1>1, CentralIsSeen, PTL DEF Spec, SuccessIsNotEaten
-----------------------------------------------------------------------------
(* Types *)

\* Every record a decoder can hold has the store's fields.
LEMMA ContentsAreRecords == Contents \subseteq Records
<1>1. Cleared \in Records
  <2>1. \A k \in KeySet : Empty \in Values
    BY DEF Values
  <2>2. [k \in KeySet |-> Empty] \in [KeySet -> Values]
    BY <2>1
  <2>3. QED
    BY <2>2, RecordAssumption DEF Records
<1>2. ASSUME NEW s \in Streams PROVE RecordOf[s] \in Records
  <2>1. \A k \in KeySet : RecordOf[s][k] \in Values
    BY DEF Values
  <2>2. [k \in KeySet |-> RecordOf[s][k]] \in [KeySet -> Values]
    BY <2>1
  <2>3. QED
    BY <2>2, RecordAssumption DEF Records
<1>3. QED
  BY <1>1, <1>2 DEF Contents

LEMMA StatusType == ASSUME NEW d, Sane(d) PROVE Status(d) \in Statuses
<1>1. d.buf \in Seq(Units) /\ d.declared \in 0..MaxStream
  BY DEF Sane, Decoders
<1>2. Len(d.buf) \in 0..MaxStream
  <2>1. Len(d.buf) \in Nat
    BY <1>1
  <2>2. CASE d.buf = <<>>
    BY <2>2, SizeAssumption
  <2>3. CASE Len(d.buf) <= d.declared
    BY <1>1, <2>1, <2>3, SizeAssumption
  <2>4. QED
    BY <2>2, <2>3 DEF Sane
<1>3. QED
  BY <1>2 DEF Status, Statuses, Sane, Decoders

LEMMA TryType == ASSUME NEW r \in Records PROVE Try(r) \in Stations
  BY DEF Try, Network, Records, KeySet, Stations

LEMMA SpendType ==
    ASSUME used \in Tallies,
           \/ Spend("writes", MaxWrites) \/ Spend("links", MaxLinks)
           \/ Spend("flash", MaxFlashErrors) \/ Spend("cuts", MaxPowerCuts)
    PROVE used' \in Tallies
<1> USE DeviceBoundAssumption DEF Tallies, Spend
<1>1. CASE Spend("writes", MaxWrites)
  BY <1>1
<1>2. CASE Spend("links", MaxLinks)
  BY <1>2
<1>3. CASE Spend("flash", MaxFlashErrors)
  BY <1>3
<1>4. CASE Spend("cuts", MaxPowerCuts)
  BY <1>4
<1>5. QED
  BY <1>1, <1>2, <1>3, <1>4

LEMMA BootedType ==
    ASSUME TypeOK, Booted(nvs), UNCHANGED nvs, used' \in Tallies
    PROVE TypeOK'
<1>1. dec' \in Decoders /\ published' \in Statuses
  BY FreshSane, StatusType DEF Booted, Sane
<1>2. wifi' \in Stations
  BY TryType DEF TypeOK, Booted, NoWifi, Stations
<1>3. job' \in Jobs
  BY ContentsAreRecords DEF Booted, NoJob, Contents, Keys, Jobs
<1>4. link' \in Links
  BY DEF Booted, Offline, Advertising, Links
<1>5. QED
  BY <1>1, <1>2, <1>3, <1>4 DEF TypeOK, DecTypeOK, Booted, Places

\* A step of the device keeps the types, given that its decoder is sane before and after.
LEMMA TypeStep ==
    ASSUME TypeOK, Sane(dec), Sane(dec'), [Next]_devVars
    PROVE TypeOK'
<1> USE DEF TypeOK
<1>0. DecTypeOK'
  BY DEF Sane, DecTypeOK
<1>1. CASE Connect \/ Disconnect
  <2>1. link' \in Links
    BY <1>1 DEF Connect, Disconnect, Offline, Links
  <2>2. used' \in Tallies
    BY <1>1, SpendType DEF Connect, Disconnect
  <2>3. QED
    BY <1>0, <1>1, <2>1, <2>2 DEF Connect, Disconnect
<1>2. CASE \E d : Written(d)
  <2>1. used' \in Tallies
    BY <1>2, SpendType DEF Written
  <2>2. QED
    BY <1>0, <1>2, <2>1 DEF Written
<1>3. CASE ReadStatus \/ PublishDirty \/ Acknowledge \/ PublishOutcome
  <2>1. published' \in Statuses
    BY <1>3, StatusType DEF ReadStatus, PublishDirty, Acknowledge, PublishOutcome, PublishAt
  <2>2. pc' \in Places
    BY <1>3 DEF ReadStatus, PublishDirty, Acknowledge, PublishOutcome, PublishAt, Places
  <2>3. QED
    BY <1>0, <1>3, <2>1, <2>2
       DEF ReadStatus, PublishDirty, Acknowledge, PublishOutcome, PublishAt
<1>4. CASE Advertise
  <2>1. link' \in Links
    BY <1>4 DEF Advertise, Served, Advertising, Offline, Links
  <2>2. QED
    BY <1>0, <1>4, <2>1 DEF Advertise, Places
<1>5. CASE NothingReady \/ StartApply \/ StillJoining \/ Dwell
  BY <1>0, <1>5 DEF NothingReady, StartApply, StillJoining, Dwell, Places
<1>6. CASE CopyRecord
  <2>1. dec.rec \in Records
    BY ContentsAreRecords DEF Sane, Decoders
  <2>2. OnlyOta(dec.rec) \in BOOLEAN
    BY DEF OnlyOta, Joinable, Complete
  <2>3. job' \in Jobs
    <3>1. job' = [rec |-> dec.rec, whole |-> ~OnlyOta(dec.rec), done |-> 0, ok |-> TRUE]
      BY <1>6 DEF CopyRecord, NoJob
    <3>2. 0 \in 0..Len(Keys) /\ (~OnlyOta(dec.rec)) \in BOOLEAN
      BY DEF Keys
    <3>3. QED
      BY <2>1, <3>1, <3>2 DEF Jobs
  <2>4. QED
    BY <1>0, <1>6, <2>3 DEF CopyRecord, Places
<1>7. NoJob \in Jobs
  BY ContentsAreRecords DEF NoJob, Contents, Keys, Jobs
<1>8. job.rec \in Records /\ nvs \in Records
  BY DEF Jobs
<1>9. CASE SaveOta
  <2>1. nvs' \in Records
    BY <1>8, <1>9 DEF SaveOta, Records, KeySet
  <2>2. QED
    BY <1>0, <1>7, <1>9, <2>1 DEF SaveOta, AfterVerdict, Places
<1>10. CASE OtaNotSaved
  <2>1. used' \in Tallies
    BY <1>10, SpendType DEF OtaNotSaved
  <2>2. job' \in Jobs
    BY <1>10 DEF OtaNotSaved, Jobs
  <2>3. QED
    BY <1>0, <1>10, <2>1, <2>2 DEF OtaNotSaved
<1>11. CASE SaveKey
  <2>1. /\ job.done < Len(Keys) /\ job.done \in 0..Len(Keys) /\ Len(Keys) \in Nat
    BY <1>11 DEF SaveKey, Jobs, Keys
  <2>2. job.done + 1 \in 0..Len(Keys)
    BY <2>1
  <2>3. job' \in Jobs
    BY <1>11, <2>2 DEF SaveKey, Jobs
  <2>4. used' \in Tallies
    BY <1>11, SpendType DEF SaveKey
  <2>5. Keys[job.done + 1] \in KeySet
    BY <2>1 DEF Keys, KeySet
  <2>6. nvs' \in Records
    BY <1>8, <1>11, <2>5 DEF SaveKey, Records
  <2>7. QED
    BY <1>0, <1>11, <2>3, <2>4, <2>6 DEF SaveKey
<1>12. CASE Saved
  <2>1. wifi' \in Stations
    BY <1>8, <1>12, TryType DEF Saved
  <2>2. QED
    BY <1>0, <1>7, <1>12, <2>1 DEF Saved, Places
<1>13. CASE NotSaved
  BY <1>0, <1>7, <1>13 DEF NotSaved, AfterVerdict, Places
<1>14. NoWifi \in Stations
  BY DEF NoWifi, Stations
<1>15. CASE Joined \/ JoinFailed
  BY <1>0, <1>14, <1>15 DEF Joined, JoinFailed, AfterVerdict, Places
<1>16. CASE Refresh \/ KeepSetup
  BY <1>0, <1>16 DEF Refresh, KeepSetup, Places
<1>17. CASE CloseWindow
  <2>1. link' \in Links
    BY <1>17 DEF CloseWindow, Offline, Links
  <2>2. QED
    BY <1>0, <1>14, <1>17, <2>1 DEF CloseWindow, Places
<1>18. CASE RadioStep
  <2>1. wifi' \in Stations
    BY <1>18 DEF RadioStep, StationUp, StationLost, Stations
  <2>2. QED
    BY <1>0, <1>18, <2>1 DEF RadioStep, StationUp, StationLost
<1>19. CASE Provisioned
  BY <1>19, BootedType DEF Provisioned
<1>20. CASE PowerCut
  BY <1>20, BootedType, SpendType DEF PowerCut
<1>21. CASE UNCHANGED devVars
  BY <1>0, <1>21 DEF devVars, device
<1>22. QED
  BY <1>1, <1>2, <1>3, <1>4, <1>5, <1>6, <1>9, <1>10, <1>11, <1>12, <1>13, <1>15, <1>16,
     <1>17, <1>18, <1>19, <1>20, <1>21
     DEF Next, CentralStep, WriteControl, WriteChunk, LoopStep

\* Every variable stays in its domain, for every stream and every bound.
THEOREM DeviceTypeOK == Spec => []TypeOK
<1>1. Init => TypeOK
  <2> SUFFICES ASSUME Init PROVE TypeOK
    OBVIOUS
  <2>1. dec \in Decoders /\ published \in Statuses
    BY FreshSane, StatusType DEF Init, DecInit, Sane
  <2>2. job \in Jobs /\ nvs \in Records
    BY ContentsAreRecords DEF Init, NoJob, Contents, Keys, Jobs
  <2>3. link \in Links /\ wifi \in Stations
    BY DEF Init, Offline, Advertising, Links, NoWifi, Stations
  <2>4. used \in Tallies
    BY DeviceBoundAssumption DEF Init, Tallies
  <2>5. QED
    BY <2>1, <2>2, <2>3, <2>4 DEF Init, TypeOK, DecTypeOK, Places
<1>2. TypeOK /\ Sane(dec) /\ Sane(dec)' /\ [Next]_devVars => TypeOK'
  BY TypeStep
<1>3. QED
  BY <1>1, <1>2, DeviceSane, PTL DEF Spec
-----------------------------------------------------------------------------
(* The station tries what the store holds *)

\* While the store is written nothing is tried, and as long as every write went well
\* the keys written so far hold the record's fields.
SaveInProgress ==
    /\ pc \in {"acknowledge", "copy", "save"} => phase = "serving"
    /\ mode = "setup" /\ phase = "serving" => wifi.network = NoNetwork
    /\ pc = "save" /\ ~job.whole => job.done = 0
    /\ pc = "save" /\ job.ok =>
           \A i \in 1..job.done : nvs[Keys[i]] = job.rec[Keys[i]]

SaveInv == JoinsOnlySaved /\ SaveInProgress

\* creds.cpp:123-128: a key that went well is in the store; one that did not spoils the save.
LEMMA SaveKeyOk ==
    ASSUME TypeOK, SaveKey
    PROVE /\ job'.rec = job.rec /\ job'.whole /\ job'.done = job.done + 1
          /\ job.done \in 0..5 /\ (job'.ok => job.ok)
          /\ job'.ok => nvs' = [nvs EXCEPT ![Keys[job.done + 1]] = job.rec[Keys[job.done + 1]]]
<1>1. job.done \in 0..5 /\ job.whole
  BY DEF SaveKey, TypeOK, Jobs, Keys
<1>2. CASE job' = [job EXCEPT !.done = @ + 1]
           /\ nvs' = [nvs EXCEPT ![Keys[job.done + 1]] = job.rec[Keys[job.done + 1]]]
  BY <1>1, <1>2 DEF TypeOK, Jobs
<1>3. CASE job' = [job EXCEPT !.done = @ + 1, !.ok = FALSE]
  BY <1>1, <1>3 DEF TypeOK, Jobs
<1>4. QED
  BY <1>2, <1>3 DEF SaveKey

LEMMA SaveStep ==
    ASSUME TypeOK, SaveInv, [Next]_devVars
    PROVE SaveInv'
<1> USE DEF SaveInv, JoinsOnlySaved, SaveInProgress
<1>1. CASE CentralStep
  BY <1>1 DEF CentralStep, Connect, Disconnect, WriteControl, WriteChunk, Written, ReadStatus
<1>2. CASE PublishDirty \/ Acknowledge \/ PublishOutcome
  BY <1>2 DEF PublishDirty, Acknowledge, PublishOutcome, PublishAt, At
<1>3. CASE Advertise \/ NothingReady \/ StillJoining \/ Dwell \/ Refresh \/ KeepSetup
  BY <1>3 DEF Advertise, NothingReady, StillJoining, Dwell, Refresh, KeepSetup, At
<1>4. CASE StartApply
  BY <1>4 DEF StartApply, At
<1>5. CASE CopyRecord
  <2>1. job'.done = 0
    BY <1>5 DEF CopyRecord, NoJob
  <2>2. QED
    BY <1>5, <2>1 DEF CopyRecord, At
<1>6. CASE SaveOta
  <2>1. Network(nvs') = Network(nvs)
    BY <1>6 DEF SaveOta, Network, TypeOK, Records, KeySet
  <2>2. QED
    BY <1>6, <2>1 DEF SaveOta, AfterVerdict, At
<1>7. CASE OtaNotSaved
  <2>1. UNCHANGED <<nvs, wifi, phase, mode, pc>>
    BY <1>7 DEF OtaNotSaved
  <2>2. job.done = 0 /\ job'.done = 0 /\ job'.whole
    BY <1>7 DEF OtaNotSaved, At, TypeOK, Jobs
  <2>3. QED
    BY <2>1, <2>2
<1>8. CASE SaveKey
  <2>1. UNCHANGED <<wifi, phase, mode, pc>> /\ pc = "save" /\ mode = "setup"
    BY <1>8 DEF SaveKey, At
  <2>2. wifi.network = NoNetwork
    BY <2>1
  <2>3. /\ job'.rec = job.rec /\ job'.whole /\ job'.done = job.done + 1
        /\ job.done \in 0..5 /\ (job'.ok => job.ok)
        /\ job'.ok => nvs' = [nvs EXCEPT ![Keys[job.done + 1]] = job.rec[Keys[job.done + 1]]]
    BY <1>8, <2>1, SaveKeyOk
  <2>4. ASSUME job'.ok, NEW i \in 1..job'.done
        PROVE nvs'[Keys[i]] = job.rec[Keys[i]]
    <3>1. Keys[i] \in KeySet /\ nvs \in [KeySet -> Values]
      BY <2>3, <2>4 DEF Keys, KeySet, TypeOK, Records
    <3>2. CASE i = job.done + 1
      BY <2>3, <2>4, <3>1, <3>2
    <3>3. CASE i \in 1..job.done
      <4>1. nvs[Keys[i]] = job.rec[Keys[i]]
        BY <2>1, <2>3, <2>4, <3>3
      <4>2. QED
        BY <2>3, <2>4, <3>1, <4>1
    <3>4. QED
      BY <2>3, <2>4, <3>2, <3>3
  <2>5. QED
    BY <2>1, <2>2, <2>3, <2>4
<1>9. CASE Saved
  <2>1. nvs["ssid"] = job.rec["ssid"] /\ nvs["pass"] = job.rec["pass"]
    <3>1. \A i \in 1..6 : nvs[Keys[i]] = job.rec[Keys[i]]
      BY <1>9 DEF Saved, AllWritten, At, Keys
    <3>2. Keys[1] = "ssid" /\ Keys[2] = "pass"
      BY DEF Keys
    <3>3. QED
      BY <3>1, <3>2
  <2>2. QED
    BY <1>9, <2>1 DEF Saved, Try, Network, At
<1>10. CASE NotSaved \/ Joined
  BY <1>10 DEF NotSaved, Joined, AfterVerdict, At
<1>11. CASE JoinFailed \/ CloseWindow
  BY <1>11 DEF JoinFailed, CloseWindow, AfterVerdict, At, NoWifi
<1>12. CASE RadioStep
  BY <1>12 DEF RadioStep, StationUp, StationLost, TypeOK, Stations
<1>13. CASE Provisioned \/ PowerCut
  BY <1>13 DEF Provisioned, PowerCut, Booted, Try, NoWifi
<1>14. CASE UNCHANGED devVars
  BY <1>14 DEF devVars, device
<1>15. QED
  BY <1>1, <1>2, <1>3, <1>4, <1>5, <1>6, <1>7, <1>8, <1>9, <1>10, <1>11, <1>12, <1>13, <1>14
     DEF Next, LoopStep

\* hal/sticks3/bleprov.cpp:480-483: whatever fails while the record is stored, a network
\* that is tried is the one a boot after a power cut would try.
THEOREM DeviceJoinsOnlySaved == Spec => []JoinsOnlySaved
<1>1. Init => SaveInv
  BY DEF Init, NoWifi, SaveInv, JoinsOnlySaved, SaveInProgress
<1>2. TypeOK /\ SaveInv /\ [Next]_devVars => SaveInv'
  BY SaveStep
<1>3. SaveInv => JoinsOnlySaved
  BY DEF SaveInv
<1>4. QED
  BY <1>1, <1>2, <1>3, DeviceTypeOK, PTL DEF Spec
=============================================================================
