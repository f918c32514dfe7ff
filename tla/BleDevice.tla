------------------------------ MODULE BleDevice ------------------------------
(***************************************************************************)
(* Setting up the device over Bluetooth LE: the hardware layer around the  *)
(* decoder (firmware/src/hal/sticks3/bleprov.cpp), the credential store    *)
(* (creds.cpp), the station (net.cpp) and the part of main.cpp that opens  *)
(* and closes the setup.                                                   *)
(*                                                                         *)
(* Two tasks share the decoder under one mutex.  The callbacks of the      *)
(* Bluetooth task are short and hold it; the loop takes it several times   *)
(* in a pass, and the callbacks run in between.  The store is written key  *)
(* by key, and the power may go at any time.                               *)
(***************************************************************************)
EXTENDS BleDecoder, FiniteSets

CONSTANTS
    Empty,              \* a field with nothing in it
    NoNetwork,
    Networks,           \* <<ssid, pass>> pairs that let the device in
    MaxWrites,          \* bound: writes of a central
    MaxLinks,           \* bound: connections of a central
    MaxFlashErrors,     \* bound: keys the store fails to write
    MaxPowerCuts        \* bound: losses of power

Keys == <<"ssid", "pass", "host", "token", "ota", "port">>
KeySet == {"ssid", "pass", "host", "token", "ota", "port"}

ASSUME RecordAssumption ==
    /\ Cleared = [k \in KeySet |-> Empty]
    /\ \A s \in Streams : RecordOf[s] = [k \in KeySet |-> RecordOf[s][k]]
    /\ \A s \in Sound : RecordOf[s]["ssid"] # Empty
ASSUME DeviceBoundAssumption ==
    {MaxWrites, MaxLinks, MaxFlashErrors, MaxPowerCuts} \subseteq Nat

VARIABLES
    mode,       \* "setup" | "portal" | "station"
    phase,      \* g_phase: "serving" | "joining" | "applied"
    pc,         \* where the loop's pass has got to
    job,        \* the record being applied, whole or its OTA key alone, keys written
                \* so far, every write ok?
    published,  \* the status characteristic's value
    dirty,      \* g_dirty
    link,       \* connected, g_wantAdv, advertising
    shown,      \* g_state as the loop's refreshState leaves it
    engaged,    \* g_bleEngaged
    nvs,        \* the credential store
    wifi,       \* the network tried, and whether the station is up
    used        \* writes, connections, flash errors, power cuts so far

device == <<mode, phase, pc, job, published, dirty, link, shown, engaged, nvs, wifi>>
devVars == <<dec, device, used>>
-----------------------------------------------------------------------------
Joinable(r) == r["ssid"] # Empty
Complete(r) == Joinable(r) /\ r["host"] # Empty /\ r["token"] # Empty
Network(r) == <<r["ssid"], r["pass"]>>

NoJob == [rec |-> Cleared, whole |-> TRUE, done |-> 0, ok |-> TRUE]
NoWifi == [network |-> NoNetwork, up |-> FALSE]
Try(r) == [network |-> Network(r), up |-> FALSE]

Offline == [connected |-> FALSE, wantAdv |-> FALSE, advertising |-> FALSE]
Advertising == [Offline EXCEPT !.advertising = TRUE]

\* A boot with this store: a complete record joins, anything else opens setup.
Booted(store) ==
    /\ dec' = Fresh
    /\ phase' = "serving"
    /\ pc' = "top"
    /\ job' = NoJob
    /\ published' = Status(Fresh)
    /\ dirty' = FALSE
    /\ engaged' = FALSE
    /\ shown' = "advertising"
    /\ mode' = IF Complete(store) THEN "station" ELSE "setup"
    /\ link' = IF Complete(store) THEN Offline ELSE Advertising
    /\ wifi' = IF Complete(store) THEN Try(store) ELSE NoWifi

Init ==
    /\ DecInit
    /\ mode = "setup"
    /\ phase = "serving"
    /\ pc = "top"
    /\ job = NoJob
    /\ published = Status(Fresh)
    /\ dirty = FALSE
    /\ link = Advertising
    /\ shown = "advertising"
    /\ engaged = FALSE
    /\ nvs = Cleared
    /\ wifi = NoWifi
    /\ used = [writes |-> 0, links |-> 0, flash |-> 0, cuts |-> 0]
-----------------------------------------------------------------------------
(* The Bluetooth task's callbacks *)

Spend(what, bound) == used[what] < bound /\ used' = [used EXCEPT ![what] = @ + 1]

Connect ==
    /\ mode = "setup"
    /\ link.advertising
    /\ Spend("links", MaxLinks)
    /\ link' = [Offline EXCEPT !.connected = TRUE]
    /\ UNCHANGED <<dec, mode, phase, pc, job, published, dirty, shown, engaged, nvs, wifi>>

Disconnect ==
    /\ mode = "setup"
    /\ link.connected
    /\ link' = [Offline EXCEPT !.wantAdv = TRUE]
    /\ UNCHANGED <<dec, mode, phase, pc, job, published, dirty, shown, engaged, nvs, wifi,
                   used>>

\* The characteristics want an authenticated link.  Pairing waits for the owner to
\* type six digits, and a pass of the loop sees the link long before that.
Paired == link.connected /\ shown # "advertising"

Written(d) ==
    /\ mode = "setup"
    /\ Paired
    /\ Spend("writes", MaxWrites)
    /\ dec' = d
    /\ dirty' = TRUE
    /\ UNCHANGED <<mode, phase, pc, job, published, link, shown, engaged, nvs, wifi>>

WriteControl(c) == Written(OnControl(dec, c))
WriteChunk(k) == Written(OnChunk(dec, k))

ReadStatus ==
    /\ mode = "setup"
    /\ Paired
    /\ published' = Status(dec)
    /\ UNCHANGED <<dec, mode, phase, pc, job, dirty, link, shown, engaged, nvs, wifi, used>>
-----------------------------------------------------------------------------
(* The loop: one pass is Advertise, Publish, an action by phase, Refresh, Judge *)

At(here) == mode = "setup" /\ pc = here

\* Mutant: the wish to advertise is dropped while a join owns the radio.
ServedOnce ==
    IF ~link.wantAdv \/ link.connected THEN link
    ELSE IF phase = "serving" THEN Advertising ELSE Offline
Served ==
    IF link.wantAdv /\ ~link.connected /\ phase = "serving" THEN Advertising ELSE link

Advertise ==
    /\ At("top")
    /\ link' = Served
    /\ pc' = IF dirty THEN "publish" ELSE "phase"
    /\ dirty' = FALSE
    /\ UNCHANGED <<dec, mode, phase, job, published, shown, engaged, nvs, wifi, used>>

PublishAt(here, next) ==
    /\ At(here)
    /\ published' = Status(dec)
    /\ pc' = next
    /\ UNCHANGED <<dec, mode, phase, job, dirty, link, shown, engaged, nvs, wifi, used>>

PublishDirty == PublishAt("publish", "phase")

NothingReady ==
    /\ At("phase")
    /\ phase = "serving"
    /\ dec.state # "ready"
    /\ pc' = "refresh"
    /\ UNCHANGED <<dec, mode, phase, job, published, dirty, link, shown, engaged, nvs, wifi,
                   used>>

StartApply ==
    /\ At("phase")
    /\ phase = "serving"
    /\ dec.state = "ready"
    /\ dec' = MarkApplying(dec)
    /\ pc' = "acknowledge"
    /\ UNCHANGED <<mode, phase, job, published, dirty, link, shown, engaged, nvs, wifi, used>>

Acknowledge == PublishAt("acknowledge", "copy")

\* The verdict and the scrub are one critical section; the status goes out next.
\* Mutant: the secrets stay until the next transfer.
SucceededUnscrubbed(d) == MarkApplied(d)
Succeeded(d) == Scrub(MarkApplied(d))

\* Mutant: a failed join is not told to the decoder.
FailedUntold(d, e) == Scrub(d)
Failed(d, e) == Scrub(MarkFailed(d, e))

\* Mutant: the verdict stays unpublished.
AfterVerdictQuiet == "refresh"
AfterVerdict == "outcome"

\* Mutant: credsSave succeeds when its last key does.
AllWrittenUnchecked == TRUE
AllWritten == job.ok

\* A stream that only arms OTA on a device that has this network's record.
OnlyOta(r) == /\ Joinable(r) /\ r["ota"] # Empty
              /\ r["host"] = Empty /\ r["token"] = Empty
              /\ Complete(nvs) /\ nvs["ssid"] = r["ssid"]

\* The record is read in a critical section of its own.
CopyRecord ==
    /\ At("copy")
    /\ job' = [NoJob EXCEPT !.rec = dec.rec, !.whole = ~OnlyOta(dec.rec)]
    /\ pc' = "save"
    /\ UNCHANGED <<dec, mode, phase, published, dirty, link, shown, engaged, nvs, wifi, used>>

SaveOta ==
    /\ At("save")
    /\ ~job.whole
    /\ nvs' = [nvs EXCEPT !["ota"] = job.rec["ota"]]
    /\ dec' = Succeeded(dec)
    /\ phase' = "applied"
    /\ job' = NoJob
    /\ pc' = AfterVerdict
    /\ UNCHANGED <<mode, published, dirty, link, shown, engaged, wifi, used>>

\* Falls through to a save of the whole record.
OtaNotSaved ==
    /\ At("save")
    /\ ~job.whole
    /\ Spend("flash", MaxFlashErrors)
    /\ job' = [job EXCEPT !.whole = TRUE]
    /\ UNCHANGED <<dec, mode, phase, pc, published, dirty, link, shown, engaged, nvs, wifi>>

\* A key that cannot be written does not keep the next from being tried.
SaveKey ==
    /\ At("save")
    /\ job.whole
    /\ job.done < Len(Keys)
    /\ \/ /\ nvs' = [nvs EXCEPT ![Keys[job.done + 1]] = job.rec[Keys[job.done + 1]]]
          /\ job' = [job EXCEPT !.done = @ + 1]
          /\ UNCHANGED used
       \/ /\ Spend("flash", MaxFlashErrors)
          /\ job' = [job EXCEPT !.done = @ + 1, !.ok = FALSE]
          /\ UNCHANGED nvs
    /\ UNCHANGED <<dec, mode, phase, pc, published, dirty, link, shown, engaged, wifi>>

Saved ==
    /\ At("save")
    /\ job.done = Len(Keys)
    /\ AllWritten
    /\ wifi' = Try(job.rec)
    /\ phase' = "joining"
    /\ job' = NoJob
    /\ pc' = "refresh"
    /\ UNCHANGED <<dec, mode, published, dirty, link, shown, engaged, nvs, used>>

NotSaved ==
    /\ At("save")
    /\ job.done = Len(Keys)
    /\ ~AllWritten
    /\ dec' = Failed(dec, "saveFailed")
    /\ job' = NoJob
    /\ pc' = AfterVerdict
    /\ UNCHANGED <<mode, phase, published, dirty, link, shown, engaged, nvs, wifi, used>>

Joined ==
    /\ At("phase")
    /\ phase = "joining"
    /\ wifi.up
    /\ dec' = Succeeded(dec)
    /\ phase' = "applied"
    /\ pc' = AfterVerdict
    /\ UNCHANGED <<mode, job, published, dirty, link, shown, engaged, nvs, wifi, used>>

StillJoining ==
    /\ At("phase")
    /\ phase = "joining"
    /\ ~wifi.up
    /\ pc' = "refresh"
    /\ UNCHANGED <<dec, mode, phase, job, published, dirty, link, shown, engaged, nvs, wifi,
                   used>>

\* The associations or the time are used up: the station forgets the network.
JoinFailed ==
    /\ At("phase")
    /\ phase = "joining"
    /\ ~wifi.up
    /\ wifi' = NoWifi
    /\ dec' = Failed(dec, "joinFailed")
    /\ phase' = "serving"
    /\ pc' = AfterVerdict
    /\ UNCHANGED <<mode, job, published, dirty, link, shown, engaged, nvs, used>>

PublishOutcome == PublishAt("outcome", "refresh")

\* The stack is down for good: main.cpp restarts the device.
Provisioned ==
    /\ At("phase")
    /\ phase = "applied"
    /\ Booted(nvs)
    /\ UNCHANGED <<nvs, used>>

Dwell ==
    /\ At("phase")
    /\ phase = "applied"
    /\ pc' = "refresh"
    /\ UNCHANGED <<dec, mode, phase, job, published, dirty, link, shown, engaged, nvs, wifi,
                   used>>

Refresh ==
    /\ At("refresh")
    /\ shown' = IF phase = "joining" THEN "applying"
                ELSE IF dec.state = "receiving" THEN "receiving"
                ELSE IF link.connected THEN "linked" ELSE "advertising"
    /\ pc' = "judge"
    /\ UNCHANGED <<dec, mode, phase, job, published, dirty, link, engaged, nvs, wifi, used>>

\* Mutant: the window closes whoever came.
WindowClosesAnyway == shown = "advertising"
WindowMayClose == ~engaged /\ shown = "advertising"

KeepSetup ==
    /\ At("judge")
    /\ engaged' = (engaged \/ shown # "advertising")
    /\ pc' = "top"
    /\ UNCHANGED <<dec, mode, phase, job, published, dirty, link, shown, nvs, wifi, used>>

\* Nobody came in ten minutes: the captive portal.
CloseWindow ==
    /\ At("judge")
    /\ WindowMayClose
    /\ mode' = "portal"
    /\ dec' = Fresh
    /\ phase' = "serving"
    /\ pc' = "top"
    /\ dirty' = FALSE
    /\ link' = Offline
    /\ wifi' = NoWifi
    /\ UNCHANGED <<job, published, shown, engaged, nvs, used>>

LoopStep ==
    \/ Advertise
    \/ PublishDirty
    \/ NothingReady
    \/ StartApply
    \/ Acknowledge
    \/ CopyRecord
    \/ SaveOta
    \/ OtaNotSaved
    \/ SaveKey
    \/ Saved
    \/ NotSaved
    \/ Joined
    \/ StillJoining
    \/ JoinFailed
    \/ PublishOutcome
    \/ Provisioned
    \/ Dwell
    \/ Refresh
    \/ KeepSetup
    \/ CloseWindow
-----------------------------------------------------------------------------
(* The radio and the power *)

StationUp ==
    /\ wifi.network \in Networks
    /\ ~wifi.up
    /\ wifi' = [wifi EXCEPT !.up = TRUE]
    /\ UNCHANGED <<dec, mode, phase, pc, job, published, dirty, link, shown, engaged, nvs,
                   used>>

StationLost ==
    /\ wifi.up
    /\ wifi' = [wifi EXCEPT !.up = FALSE]
    /\ UNCHANGED <<dec, mode, phase, pc, job, published, dirty, link, shown, engaged, nvs,
                   used>>

PowerCut ==
    /\ Spend("cuts", MaxPowerCuts)
    /\ Booted(nvs)
    /\ UNCHANGED nvs
-----------------------------------------------------------------------------
CentralStep ==
    \/ Connect
    \/ Disconnect
    \/ \E c \in Controls : WriteControl(c)
    \/ \E k \in Chunks : WriteChunk(k)
    \/ ReadStatus

RadioStep == StationUp \/ StationLost

Next == CentralStep \/ LoopStep \/ RadioStep \/ PowerCut

Spec == Init /\ [][Next]_devVars

\* The loop runs for ever; a join ends by the clock, and so does the last dwell.
Fairness ==
    /\ WF_devVars(LoopStep)
    /\ SF_devVars(Joined \/ JoinFailed)
    /\ SF_devVars(Provisioned)

FairSpec == Spec /\ Fairness
-----------------------------------------------------------------------------
(* Properties *)

Places == {"top", "publish", "phase", "acknowledge", "copy", "save", "outcome",
           "refresh", "judge"}
Values == {RecordOf[s][k] : s \in Streams, k \in KeySet} \union {Empty}
Records == [KeySet -> Values]
Jobs == [rec : Records, whole : BOOLEAN, done : 0..Len(Keys), ok : BOOLEAN]
Statuses == [state : DecoderStates, error : Errors, nextSeq : 0..(SeqMod - 1),
             received : 0..MaxStream]
Links == [connected : BOOLEAN, wantAdv : BOOLEAN, advertising : BOOLEAN]
Stations == [network : (Values \X Values) \union {NoNetwork}, up : BOOLEAN]
Tallies == [writes : 0..MaxWrites, links : 0..MaxLinks,
            flash : 0..MaxFlashErrors, cuts : 0..MaxPowerCuts]

\* Every variable stays in the domain the code gives it.
TypeOK ==
    /\ DecTypeOK
    /\ mode \in {"setup", "portal", "station"}
    /\ phase \in {"serving", "joining", "applied"}
    /\ pc \in Places
    /\ job \in Jobs
    /\ published \in Statuses
    /\ dirty \in BOOLEAN
    /\ link \in Links
    /\ shown \in {"advertising", "linked", "receiving", "applying"}
    /\ engaged \in BOOLEAN
    /\ nvs \in Records
    /\ wifi \in Stations
    /\ used \in Tallies

\* hal/sticks3/bleprov.cpp:198-217 and 849-854: unless a write is still to be
\* published, or a status is about to be, the characteristic tells what the decoder
\* holds; no interleaving of the two tasks leaves a central with an old status.
StatusIsCurrent ==
    mode = "setup" /\ ~dirty /\ pc \notin {"publish", "acknowledge", "outcome"}
        => published = Status(dec)

\* hal/sticks3/bleprov.cpp:480-483: the station only tries, here and after a boot,
\* what the store holds, so a power cut leaves credentials the boot path can retry.
JoinsOnlySaved == wifi.network # NoNetwork => wifi.network = Network(nvs)

\* The hardware layer uses the decoder as its contract allows: marks and scrubs are
\* one step, and every other change is a central's write (bleprov.h:211-230).
UsesDecoder == DecSpec

\* main.cpp:224-241: closing the window never tears down a join in progress or a
\* setup that has succeeded.
SuccessIsNotEaten ==
    [][mode = "setup" /\ mode' = "portal" => phase = "serving"]_devVars

\* hal/sticks3/bleprov.cpp:840-847: a device in setup whose central is gone can be
\* found again, whatever was going on when the link dropped.
ServesAgain ==
    mode = "setup" /\ ~link.connected
        ~> link.connected \/ link.advertising \/ mode # "setup"

\* hal/sticks3/bleprov.cpp:405-407, "a Ready that never moves reads as a hang": a
\* transfer that is being applied gets its verdict.
ApplyEnds == dec.state = "applying" ~> dec.state # "applying"

\* creds.cpp:120-122, "a half-written record must read back as incomplete, not as a
\* mix of new and stale fields": what a device joins with after a boot comes from
\* one record.
NeverMixed ==
    mode = "station" =>
        \E s \in Streams : \A k \in KeySet : nvs[k] \in {RecordOf[s][k], Empty}

\* provision.h:153-157 on the boot, "pass joinable(), because an SSID is all a join
\* needs": a device that has just joined the network of its record joins it again
\* after the restart that ends its setup.
JoinsAfterSetup ==
    [][phase = "applied" /\ phase' # "applied" /\ Joinable(nvs) => mode' = "station"]_devVars
=============================================================================
