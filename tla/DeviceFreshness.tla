--------------------------- MODULE DeviceFreshness ---------------------------
(***************************************************************************)
(* How old the reading on the device's screen is (firmware/src/main.cpp,   *)
(* usage/freshness.cpp, usage/refresh.cpp and the daemon's side of it).    *)
(*                                                                         *)
(* The device has no calendar.  The daemon tells it the age of a reading   *)
(* with each full answer; the device adds what its own clock counts, over  *)
(* deep sleeps too, in memory that outlives them.  An answer that says     *)
(* "not modified" brings no age, a refresh sets the age to zero, and a     *)
(* restart finds what the last sleep left.                                 *)
(***************************************************************************)
EXTENDS Integers

CONSTANTS
    Revs,           \* revisions of the snapshot
    NoRev,
    NextSec,        \* next_sec: the daemon's poll interval
    RefreshGap,     \* kRefreshThrottleMs
    MaxFails,       \* kMaxFails
    MaxSleep,       \* kMaxSleepSec
    SecWrap,        \* 2^32: the seconds a uint32_t counts
    MaxClock,       \* bound: instants
    MaxResets,      \* bound: restarts and losses of power
    MaxBrokenClocks \* bound: sleeps the RTC's clock does not survive

ASSUME RevsAssumption == NoRev \notin Revs
ASSUME TimesAssumption ==
    /\ {NextSec, RefreshGap, MaxSleep, MaxClock, MaxResets, MaxBrokenClocks} \subseteq Nat
    /\ MaxFails \in Nat \ {0} /\ SecWrap \in Nat
    /\ MaxClock + 1 < SecWrap   \* no age wraps by itself within the horizon

VARIABLES
    clock,
    server,     \* the daemon's snapshot: revision, checked_at
    awake,
    pass,       \* "idle", or inside doDeviceRefresh: "refreshed" (200) or "coalesced" (202)
    ram,        \* g_model, g_lastRev, g_dataAgeAtFetch, g_lastFetchMs, g_failCount, g_lastRefreshMs
    rtc,        \* g_wakeSnapshot, g_effectiveAgeAtSleep, g_rtcSleepStartSec, g_justSlept
    truth,      \* history: when the daemon checked what the device shows, last
                \* (confirmed) and when it read it in full (read); is there a sleep
                \* of unknown length since (gap)?
    used        \* resets and broken clocks so far

vars == <<clock, server, awake, pass, ram, rtc, truth, used>>
-----------------------------------------------------------------------------
Unknown == SecWrap - 1
Never == -1     \* g_lastRefreshMs = 0

\* Mutant: arithmetic wider than uint32_t.
AccumulateWide(age, elapsed) == age + elapsed

Accumulate(age, elapsed) == (age + elapsed) % SecWrap

SleepDuration(woken, slept) ==
    IF woken <= slept \/ woken - slept > MaxSleep THEN Unknown ELSE woken - slept

ShouldApplySleep(justSlept, fromSleep) == justSlept /\ fromSleep

Tier(age) ==
    IF NextSec = 0 \/ age > 4 * NextSec THEN "red"
    ELSE IF age > 2 * NextSec THEN "yellow" ELSE "green"

EffectiveAge ==
    IF ram.age = Unknown THEN Unknown ELSE Accumulate(ram.age, clock - ram.at)

Booted(rev, age) ==
    [model |-> rev, etag |-> rev, age |-> age, at |-> clock, fails |-> 0, asked |-> Never]

Cold == [model |-> NoRev, age |-> 0, start |-> 0, slept |-> FALSE]

Init ==
    /\ clock = 0
    /\ server \in [rev : Revs, checked : {0}]
    /\ awake = TRUE
    /\ pass = "idle"
    /\ ram = Booted(NoRev, 0)
    /\ rtc = Cold
    /\ truth = [confirmed |-> 0, read |-> 0, gap |-> FALSE]
    /\ used = [resets |-> 0, clocks |-> 0]
-----------------------------------------------------------------------------
(* The daemon and the clock *)

Tick ==
    /\ clock < MaxClock
    /\ clock' = clock + 1
    /\ UNCHANGED <<server, awake, pass, ram, rtc, truth, used>>

ServerPolls ==
    /\ server' \in [rev : Revs, checked : {clock}]
    /\ UNCHANGED <<clock, awake, pass, ram, rtc, truth, used>>
-----------------------------------------------------------------------------
(* doFetch: GET /v1/usage, from the poll timer or at the end of a refresh *)

Fetched == awake /\ pass' = "idle" /\ UNCHANGED <<clock, server, awake, used>>

Read ==
    /\ Fetched
    /\ server.rev # ram.etag
    /\ ram' = [ram EXCEPT !.model = server.rev, !.etag = server.rev, !.at = clock,
                          !.age = clock - server.checked, !.fails = 0]
    /\ rtc' = [rtc EXCEPT !.model = server.rev]
    /\ truth' = [confirmed |-> server.checked, read |-> server.checked, gap |-> FALSE]

\* Mutant: the ETag kept before the body is parsed.
ReadGarbledKept ==
    /\ Fetched
    /\ server.rev # ram.etag
    /\ ram' = [ram EXCEPT !.fails = 0, !.etag = server.rev]
    /\ UNCHANGED <<rtc, truth>>

ReadGarbled ==
    /\ Fetched
    /\ server.rev # ram.etag
    /\ ram' = [ram EXCEPT !.fails = 0]
    /\ UNCHANGED <<rtc, truth>>

NotModified ==
    /\ Fetched
    /\ server.rev = ram.etag
    /\ truth' = [truth EXCEPT !.confirmed = server.checked]
    /\ UNCHANGED <<ram, rtc>>

FetchFails ==
    /\ Fetched
    /\ ram.fails + 1 < MaxFails
    /\ ram' = [ram EXCEPT !.fails = @ + 1]
    /\ UNCHANGED <<rtc, truth>>
-----------------------------------------------------------------------------
(* doDeviceRefresh: POST /v1/refresh, the age set to zero, then doFetch *)

MayRefresh == ram.asked = Never \/ clock - ram.asked >= RefreshGap

Asking == awake /\ pass = "idle" /\ MayRefresh

Refreshed == [ram EXCEPT !.asked = clock, !.age = 0, !.at = clock]

AskPolls ==
    /\ Asking
    /\ server' \in [rev : Revs, checked : {clock}]
    /\ ram' = Refreshed
    /\ pass' = "refreshed"
    /\ truth' = [truth EXCEPT !.gap = FALSE]
    /\ UNCHANGED <<clock, awake, rtc, used>>

AskCoalesces ==
    /\ Asking
    /\ ram' = Refreshed
    /\ pass' = "coalesced"
    /\ truth' = [truth EXCEPT !.gap = FALSE]
    /\ UNCHANGED <<clock, server, awake, rtc, used>>

AskFails ==
    /\ Asking
    /\ ram' = [ram EXCEPT !.asked = clock]
    /\ UNCHANGED <<clock, server, awake, pass, rtc, truth, used>>
-----------------------------------------------------------------------------
(* Sleep, wake, restart *)

AgeAtSleep == Accumulate(ram.age, clock - ram.at)

Sleep ==
    /\ awake /\ pass = "idle"
    /\ awake' = FALSE
    /\ rtc' = [rtc EXCEPT !.age = AgeAtSleep, !.start = clock, !.slept = TRUE]
    /\ ram' = Booted(NoRev, 0)
    /\ UNCHANGED <<clock, server, pass, truth, used>>

\* Mutant: the sleep is not counted.
AgeAtBootAwakeOnly(reading, fromSleep) == rtc.age

\* The age a boot starts from: what the clock reads, and whether it ends a deep sleep.
AgeAtBoot(reading, fromSleep) ==
    LET slept == SleepDuration(reading, rtc.start)
    IN  IF ~ShouldApplySleep(rtc.slept, fromSleep) THEN rtc.age
        ELSE IF slept = Unknown THEN Unknown
        ELSE Accumulate(rtc.age, slept)

StartUp(reading, fromSleep) ==
    /\ awake' = TRUE
    /\ pass' = "idle"
    /\ IF rtc.model = NoRev
       THEN ram' = Booted(NoRev, 0) /\ UNCHANGED rtc
       ELSE /\ ram' = Booted(rtc.model, AgeAtBoot(reading, fromSleep))
            /\ rtc' = [rtc EXCEPT !.slept = FALSE]
    /\ UNCHANGED <<clock, server>>

Wake ==
    /\ ~awake
    /\ StartUp(clock, TRUE)
    /\ truth' = [truth EXCEPT !.gap = @ \/ clock <= rtc.start \/ clock - rtc.start > MaxSleep]
    /\ UNCHANGED used

\* The RTC's clock began again from zero.
WakeWithoutClock ==
    /\ ~awake
    /\ used.clocks < MaxBrokenClocks
    /\ StartUp(0, TRUE)
    /\ truth' = [truth EXCEPT !.gap = TRUE]
    /\ used' = [used EXCEPT !.clocks = @ + 1]

\* Too many failures: ESP.restart(), which the RTC's memory survives.
GiveUp ==
    /\ awake
    /\ ram.fails + 1 >= MaxFails
    /\ StartUp(clock, FALSE)
    /\ UNCHANGED <<truth, used>>

\* An update over the air, or the reset button, also of a device asleep.
Restart ==
    /\ used.resets < MaxResets
    /\ StartUp(clock, FALSE)
    /\ used' = [used EXCEPT !.resets = @ + 1]
    /\ UNCHANGED truth

PowerLoss ==
    /\ used.resets < MaxResets
    /\ awake' = TRUE
    /\ pass' = "idle"
    /\ ram' = Booted(NoRev, 0)
    /\ rtc' = Cold
    /\ truth' = [truth EXCEPT !.gap = FALSE]
    /\ used' = [used EXCEPT !.resets = @ + 1]
    /\ UNCHANGED <<clock, server>>

Next ==
    \/ Tick \/ ServerPolls
    \/ Read \/ ReadGarbled \/ NotModified \/ FetchFails
    \/ AskPolls \/ AskCoalesces \/ AskFails
    \/ Sleep \/ Wake \/ WakeWithoutClock \/ GiveUp \/ Restart \/ PowerLoss

Spec == Init /\ [][Next]_vars
-----------------------------------------------------------------------------
(* Properties *)

Ages == 0..(SecWrap - 1)
Times == 0..MaxClock
Shown == Revs \union {NoRev}

\* Every variable stays in the domain the code gives it.
TypeOK ==
    /\ clock \in Times
    /\ server \in [rev : Revs, checked : Times]
    /\ awake \in BOOLEAN
    /\ pass \in {"idle", "refreshed", "coalesced"}
    /\ ram \in [model : Shown, etag : Shown, age : Ages, at : Times,
                fails : 0..(MaxFails - 1), asked : Times \union {Never}]
    /\ rtc \in [model : Shown, age : Ages, start : Times, slept : BOOLEAN]
    /\ truth \in [confirmed : Times, read : Times, gap : BOOLEAN]
    /\ used \in [resets : 0..MaxResets, clocks : 0..MaxBrokenClocks]

\* main.cpp:450-461 and 821-832: a "not modified" is about what the screen shows, and
\* a wake shows what was shown last: the revision asked with, the model in memory and
\* the one kept over sleeps are one, whatever was garbled or lost.
AsksAboutWhatItShows == awake => ram.etag = ram.model /\ rtc.model = ram.model

Between(low, age, high) == low <= age /\ age <= high

\* The age the device reckons with lies between the age of its last full reading and
\* that of the daemon's last check it heard of, or is known to be unknown.
Bracketed ==
    \/ awake /\ ram.model = NoRev
    \/ ~awake /\ rtc.model = NoRev
    \/ /\ awake /\ pass = "idle"
       /\ \/ EffectiveAge = Unknown
          \/ Between(clock - truth.confirmed, EffectiveAge, clock - truth.read)
    \/ awake /\ pass # "idle"
    \/ /\ ~awake
       /\ Between(rtc.start - truth.confirmed, rtc.age, rtc.start - truth.read)

\* A refresh that brought no new reading: the GET failed, or the POST was coalesced
\* with a poll that has not ended.
RefreshUnseen == pass # "idle" /\ ~Read /\ ~(pass = "refreshed" /\ NotModified)
UnknownSlept == Sleep /\ ram.age = Unknown
Restarted == GiveUp \/ Restart

\* freshness.h:8-18: sleeping, waking and fetching in any order, the age is neither
\* less than the data's nor has it grown by time that did not pass; only a refresh
\* that did not see its reading, a second sleep after one of unknown length and a
\* restart (which finds the age of the last sleep) can break it, and a full answer
\* mends it.
AgeIsBracketed ==
    [][(Bracketed \/ Read) /\ ~Bracketed'
        => RefreshUnseen \/ UnknownSlept \/ Restarted]_vars

\* main.cpp:355-356, "we propagate it so the lamp shows RED": after a sleep of unknown
\* length the lamp is red until something is read or refreshed.
UnknownStaysRed ==
    awake /\ ram.model # NoRev /\ truth.gap => Tier(EffectiveAge) = "red"
=============================================================================
