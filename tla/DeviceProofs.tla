---------------------------- MODULE DeviceProofs ----------------------------
(***************************************************************************)
(* Theorems about DeviceFreshness: its types, what it asks about, and the  *)
(* age it reckons with.                                                    *)
(***************************************************************************)
EXTENDS DeviceFreshness, TLAPS

\* Nothing noted lies ahead of the clock, and notes follow one another.
Past ==
    /\ server.checked <= clock
    /\ truth.confirmed <= server.checked
    /\ truth.read <= truth.confirmed
    /\ truth.read <= ram.at
    /\ ram.at <= clock
    /\ rtc.start <= clock

\* An age is the unknown one or no more than the device's life: no sum can reach the
\* unknown age by counting.
AgesKnown ==
    /\ ram.age = Unknown \/ ram.age <= ram.at
    /\ rtc.age = Unknown \/ rtc.age <= rtc.start

\* Between the POST and the GET of a refresh the age counts from the POST.
PassCounts ==
    /\ pass # "idle" => awake /\ ram.age = 0
    /\ pass = "refreshed" => ram.at <= server.checked

SleepNoted == ~awake => rtc.slept

DeviceInv ==
    TypeOK /\ Past /\ AgesKnown /\ PassCounts /\ SleepNoted /\ AsksAboutWhatItShows

\* freshness.cpp:25-27: an addition that does not overflow is exact.
LEMMA AccumulateExact ==
    ASSUME NEW a \in Nat, NEW e \in Nat, a + e < SecWrap
    PROVE Accumulate(a, e) = a + e
  BY TimesAssumption DEF Accumulate

\* freshness.cpp:25-27: the sum stays in the type.
LEMMA AccumulateTyped ==
    ASSUME NEW a \in Nat, NEW e \in Nat
    PROVE Accumulate(a, e) \in Ages
  BY TimesAssumption DEF Accumulate, Ages

\* freshness.h:42-43 and freshness.cpp:25-27: what adding to the unknown age gives.
LEMMA AccumulateUnknown ==
    ASSUME NEW e \in Nat, e < SecWrap
    PROVE Accumulate(Unknown, e) = IF e = 0 THEN Unknown ELSE e - 1
<1>1. CASE e = 0
  BY <1>1, TimesAssumption DEF Accumulate, Unknown
<1>2. CASE e # 0
  <2>1. (SecWrap - 1) + e = SecWrap + (e - 1) /\ e - 1 \in 0..(SecWrap - 1)
    BY <1>2, TimesAssumption
  <2>2. (SecWrap + (e - 1)) % SecWrap = e - 1
    BY <2>1, TimesAssumption
  <2>3. QED
    BY <1>2, <2>1, <2>2 DEF Accumulate, Unknown
<1>3. QED
  BY <1>1, <1>2
-----------------------------------------------------------------------------
(* Types *)

\* usage/freshness.cpp:29-49: every length of a sleep is a uint32_t.
LEMMA AgeAtBootTyped ==
    ASSUME TypeOK, NEW reading \in Times, NEW fromSleep \in BOOLEAN
    PROVE AgeAtBoot(reading, fromSleep) \in Ages
<1> DEFINE slept == SleepDuration(reading, rtc.start)
<1>1. rtc.age \in Nat /\ rtc.age \in Ages /\ rtc.start \in Nat /\ reading \in Nat
  BY TimesAssumption DEF TypeOK, Ages, Times
<1>2. slept = Unknown \/ slept \in Nat
  BY <1>1 DEF SleepDuration
<1>3. Unknown \in Ages
  BY TimesAssumption DEF Unknown, Ages
<1>4. slept \in Nat => Accumulate(rtc.age, slept) \in Ages
  BY <1>1, AccumulateTyped
<1> HIDE DEF slept
<1>5. AgeAtBoot(reading, fromSleep)
        = IF ~ShouldApplySleep(rtc.slept, fromSleep) THEN rtc.age
          ELSE IF slept = Unknown THEN Unknown ELSE Accumulate(rtc.age, slept)
  BY DEF AgeAtBoot, slept
<1>6. QED
  BY <1>1, <1>2, <1>3, <1>4, <1>5

\* main.cpp:821-872: a boot leaves a typed device.
LEMMA StartUpTyped ==
    ASSUME TypeOK, NEW reading \in Times, NEW fromSleep \in BOOLEAN,
           StartUp(reading, fromSleep),
           truth' \in [confirmed : Times, read : Times, gap : BOOLEAN],
           used' \in [resets : 0..MaxResets, clocks : 0..MaxBrokenClocks]
    PROVE TypeOK'
<1>1. AgeAtBoot(reading, fromSleep) \in Ages /\ 0 \in Ages
  BY AgeAtBootTyped, TimesAssumption DEF Ages
<1>2. \A r \in Shown, a \in Ages :
        Booted(r, a) \in [model : Shown, etag : Shown, age : Ages, at : Times,
                          fails : 0..(MaxFails - 1), asked : Times \union {Never}]
  BY TimesAssumption DEF TypeOK, Booted, Shown
<1>3. NoRev \in Shown /\ rtc.model \in Shown
  BY DEF Shown, TypeOK
<1>4. ram' \in [model : Shown, etag : Shown, age : Ages, at : Times,
                fails : 0..(MaxFails - 1), asked : Times \union {Never}]
  BY <1>1, <1>2, <1>3 DEF StartUp
<1>5. rtc' \in [model : Shown, age : Ages, start : Times, slept : BOOLEAN]
  BY DEF StartUp, TypeOK
<1>6. QED
  BY <1>4, <1>5 DEF StartUp, TypeOK

\* main.cpp:83-148: the types hold at the start.
LEMMA TypesAtStart == Init => TypeOK
  BY RevsAssumption, TimesAssumption
  DEF Init, TypeOK, Booted, Cold, Times, Ages, Shown, Never

\* main.cpp: every step keeps the types.
LEMMA TypesKept == TypeOK /\ Past /\ [Next]_vars => TypeOK'
<1> SUFFICES ASSUME TypeOK, Past, [Next]_vars PROVE TypeOK'
  OBVIOUS
<1> USE TimesAssumption
<1>1. CASE UNCHANGED vars
  BY <1>1 DEF vars, TypeOK
<1>2. CASE Tick
  BY <1>2 DEF Tick, TypeOK, Times
<1>3. CASE ServerPolls
  BY <1>3 DEF ServerPolls, TypeOK, Times
<1>4. CASE Read
  <2>1. clock - server.checked \in Ages
    BY DEF TypeOK, Past, Times, Ages
  <2>2. ram' \in [model : Shown, etag : Shown, age : Ages, at : Times,
                 fails : 0..(MaxFails - 1), asked : Times \union {Never}]
    <3>1. 0 \in 0..(MaxFails - 1) /\ server.rev \in Shown /\ clock \in Times
      BY DEF TypeOK, Shown
    <3>2. QED
      BY <1>4, <2>1, <3>1 DEF Read, TypeOK
  <2>3. rtc' \in [model : Shown, age : Ages, start : Times, slept : BOOLEAN]
    BY <1>4 DEF Read, TypeOK, Shown
  <2>4. truth' \in [confirmed : Times, read : Times, gap : BOOLEAN]
    BY <1>4 DEF Read, TypeOK
  <2>5. QED
    BY <1>4, <2>2, <2>3, <2>4 DEF Read, Fetched, TypeOK
<1>5. CASE ReadGarbled
  BY <1>5 DEF ReadGarbled, Fetched, TypeOK
<1>6. CASE NotModified
  BY <1>6 DEF NotModified, Fetched, TypeOK
<1>7. CASE FetchFails
  BY <1>7 DEF FetchFails, Fetched, TypeOK
<1>8. CASE AskPolls \/ AskCoalesces
  <2>1. 0 \in Ages
    BY DEF Ages
  <2>2. ram' = Refreshed
    BY <1>8 DEF AskPolls, AskCoalesces
  <2>3. Refreshed \in [model : Shown, etag : Shown, age : Ages, at : Times,
                      fails : 0..(MaxFails - 1), asked : Times \union {Never}]
    BY <2>1 DEF Refreshed, TypeOK
  <2>4. QED
    BY <1>8, <2>2, <2>3 DEF AskPolls, AskCoalesces, Asking, TypeOK, Times
<1>9. CASE AskFails
  BY <1>9 DEF AskFails, Asking, TypeOK
<1>10. CASE Sleep
  <2>1. AgeAtSleep \in Ages
    <3>1. ram.age \in Nat /\ clock - ram.at \in Nat
      BY DEF TypeOK, Past, Ages, Times
    <3>2. QED
      BY <3>1, AccumulateTyped DEF AgeAtSleep
  <2>2. Booted(NoRev, 0) \in [model : Shown, etag : Shown, age : Ages, at : Times,
                             fails : 0..(MaxFails - 1), asked : Times \union {Never}]
    BY DEF Booted, TypeOK, Shown, Ages
  <2>3. QED
    BY <1>10, <2>1, <2>2 DEF Sleep, TypeOK, Times
<1>11. CASE Wake
  BY <1>11, StartUpTyped DEF Wake, TypeOK
<1>12. CASE WakeWithoutClock
  <2>1. 0 \in Times
    BY DEF Times
  <2>2. used' \in [resets : 0..MaxResets, clocks : 0..MaxBrokenClocks]
    BY <1>12 DEF WakeWithoutClock, TypeOK
  <2>3. truth' \in [confirmed : Times, read : Times, gap : BOOLEAN]
    BY <1>12 DEF WakeWithoutClock, TypeOK
  <2>4. StartUp(0, TRUE)
    BY <1>12 DEF WakeWithoutClock
  <2>5. QED
    BY <2>1, <2>2, <2>3, <2>4, StartUpTyped
<1>13. CASE GiveUp
  BY <1>13, StartUpTyped DEF GiveUp, TypeOK
<1>14. CASE Restart
  <2>1. used' \in [resets : 0..MaxResets, clocks : 0..MaxBrokenClocks]
    BY <1>14 DEF Restart, TypeOK
  <2>2. clock \in Times /\ truth' \in [confirmed : Times, read : Times, gap : BOOLEAN]
    BY <1>14 DEF Restart, TypeOK
  <2>3. StartUp(clock, FALSE)
    BY <1>14 DEF Restart
  <2>4. QED
    BY <2>1, <2>2, <2>3, StartUpTyped
<1>15. CASE PowerLoss
  <2>1. Booted(NoRev, 0) \in [model : Shown, etag : Shown, age : Ages, at : Times,
                             fails : 0..(MaxFails - 1), asked : Times \union {Never}]
    BY DEF Booted, TypeOK, Shown, Ages
  <2>2. Cold \in [model : Shown, age : Ages, start : Times, slept : BOOLEAN]
    BY DEF Cold, Shown, Ages, Times
  <2>3. used' \in [resets : 0..MaxResets, clocks : 0..MaxBrokenClocks]
    BY <1>15 DEF PowerLoss, TypeOK
  <2>4. truth' \in [confirmed : Times, read : Times, gap : BOOLEAN]
    BY <1>15 DEF PowerLoss, TypeOK
  <2>5. QED
    BY <1>15, <2>1, <2>2, <2>3, <2>4 DEF PowerLoss, TypeOK
<1>16. QED
  BY <1>1, <1>2, <1>3, <1>4, <1>5, <1>6, <1>7, <1>8, <1>9, <1>10, <1>11, <1>12,
     <1>13, <1>14, <1>15 DEF Next
-----------------------------------------------------------------------------
(* The invariant *)

\* main.cpp:83-148: it holds at the start.
LEMMA InvAtStart == Init => DeviceInv
<1> SUFFICES ASSUME Init PROVE DeviceInv
  OBVIOUS
<1>1. TypeOK
  BY TypesAtStart
<1>2. QED
  BY <1>1, TimesAssumption
  DEF Init, DeviceInv, Past, AgesKnown, PassCounts, SleepNoted, AsksAboutWhatItShows,
      Booted, Cold

\* main.cpp:834-870: the age of a boot is unknown, or no more than the clock.
LEMMA AgeAtBootKnown ==
    ASSUME TypeOK, Past, AgesKnown, NEW reading \in {0, clock}, NEW fromSleep \in BOOLEAN
    PROVE AgeAtBoot(reading, fromSleep) = Unknown \/ AgeAtBoot(reading, fromSleep) <= clock
<1> DEFINE slept == SleepDuration(reading, rtc.start)
<1>1. /\ rtc.age \in Nat /\ rtc.start \in Nat /\ clock \in Nat /\ reading \in Nat
      /\ rtc.start <= clock /\ clock + 1 < SecWrap /\ SecWrap \in Nat
  BY TimesAssumption DEF TypeOK, Past, Ages, Times
<1>2. CASE slept = Unknown \/ ~ShouldApplySleep(rtc.slept, fromSleep)
  BY <1>1, <1>2 DEF AgeAtBoot, AgesKnown
<1>3. CASE slept # Unknown /\ ShouldApplySleep(rtc.slept, fromSleep)
  <2>1. slept = clock - rtc.start /\ slept \in Nat /\ slept # 0 /\ slept < SecWrap
    BY <1>1, <1>3 DEF SleepDuration
  <2>2. AgeAtBoot(reading, fromSleep) = Accumulate(rtc.age, slept)
    BY <1>3 DEF AgeAtBoot
  <2> HIDE DEF slept
  <2>3. CASE rtc.age = Unknown
    <3>1. Accumulate(rtc.age, slept) = slept - 1
      BY <2>1, <2>3, AccumulateUnknown
    <3>2. QED
      BY <1>1, <2>1, <2>2, <3>1
  <2>4. CASE rtc.age <= rtc.start
    <3>1. rtc.age + slept < SecWrap
      BY <1>1, <2>1, <2>4
    <3>2. Accumulate(rtc.age, slept) = rtc.age + slept
      BY <1>1, <2>1, <3>1, AccumulateExact
    <3>3. QED
      BY <1>1, <2>1, <2>2, <2>4, <3>2
  <2>5. QED
    BY <2>3, <2>4 DEF AgesKnown
<1>4. QED
  BY <1>2, <1>3

\* main.cpp:821-872: a boot keeps the invariant.
LEMMA StartUpInv ==
    ASSUME DeviceInv, NEW reading \in {0, clock}, NEW fromSleep \in BOOLEAN,
           StartUp(reading, fromSleep), TypeOK',
           truth'.confirmed = truth.confirmed, truth'.read = truth.read
    PROVE DeviceInv'
<1>1. /\ clock' = clock /\ server' = server /\ awake' /\ pass' = "idle"
      /\ ram'.at = clock /\ rtc'.start = rtc.start /\ rtc'.age = rtc.age
      /\ ram'.etag = ram'.model /\ rtc'.model = ram'.model
  BY DEF StartUp, Booted, DeviceInv, TypeOK
<1>2. ram'.age = 0 \/ ram'.age = AgeAtBoot(reading, fromSleep)
  BY DEF StartUp, Booted
<1>3. ram'.age = Unknown \/ ram'.age <= ram'.at
  BY <1>1, <1>2, AgeAtBootKnown DEF DeviceInv, TypeOK, Times
<1>4. Past'
  BY <1>1 DEF DeviceInv, Past, TypeOK, Times
<1>5. QED
  BY <1>1, <1>3, <1>4
  DEF DeviceInv, AgesKnown, PassCounts, SleepNoted, AsksAboutWhatItShows, Unknown

\* main.cpp: every step keeps the invariant.
LEMMA InvKept == DeviceInv /\ [Next]_vars => DeviceInv'
<1> SUFFICES ASSUME DeviceInv, [Next]_vars PROVE DeviceInv'
  OBVIOUS
<1> USE TimesAssumption DEF DeviceInv
<1>0. TypeOK'
  BY TypesKept
<1>1. CASE UNCHANGED vars
  BY <1>0, <1>1 DEF vars, Past, AgesKnown, PassCounts, SleepNoted, AsksAboutWhatItShows, Unknown
<1>2. CASE Tick
  <2>1. Past'
    BY <1>2 DEF Tick, Past, TypeOK, Times
  <2>2. QED
    BY <1>0, <1>2, <2>1
    DEF Tick, AgesKnown, PassCounts, SleepNoted, AsksAboutWhatItShows, Unknown
<1>3. CASE ServerPolls
  <2>1. server'.checked = clock
    BY <1>3 DEF ServerPolls
  <2>2. Past' /\ PassCounts'
    BY <1>3, <2>1 DEF ServerPolls, Past, PassCounts, TypeOK, Times
  <2>3. QED
    BY <1>0, <1>3, <2>2
    DEF ServerPolls, AgesKnown, SleepNoted, AsksAboutWhatItShows, Unknown
<1>4. CASE Read
  <2>1. /\ ram'.age = clock - server.checked /\ ram'.at = clock
        /\ ram'.etag = server.rev /\ ram'.model = server.rev /\ rtc'.model = server.rev
        /\ rtc'.age = rtc.age /\ rtc'.start = rtc.start /\ rtc'.slept = rtc.slept
        /\ truth'.confirmed = server.checked /\ truth'.read = server.checked
        /\ clock' = clock /\ server' = server /\ awake' = awake /\ pass' = "idle"
    BY <1>4 DEF Read, Fetched, TypeOK
  <2>2. Past'
    BY <2>1 DEF Past, TypeOK, Times
  <2>3. AgesKnown'
    BY <2>1 DEF AgesKnown, Past, TypeOK, Times, Unknown
  <2>4. QED
    BY <1>0, <2>1, <2>2, <2>3 DEF PassCounts, SleepNoted, AsksAboutWhatItShows
<1>5. CASE ReadGarbled \/ FetchFails
  BY <1>0, <1>5
  DEF ReadGarbled, FetchFails, Fetched, TypeOK, Past, AgesKnown, PassCounts, SleepNoted,
      AsksAboutWhatItShows, Unknown
<1>6. CASE NotModified
  <2>1. truth'.confirmed = server.checked /\ truth'.read = truth.read
    BY <1>6 DEF NotModified, TypeOK
  <2>2. Past'
    BY <1>6, <2>1 DEF NotModified, Fetched, Past, TypeOK, Times
  <2>3. QED
    BY <1>0, <1>6, <2>2
    DEF NotModified, Fetched, AgesKnown, PassCounts, SleepNoted, AsksAboutWhatItShows, Unknown
<1>7. CASE AskPolls \/ AskCoalesces
  <2>1. /\ ram'.age = 0 /\ ram'.at = clock /\ ram'.etag = ram.etag /\ ram'.model = ram.model
        /\ truth'.confirmed = truth.confirmed /\ truth'.read = truth.read
        /\ clock' = clock /\ rtc' = rtc
    BY <1>7 DEF AskPolls, AskCoalesces, Asking, Refreshed, TypeOK
  <2>2. awake /\ awake'
    BY <1>7 DEF AskPolls, AskCoalesces, Asking
  <2>3. server'.checked = clock \/ (server' = server /\ pass' = "coalesced")
    BY <1>7 DEF AskPolls, AskCoalesces
  <2>4. Past'
    BY <2>1, <2>3 DEF Past, TypeOK, Times
  <2>5. AgesKnown' /\ PassCounts'
    BY <2>1, <2>2, <2>3 DEF AgesKnown, PassCounts, Past, TypeOK, Times, Unknown
  <2>6. QED
    BY <1>0, <2>1, <2>2, <2>4, <2>5 DEF SleepNoted, AsksAboutWhatItShows
<1>8. CASE AskFails
  BY <1>0, <1>8
  DEF AskFails, Asking, TypeOK, Past, AgesKnown, PassCounts, SleepNoted,
      AsksAboutWhatItShows, Unknown
<1>9. CASE Sleep
  <2>1. /\ ram'.age = 0 /\ ram'.at = clock
        /\ awake' = FALSE /\ pass' = "idle"
        /\ clock' = clock /\ server' = server /\ truth' = truth
    <3>1. ram' = Booted(NoRev, 0)
      BY <1>9 DEF Sleep
    <3>2. ram'.age = 0 /\ ram'.at = clock
      BY <3>1 DEF Booted
    <3>3. QED
      BY <1>9, <3>2 DEF Sleep
  <2>2. rtc'.age = AgeAtSleep /\ rtc'.start = clock
    BY <1>9 DEF Sleep, TypeOK
  <2>3. rtc'.slept
    BY <1>9 DEF Sleep, TypeOK
  <2>4. Past'
    BY <2>1, <2>2 DEF Past, TypeOK, Times
  <2>5. AgeAtSleep = Unknown \/ AgeAtSleep <= clock
    <3>1. /\ ram.age \in Nat /\ ram.at \in Nat /\ clock \in Nat /\ clock - ram.at \in Nat
          /\ clock + 1 < SecWrap /\ ram.at <= clock /\ SecWrap \in Nat
      BY DEF TypeOK, Past, Ages, Times
    <3>2. CASE ram.age = Unknown
      <4>1. AgeAtSleep = IF clock - ram.at = 0 THEN Unknown ELSE clock - ram.at - 1
        BY <3>1, <3>2, AccumulateUnknown DEF AgeAtSleep
      <4>2. QED
        BY <3>1, <4>1
    <3>3. CASE ram.age <= ram.at
      <4>1. AgeAtSleep = ram.age + (clock - ram.at)
        BY <3>1, <3>3, AccumulateExact DEF AgeAtSleep
      <4>2. QED
        BY <3>1, <3>3, <4>1
    <3>4. QED
      BY <3>2, <3>3 DEF AgesKnown
  <2>6. AgesKnown'
    BY <2>1, <2>2, <2>5 DEF AgesKnown, TypeOK, Times, Unknown
  <2>7. QED
    BY <1>0, <2>1, <2>3, <2>4, <2>6 DEF PassCounts, SleepNoted, AsksAboutWhatItShows
<1>10. CASE Wake
  <2>1. /\ StartUp(clock, TRUE)
        /\ truth'.confirmed = truth.confirmed /\ truth'.read = truth.read
    BY <1>10 DEF Wake, TypeOK
  <2>2. QED
    BY <1>0, <2>1, StartUpInv
<1>11. CASE WakeWithoutClock
  <2>1. /\ StartUp(0, TRUE)
        /\ truth'.confirmed = truth.confirmed /\ truth'.read = truth.read
    BY <1>11 DEF WakeWithoutClock, TypeOK
  <2>2. QED
    BY <1>0, <2>1, StartUpInv
<1>12. CASE GiveUp \/ Restart
  <2>1. StartUp(clock, FALSE) /\ truth' = truth
    BY <1>12 DEF GiveUp, Restart
  <2>2. QED
    BY <1>0, <2>1, StartUpInv
<1>13. CASE PowerLoss
  <2>1. /\ ram'.age = 0 /\ ram'.at = clock /\ ram'.etag = NoRev /\ ram'.model = NoRev
        /\ rtc'.model = NoRev /\ rtc'.age = 0 /\ rtc'.start = 0
        /\ awake' /\ pass' = "idle" /\ clock' = clock /\ server' = server
        /\ truth'.confirmed = truth.confirmed /\ truth'.read = truth.read
    BY <1>13 DEF PowerLoss, Booted, Cold, TypeOK
  <2>2. Past' /\ AgesKnown'
    BY <2>1 DEF Past, AgesKnown, TypeOK, Times
  <2>3. QED
    BY <1>0, <2>1, <2>2 DEF PassCounts, SleepNoted, AsksAboutWhatItShows
<1>14. QED
  BY <1>1, <1>2, <1>3, <1>4, <1>5, <1>6, <1>7, <1>8, <1>9, <1>10, <1>11, <1>12, <1>13
  DEF Next
-----------------------------------------------------------------------------
(* The age *)

\* The age a reading is shown with, in plain numbers.
Counted ==
    \/ ram.age = Unknown
    \/ /\ clock - truth.confirmed <= ram.age + (clock - ram.at)
       /\ ram.age + (clock - ram.at) <= clock - truth.read

\* main.cpp:352-363: while it counts, a known age does not wrap.
LEMMA EffectiveNow ==
    ASSUME DeviceInv, ram.age # Unknown
    PROVE EffectiveAge = ram.age + (clock - ram.at) /\ EffectiveAge <= clock
<1>1. /\ ram.age \in Nat /\ ram.at \in Nat /\ clock \in Nat /\ clock - ram.at \in Nat
      /\ clock + 1 < SecWrap /\ ram.at <= clock /\ SecWrap \in Nat /\ ram.age <= ram.at
  BY TimesAssumption DEF DeviceInv, TypeOK, Past, AgesKnown, Ages, Times
<1>2. Accumulate(ram.age, clock - ram.at) = ram.age + (clock - ram.at)
  BY <1>1, AccumulateExact
<1>3. QED
  BY <1>1, <1>2 DEF EffectiveAge

\* The same after a step.
LEMMA EffectiveNext ==
    ASSUME DeviceInv', ram'.age # Unknown
    PROVE EffectiveAge' = ram'.age + (clock' - ram'.at)
<1>1. clock' \in Times /\ ram'.age \in Ages /\ ram'.at \in Times
  BY DEF DeviceInv, TypeOK, Times, Ages
<1>2. ram'.at <= clock'
  BY DEF DeviceInv, Past
<1>3. ram'.age <= ram'.at
  BY DEF DeviceInv, AgesKnown, Unknown
<1>4. /\ ram'.age \in Nat /\ clock' - ram'.at \in Nat
      /\ ram'.age + (clock' - ram'.at) < SecWrap
  BY <1>1, <1>2, <1>3, TimesAssumption DEF Ages, Times
<1>5. Accumulate(ram'.age, clock' - ram'.at) = ram'.age + (clock' - ram'.at)
  BY <1>4, AccumulateExact
<1>6. EffectiveAge' = Accumulate(ram'.age, clock' - ram'.at)
  BY DEF EffectiveAge, Accumulate, Unknown
<1>7. QED
  BY <1>5, <1>6

\* What has to be shown of a device awake with a reading.
LEMMA CountedNow ==
    ASSUME DeviceInv, Bracketed, awake, pass = "idle", ram.model # NoRev
    PROVE Counted
<1>1. CASE ram.age = Unknown
  BY <1>1 DEF Counted
<1>2. CASE ram.age # Unknown
  <2>1. EffectiveAge = ram.age + (clock - ram.at) /\ EffectiveAge <= clock
    BY <1>2, EffectiveNow
  <2>2. EffectiveAge # Unknown
    BY <2>1, TimesAssumption DEF DeviceInv, TypeOK, Times, Unknown
  <2>3. QED
    BY <2>1, <2>2 DEF Bracketed, Between, Counted
<1>3. QED
  BY <1>1, <1>2

\* The same after a step, the other way.
LEMMA CountedNext ==
    ASSUME DeviceInv', Counted', awake', pass' = "idle"
    PROVE Bracketed'
<1>1. CASE ram'.age = Unknown
  <2>1. EffectiveAge' = Unknown
    BY <1>1 DEF EffectiveAge, Unknown
  <2>2. QED
    BY <2>1 DEF Bracketed, Unknown
<1>2. CASE ram'.age # Unknown
  <2>1. EffectiveAge' = ram'.age + (clock' - ram'.at)
    BY <1>2, EffectiveNext
  <2>2. QED
    BY <1>2, <2>1 DEF Bracketed, Between, Counted, Unknown
<1>3. QED
  BY <1>1, <1>2

\* main.cpp: a step that is none of the three keeps the age between its bounds, and a
\* full answer brings it there.
LEMMA BracketKept ==
    ASSUME DeviceInv, DeviceInv', [Next]_vars, Bracketed \/ Read,
           ~(RefreshUnseen \/ UnknownSlept \/ Restarted)
    PROVE Bracketed'
<1> USE TimesAssumption
<1>1. CASE UNCHANGED vars
  <2>1. CASE Read
    BY <1>1, <2>1, CountedNext DEF vars, Read, Fetched, Counted, DeviceInv, TypeOK, Times
  <2>2. CASE Bracketed
    BY <1>1, <2>2 DEF vars, Bracketed, Between, EffectiveAge, Accumulate, Unknown
  <2>3. QED
    BY <2>1, <2>2
<1>2. CASE Read
  <2>1. /\ ram'.age = clock - server.checked /\ ram'.at = clock /\ clock' = clock
        /\ truth'.confirmed = server.checked /\ truth'.read = server.checked
    BY <1>2 DEF Read, Fetched, DeviceInv, TypeOK
  <2>2. Counted'
    BY <2>1 DEF Counted, DeviceInv, TypeOK, Times
  <2>3. awake' /\ pass' = "idle"
    BY <1>2 DEF Read, Fetched
  <2>4. QED
    BY <2>2, <2>3, CountedNext
<1>3. CASE Tick /\ ~Read
  <2>1. CASE awake /\ pass = "idle" /\ ram.model # NoRev
    <3>1. Counted
      BY <1>3, <2>1, CountedNow
    <3>2. Counted'
      BY <1>3, <3>1 DEF Tick, Counted, DeviceInv, TypeOK, Times, Ages, Unknown
    <3>3. QED
      BY <1>3, <2>1, <3>2, CountedNext DEF Tick
  <2>2. CASE ~(awake /\ pass = "idle" /\ ram.model # NoRev)
    BY <1>3, <2>2 DEF Tick, Bracketed, Between
  <2>3. QED
    BY <2>1, <2>2
<1>4. CASE ServerPolls /\ ~Read
  BY <1>4 DEF ServerPolls, Bracketed, Between, EffectiveAge, Accumulate, Unknown
<1>5. CASE (ReadGarbled \/ FetchFails) /\ ~Read
  <2>1. pass = "idle"
    BY <1>5 DEF RefreshUnseen, ReadGarbled, FetchFails, NotModified, Fetched, DeviceInv, TypeOK
  <2>2. QED
    BY <1>5, <2>1
    DEF ReadGarbled, FetchFails, Fetched, Bracketed, Between, EffectiveAge, Accumulate,
        Unknown, DeviceInv, TypeOK
<1>6. CASE NotModified /\ ~Read
  <2>1. /\ truth'.confirmed = server.checked /\ truth'.read = truth.read
        /\ ram' = ram /\ rtc' = rtc /\ clock' = clock
    BY <1>6 DEF NotModified, Fetched, DeviceInv, TypeOK
  <2>2. awake /\ awake' /\ pass' = "idle"
    BY <1>6 DEF NotModified, Fetched
  <2>3. CASE ram.model = NoRev
    BY <2>1, <2>2, <2>3 DEF Bracketed
  <2>4. CASE ram.model # NoRev /\ pass = "idle"
    <3>1. Counted
      BY <1>6, <2>2, <2>4, CountedNow
    <3>2. Counted'
      BY <2>1, <3>1 DEF Counted, DeviceInv, TypeOK, Past, Times, Ages, Unknown
    <3>3. QED
      BY <2>2, <3>2, CountedNext
  <2>5. CASE pass # "idle"
    <3>1. pass = "refreshed"
      BY <1>6, <2>5 DEF RefreshUnseen
    <3>2. ram.age = 0 /\ ram.at <= server.checked
      BY <3>1 DEF DeviceInv, PassCounts
    <3>3. Counted'
      BY <2>1, <3>2 DEF Counted, DeviceInv, TypeOK, Past, Times, Ages, Unknown
    <3>4. QED
      BY <2>2, <3>3, CountedNext
  <2>6. QED
    BY <2>3, <2>4, <2>5
<1>7. CASE (AskPolls \/ AskCoalesces) /\ ~Read
  <2>1. awake' /\ pass' # "idle"
    BY <1>7 DEF AskPolls, AskCoalesces, Asking
  <2>2. QED
    BY <2>1 DEF Bracketed
<1>8. CASE AskFails /\ ~Read
  <2>1. /\ ram'.age = ram.age /\ ram'.at = ram.at /\ ram'.model = ram.model
        /\ clock' = clock /\ truth' = truth
    BY <1>8 DEF AskFails, Asking, DeviceInv, TypeOK
  <2>2. awake /\ awake' /\ pass = "idle" /\ pass' = "idle"
    BY <1>8 DEF AskFails, Asking
  <2>3. CASE ram.model = NoRev
    BY <2>1, <2>2, <2>3 DEF Bracketed
  <2>4. CASE ram.model # NoRev
    <3>1. Counted
      BY <1>8, <2>2, <2>4, CountedNow
    <3>2. QED
      BY <2>1, <2>2, <3>1, CountedNext DEF Counted, Unknown
  <2>5. QED
    BY <2>3, <2>4
<1>9. CASE Sleep /\ ~Read
  <2>1. /\ awake /\ pass = "idle" /\ awake' = FALSE /\ truth' = truth
        /\ rtc'.age = AgeAtSleep /\ rtc'.start = clock /\ rtc'.model = rtc.model
    BY <1>9 DEF Sleep, DeviceInv, TypeOK
  <2>2. ram.age # Unknown
    BY <1>9 DEF UnknownSlept
  <2>3. CASE ram.model = NoRev
    BY <2>1, <2>3 DEF Bracketed, DeviceInv, AsksAboutWhatItShows
  <2>4. CASE ram.model # NoRev
    <3>1. Counted
      BY <1>9, <2>1, <2>4, CountedNow
    <3>2. AgeAtSleep = ram.age + (clock - ram.at)
      BY <2>2, EffectiveNow DEF EffectiveAge, AgeAtSleep
    <3>3. Between(clock - truth.confirmed, AgeAtSleep, clock - truth.read)
      BY <2>2, <3>1, <3>2 DEF Counted, Between
    <3>4. QED
      BY <2>1, <3>3 DEF Bracketed, Between
  <2>5. QED
    BY <2>3, <2>4
<1>10. CASE Wake /\ ~Read
  <2>1. /\ awake' /\ pass' = "idle" /\ clock' = clock
        /\ truth'.confirmed = truth.confirmed /\ truth'.read = truth.read
    BY <1>10 DEF Wake, StartUp, DeviceInv, TypeOK
  <2>2. CASE rtc.model = NoRev
    <3>1. ram'.model = NoRev
      BY <1>10, <2>2 DEF Wake, StartUp, Booted
    <3>2. QED
      BY <2>1, <3>1 DEF Bracketed
  <2>3. CASE rtc.model # NoRev
    <3>1. ram'.age = AgeAtBoot(clock, TRUE) /\ ram'.at = clock
      <4>1. ram' = Booted(rtc.model, AgeAtBoot(clock, TRUE))
        BY <1>10, <2>3 DEF Wake, StartUp
      <4>2. QED
        BY <4>1 DEF Booted
    <3>2. CASE SleepDuration(clock, rtc.start) = Unknown
      <4>1. ram'.age = Unknown
        BY <1>10, <3>1, <3>2 DEF AgeAtBoot, ShouldApplySleep, DeviceInv, SleepNoted, Wake
      <4>2. QED
        BY <2>1, <4>1, CountedNext DEF Counted, Unknown
    <3>3. CASE SleepDuration(clock, rtc.start) # Unknown
      <4> DEFINE slept == clock - rtc.start
      <4>1. SleepDuration(clock, rtc.start) = slept /\ slept \in Nat
        BY <3>3 DEF SleepDuration, DeviceInv, TypeOK, Times
      <4>2. ram'.age = Accumulate(rtc.age, slept)
        BY <1>10, <3>1, <3>3, <4>1
        DEF AgeAtBoot, ShouldApplySleep, DeviceInv, SleepNoted, Wake
      <4>3. Between(rtc.start - truth.confirmed, rtc.age, rtc.start - truth.read)
        BY <1>10, <2>3 DEF Wake, Read, Fetched, Bracketed
      <4>4. rtc.age + slept < SecWrap
        BY <4>3, TimesAssumption DEF Between, DeviceInv, TypeOK, Past, Times, Ages
      <4>5. ram'.age = rtc.age + slept
        BY <4>1, <4>2, <4>4, AccumulateExact DEF DeviceInv, TypeOK, Ages
      <4>6. Counted'
        <5>1. /\ clock \in Int /\ rtc.start \in Int /\ rtc.age \in Int
              /\ truth.confirmed \in Int /\ truth.read \in Int
          BY DEF DeviceInv, TypeOK, Times, Ages
        <5>2. ram'.age + (clock' - ram'.at) = rtc.age + (clock - rtc.start)
          <6>1. ram'.at = clock /\ clock' = clock /\ slept = clock - rtc.start
            BY <2>1, <3>1
          <6>2. ram'.age + (clock' - ram'.at) = (rtc.age + slept) + (clock - clock)
            BY <4>5, <6>1
          <6>3. (rtc.age + slept) + (clock - clock) = rtc.age + slept
            BY <5>1
          <6>4. QED
            BY <6>1, <6>2, <6>3
        <5>3. /\ clock - truth.confirmed <= rtc.age + (clock - rtc.start)
              /\ rtc.age + (clock - rtc.start) <= clock - truth.read
          BY <4>3, <5>1 DEF Between
        <5>4. QED
          BY <2>1, <5>2, <5>3 DEF Counted
      <4>7. QED
        BY <2>1, <4>6, CountedNext
    <3>4. QED
      BY <3>2, <3>3
  <2>4. QED
    BY <2>2, <2>3
<1>11. CASE WakeWithoutClock /\ ~Read
  <2>1. awake' /\ pass' = "idle"
    BY <1>11 DEF WakeWithoutClock, StartUp
  <2>2. CASE rtc.model = NoRev
    <3>1. ram'.model = NoRev
      BY <1>11, <2>2 DEF WakeWithoutClock, StartUp, Booted
    <3>2. QED
      BY <2>1, <3>1 DEF Bracketed
  <2>3. CASE rtc.model # NoRev
    <3>1. ram'.age = AgeAtBoot(0, TRUE)
      <4>1. ram' = Booted(rtc.model, AgeAtBoot(0, TRUE))
        BY <1>11, <2>3 DEF WakeWithoutClock, StartUp
      <4>2. QED
        BY <4>1 DEF Booted
    <3>2. SleepDuration(0, rtc.start) = Unknown
      BY DEF SleepDuration, DeviceInv, TypeOK, Times
    <3>3. ram'.age = Unknown
      BY <1>11, <3>1, <3>2
      DEF AgeAtBoot, ShouldApplySleep, DeviceInv, SleepNoted, WakeWithoutClock
    <3>4. QED
      BY <2>1, <3>3, CountedNext DEF Counted, Unknown
  <2>4. QED
    BY <2>2, <2>3
<1>12. CASE GiveUp \/ Restart
  BY <1>12 DEF Restarted
<1>13. CASE PowerLoss
  <2>1. awake' /\ ram'.model = NoRev
    BY <1>13 DEF PowerLoss, Booted
  <2>2. QED
    BY <2>1 DEF Bracketed
<1>14. QED
  BY <1>1, <1>2, <1>3, <1>4, <1>5, <1>6, <1>7, <1>8, <1>9, <1>10, <1>11, <1>12, <1>13
  DEF Next
-----------------------------------------------------------------------------
\* The invariant holds in every reachable state.
THEOREM DeviceInvariant == Spec => []DeviceInv
<1>1. Init => DeviceInv
  BY InvAtStart
<1>2. DeviceInv /\ [Next]_vars => DeviceInv'
  BY InvKept
<1>3. QED
  BY <1>1, <1>2, PTL DEF Spec

\* main.cpp: every reachable state of the device's fetching is well typed, for any
\* number of revisions, failures and restarts.
THEOREM FreshnessTypeOK == Spec => []TypeOK
<1>1. DeviceInv => TypeOK
  BY DEF DeviceInv
<1>2. QED
  BY <1>1, DeviceInvariant, PTL

\* main.cpp:450-461 and 821-832: the revision asked with is that of the reading shown.
THEOREM AsksAboutShown == Spec => []AsksAboutWhatItShows
<1>1. DeviceInv => AsksAboutWhatItShows
  BY DEF DeviceInv
<1>2. QED
  BY <1>1, DeviceInvariant, PTL

\* freshness.h:8-18: nothing but the three named steps takes the age out of its bounds.
THEOREM AgeBracketed == Spec => AgeIsBracketed
<1>1. DeviceInv /\ DeviceInv' /\ [Next]_vars
        => [(Bracketed \/ Read) /\ ~Bracketed'
              => RefreshUnseen \/ UnknownSlept \/ Restarted]_vars
  BY BracketKept
<1>2. QED
  BY <1>1, DeviceInvariant, PTL DEF Spec, AgeIsBracketed
=============================================================================
