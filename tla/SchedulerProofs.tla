--------------------------- MODULE SchedulerProofs --------------------------
(***************************************************************************)
(* What holds of Scheduler for every set of providers, handlers, readings  *)
(* and configurations, and what clients, the mirror and the providers can  *)
(* rely on, for every instance of ServedUsage.                             *)
(***************************************************************************)
EXTENDS ServedUsage, TLAPS, FiniteSetTheorems

-----------------------------------------------------------------------------
(* Types of what the operators build *)

\* The blocks a fetch can leave are blocks, whichever branch built them.
LEMMA BlockTypes ==
    ASSUME NEW p \in Providers, NEW now \in Time
    PROVE  /\ BareBlock(now) \in Blocks
           /\ \A u \in Usages : Block(KindOf[p], "ok", u, now) \in Blocks
           /\ \A s \in Failures \union {"error"} :
                  Block(KindOf[p], s, NoUsage, now) \in Blocks
           /\ \A g \in Blocks \union {NoBlock}, f \in Blocks : Fallback(g, f) \in Blocks
  BY KindAssumption, FailureAssumption
     DEF BareBlock, Block, Blocks, Stale, Fallback, Statuses, NoKind

\* Ageing a block leaves it a block.
LEMMA AgedType ==
    ASSUME NEW b \in Blocks, NEW now \in Time PROVE Aged(b, now) \in Blocks
  BY DEF Aged, Stale, Blocks, Statuses

\* The revision of a list of blocks is a revision; positions are naturals
\* because the list is finite.
LEMMA RevType ==
    ASSUME NEW blocks \in [Providers -> Blocks \union {NoBlock}], NEW order
    PROVE  Rev(blocks, order) \in Revs
<1>1. \A p \in Providers : orderProviders(blocks, order)[p] \in Nat
  <2>1. SUFFICES ASSUME NEW p \in Providers
                 PROVE  Cardinality({q \in Listed(blocks) : Before(blocks, order, q, p)}) \in Nat
    BY DEF orderProviders
  <2>2. IsFiniteSet({q \in Listed(blocks) : Before(blocks, order, q, p)})
    BY ProviderAssumption, FS_Subset DEF Listed
  <2>3. QED
    BY <2>2, FS_CardinalityType
<1>2. orderProviders(blocks, order) \in [Providers -> Nat]
  BY <1>1 DEF orderProviders
<1>3. \A p \in Providers :
        Hashed(blocks[p]) \in ((Kinds \union {NoKind}) \X Statuses
                                  \X (Usages \union {NoUsage})) \union {NoBlock}
  BY DEF Hashed, Blocks
<1>4. QED
  BY <1>2, <1>3 DEF Rev, Revs

\* Apply yields a snapshot.
LEMMA ApplyType ==
    ASSUME NEW snap \in Snapshots, NEW order, NEW now \in Time,
           NEW blocks \in [Providers -> Blocks \union {NoBlock}]
    PROVE  Apply(snap, blocks, order, now) \in Snapshots
  BY RevType DEF Apply, Snapshots

\* What a poll has collected is a block for some of the providers.
LEMMA CollectedType ==
    ASSUME poll \in Polls
    PROVE  Collected \in [Providers -> Blocks \union {NoBlock}]
  BY DEF Collected, Polls

LEMMA EmptyStateType == EmptyState \in States
  BY TimingAssumption DEF EmptyState, EmptySnapshot, States, Snapshots, Time, Deadlines

LEMMA IdlePollType == IdlePoll \in Polls
  BY TimingAssumption DEF IdlePoll, Polls, Time
-----------------------------------------------------------------------------
(* Type correctness *)

\* A block in the "age" stage is never missing.
StagedBlocks ==
    \A p \in Providers : poll.stage[p] \in {"age", "done"} => poll.result[p] \in Blocks

\* A handler on its way into a setter holds a configuration to install.
HeldArgs ==
    \A h \in Handlers : pc[h] \in {"apply", "setFetchers", "setOrder"} => arg[h] \in Configs

TypeInv == TypeOK /\ StagedBlocks /\ HeldArgs

LEMMA InitTypes == Init => TypeInv
  BY EmptyStateType, IdlePollType, TimingAssumption
     DEF Init, TypeInv, TypeOK, StagedBlocks, HeldArgs, Callers, IdlePoll, Time, Args, NoArg

\* A poll begins with no results and the present instant.
LEMMA BeginPollTypes ==
    ASSUME TypeInv, NEW c \in Callers, BeginPoll(c),
           UNCHANGED <<clock, config, saved, mem, disk, arg>>,
           wakeAt' = wakeAt, calls' \in Nat, crashes' \in Nat, saveFailures' \in Nat
    PROVE  TypeInv'
<1> USE DEF TypeInv
<1>1. poll' \in Polls
  BY DEF BeginPoll, TypeOK, Polls
<1>2. pc' \in [Callers -> {"idle", "polling", "apply", "setFetchers", "setOrder", "kick"}]
  BY DEF BeginPoll, TypeOK
<1>3. StagedBlocks'
  BY DEF BeginPoll, StagedBlocks
<1>4. HeldArgs'
  BY DEF BeginPoll, HeldArgs, TypeOK, Callers
<1>5. QED
  BY <1>1, <1>2, <1>3, <1>4 DEF TypeOK, BeginPoll

\* A fetch goroutine that moves to "age" leaves a block and touches only its own
\* entries of the state.
LEMMA ResultTypes ==
    ASSUME TypeInv, NEW p \in Providers, NEW b \in Blocks, NEW stage \in {"age", "done"},
           poll' = [poll EXCEPT !.stage[p] = stage, !.result[p] = b],
           mem' \in States,
           UNCHANGED <<clock, config, saved, disk, pollMu, pc, arg, wakeAt,
                       calls, crashes, saveFailures>>
    PROVE  TypeInv'
<1> USE DEF TypeInv
<1>1. poll' \in Polls
  BY DEF TypeOK, Polls
<1>2. StagedBlocks'
  BY DEF StagedBlocks, TypeOK, Polls
<1>3. QED
  BY <1>1, <1>2 DEF TypeOK, HeldArgs

\* Every step of the scheduler keeps the types.
LEMMA NextTypes == TypeInv /\ [Next]_schedVars => TypeInv'
<1> SUFFICES ASSUME TypeInv, [Next]_schedVars PROVE TypeInv'
  OBVIOUS
<1>t. /\ TypeOK /\ StagedBlocks /\ HeldArgs /\ mem \in States /\ poll \in Polls
      /\ poll.now \in Time
      /\ \A p \in Providers : mem.lastGood[p] \in Blocks \union {NoBlock}
  BY DEF TypeInv, TypeOK, Polls, States
<1>1. CASE RunPoll
  BY <1>1, <1>t, BeginPollTypes DEF RunPoll, TypeOK, Callers
<1>2. ASSUME NEW p \in Providers, SkipFetch(p) PROVE TypeInv'
  <2>1. Fallback(mem.lastGood[p], BareBlock(poll.now)) \in Blocks
    BY <1>t, BlockTypes
  <2>2. QED
    BY <1>2, <1>t, <2>1, ResultTypes DEF SkipFetch
<1>3. ASSUME NEW p \in Providers, NEW usage \in Usages, AnswerOk(p, usage) PROVE TypeInv'
  <2> DEFINE b == Block(KindOf[p], "ok", usage, poll.now)
  <2>1. b \in Blocks
    BY <1>t, BlockTypes
  <2>2. mem' \in States
    <3> HIDE DEF b
    <3>1. mem' = [mem EXCEPT !.lastGood[p] = b]
      BY <1>3 DEF AnswerOk, b
    <3>2. QED
      BY <1>t, <2>1, <3>1 DEF States
  <2>3. QED
    BY <1>3, <2>1, <2>2, ResultTypes DEF AnswerOk
<1>4. ASSUME NEW p \in Providers, NEW status \in Failures, AnswerFail(p, status)
      PROVE  TypeInv'
  <2>1. Fallback(mem.lastGood[p], Block(KindOf[p], status, NoUsage, poll.now)) \in Blocks
    BY <1>t, BlockTypes
  <2>2. QED
    BY <1>4, <1>t, <2>1, ResultTypes DEF AnswerFail
<1>5. ASSUME NEW p \in Providers, NEW delay \in RetryAfter, AnswerLimited(p, delay)
      PROVE  TypeInv'
  <2>1. Fallback(mem.lastGood[p], Block(KindOf[p], "error", NoUsage, poll.now)) \in Blocks
    BY <1>t, BlockTypes
  <2>2. poll.now + delay \in Nat
    BY <1>t, TimingAssumption DEF Time
  <2>3. mem' \in States
    BY <1>5, <1>t, <2>2 DEF AnswerLimited, States, Deadlines
  <2>4. QED
    BY <1>5, <2>1, <2>3, ResultTypes DEF AnswerLimited
<1>6. ASSUME NEW p \in Providers, Age(p) PROVE TypeInv'
  <2>1. poll.result[p] \in Blocks
    BY <1>6, <1>t DEF Age, StagedBlocks
  <2>2. Aged(poll.result[p], poll.now) \in Blocks
    BY <1>t, <2>1, AgedType
  <2>3. QED
    BY <1>6, <1>t, <2>2, ResultTypes DEF Age
<1>7. CASE ApplyAndSave
  <2> DEFINE snap == Apply(mem.snap, Collected, config.order, poll.now)
             state == [mem EXCEPT !.snap = snap]
  <2>1. snap \in Snapshots
    BY <1>t, CollectedType, ApplyType DEF States
  <2>2. state \in States
    <3> HIDE DEF snap
    <3> QED
      BY <1>t, <2>1 DEF States
  <2>3. poll' \in Polls
    <3> HIDE DEF snap
    <3>1. poll' = [poll EXCEPT !.phase = IF snap.seq > mem.snap.seq
                                         THEN "publish" ELSE "finish"]
      BY <1>7 DEF ApplyAndSave, snap
    <3>2. QED
      BY <1>t, <3>1 DEF Polls
  <2>4. poll'.stage = poll.stage /\ poll'.result = poll.result
    BY <1>7, <1>t DEF ApplyAndSave, Polls
  <2>5. mem' = state /\ Persist(state)
    BY <1>7 DEF ApplyAndSave
  <2>6. mem' \in States /\ disk' \in States /\ saveFailures' \in Nat
    <3> HIDE DEF state
    <3> QED
      BY <1>t, <2>2, <2>5 DEF Persist, TypeOK
  <2>7. StagedBlocks'
    BY <1>t, <2>4 DEF StagedBlocks
  <2>8. QED
    BY <1>7, <1>t, <2>3, <2>6, <2>7 DEF ApplyAndSave, TypeInv, TypeOK, HeldArgs
<1>8. CASE Publish
  BY <1>8, <1>t DEF Publish, TypeInv, TypeOK, StagedBlocks, HeldArgs, Callers, Polls
<1>9. CASE EndPoll
  <2>1. StagedBlocks'
    BY <1>9 DEF EndPoll, IdlePoll, StagedBlocks
  <2>2. wakeAt' \in Nat
    <3>1. clock \in Nat /\ config.interval \in Nat /\ wakeAt \in Nat
      <4>1. clock \in Nat /\ wakeAt \in Nat
        BY <1>t, TimingAssumption DEF TypeOK, Time
      <4>2. config.interval \in Intervals
        BY <1>t DEF TypeOK, Configs
      <4>3. QED
        BY <4>1, <4>2, TimingAssumption
    <3>2. wakeAt' = IF pollMu = Runner THEN clock + config.interval ELSE wakeAt
      BY <1>9 DEF EndPoll
    <3>3. QED
      BY <3>1, <3>2
  <2>3. pc' \in [Callers -> {"idle", "polling", "apply", "setFetchers", "setOrder", "kick"}]
    BY <1>9, <1>t DEF EndPoll, TypeOK
  <2>4. HeldArgs'
    <3>1. \A h \in Handlers : pc'[h] \in {pc[h], "idle"} /\ arg'[h] = arg[h]
      BY <1>9, <1>t, Zenon DEF EndPoll, TypeOK, Callers
    <3>2. QED
      BY <1>t, <3>1 DEF HeldArgs
  <2>5. poll' \in Polls
    BY <1>9, IdlePollType DEF EndPoll
  <2>6. QED
    BY <1>9, <1>t, <2>1, <2>2, <2>3, <2>4, <2>5 DEF EndPoll, TypeInv, TypeOK
<1>10. ASSUME NEW h \in Handlers, HandlerStep(h) PROVE TypeInv'
  <2>1. CASE AskRefresh(h) \/ KickRuns(h)
    BY <2>1, <1>t, BeginPollTypes DEF AskRefresh, KickRuns, RefreshRuns, TypeOK, Callers
  <2>2. CASE KickCoalesces(h)
    BY <2>2, <1>t DEF KickCoalesces, TypeInv, TypeOK, StagedBlocks, HeldArgs, Callers
  <2>3. ASSUME NEW new \in Configs, PutSaves(h, new) PROVE TypeInv'
    BY <2>3, <1>t DEF PutSaves, TypeInv, TypeOK, StagedBlocks, HeldArgs, Callers, Args
  <2>7. CASE PutApplies(h)
    <3>1. arg[h].interval \in Intervals
      BY <2>7, <1>t DEF PutApplies, HeldArgs, Configs
    <3>2. config' \in Configs
      BY <2>7, <1>t, <3>1 DEF PutApplies, TypeOK, Configs
    <3>3. QED
      BY <2>7, <1>t, <3>2 DEF PutApplies, TypeInv, TypeOK, StagedBlocks, HeldArgs, Callers
  <2>4. CASE SetFetchers(h)
    <3>1. arg[h].fetchers \in FetcherLists
      BY <2>4, <1>t DEF SetFetchers, HeldArgs, Configs
    <3>2. config' \in Configs
      BY <2>4, <1>t, <3>1 DEF SetFetchers, TypeOK, Configs
    <3>3. QED
      BY <2>4, <1>t, <3>2 DEF SetFetchers, TypeInv, TypeOK, StagedBlocks, HeldArgs, Callers
  <2>5. CASE SetProviderOrder(h)
    <3>1. arg[h].order \in Orders
      BY <2>5, <1>t DEF SetProviderOrder, HeldArgs, Configs
    <3>2. config' \in Configs
      BY <2>5, <1>t, <3>1 DEF SetProviderOrder, TypeOK, Configs
    <3>3. QED
      BY <2>5, <1>t, <3>2
         DEF SetProviderOrder, TypeInv, TypeOK, StagedBlocks, HeldArgs, Callers, Args
  <2>6. QED
    BY <1>10, <2>1, <2>2, <2>3, <2>4, <2>5, <2>7 DEF HandlerStep
<1>11. CASE Tick
  BY <1>11, <1>t, TimingAssumption DEF Tick, TypeInv, TypeOK, StagedBlocks, HeldArgs, Callers, Time
<1>12. CASE Restart
  <2>1. StagedBlocks'
    BY <1>12 DEF Restart, IdlePoll, StagedBlocks
  <2>2. QED
    BY <1>12, <1>t, <2>1, IdlePollType, TimingAssumption
       DEF Restart, LoadState, TypeInv, TypeOK, HeldArgs, Callers, Time, Args
<1>13. CASE UNCHANGED schedVars
  BY <1>13, <1>t DEF schedVars, TypeInv, TypeOK, StagedBlocks, HeldArgs, Callers
<1>14. QED
  BY <1>1, <1>2, <1>3, <1>4, <1>5, <1>6, <1>7, <1>8, <1>9, <1>10, <1>11, <1>12, <1>13
     DEF Next, PollStep, AnswerStep

\* The variables of the scheduler keep the domains the code gives them.
THEOREM TypeCorrect == Spec => []TypeOK
<1>1. TypeInv => TypeOK
  BY DEF TypeInv
<1>2. QED
  BY <1>1, InitTypes, NextTypes, PTL DEF Spec
-----------------------------------------------------------------------------
(* What a snapshot says of its blocks *)

\* The shape of a poll: goroutines work in its first phase only, and its mutex
\* is held from its first step to its last.
PollShape ==
    /\ poll.phase = "idle" <=> pollMu = Nobody
    /\ poll.phase \in {"publish", "finish"} =>
           \A p \in Providers : poll.stage[p] \in {"none", "done"}
    /\ poll.phase = "idle" => \A p \in Providers : poll.stage[p] = "none"

\* A result says "ok" only of an answer given in this poll.
FreshResults ==
    \A p \in Providers :
        poll.stage[p] \in {"age", "done"} /\ poll.result[p].status = "ok"
            => poll.result[p].fetched = poll.now

\* A result shows the last good block as the map holds it now.
Shows(good, b) ==
    IF good = NoBlock THEN b.usage = NoUsage
    ELSE b.usage = good.usage /\ b.fetched = good.fetched
ResultsShowGood ==
    \A p \in Providers :
        poll.stage[p] \in {"age", "done"} => Shows(mem.lastGood[p], poll.result[p])

ShownInv ==
    /\ TypeInv
    /\ PollShape
    /\ FreshResults
    /\ ResultsShowGood
    /\ OkMeansFresh
    /\ poll.phase # "fetch" => ShowsLastGood(mem)
    /\ ShowsLastGood(disk)

\* Whatever a fallback serves is not called ok and shows the last good block.
LEMMA FallbackShows ==
    ASSUME NEW good \in Blocks \union {NoBlock}, NEW failed \in Blocks,
           failed.status # "ok", failed.usage = NoUsage
    PROVE  /\ Fallback(good, failed).status # "ok"
           /\ Shows(good, Fallback(good, failed))
  BY DEF Fallback, Stale, Shows, Blocks

\* Ageing changes neither the reading nor its time, and makes nothing "ok".
LEMMA AgedShows ==
    ASSUME NEW b \in Blocks, NEW now
    PROVE  /\ Aged(b, now).usage = b.usage
           /\ Aged(b, now).fetched = b.fetched
           /\ Aged(b, now).status = "ok" => b.status = "ok"
  BY DEF Aged, Stale, Blocks

LEMMA InitShown == Init => ShownInv
<1> SUFFICES ASSUME Init PROVE ShownInv
  OBVIOUS
<1>1. TypeInv
  BY InitTypes
<1>2. Listed(EmptySnapshot.blocks) = {}
  BY DEF Listed, EmptySnapshot
<1>3. PollShape /\ FreshResults /\ ResultsShowGood
  BY DEF Init, PollShape, FreshResults, ResultsShowGood, IdlePoll
<1>4. OkMeansFresh /\ ShowsLastGood(mem) /\ ShowsLastGood(disk)
  BY <1>2 DEF Init, OkMeansFresh, FreshBlocks, ShowsLastGood, EmptyState
<1>5. QED
  BY <1>1, <1>3, <1>4 DEF ShownInv

\* A step of a fetch goroutine: its result is not falsely fresh and shows the last
\* good block of its provider; the map changes at no other provider.
LEMMA ResultShown ==
    ASSUME ShownInv, TypeInv', NEW p \in Providers, NEW b \in Blocks,
           NEW stage \in {"age", "done"},
           poll.stage[p] \in {"start", "age"},
           poll' = [poll EXCEPT !.stage[p] = stage, !.result[p] = b],
           UNCHANGED <<disk, pollMu>>, mem'.snap = mem.snap,
           \A q \in Providers \ {p} : mem'.lastGood[q] = mem.lastGood[q],
           b.status = "ok" => b.fetched = poll.now,
           Shows(mem'.lastGood[p], b)
    PROVE  ShownInv'
<1>1. /\ poll \in Polls /\ poll'.phase = poll.phase /\ poll'.now = poll.now
      /\ poll.phase = "fetch"
      /\ \A q \in Providers \ {p} : poll'.stage[q] = poll.stage[q]
                                   /\ poll'.result[q] = poll.result[q]
      /\ poll'.stage[p] = stage /\ poll'.result[p] = b
  BY DEF ShownInv, TypeInv, TypeOK, Polls, PollShape
<1>2. PollShape'
  BY <1>1 DEF ShownInv, PollShape
<1>3. FreshResults'
  BY <1>1 DEF ShownInv, FreshResults
<1>4. ResultsShowGood'
  BY <1>1 DEF ShownInv, ResultsShowGood
<1>5. OkMeansFresh' /\ ShowsLastGood(disk)'
  BY DEF ShownInv, OkMeansFresh, FreshBlocks, ShowsLastGood
<1>6. QED
  BY <1>1, <1>2, <1>3, <1>4, <1>5 DEF ShownInv

\* Steps that leave the state, the file and the poll alone.
LEMMA NothingShown ==
    ASSUME ShownInv, TypeInv', UNCHANGED <<mem, disk, poll, pollMu>>
    PROVE  ShownInv'
  BY DEF ShownInv, PollShape, FreshResults, ResultsShowGood, OkMeansFresh, FreshBlocks,
         ShowsLastGood

\* A poll begins: it has no results yet.
LEMMA BeginShown ==
    ASSUME ShownInv, TypeInv', NEW c \in Callers, BeginPoll(c), UNCHANGED <<mem, disk>>
    PROVE  ShownInv'
  BY NameAssumption
     DEF ShownInv, BeginPoll, PollShape, FreshResults, ResultsShowGood, OkMeansFresh,
         FreshBlocks, ShowsLastGood

LEMMA NextShown == ShownInv /\ [Next]_schedVars => ShownInv'
<1> SUFFICES ASSUME ShownInv, [Next]_schedVars PROVE ShownInv'
  OBVIOUS
<1>n. TypeInv'
  BY NextTypes DEF ShownInv
<1>t. /\ TypeOK /\ StagedBlocks /\ mem \in States /\ poll \in Polls
      /\ poll.now \in Time
      /\ \A p \in Providers : mem.lastGood[p] \in Blocks \union {NoBlock}
  BY DEF ShownInv, TypeInv, TypeOK, Polls, States
<1>1. CASE RunPoll
  BY <1>1, <1>n, BeginShown DEF RunPoll, Callers
<1>2. ASSUME NEW p \in Providers, SkipFetch(p) PROVE ShownInv'
  <2> DEFINE b == Fallback(mem.lastGood[p], BareBlock(poll.now))
  <2>1. b \in Blocks /\ BareBlock(poll.now) \in Blocks
    BY <1>t, BlockTypes
  <2>2. b.status # "ok" /\ Shows(mem.lastGood[p], b)
    BY <1>t, <2>1, FallbackShows DEF BareBlock, Block
  <2>3. QED
    BY <1>2, <1>n, <2>1, <2>2, ResultShown DEF SkipFetch
<1>3. ASSUME NEW p \in Providers, NEW usage \in Usages, AnswerOk(p, usage) PROVE ShownInv'
  <2> DEFINE b == Block(KindOf[p], "ok", usage, poll.now)
  <2>1. b \in Blocks
    BY <1>t, BlockTypes
  <2>2. b.fetched = poll.now
    BY DEF Block
  <2>3. /\ mem' = [mem EXCEPT !.lastGood[p] = b]
        /\ poll' = [poll EXCEPT !.stage[p] = "age", !.result[p] = b]
        /\ poll.stage[p] = "start" /\ UNCHANGED <<disk, pollMu>>
    BY <1>3 DEF AnswerOk, Requested
  <2>4. /\ mem'.snap = mem.snap
        /\ mem'.lastGood[p] = b
        /\ \A q \in Providers \ {p} : mem'.lastGood[q] = mem.lastGood[q]
    <3> HIDE DEF b
    <3> QED
      BY <1>t, <2>3 DEF States
  <2>5. Shows(mem'.lastGood[p], b)
    BY <2>1, <2>4, NameAssumption DEF Shows
  <2>6. QED
    <3> HIDE DEF b
    <3> QED
      BY <1>n, <2>1, <2>2, <2>3, <2>4, <2>5, ResultShown
<1>4. ASSUME NEW p \in Providers, NEW status \in Failures, AnswerFail(p, status)
      PROVE  ShownInv'
  <2> DEFINE f == Block(KindOf[p], status, NoUsage, poll.now)
             b == Fallback(mem.lastGood[p], f)
  <2>1. b \in Blocks /\ f \in Blocks
    BY <1>t, BlockTypes
  <2>2. b.status # "ok" /\ Shows(mem.lastGood[p], b)
    BY <1>t, <2>1, FallbackShows, FailureAssumption DEF Block
  <2>3. QED
    BY <1>4, <1>n, <2>1, <2>2, ResultShown DEF AnswerFail, Requested
<1>5. ASSUME NEW p \in Providers, NEW delay \in RetryAfter, AnswerLimited(p, delay)
      PROVE  ShownInv'
  <2> DEFINE f == Block(KindOf[p], "error", NoUsage, poll.now)
             b == Fallback(mem.lastGood[p], f)
  <2>1. b \in Blocks /\ f \in Blocks
    BY <1>t, BlockTypes
  <2>2. b.status # "ok" /\ Shows(mem.lastGood[p], b)
    BY <1>t, <2>1, FallbackShows DEF Block
  <2>3. mem'.snap = mem.snap /\ mem'.lastGood = mem.lastGood
    BY <1>5, <1>t DEF AnswerLimited, States
  <2>4. QED
    BY <1>5, <1>n, <2>1, <2>2, <2>3, ResultShown DEF AnswerLimited, Requested
<1>6. ASSUME NEW p \in Providers, Age(p) PROVE ShownInv'
  <2> DEFINE b == Aged(poll.result[p], poll.now)
  <2>1. poll.result[p] \in Blocks
    BY <1>6, <1>t DEF Age, StagedBlocks
  <2>2. b \in Blocks
    BY <1>t, <2>1, AgedType
  <2>3. /\ b.status = "ok" => b.fetched = poll.now
        /\ Shows(mem.lastGood[p], b)
    BY <1>6, <2>1, AgedShows DEF Age, ShownInv, FreshResults, ResultsShowGood, Shows
  <2>4. QED
    <3> HIDE DEF b
    <3>1. /\ poll' = [poll EXCEPT !.stage[p] = "done", !.result[p] = b]
          /\ poll.stage[p] = "age" /\ UNCHANGED <<mem, disk, pollMu>>
      BY <1>6 DEF Age, b
    <3>2. QED
      BY <1>n, <2>2, <2>3, <3>1, ResultShown
<1>7. CASE ApplyAndSave
  <2> DEFINE snap == Apply(mem.snap, Collected, config.order, poll.now)
             state == [mem EXCEPT !.snap = snap]
  <2>1. snap.blocks = Collected /\ snap.checked = poll.now
    BY DEF Apply
  <2>2. state.snap = snap /\ state.lastGood = mem.lastGood
    BY <1>t DEF States
  <2>3. \A p \in Listed(Collected) : poll.stage[p] = "done" /\ Collected[p] = poll.result[p]
    BY DEF Listed, Collected
  <2>4. FreshBlocks(snap)
    BY <2>1, <2>3 DEF FreshBlocks, ShownInv, FreshResults, Listed
  <2>5. ShowsLastGood(state)
    BY <2>1, <2>2, <2>3 DEF ShowsLastGood, ShownInv, ResultsShowGood, Shows, Listed
  <2>6. /\ mem' = state /\ disk' \in {disk, state}
        /\ poll' = [poll EXCEPT !.phase = IF snap.seq > mem.snap.seq
                                          THEN "publish" ELSE "finish"]
        /\ poll.phase = "fetch" /\ AllFetched /\ pollMu' = pollMu
    BY <1>7 DEF ApplyAndSave, Persist
  <2> HIDE DEF snap, state
  <2>7. /\ poll'.phase \in {"publish", "finish"} /\ poll'.now = poll.now
        /\ poll'.stage = poll.stage /\ poll'.result = poll.result
    BY <1>t, <2>6 DEF Polls
  <2>8. PollShape'
    BY <2>6, <2>7 DEF ShownInv, PollShape, AllFetched
  <2>9. FreshResults' /\ ResultsShowGood'
    BY <2>2, <2>6, <2>7 DEF ShownInv, FreshResults, ResultsShowGood
  <2>10. OkMeansFresh'
    BY <2>2, <2>4, <2>6 DEF ShownInv, OkMeansFresh, FreshBlocks
  <2>11. ShowsLastGood(mem)' /\ ShowsLastGood(disk)'
    BY <2>5, <2>6 DEF ShownInv, ShowsLastGood
  <2>12. QED
    BY <1>n, <2>8, <2>9, <2>10, <2>11 DEF ShownInv
<1>8. CASE Publish
  <2>1. /\ poll'.phase = "finish" /\ poll.phase = "publish" /\ poll'.now = poll.now
        /\ poll'.stage = poll.stage /\ poll'.result = poll.result
        /\ UNCHANGED <<mem, disk, pollMu>>
    BY <1>8, <1>t DEF Publish, Polls
  <2>2. QED
    BY <1>n, <2>1 DEF ShownInv, PollShape, FreshResults, ResultsShowGood, OkMeansFresh,
                      FreshBlocks, ShowsLastGood
<1>9. CASE EndPoll
  <2>1. /\ poll' = IdlePoll /\ poll.phase = "finish" /\ pollMu' = Nobody
        /\ UNCHANGED <<mem, disk>>
    BY <1>9 DEF EndPoll
  <2>2. PollShape' /\ FreshResults' /\ ResultsShowGood'
    BY <2>1 DEF IdlePoll, PollShape, FreshResults, ResultsShowGood
  <2>3. QED
    BY <1>n, <2>1, <2>2 DEF ShownInv, OkMeansFresh, FreshBlocks, ShowsLastGood
<1>10. ASSUME NEW h \in Handlers, HandlerStep(h) PROVE ShownInv'
  <2>1. CASE AskRefresh(h) \/ KickRuns(h)
    BY <2>1, <1>n, BeginShown DEF AskRefresh, KickRuns, RefreshRuns, Callers
  <2>2. CASE KickCoalesces(h) \/ PutApplies(h) \/ SetFetchers(h) \/ SetProviderOrder(h)
    BY <2>2, <1>n, NothingShown DEF KickCoalesces, PutApplies, SetFetchers, SetProviderOrder
  <2>3. ASSUME NEW new \in Configs, PutSaves(h, new) PROVE ShownInv'
    BY <2>3, <1>n, NothingShown DEF PutSaves
  <2>4. QED
    BY <1>10, <2>1, <2>2, <2>3 DEF HandlerStep
<1>11. CASE Tick
  BY <1>11, <1>n, NothingShown DEF Tick
<1>12. CASE Restart
  <2>1. mem' = disk /\ disk' = disk /\ pollMu' = Nobody /\ poll' = IdlePoll
    BY <1>12 DEF Restart, LoadState
  <2>2. PollShape' /\ FreshResults' /\ ResultsShowGood'
    BY <2>1 DEF IdlePoll, PollShape, FreshResults, ResultsShowGood
  <2>3. QED
    BY <1>n, <2>1, <2>2 DEF ShownInv, OkMeansFresh, FreshBlocks, ShowsLastGood
<1>13. CASE UNCHANGED schedVars
  BY <1>13, <1>n, NothingShown DEF schedVars
<1>14. QED
  BY <1>1, <1>2, <1>3, <1>4, <1>5, <1>6, <1>7, <1>8, <1>9, <1>10, <1>11, <1>12, <1>13
     DEF Next, PollStep, AnswerStep

\* A block is shown as "ok" only by the poll that fetched it, in memory and in the
\* state file.
THEOREM OkIsFresh == Spec => []OkMeansFresh
<1>1. ShownInv => OkMeansFresh
  BY DEF ShownInv
<1>2. QED
  BY <1>1, InitShown, NextShown, PTL DEF Spec

\* Between polls, and in the state file, every provider that ever answered shows
\* its latest good reading.
THEOREM LastGoodAlwaysShown == Spec => []LastGoodIsShown
<1>1. ShownInv => LastGoodIsShown
  BY DEF ShownInv, PollShape, LastGoodIsShown
<1>2. QED
  BY <1>1, InitShown, NextShown, PTL DEF Spec
-----------------------------------------------------------------------------
(* What a poll reports                                                     *)

\* While fetches run, exactly those of the list in force were started.
OnlyListed ==
    poll.phase = "fetch" =>
        \A p \in Providers : poll.stage[p] = "none" <=> p \notin config.fetchers

\* scheduler.go:112-130 and 356-373: no step starts a fetch of another list or
\* replaces the list while fetches run.
LEMMA NextListed == ShownInv /\ OnlyListed /\ [Next]_schedVars => OnlyListed'
<1> SUFFICES ASSUME ShownInv, OnlyListed, [Next]_schedVars, poll'.phase = "fetch"
             PROVE \A p \in Providers : poll'.stage[p] = "none" <=> p \notin config'.fetchers
  BY DEF OnlyListed
<1>t. /\ poll \in Polls
      /\ config \in [interval : Intervals, fetchers : FetcherLists, order : Orders]
      /\ poll.phase = "idle" <=> pollMu = Nobody
  BY DEF ShownInv, PollShape, TypeInv, TypeOK, Configs
<1>1. ASSUME NEW c \in Callers, BeginPoll(c), UNCHANGED config
      PROVE \A p \in Providers : poll'.stage[p] = "none" <=> p \notin config'.fetchers
  BY <1>1 DEF BeginPoll
<1>2. ASSUME NEW q \in Providers, NEW b, NEW stage \in {"age", "done"},
             poll.stage[q] # "none", UNCHANGED config,
             poll' = [poll EXCEPT !.stage[q] = stage, !.result[q] = b]
      PROVE \A p \in Providers : poll'.stage[p] = "none" <=> p \notin config'.fetchers
  <2>1. /\ poll'.phase = poll.phase
        /\ \A p \in Providers : poll'.stage[p] = IF p = q THEN stage ELSE poll.stage[p]
    BY <1>t, <1>2 DEF Polls
  <2>2. QED
    BY <1>2, <2>1 DEF OnlyListed
<1>3. ASSUME NEW q \in Providers, SkipFetch(q) \/ AnswerStep(q) \/ Age(q)
      PROVE \A p \in Providers : poll'.stage[p] = "none" <=> p \notin config'.fetchers
  <2>1. /\ poll.stage[q] # "none" /\ UNCHANGED config
        /\ \E b, stage : /\ stage \in {"age", "done"}
                         /\ poll' = [poll EXCEPT !.stage[q] = stage, !.result[q] = b]
    BY <1>3 DEF SkipFetch, AnswerStep, AnswerOk, AnswerFail, AnswerLimited, Age, Requested
  <2>2. QED
    BY <1>2, <2>1
<1>4. poll'.phase # "fetch" \/ ~(ApplyAndSave \/ Publish \/ EndPoll \/ Restart)
  BY <1>t DEF ApplyAndSave, Publish, EndPoll, Restart, IdlePoll, Polls
<1>5. ASSUME UNCHANGED poll, config'.fetchers = config.fetchers
      PROVE \A p \in Providers : poll'.stage[p] = "none" <=> p \notin config'.fetchers
  BY <1>5 DEF OnlyListed
<1>6. ASSUME NEW h \in Handlers, SetFetchers(h) \/ SetProviderOrder(h) PROVE FALSE
  BY <1>t, <1>6 DEF SetFetchers, SetProviderOrder
<1>7. ASSUME NEW h \in Handlers, PutApplies(h) \/ \E new \in Configs : PutSaves(h, new)
      PROVE UNCHANGED poll /\ config'.fetchers = config.fetchers
  BY <1>t, <1>7 DEF PutSaves, PutApplies
<1>8. ASSUME NEW h \in Handlers, KickCoalesces(h)
      PROVE UNCHANGED poll /\ config'.fetchers = config.fetchers
  BY <1>8 DEF KickCoalesces
<1>9. ASSUME Tick \/ UNCHANGED schedVars
      PROVE UNCHANGED poll /\ config'.fetchers = config.fetchers
  BY <1>9 DEF Tick, schedVars
<1>10. ASSUME NEW h \in Handlers, AskRefresh(h) \/ KickRuns(h)
       PROVE BeginPoll(h) /\ UNCHANGED config
  BY <1>10 DEF AskRefresh, KickRuns, RefreshRuns
<1>11. RunPoll => BeginPoll(Runner) /\ UNCHANGED config
  BY DEF RunPoll
<1>12. Handlers \subseteq Callers /\ Runner \in Callers
  BY DEF Callers
<1>13. QED
  BY <1>1, <1>3, <1>4, <1>5, <1>6, <1>7, <1>8, <1>9, <1>10, <1>11, <1>12
     DEF Next, PollStep, HandlerStep

\* scheduler.go:124-168 and 356-358: the blocks a poll ends with are those of the
\* list in force, no more and no fewer.
LEMMA AppliesList ==
    ASSUME ShownInv, OnlyListed, ApplyAndSave
    PROVE Listed(mem'.snap.blocks) = config'.fetchers
<1>1. /\ poll.phase = "fetch" /\ AllFetched /\ UNCHANGED config
      /\ mem' = [mem EXCEPT !.snap = Apply(mem.snap, Collected, config.order, poll.now)]
  BY DEF ApplyAndSave
<1>2. mem'.snap.blocks = Collected
  BY <1>1 DEF Apply, ShownInv, TypeInv, TypeOK, States
<1>3. \A p \in Providers : p \in config.fetchers => poll.stage[p] = "done"
  BY <1>1 DEF OnlyListed, AllFetched
<1>4. \A p \in Providers : poll.stage[p] = "done" => poll.result[p] # NoBlock
  BY NameAssumption DEF ShownInv, TypeInv, StagedBlocks
<1>5. \A p \in Providers : Collected[p] # NoBlock <=> p \in config.fetchers
  BY <1>3, <1>4 DEF Collected
<1>6. config.fetchers \subseteq Providers
  BY ConfigAssumption DEF ShownInv, TypeInv, TypeOK, Configs
<1>7. Listed(Collected) = config.fetchers
  BY <1>5, <1>6 DEF Listed
<1>8. QED
  BY <1>1, <1>2, <1>7

\* A poll reports exactly the providers of the list in force when it ends, which is
\* the one it began with (scheduler.go:356-358).
THEOREM PollsCoverList == Spec => PollCoversList
<1>1. Init => OnlyListed
  BY DEF Init, OnlyListed, IdlePoll
<1>2. ASSUME ShownInv, OnlyListed, [Next]_schedVars,
             poll.phase = "fetch", poll'.phase \in {"publish", "finish"}
      PROVE Listed(mem'.snap.blocks) = config'.fetchers
  <2>1. poll \in Polls
    BY <1>2 DEF ShownInv, TypeInv, TypeOK
  <2>2. ASSUME NEW q \in Providers, SkipFetch(q) \/ AnswerStep(q) \/ Age(q)
        PROVE poll'.phase = poll.phase
    BY <2>1, <2>2 DEF SkipFetch, AnswerStep, AnswerOk, AnswerFail, AnswerLimited, Age, Polls
  <2>3. ASSUME NEW c, BeginPoll(c) PROVE poll'.phase = "fetch"
    BY <2>3 DEF BeginPoll
  <2>4. ASSUME NEW h \in Handlers, HandlerStep(h)
        PROVE poll' = poll \/ BeginPoll(h)
    BY <2>4 DEF HandlerStep, AskRefresh, KickRuns, RefreshRuns, KickCoalesces, PutSaves,
                PutApplies, SetFetchers, SetProviderOrder
  <2>5. ~(Publish \/ EndPoll \/ Restart \/ Tick \/ UNCHANGED schedVars)
    BY <1>2, <2>1 DEF Publish, EndPoll, Restart, Tick, schedVars, IdlePoll
  <2>6. ApplyAndSave
    BY <1>2, <2>2, <2>3, <2>4, <2>5 DEF Next, PollStep, RunPoll
  <2>7. QED
    BY <1>2, <2>6, AppliesList
<1>3. QED
  BY <1>1, <1>2, InitShown, NextShown, NextListed, PTL DEF Spec, PollCoversList

-----------------------------------------------------------------------------

\* A step seen from outside is a step of the scheduler, or a read.
LEMMA StepIsScheduler == [ServedNext]_vars => [Next]_schedVars
  BY DEF ServedNext, vars, schedVars, Read, Answered, Limited, Saved, Published, Killed,
         StoredLate, Unobserved, Next, PollStep, AnswerStep

\* Memory and file agree on what the daemon promised and, unless the last save
\* failed, on the snapshot; nobody outside is ahead of memory.
Ahead(head) == Follows(Head(mem.snap), head)
AgreeInv ==
    /\ TypeInv
    /\ promised = mem.cooldown
    /\ kept = disk.cooldown
    /\ ~early
    /\ {unsaved, lost} \subseteq BOOLEAN
    /\ ~unsaved => mem.snap = disk.snap
    /\ ~lost => \A head \in {served, mirror} \union late : Ahead(head)
    /\ \A head \in {served, mirror} \union late : head.seq \in Nat

LEMMA InitAgrees == ServedInit => AgreeInv
<1> SUFFICES ASSUME ServedInit PROVE AgreeInv
  OBVIOUS
<1>1. TypeInv
  BY InitTypes DEF ServedInit
<1>2. mem = EmptyState /\ disk = EmptyState
  BY DEF ServedInit, Init
<1>3. {served, mirror} \union late = {Head(mem.snap)}
  BY <1>2 DEF ServedInit, EmptyState, NothingRead
<1>4. Head(mem.snap).seq = 0
  BY <1>2 DEF EmptyState, EmptySnapshot, Head
<1>5. promised = mem.cooldown /\ kept = disk.cooldown
  BY <1>2 DEF ServedInit, EmptyState
<1>6. QED
  <2>1. \A head \in {served, mirror} \union late : Ahead(head) /\ head.seq \in Nat
    BY <1>3, <1>4 DEF Ahead, Follows
  <2>2. mem.snap = disk.snap /\ ~early /\ {unsaved, lost} \subseteq BOOLEAN
    BY <1>2 DEF ServedInit
  <2>3. QED
    BY <1>1, <1>5, <2>1, <2>2 DEF AgreeInv

\* Applying blocks never takes a snapshot back: a new revision takes a new seq.
LEMMA ApplyFollows ==
    ASSUME NEW snap \in Snapshots, NEW blocks, NEW order, NEW now
    PROVE  Follows(Head(Apply(snap, blocks, order, now)), Head(snap))
<1> DEFINE rev == Rev(blocks, order)
<1>1. snap.seq \in Nat
  BY DEF Snapshots
<1>2. CASE rev # snap.rev
  BY <1>1, <1>2 DEF Apply, Head, Follows
<1>3. CASE rev = snap.rev
  BY <1>1, <1>3 DEF Apply, Head, Follows
<1>4. QED
  BY <1>2, <1>3

LEMMA FollowsTransitive ==
    ASSUME NEW a, NEW b, NEW c, a.seq \in Nat, b.seq \in Nat, c.seq \in Nat,
           Follows(a, b), Follows(b, c)
    PROVE  Follows(a, c)
  BY DEF Follows

\* Steps that keep the snapshot, the cooldowns and what is known outside.
LEMMA NothingAgreed ==
    ASSUME AgreeInv, TypeInv', UNCHANGED <<disk, history>>,
           mem'.snap = mem.snap, mem'.cooldown = mem.cooldown
    PROVE  AgreeInv'
  BY DEF AgreeInv, history, Ahead, Follows, Head

LEMMA NextAgrees == AgreeInv /\ [ServedNext]_vars => AgreeInv'
<1> SUFFICES ASSUME AgreeInv, [ServedNext]_vars PROVE AgreeInv'
  OBVIOUS
<1>n. TypeInv'
  BY StepIsScheduler, NextTypes DEF AgreeInv
<1>t. /\ mem \in States /\ disk \in States /\ mem.snap \in Snapshots
      /\ mem.cooldown \in [Providers -> Nat] /\ poll.now \in Nat /\ mem.snap.seq \in Nat
  BY TimingAssumption
     DEF AgreeInv, TypeInv, TypeOK, States, Snapshots, Deadlines, Polls, Time
<1>1. CASE Read
  BY <1>1, <1>n, <1>t DEF Read, AgreeInv, schedVars, Ahead, Follows, Head
<1>2. ASSUME NEW p \in Providers, Answered(p) PROVE AgreeInv'
  <2>1. ~(poll.now < promised[p])
    BY <1>2, <1>t DEF Answered, AnswerOk, AnswerFail, Requested, Quiet, AgreeInv
  <2>2. ~early' /\ UNCHANGED <<served, mirror, late, kept, unsaved, lost, promised>>
    BY <1>2, <2>1 DEF Answered, Request, AgreeInv
  <2>3. mem'.snap = mem.snap /\ mem'.cooldown = mem.cooldown /\ disk' = disk
    BY <1>2, <1>t DEF Answered, AnswerOk, AnswerFail, States
  <2>4. QED
    BY <1>n, <2>2, <2>3 DEF AgreeInv, Ahead, Follows, Head
<1>3. ASSUME NEW p \in Providers, NEW delay \in RetryAfter, Limited(p, delay)
      PROVE  AgreeInv'
  <2>1. ~(poll.now < promised[p])
    BY <1>3, <1>t DEF Limited, AnswerLimited, Requested, Quiet, AgreeInv
  <2>2. /\ ~early' /\ UNCHANGED <<served, mirror, late, kept, unsaved, lost>>
        /\ promised' = [promised EXCEPT ![p] = poll.now + delay]
    BY <1>3, <2>1 DEF Limited, Request, AgreeInv
  <2>3. /\ mem'.snap = mem.snap /\ disk' = disk
        /\ mem'.cooldown = [mem.cooldown EXCEPT ![p] = poll.now + delay]
    BY <1>3, <1>t DEF Limited, AnswerLimited, States
  <2>4. QED
    BY <1>n, <2>2, <2>3 DEF AgreeInv, Ahead, Follows, Head
<1>4. CASE Saved
  <2> DEFINE snap == Apply(mem.snap, Collected, config.order, poll.now)
             state == [mem EXCEPT !.snap = snap]
  <2>1. /\ state.snap = snap /\ state.cooldown = mem.cooldown
    BY <1>t DEF States
  <2>2. mem' = state /\ Persist(state)
    BY <1>4 DEF Saved, ApplyAndSave
  <2>3. Follows(Head(snap), Head(mem.snap))
    BY <1>t, ApplyFollows
  <2>4. snap.seq \in Nat
    BY <1>t DEF Apply
  <2> HIDE DEF snap, state
  <2>5. /\ unsaved' = (saveFailures' # saveFailures)
        /\ kept' = IF saveFailures' = saveFailures THEN promised ELSE kept
        /\ UNCHANGED <<served, mirror, late, promised, lost, early>>
    BY <1>4 DEF Saved
  <2>6. CASE disk' = state /\ saveFailures' = saveFailures
    <3>1. promised' = mem'.cooldown /\ kept' = disk'.cooldown /\ mem'.snap = disk'.snap
      BY <2>1, <2>2, <2>5, <2>6 DEF AgreeInv
    <3>2. ~lost' => \A head \in {served', mirror'} \union late' : Ahead(head)'
      BY <1>t, <2>1, <2>2, <2>3, <2>4, <2>5, FollowsTransitive DEF AgreeInv, Ahead, Head
    <3>3. QED
      BY <1>n, <2>5, <3>1, <3>2 DEF AgreeInv
  <2>7. CASE disk' = disk /\ saveFailures' = saveFailures + 1
    <3>1. saveFailures' # saveFailures
      BY <2>7 DEF AgreeInv, TypeInv, TypeOK
    <3>2. promised' = mem'.cooldown /\ kept' = disk'.cooldown /\ unsaved'
      BY <2>1, <2>2, <2>5, <2>7, <3>1 DEF AgreeInv
    <3>3. ~lost' => \A head \in {served', mirror'} \union late' : Ahead(head)'
      BY <1>t, <2>1, <2>2, <2>3, <2>4, <2>5, FollowsTransitive DEF AgreeInv, Ahead, Head
    <3>4. QED
      BY <1>n, <2>5, <3>2, <3>3 DEF AgreeInv
  <2>8. QED
    BY <2>2, <2>6, <2>7 DEF Persist
<1>5. CASE Published
  <2>1. UNCHANGED <<mem, disk, served, promised, kept, unsaved, lost, early>>
    BY <1>5 DEF Published, Publish
  <2>2. {mirror'} \union late' \subseteq {mirror, Head(mem.snap)} \union late
    BY <1>5 DEF Published
  <2>3. QED
    BY <1>n, <1>t, <2>1, <2>2 DEF AgreeInv, Ahead, Follows, Head
<1>6. CASE Killed
  <2>1. /\ mem' = disk /\ disk' = disk /\ promised' = kept /\ kept' = kept
        /\ lost' = (lost \/ unsaved) /\ unsaved' = FALSE
        /\ UNCHANGED <<served, mirror, late, early>>
    BY <1>6 DEF Killed, Restart, LoadState
  <2>2. ~lost' => mem'.snap = mem.snap
    BY <2>1 DEF AgreeInv
  <2>3. QED
    BY <1>n, <2>1, <2>2 DEF AgreeInv, Ahead, Follows, Head
<1>7. CASE Unobserved
  <2>1. UNCHANGED <<mem, disk, history>>
    BY <1>7 DEF Unobserved, RunPoll, SkipFetch, Age, EndPoll, HandlerStep, Tick, AskRefresh,
                KickRuns, KickCoalesces, RefreshRuns, PutSaves, PutApplies, SetFetchers,
                SetProviderOrder
  <2>2. QED
    BY <1>n, <2>1, NothingAgreed
<1>8. CASE UNCHANGED vars
  BY <1>8, <1>n, NothingAgreed DEF vars, schedVars
<1>9. ASSUME NEW head \in late, StoredLate(head) PROVE AgreeInv'
  <2>1. UNCHANGED <<mem, disk, served, promised, kept, unsaved, lost, early>>
    BY <1>9 DEF StoredLate, schedVars
  <2>2. {mirror'} \union late' \subseteq late
    BY <1>9 DEF StoredLate
  <2>3. QED
    BY <1>n, <2>1, <2>2 DEF AgreeInv, Ahead, Follows, Head
<1>10. QED
  BY <1>1, <1>2, <1>3, <1>4, <1>5, <1>6, <1>7, <1>8, <1>9 DEF ServedNext

\* No request is sent inside a cooldown the daemon reckoned and saved.
THEOREM CooldownsHold == ServedSpec => []CooldownHonoured
<1>1. AgreeInv => CooldownHonoured
  BY DEF AgreeInv, CooldownHonoured
<1>2. QED
  BY <1>1, InitAgrees, NextAgrees, PTL DEF ServedSpec

\* The mirror holds nothing that the state file does not.
THEOREM MirrorSaved == ServedSpec => []MirrorIsSaved
<1>1. AgreeInv => MirrorIsSaved
  BY DEF AgreeInv, MirrorIsSaved, Ahead, Follows, Head, TypeInv, TypeOK, States, Snapshots
<1>2. QED
  BY <1>1, InitAgrees, NextAgrees, PTL DEF ServedSpec

\* What a client and, but for late PUTs, the mirror hold only advances, over kills
\* too.
THEOREM HeadsOnlyAdvance == ServedSpec => HeadsAdvance
<1>1. AgreeInv /\ [ServedNext]_vars =>
        [~lost' => /\ Follows(served', served)
                   /\ late \subseteq late' => Follows(mirror', mirror)]_vars
  <2> SUFFICES ASSUME AgreeInv, ServedNext, ~lost'
               PROVE  /\ Follows(served', served)
                      /\ late \subseteq late' => Follows(mirror', mirror)
    OBVIOUS
  <2>1. Follows(served, served) /\ Follows(mirror, mirror)
    BY DEF Follows
  <2>2. CASE Read
    BY <2>1, <2>2 DEF Read, AgreeInv, Ahead
  <2>3. CASE Published
    BY <2>1, <2>3 DEF Published, AgreeInv, Ahead
  <2>4. ASSUME NEW head \in late, StoredLate(head)
        PROVE  Follows(served', served) /\ ~(late \subseteq late')
    BY <2>1, <2>4 DEF StoredLate
  <2>5. CASE ~Read /\ ~Published /\ ~\E head \in late : StoredLate(head)
    BY <2>1, <2>5 DEF ServedNext, Answered, Limited, Request, Saved, Killed, Unobserved, history
  <2>6. QED
    BY <2>2, <2>3, <2>4, <2>5
<1>2. QED
  BY <1>1, InitAgrees, NextAgrees, PTL DEF ServedSpec, HeadsAdvance
=============================================================================
