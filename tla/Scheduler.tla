------------------------------ MODULE Scheduler ------------------------------
(***************************************************************************)
(* The daemon's poll loop (internal/sched/scheduler.go), its snapshot      *)
(* (internal/snapshot), and the callers that share it: the Run goroutine,  *)
(* the API handlers that ask for a refresh or install a new configuration, *)
(* and the clients that read the current snapshot.                         *)
(*                                                                         *)
(* A poll is one critical section of pollMu in which every provider is     *)
(* fetched by a goroutine of its own; the results are applied and saved in *)
(* one critical section of mu, then published.  The daemon may be killed   *)
(* between any two steps and starts again from the state file.             *)
(***************************************************************************)
EXTENDS Integers, FiniteSets

CONSTANTS
    Providers,        \* provider ids, one fetcher each
    KindOf,           \* the kind every block of a fetcher carries
    Usages,           \* the readings a fetch can return
    Failures,         \* the statuses of a fetch that fails
    RetryAfter,       \* the cooldowns a 429 can ask for
    Intervals,        \* the poll intervals the config accepts
    Orders,           \* display positions a user can choose
    FetcherLists,     \* the sets of enabled providers a config can name
    Handlers,         \* API request goroutines
    Runner,           \* the goroutine of Scheduler.Run
    Nobody, NoBlock, NoRev,
    MaxClock,         \* bound: the last instant modelled
    MaxCalls,         \* bound: refreshes and configurations clients ask for
    MaxCrashes,       \* bound: kills of the daemon
    MaxSaveFailures   \* bound: state file writes that fail

Kinds == {"plan", "credit", "free"}
NoKind == "unset"     \* the zero value of Provider.Kind
NoUsage == -1         \* a block without rows
Statuses == {"ok", "stale", "auth", "error"}

Time == 0..MaxClock
\* Deadlines lie at most one cooldown after an instant.
Deadlines == Nat

Blocks == [kind    : Kinds \union {NoKind},
           status  : Statuses,
           usage   : Usages \union {NoUsage},
           fetched : Time]

Positions == [Providers -> Nat]
Callers == Handlers \union {Runner}

ASSUME ProviderAssumption == IsFiniteSet(Providers)
ASSUME KindAssumption == KindOf \in [Providers -> Kinds]
ASSUME UsageAssumption == Usages \subseteq Nat
ASSUME FailureAssumption == Failures \subseteq {"auth", "error"}
ASSUME TimingAssumption ==
    /\ MaxClock \in Nat
    /\ RetryAfter \subseteq Nat \ {0}
    /\ Intervals \subseteq Nat \ {0}
    /\ Intervals # {}
ASSUME ConfigAssumption ==
    /\ Orders \subseteq Positions
    /\ Orders # {}
    /\ FetcherLists \subseteq SUBSET Providers
    /\ FetcherLists # {}
ASSUME NameAssumption ==
    /\ Nobody \notin Callers
    /\ Runner \notin Handlers
    /\ NoBlock \notin Blocks
ASSUME BoundAssumption == {MaxCalls, MaxCrashes, MaxSaveFailures} \subseteq Nat

VARIABLES
    clock,       \* wall time
    config,      \* interval, fetchers and display order in force
    saved,       \* the same three as config.yaml has them
    mem,         \* Scheduler.State in memory
    disk,        \* the state file
    pollMu,      \* who holds the poll mutex
    poll,        \* the poll in progress: its instant, phase, fetchers' stages
    pc,          \* what each caller is doing
    arg,         \* the configuration a handler saved and has yet to install
    wakeAt,      \* when the Run loop's timer fires
    calls, crashes, saveFailures

schedVars == <<clock, config, saved, mem, disk, pollMu, poll, pc, arg, wakeAt,
               calls, crashes, saveFailures>>
-----------------------------------------------------------------------------
(* Provider blocks *)

Block(kind, status, usage, at) ==
    [kind |-> kind, status |-> status, usage |-> usage, fetched |-> at]

\* A cooldown hit before any good answer yields only id, status, msg and time.
BareBlock(now) == Block(NoKind, "stale", NoUsage, now)

\* Mutant: the marker is a word the contract does not have.
StaleMisnamed(block) == [block EXCEPT !.status = "expired"]
Stale(block) == [block EXCEPT !.status = "stale"]

\* A block whose data is older than twice the interval is stale whatever it says.
Aged(block, now) ==
    IF now - block.fetched > 2 * config.interval THEN Stale(block) ELSE block

\* Mutants: the last good block goes out unmarked; it is not used at all.
FallbackUnmarked(lastGood, failed) == IF lastGood = NoBlock THEN failed ELSE lastGood
FallbackForgotten(lastGood, failed) == failed

\* Fetch failed: serve the last good block, marked, when there is one.
Fallback(lastGood, failed) ==
    IF lastGood = NoBlock THEN failed ELSE Stale(lastGood)
-----------------------------------------------------------------------------
(* Display order and revision *)

KindRank(kind) ==
    CASE kind = "plan" -> 0 [] kind = "credit" -> 1 [] kind = "free" -> 2
      [] OTHER -> 3

\* advise.Rank considers plans with fresh or stale rows only.
Ranked(b) == b.kind = "plan" /\ b.status \in {"ok", "stale"} /\ b.usage # NoUsage

\* Headroom orders plans: the less used, the earlier.
Before(blocks, order, p, q) ==
    LET b == blocks[p]
        c == blocks[q]
        byUser == order[p] < order[q]
    IN  \/ KindRank(b.kind) < KindRank(c.kind)
        \/ /\ KindRank(b.kind) = KindRank(c.kind)
           /\ \/ KindRank(b.kind) # 0 /\ byUser
              \/ KindRank(b.kind) = 0 /\ Ranked(b) /\ ~Ranked(c)
              \/ /\ KindRank(b.kind) = 0
                 /\ Ranked(b) /\ Ranked(c)
                 /\ b.usage < c.usage \/ (b.usage = c.usage /\ byUser)
              \/ KindRank(b.kind) = 0 /\ ~Ranked(b) /\ ~Ranked(c) /\ byUser

\* A snapshot holds a block for each provider of the list it was polled from.
Listed(blocks) == {p \in Providers : blocks[p] # NoBlock}

\* Position of every block in the list all surfaces show.
orderProviders(blocks, order) ==
    [p \in Providers |->
        IF p \in Listed(blocks)
        THEN Cardinality({q \in Listed(blocks) : Before(blocks, order, q, p)})
        ELSE 0]

\* What the revision hash covers: everything shown but messages and times.
Hashed(block) ==
    IF block = NoBlock THEN NoBlock
    ELSE <<block.kind, block.status, block.usage>>
Rev(blocks, order) == [shown |-> [p \in Providers |-> Hashed(blocks[p])],
                       at    |-> orderProviders(blocks, order)]

\* Snapshot.Apply: seq and generated_at move only with the revision.
Apply(snap, blocks, order, now) ==
    LET rev == Rev(blocks, order)
        changed == rev # snap.rev
    IN  [seq       |-> IF changed THEN snap.seq + 1 ELSE snap.seq,
         rev       |-> rev,
         generated |-> IF changed THEN now ELSE snap.generated,
         checked   |-> now,
         blocks    |-> blocks]

EmptySnapshot ==
    [seq |-> 0, rev |-> NoRev, generated |-> 0, checked |-> 0,
     blocks |-> [p \in Providers |-> NoBlock]]
EmptyState ==
    [snap     |-> EmptySnapshot,
     cooldown |-> [p \in Providers |-> 0],
     lastGood |-> [p \in Providers |-> NoBlock]]
-----------------------------------------------------------------------------
(* Start-up *)

IdlePoll == [now |-> 0, phase |-> "idle",
             stage |-> [p \in Providers |-> "none"],
             result |-> [p \in Providers |-> NoBlock]]

Configs == [interval : Intervals, fetchers : FetcherLists, order : Orders]
NoArg == [interval |-> 0, fetchers |-> {}, order |-> [p \in Providers |-> 0]]

Init ==
    /\ clock = 0
    /\ config \in Configs
    /\ saved = config
    /\ mem = EmptyState
    /\ disk = EmptyState
    /\ pollMu = Nobody
    /\ poll = IdlePoll
    /\ pc = [c \in Callers |-> "idle"]
    /\ arg = [h \in Handlers |-> NoArg]
    /\ wakeAt = 0
    /\ calls = 0
    /\ crashes = 0
    /\ saveFailures = 0
-----------------------------------------------------------------------------
(* A poll, performed by the caller that holds pollMu *)

\* pollOnce up to the launch of the fetch goroutines.
BeginPoll(c) ==
    /\ pollMu' = c
    /\ pc' = [pc EXCEPT ![c] = "polling"]
    /\ poll' = [now |-> clock, phase |-> "fetch",
                stage |-> [p \in Providers |->
                             IF p \in config.fetchers THEN "start" ELSE "none"],
                result |-> [p \in Providers |-> NoBlock]]

\* A fetch goroutine first reads its cooldown and its last good block.  Nobody
\* else writes either before the poll ends, so the answer can be modelled in the
\* same step as that read.
Quiet(p) == mem.cooldown[p] > poll.now
Requested(p) == poll.stage[p] = "start" /\ ~Quiet(p)

\* While a cooldown is in force no request is made.
SkipFetch(p) ==
    /\ poll.stage[p] = "start"
    /\ Quiet(p)
    /\ poll' = [poll EXCEPT
                  !.stage[p] = "age",
                  !.result[p] = Fallback(mem.lastGood[p], BareBlock(poll.now))]
    /\ UNCHANGED <<clock, config, saved, mem, disk, pollMu, pc, arg, wakeAt,
                   calls, crashes, saveFailures>>

\* The provider answered: remember the good block.
AnswerOk(p, usage) ==
    LET block == Block(KindOf[p], "ok", usage, poll.now)
    IN  /\ Requested(p)
        /\ poll' = [poll EXCEPT !.stage[p] = "age", !.result[p] = block]
        /\ mem' = [mem EXCEPT !.lastGood[p] = block]
        /\ UNCHANGED <<clock, config, saved, disk, pollMu, pc, arg, wakeAt,
                       calls, crashes, saveFailures>>

\* The request failed, or the credentials did.
AnswerFail(p, status) ==
    /\ Requested(p)
    /\ poll' = [poll EXCEPT
                  !.stage[p] = "age",
                  !.result[p] = Fallback(mem.lastGood[p],
                                   Block(KindOf[p], status, NoUsage, poll.now))]
    /\ UNCHANGED <<clock, config, saved, mem, disk, pollMu, pc, arg, wakeAt,
                   calls, crashes, saveFailures>>

\* 429, which only the fetchers of plans make a cooldown of (claude.go:122, codex.go:101):
\* the deadline counts from the poll's instant, not from the answer's.
AnswerLimited(p, delay) ==
    /\ Requested(p)
    /\ KindOf[p] = "plan"
    /\ poll' = [poll EXCEPT
                  !.stage[p] = "age",
                  !.result[p] = Fallback(mem.lastGood[p],
                                   Block(KindOf[p], "error", NoUsage, poll.now))]
    /\ mem' = [mem EXCEPT !.cooldown[p] = poll.now + delay]
    /\ UNCHANGED <<clock, config, saved, disk, pollMu, pc, arg, wakeAt,
                   calls, crashes, saveFailures>>

\* The staleness check reads the interval without a lock.
Age(p) ==
    /\ poll.stage[p] = "age"
    /\ poll' = [poll EXCEPT !.stage[p] = "done",
                            !.result[p] = Aged(poll.result[p], poll.now)]
    /\ UNCHANGED <<clock, config, saved, mem, disk, pollMu, pc, arg, wakeAt,
                   calls, crashes, saveFailures>>

\* The blocks of the poll, for the fetchers of the list that produced one.
Collected ==
    [p \in Providers |-> IF p \in config.fetchers /\ poll.stage[p] = "done"
                         THEN poll.result[p] ELSE NoBlock]

\* Mutant: the poll also waits for providers it did not start.
AllFetchedAwaitsAll == \A p \in Providers : poll.stage[p] = "done"

AllFetched == \A p \in Providers : poll.stage[p] \in {"none", "done"}

\* Mutants: the file lacks the cooldowns; it is written before the blocks apply.
PersistWithoutCooldowns(state) ==
    /\ disk' = [state EXCEPT !.cooldown = [p \in Providers |-> 0]]
    /\ UNCHANGED saveFailures
PersistBeforeApply(state) ==
    /\ disk' = [state EXCEPT !.snap = mem.snap]
    /\ UNCHANGED saveFailures

\* Written to a temporary file and renamed: the file is the old or the new one.
Persist(state) ==
    \/ disk' = state /\ UNCHANGED saveFailures
    \/ /\ saveFailures < MaxSaveFailures
       /\ saveFailures' = saveFailures + 1
       /\ UNCHANGED disk

\* The section of mu that ends a poll: apply the blocks and save the state.
ApplyAndSave ==
    /\ poll.phase = "fetch"
    /\ AllFetched
    /\ LET snap == Apply(mem.snap, Collected, config.order, poll.now)
           state == [mem EXCEPT !.snap = snap]
       IN  /\ mem' = state
           /\ Persist(state)
           /\ poll' = [poll EXCEPT
                         !.phase = IF snap.seq > mem.snap.seq
                                   THEN "publish" ELSE "finish"]
    /\ UNCHANGED <<clock, config, saved, pollMu, pc, arg, wakeAt, calls, crashes>>

\* The PUT to the mirror: whatever it returns, the poll goes on.
Publish ==
    /\ poll.phase = "publish"
    /\ poll' = [poll EXCEPT !.phase = "finish"]
    /\ UNCHANGED <<clock, config, saved, mem, disk, pollMu, pc, arg, wakeAt,
                   calls, crashes, saveFailures>>

\* The deferred unlock; the Run loop rearms its timer.
EndPoll ==
    /\ poll.phase = "finish"
    /\ pollMu' = Nobody
    /\ poll' = IdlePoll
    /\ pc' = [pc EXCEPT ![pollMu] = "idle"]
    /\ wakeAt' = IF pollMu = Runner THEN clock + config.interval ELSE wakeAt
    /\ UNCHANGED <<clock, config, saved, mem, disk, arg, calls, crashes, saveFailures>>
-----------------------------------------------------------------------------
(* Callers *)

\* Mutant: the timer's poll is dropped, like a refresh, when one is running.
RunPollCoalesces ==
    /\ pc[Runner] = "idle"
    /\ clock >= wakeAt
    /\ \/ /\ pollMu = Nobody
          /\ BeginPoll(Runner)
          /\ UNCHANGED wakeAt
       \/ /\ pollMu # Nobody
          /\ wakeAt' = clock + config.interval
          /\ UNCHANGED <<pollMu, poll, pc>>
    /\ UNCHANGED <<clock, config, saved, mem, disk, arg, calls, crashes, saveFailures>>

\* Scheduler.Run: PollOnce on start-up and whenever the timer fires.
RunPoll ==
    /\ pc[Runner] = "idle"
    /\ clock >= wakeAt
    /\ pollMu = Nobody
    /\ BeginPoll(Runner)
    /\ UNCHANGED <<clock, config, saved, mem, disk, arg, wakeAt, calls, crashes,
                   saveFailures>>

\* Refresh with the mutex free: poll now.
RefreshRuns(h) ==
    /\ pollMu = Nobody
    /\ BeginPoll(h)
    /\ UNCHANGED <<clock, config, saved, mem, disk, arg, wakeAt, crashes, saveFailures>>

\* A client asks for a refresh; while a poll runs the answer is "coalesced" and
\* nothing else happens.
AskRefresh(h) ==
    /\ pc[h] = "idle"
    /\ calls < MaxCalls
    /\ calls' = calls + 1
    /\ RefreshRuns(h)

\* The background refresh of a new configuration.
KickRuns(h) ==
    /\ pc[h] = "kick"
    /\ RefreshRuns(h)
    /\ UNCHANGED calls

KickCoalesces(h) ==
    /\ pc[h] = "kick"
    /\ pollMu # Nobody
    /\ pc' = [pc EXCEPT ![h] = "idle"]
    /\ UNCHANGED <<clock, config, saved, mem, disk, pollMu, poll, arg, wakeAt,
                   calls, crashes, saveFailures>>

\* A PUT of the configuration is written to config.yaml before any of it is in
\* force.
PutSaves(h, new) ==
    /\ pc[h] = "idle"
    /\ calls < MaxCalls
    /\ calls' = calls + 1
    /\ saved' = new
    /\ pc' = [pc EXCEPT ![h] = "apply"]
    /\ arg' = [arg EXCEPT ![h] = new]
    /\ UNCHANGED <<clock, config, mem, disk, pollMu, poll, wakeAt,
                   crashes, saveFailures>>

\* The interval comes into force at once, under mu alone, so a running poll may read
\* either value; the lists wait for the poll mutex.
PutApplies(h) ==
    /\ pc[h] = "apply"
    /\ config' = [config EXCEPT !.interval = arg[h].interval]
    /\ pc' = [pc EXCEPT ![h] = "setFetchers"]
    /\ UNCHANGED <<clock, saved, mem, disk, pollMu, poll, arg, wakeAt,
                   calls, crashes, saveFailures>>

\* Mutant: the fetcher list is replaced under a running poll.
SetFetchersUnlocked(h) ==
    /\ pc[h] = "setFetchers"
    /\ config' = [config EXCEPT !.fetchers = arg[h].fetchers]
    /\ pc' = [pc EXCEPT ![h] = "setOrder"]
    /\ UNCHANGED <<clock, saved, mem, disk, pollMu, poll, arg, wakeAt,
                   calls, crashes, saveFailures>>

\* rebuildFetchers: two sections of pollMu, one per list, then a background
\* Refresh so that the change shows without waiting for the timer.
SetFetchers(h) ==
    /\ pc[h] = "setFetchers"
    /\ pollMu = Nobody
    /\ config' = [config EXCEPT !.fetchers = arg[h].fetchers]
    /\ pc' = [pc EXCEPT ![h] = "setOrder"]
    /\ UNCHANGED <<clock, saved, mem, disk, pollMu, poll, arg, wakeAt,
                   calls, crashes, saveFailures>>

SetProviderOrder(h) ==
    /\ pc[h] = "setOrder"
    /\ pollMu = Nobody
    /\ config' = [config EXCEPT !.order = arg[h].order]
    /\ pc' = [pc EXCEPT ![h] = "kick"]
    /\ arg' = [arg EXCEPT ![h] = NoArg]
    /\ UNCHANGED <<clock, saved, mem, disk, pollMu, poll, wakeAt,
                   calls, crashes, saveFailures>>
-----------------------------------------------------------------------------
(* Environment *)

Tick ==
    /\ clock < MaxClock
    /\ clock' = clock + 1
    /\ UNCHANGED <<config, saved, mem, disk, pollMu, poll, pc, arg, wakeAt,
                   calls, crashes, saveFailures>>

\* Mutant: only the maps of the state file are loaded.
LoadMaps == [disk EXCEPT !.snap = EmptySnapshot]

\* snapshot.Load and Scheduler.LoadState.
LoadState == disk

\* Mutant: the fetchers are those of before the kill.
RestartKeepsList ==
    /\ crashes < MaxCrashes
    /\ crashes' = crashes + 1
    /\ mem' = LoadState
    /\ pollMu' = Nobody
    /\ poll' = IdlePoll
    /\ pc' = [c \in Callers |-> "idle"]
    /\ arg' = [h \in Handlers |-> NoArg]
    /\ wakeAt' = clock
    /\ UNCHANGED <<clock, config, saved, disk, calls, saveFailures>>

\* The daemon is killed; launchd starts it again, which builds the fetchers from
\* config.yaml and loads the state file.
Restart ==
    /\ crashes < MaxCrashes
    /\ crashes' = crashes + 1
    /\ config' = saved
    /\ mem' = LoadState
    /\ pollMu' = Nobody
    /\ poll' = IdlePoll
    /\ pc' = [c \in Callers |-> "idle"]
    /\ arg' = [h \in Handlers |-> NoArg]
    /\ wakeAt' = clock
    /\ UNCHANGED <<clock, saved, disk, calls, saveFailures>>
-----------------------------------------------------------------------------
AnswerStep(p) ==
    \/ \E usage \in Usages : AnswerOk(p, usage)
    \/ \E status \in Failures : AnswerFail(p, status)
    \/ \E delay \in RetryAfter : AnswerLimited(p, delay)

PollStep ==
    \/ \E p \in Providers : SkipFetch(p) \/ AnswerStep(p) \/ Age(p)
    \/ ApplyAndSave
    \/ Publish
    \/ EndPoll

HandlerStep(h) ==
    \/ AskRefresh(h)
    \/ KickRuns(h)
    \/ KickCoalesces(h)
    \/ \E new \in Configs : PutSaves(h, new)
    \/ PutApplies(h)
    \/ SetFetchers(h)
    \/ SetProviderOrder(h)

Next ==
    \/ RunPoll
    \/ PollStep
    \/ \E h \in Handlers : HandlerStep(h)
    \/ Tick
    \/ Restart

\* Every fetch returns: its context is cancelled after 20 s.  sync.Mutex hands
\* itself to a waiter that starves, so a blocked Lock eventually succeeds even
\* when other callers keep taking the mutex.
Fairness ==
    /\ WF_schedVars(PollStep)
    /\ SF_schedVars(RunPoll)
    /\ \A h \in Handlers :
          /\ WF_schedVars(PutApplies(h))
          /\ SF_schedVars(SetFetchers(h))
          /\ SF_schedVars(SetProviderOrder(h))
          /\ WF_schedVars(KickRuns(h) \/ KickCoalesces(h))

Spec == Init /\ [][Next]_schedVars
FairSpec == Spec /\ Fairness
-----------------------------------------------------------------------------
(* Properties *)

Revs == [shown : [Providers -> ((Kinds \union {NoKind}) \X Statuses
                                  \X (Usages \union {NoUsage})) \union {NoBlock}],
         at    : [Providers -> Nat]]

Snapshots == [seq       : Nat,
              rev       : Revs \union {NoRev},
              generated : Time,
              checked   : Time,
              blocks    : [Providers -> Blocks \union {NoBlock}]]

States == [snap     : Snapshots,
           cooldown : [Providers -> Deadlines],
           lastGood : [Providers -> Blocks \union {NoBlock}]]

Polls == [now    : Time,
          phase  : {"idle", "fetch", "publish", "finish"},
          stage  : [Providers -> {"none", "start", "age", "done"}],
          result : [Providers -> Blocks \union {NoBlock}]]

Args == Configs \union {NoArg}

\* Every variable stays in the domain the code gives it.
TypeOK ==
    /\ clock \in Time
    /\ config \in Configs
    /\ saved \in Configs
    /\ mem \in States
    /\ disk \in States
    /\ pollMu \in Callers \union {Nobody}
    /\ poll \in Polls
    /\ pc \in [Callers -> {"idle", "polling", "apply", "setFetchers", "setOrder", "kick"}]
    /\ arg \in [Handlers -> Args]
    /\ wakeAt \in Nat
    /\ calls \in Nat
    /\ crashes \in Nat
    /\ saveFailures \in Nat

\* A block shown as "ok" was answered in the very poll that checked it, in memory
\* and in the file a restart will serve (scheduler.go:124-168): an error, a
\* cooldown or a restart can never pass an old reading off as current.
FreshBlocks(snap) ==
    \A p \in Listed(snap.blocks) :
        snap.blocks[p].status = "ok" => snap.blocks[p].fetched = snap.checked
OkMeansFresh == FreshBlocks(mem.snap) /\ FreshBlocks(disk.snap)

\* Between polls every provider that ever answered shows its latest good reading,
\* with the time it was taken, whatever failed since (scheduler.go:126, 146-154,
\* and the last-good map a restart loads, 335-343).
ShowsLastGood(state) ==
    \A p \in Listed(state.snap.blocks) :
        LET good == state.lastGood[p]
            b == state.snap.blocks[p]
        IN  IF good = NoBlock THEN b.usage = NoUsage
            ELSE b.usage = good.usage /\ b.fetched = good.fetched
LastGoodIsShown ==
    /\ pollMu = Nobody => ShowsLastGood(mem)
    /\ ShowsLastGood(disk)

\* A poll reports exactly the providers of the list in force when it ends, which
\* is the one it began with (the comment at scheduler.go:356-358 says why the
\* setters take pollMu): a list installed while it ran never drops or invents a
\* block, and a background refresh that coalesces into a running poll has joined
\* one that reads the new list (scheduler.go:178-184, 356-363).
PollCoversList ==
    [][poll.phase = "fetch" /\ poll'.phase \in {"publish", "finish"}
         => Listed(mem'.snap.blocks) = config'.fetchers]_schedVars

\* The list a PUT /v1/config wrote to config.yaml is put in force and a snapshot of
\* just its providers follows, although polls and refreshes keep taking the mutex and
\* the daemon may be killed at any point after the write (scheduler.go:359-373,
\* server.go:870-881 rebuildFetchers, serve.go:29 and 69-76).  It need not be when a
\* later PUT wrote another list, or while a PUT that brings another list is on its way
\* too: nothing orders the setters of two PUTs as their writes were.
Installing(list) ==
    \E h \in Handlers : pc[h] \in {"apply", "setFetchers"} /\ arg[h].fetchers = list
PutIsReflected ==
    \A list \in FetcherLists :
        Installing(list) ~>
            \/ config.fetchers = list /\ Listed(mem.snap.blocks) = list
            \/ saved.fetchers # list
            \/ \E other \in FetcherLists \ {list} : Installing(other)

\* However many refreshes are served, a due timer of the Run loop leads to a poll
\* of its own (scheduler.go:377-388).
TimerLeadsToPoll ==
    (pollMu # Runner /\ clock >= wakeAt) ~> (pollMu = Runner)

\* Every poll gives the mutex back (scheduler.go:84-88, 326-333).
PollEnds == (pollMu # Nobody) ~> (pollMu = Nobody)
=============================================================================
