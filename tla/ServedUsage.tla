---------------------------- MODULE ServedUsage -----------------------------
(***************************************************************************)
(* The scheduler with the parties around it: the providers, whose 429s     *)
(* name an instant before which they refuse requests; a client that reads  *)
(* GET /v1/usage; and the mirror snapshots are published to                *)
(* (contrib/receiver).  None of them is restarted with the daemon, so what *)
(* they were told is the measure of what a kill may lose.                  *)
(***************************************************************************)
EXTENDS Scheduler

CONSTANT MaxLate   \* bound: PUTs the mirror serves late at any time

VARIABLES
    served,     \* seq and rev the client read last
    mirror,     \* seq and rev the mirror stored last
    late,       \* PUTs the daemon gave up on that the mirror is still serving
    limit,      \* instant until which each provider refuses requests
    promised,   \* the same deadline as the daemon reckons it
    kept,       \* the deadlines the last successful save wrote
    unsaved,    \* the last save failed
    lost,       \* a kill struck while the last save had failed
    early,      \* a request was sent before the deadline the daemon reckoned
    impatient   \* a request was sent before the instant the provider named

history == <<served, mirror, late, limit, promised, kept, unsaved, lost, early,
             impatient>>
vars == <<schedVars, history>>

\* The header of a snapshot that clients compare.
Head(snap) == [seq |-> snap.seq, rev |-> snap.rev]
NothingRead == Head(EmptySnapshot)

ServedInit ==
    /\ Init
    /\ served = NothingRead
    /\ mirror = NothingRead
    /\ late = {}
    /\ limit = [p \in Providers |-> 0]
    /\ promised = [p \in Providers |-> 0]
    /\ kept = [p \in Providers |-> 0]
    /\ unsaved = FALSE
    /\ lost = FALSE
    /\ early = FALSE
    /\ impatient = FALSE
-----------------------------------------------------------------------------
\* Scheduler.Current under the read lock.
Read ==
    /\ served' = Head(mem.snap)
    /\ UNCHANGED <<schedVars, mirror, late, limit, promised, kept, unsaved, lost,
                   early, impatient>>

\* A request reaches provider p.
Request(p) ==
    /\ early' = (early \/ poll.now < promised[p])
    /\ impatient' = (impatient \/ clock < limit[p])
    /\ UNCHANGED <<served, mirror, late, kept, unsaved, lost>>

Answered(p) ==
    /\ \/ \E usage \in Usages : AnswerOk(p, usage)
       \/ \E status \in Failures : AnswerFail(p, status)
    /\ Request(p)
    /\ UNCHANGED <<limit, promised>>

\* The provider counts Retry-After from its answer, the daemon from its poll.
Limited(p, delay) ==
    /\ AnswerLimited(p, delay)
    /\ Request(p)
    /\ limit' = [limit EXCEPT ![p] = clock + delay]
    /\ promised' = [promised EXCEPT ![p] = poll.now + delay]

Saved ==
    /\ ApplyAndSave
    /\ unsaved' = (saveFailures' # saveFailures)
    /\ kept' = IF saveFailures' = saveFailures THEN promised ELSE kept
    /\ UNCHANGED <<served, mirror, late, limit, promised, lost, early, impatient>>

\* The PUT is stored, or lost, or given up after 5 s while the mirror serves it.
Published ==
    /\ Publish
    /\ \/ mirror' \in {mirror, Head(mem.snap)} /\ UNCHANGED late
       \/ /\ Cardinality(late) < MaxLate
          /\ late' = late \union {Head(mem.snap)}
          /\ UNCHANGED mirror
    /\ UNCHANGED <<served, limit, promised, kept, unsaved, lost, early, impatient>>

\* The receiver stores whatever it was sent, in the order its handlers finish.
StoredLate(head) ==
    /\ mirror' = head
    /\ late' = late \ {head}
    /\ UNCHANGED <<schedVars, served, limit, promised, kept, unsaved, lost,
                   early, impatient>>

\* A kill forgets what was not saved, and only then.
Killed ==
    /\ Restart
    /\ promised' = kept
    /\ lost' = (lost \/ unsaved)
    /\ unsaved' = FALSE
    /\ UNCHANGED <<served, mirror, late, limit, kept, early, impatient>>

Unobserved ==
    /\ \/ RunPoll
       \/ \E p \in Providers : SkipFetch(p) \/ Age(p)
       \/ EndPoll
       \/ \E h \in Handlers : HandlerStep(h)
       \/ Tick
    /\ UNCHANGED history

ServedNext ==
    \/ Read
    \/ \E p \in Providers :
           Answered(p) \/ \E delay \in RetryAfter : Limited(p, delay)
    \/ Saved
    \/ Published
    \/ \E head \in late : StoredLate(head)
    \/ Killed
    \/ Unobserved

ServedSpec == ServedInit /\ [][ServedNext]_vars
-----------------------------------------------------------------------------
(* Properties *)

Follows(new, old) == new.seq > old.seq \/ new = old

\* A client that read a seq never sees it again with another revision, nor a
\* smaller one, over kills of the daemon too: apply and save share one section of
\* mu (scheduler.go:192-201), so nothing is shown that a restart would forget.  A
\* save that failed is logged at debug level only; a kill after it is excluded.
\* The mirror goes back only when a PUT the daemon gave up on is stored after a
\* newer one (main.go:54-75 of the receiver compares nothing): every other PUT
\* advances it, also after a kill (scheduler.go:204-206, 409-448).
HeadsAdvance ==
    [][~lost' => /\ Follows(served', served)
                 /\ late \subseteq late' => Follows(mirror', mirror)]_vars

\* The mirror never holds what the state file does not: the PUT follows the save
\* (scheduler.go:196-206).
MirrorIsSaved == ~lost /\ ~unsaved => mirror.seq <= disk.snap.seq

\* No request is sent inside a cooldown, by the Run loop or by a refresh, before
\* or after a kill, once the cooldown was saved (scheduler.go:116-124, 156-160,
\* LoadState 335-343).
CooldownHonoured == ~early

\* README.md:436 "the scheduler honors Retry-After": no request is sent before the
\* instant the provider named (claude.go:123-129, codex.go:102-108).
RetryAfterHonoured == ~impatient

\* types.go:59 and 101 of the one v1 contract: every block served has a known kind.
ServedKindsValid ==
    \A p \in Listed(mem.snap.blocks) : mem.snap.blocks[p].kind \in Kinds
=============================================================================
