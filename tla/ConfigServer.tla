---------------------------- MODULE ConfigServer ----------------------------
(***************************************************************************)
(* The handlers that change the configuration of a running daemon, the     *)
(* file they save it in, and the restarts that read it back.               *)
(*                                                                         *)
(* PUT /v1/config writes a whole new file under a temporary name, renames  *)
(* it over config.yaml and then changes the running configuration.         *)
(* PUT /v1/config/interval changes the running interval first and then     *)
(* edits config.yaml in place.  POST and DELETE /v1/keys change the        *)
(* keychain.  All of them but the interval's end by building the fetchers  *)
(* again.  net/http runs them concurrently and none of them takes a lock:  *)
(* the temporary file has the same name for every PUT of a process.        *)
(*                                                                         *)
(* A daemon may be killed at any step and started again: it then has what  *)
(* the file says (Loaded), or refuses to start.  The copy of the file that *)
(* a save leaves beside it (config.yaml.bak.<time>) is never read and not  *)
(* modelled.                                                               *)
(***************************************************************************)
EXTENDS ConfigYaml

CONSTANTS
    Handlers,     \* requests served at the same time
    Requests,     \* bodies of PUT /v1/config
    Intervals,    \* bodies of PUT /v1/config/interval
    KeyIds,       \* provider ids of POST and DELETE /v1/keys
    HandFiles,    \* what the owner may write in config.yaml by hand
    Inodes,       \* files that may exist, open ones included
    None,         \* no such file
    MaxChanges,   \* bound: requests in a behaviour
    MaxStops      \* bound: times the daemon stops

ASSUME ConfigServerAssumption ==
    None \notin Inodes /\ MaxChanges \in Nat /\ MaxStops \in Nat

PlanBodies == [cost : Int, currency : Words, label : Words, usd : Seq(Int)]
ProviderBodies ==
    [id : Words, enabled : Seq(BOOLEAN), label : Words, keyEnv : Words,
     probe : Seq(BOOLEAN), plan : Seq(PlanBodies)]

\* What a JSON body unmarshals to, and the fields of a file.
ASSUME BodyAssumption ==
    /\ \A req \in Requests :
          /\ req.interval_sec \in Int /\ {req.listen, req.tz} \subseteq Words
          /\ \A k \in DOMAIN req.alerts : req.alerts[k] \in Int
          /\ req.providers \in Seq(ProviderBodies)
          /\ req.provider_order \in Seq(Words)
    /\ Intervals \subseteq Int
    /\ \A fc \in HandFiles : DOMAIN fc = DOMAIN NoFile

VARIABLES
    up,        \* the daemon runs
    cfg,       \* Server.cfg
    sched,     \* Scheduler.Interval and .ProviderOrder
    fetchers,  \* Scheduler.Fetchers
    keys,      \* the keychain: providers with a key
    unsure,    \* providers whose key the last build could not read, or that a
               \* failed request has changed since
    path,      \* the inode named config.yaml
    tmp,       \* the inode named config.yaml.tmp.<pid>
    content,   \* what is in each inode
    job,       \* what each handler is doing
    settled,   \* no change has met another or left the file behind
    current,   \* no change has met another since the fetchers were built
    used       \* requests and stops so far

vars == <<up, cfg, sched, fetchers, keys, unsure, path, tmp, content, job,
          settled, current, used>>

-----------------------------------------------------------------------------
(* Requests.                                                               *)

PctOk(req, key) ==
    key \in DOMAIN req.alerts => req.alerts[key] \in 50..100

\* What handleSetConfig accepts.  A literal key is refused wherever a
\* provider's "key" field has one.
Accepts(req) ==
    /\ ~req.literalKey
    /\ req.interval_sec = 0 \/ req.interval_sec >= MinInterval
    /\ DOMAIN req.alerts \subseteq AlertKeys
    /\ PctOk(req, "quota_warn_5h_pct") /\ PctOk(req, "quota_warn_weekly_pct")
    /\ "openrouter_low_usd" \in DOMAIN req.alerts => req.alerts.openrouter_low_usd >= 0
    /\ \A i \in DOMAIN req.providers : req.providers[i].id # NoText

First(opt, old) == IF opt = <<>> THEN old ELSE opt[1]

\* One provider of the body as the running configuration keeps it.
FromRequest(p) ==
    [id |-> p.id, enabled |-> First(p.enabled, TRUE), label |-> p.label,
     keyEnv |-> p.keyEnv,
     probe |-> First(p.probe, FALSE), hasProbe |-> p.probe # <<>>,
     plan |-> IF p.plan = <<>> THEN NoPlan
              ELSE <<[cost |-> p.plan[1].cost, currency |-> p.plan[1].currency,
                      label |-> p.plan[1].label,
                      usd |-> First(p.plan[1].usd, 0),
                      hasUsd |-> p.plan[1].usd # <<>>]>>]

Providers(req) == ById([i \in DOMAIN req.providers |-> FromRequest(req.providers[i])])

\* The file a PUT writes: what its body has, and nothing else.
FileOf(req) ==
    [interval_sec |-> req.interval_sec, listen |-> req.listen,
     device_token |-> NoText, tz |-> req.tz, alerts |-> req.alerts,
     providers |-> Overrides(Providers(req)),
     provider_order |-> req.provider_order]

\* The running configuration after it, a group of fields at a time.
WithGeneral(c, req) ==
    [c EXCEPT
        !.interval = IF req.interval_sec # 0 THEN req.interval_sec ELSE c.interval,
        !.listen   = Given(req.listen, c.listen),
        !.tz       = Zone(req.tz, c.tz)]
WithProviders(c, req) ==
    [c EXCEPT
        !.provs = Providers(req),
        !.order = IF req.provider_order # <<>> THEN req.provider_order ELSE c.order]
Applied(c, req) == WithAlerts(WithProviders(WithGeneral(c, req), req), req.alerts)

-----------------------------------------------------------------------------
(* Files.  A file that was opened for writing is empty until the write; an *)
(* empty file loads as the defaults.  A Doc was written by a PUT and loads *)
(* as its lines are parsed; a Hand-written one loads as it is; Torn is the *)
(* mixture of two writes or part of one.                                   *)

Empty     == [kind |-> "hand", fc |-> NoFile]
Torn      == [kind |-> "torn", fc |-> NoFile]
Doc(fc)   == [kind |-> "doc", fc |-> fc]
Hand(fc)  == [kind |-> "hand", fc |-> fc]

Config_yaml == IF path = None THEN Empty ELSE content[path]

\* What ParseYAML makes of it.
Readable(file) ==
    file.kind = "hand" \/ (file.kind = "doc" /\ Parsed(SerializeYAML(file.fc)).ok)

FieldsOf(file) ==
    IF file.kind = "doc" THEN Parsed(SerializeYAML(file.fc)).fc ELSE file.fc

\* The daemon would start on it.
Starts(file) == Readable(file) /\ Serves(Loaded(FieldsOf(file)))

\* Nobody names or holds it.
Fresh(i) == i \notin {path, tmp} /\ \A h \in Handlers : job[h].fd # i

-----------------------------------------------------------------------------
(* Handlers.                                                               *)

NoReq == [interval_sec |-> 0]

Idle == [pc |-> "idle", kind |-> "put", req |-> NoReq, fd |-> None,
         text |-> Empty, built |-> Fetchers(Defaults, {}), alone |-> TRUE,
         before |-> Empty, cfg0 |-> Defaults, answer |-> "none"]

Busy == {h \in Handlers : job[h].pc # "idle"}

\* h goes on to pc, or answers.
Goes(h, pc) == job' = [job EXCEPT ![h].pc = pc]
Answers(h, a) == job' = [job EXCEPT ![h] = [Idle EXCEPT !.answer = a]]

\* A request starts.  It is alone when no other runs at any time while it does;
\* only then does it matter what it found.
Begins(h, kind, pc, req) ==
    /\ up /\ h \notin Busy
    /\ used.changes < MaxChanges
    /\ used' = [used EXCEPT !.changes = @ + 1]
    /\ LET new == [Idle EXCEPT !.pc = pc, !.kind = kind, !.req = req]
       IN  job' = [g \in Handlers |->
                     IF g = h
                     THEN IF Busy = {}
                          THEN [new EXCEPT !.before = Config_yaml, !.cfg0 = cfg]
                          ELSE [new EXCEPT !.alone = FALSE]
                     ELSE IF g \in Busy
                          THEN [job[g] EXCEPT !.alone = FALSE, !.before = Empty,
                                              !.cfg0 = Defaults]
                          ELSE job[g]]
    /\ settled' = (settled /\ Busy = {})
    /\ current' = (current /\ Busy = {})

-----------------------------------------------------------------------------
(* PUT /v1/config.                                                         *)

PutBegins(h, req) ==
    /\ Accepts(req)
    /\ Begins(h, "put", "open", req)
    /\ UNCHANGED <<up, cfg, sched, fetchers, keys, unsure, path, tmp, content>>

PutRefused(h, req) ==
    /\ up /\ h \notin Busy /\ ~Accepts(req)
    /\ used.changes < MaxChanges
    /\ used' = [used EXCEPT !.changes = @ + 1]
    /\ Answers(h, "refused")
    /\ UNCHANGED <<up, cfg, sched, fetchers, keys, unsure, path, tmp, content,
                   settled, current>>

\* os.WriteFile opens the temporary file, cutting short what another PUT has
\* there, and then writes.
PutOpens(h) ==
    /\ job[h].pc = "open"
    /\ \E i \in Inodes :
          /\ IF tmp = None THEN Fresh(i) ELSE i = tmp
          /\ tmp' = i
          /\ content' = [content EXCEPT ![i] = Empty]
          /\ job' = [job EXCEPT ![h] = [@ EXCEPT !.pc = "write", !.fd = i]]
    /\ UNCHANGED <<up, cfg, sched, fetchers, keys, unsure, path, settled, current,
                   used>>

\* Mutant: config.yaml is removed first, to make room for the rename.
PutWritesAndClears(h) ==
    /\ job[h].pc = "write"
    /\ content' = [content EXCEPT ![job[h].fd] = Doc(FileOf(job[h].req))]
    /\ path' = None
    /\ Goes(h, "rename")
    /\ UNCHANGED <<up, cfg, sched, fetchers, keys, unsure, tmp, settled, current,
                   used>>

\* Over another PUT's text the longer of the two shows through.
PutWrites(h) ==
    /\ job[h].pc = "write"
    /\ \E new \in {Doc(FileOf(job[h].req))}
                  \cup (IF content[job[h].fd] = Empty THEN {} ELSE {Torn}) :
          content' = [content EXCEPT ![job[h].fd] = new]
    /\ Goes(h, "rename")
    /\ UNCHANGED <<up, cfg, sched, fetchers, keys, unsure, path, tmp, settled,
                   current, used>>

\* The name is gone when another PUT has renamed the file in between.
PutRenames(h) ==
    /\ job[h].pc = "rename"
    /\ tmp # None
    /\ path' = tmp
    /\ tmp' = None
    /\ Goes(h, "apply")
    /\ UNCHANGED <<up, cfg, sched, fetchers, keys, unsure, content, settled,
                   current, used>>

\* Mutant: what a failed rename removes is config.yaml.
PutFailsForGood(h) ==
    /\ job[h].pc \in {"open", "write", "rename"}
    /\ job[h].pc = "rename" /\ path' = None
    /\ settled' = FALSE
    /\ Answers(h, "failed")
    /\ UNCHANGED <<up, cfg, sched, fetchers, keys, unsure, tmp, content, current,
                   used>>

\* The directory, the temporary file, the write (which then leaves part of the
\* text) or the rename (which then removes the temporary file) may fail.
PutFails(h) ==
    /\ job[h].pc \in {"open", "write", "rename"}
    /\ \/ job[h].pc = "open" /\ UNCHANGED <<tmp, content>>
       \/ /\ job[h].pc = "write"
          /\ content' = [content EXCEPT ![job[h].fd] = Torn]
          /\ UNCHANGED tmp
       \/ job[h].pc = "rename" /\ tmp' = None /\ UNCHANGED content
    /\ Answers(h, "failed")
    /\ UNCHANGED <<up, cfg, sched, fetchers, keys, unsure, path, settled, current,
                   used>>

PutApplies(h) ==
    LET req == job[h].req
    IN  /\ job[h].pc = "apply"
        /\ sched' = [sched EXCEPT !.interval = IF req.interval_sec # 0
                                               THEN req.interval_sec ELSE @]
        /\ Goes(h, "applied")
        /\ UNCHANGED <<up, cfg, fetchers, keys, unsure, path, tmp, content, settled,
                       current, used>>

\* Server.cfg is assigned field by field, under no lock: whoever builds fetchers
\* meanwhile may read new fields beside old ones.  Fields that nobody reads
\* together change in one step.
PutChangesGeneral(h) ==
    /\ job[h].pc = "applied"
    /\ cfg' = WithGeneral(cfg, job[h].req)
    /\ Goes(h, "providers")
    /\ UNCHANGED <<up, sched, fetchers, keys, unsure, path, tmp, content,
                   settled, current, used>>

PutChangesProviders(h) ==
    /\ job[h].pc = "providers"
    /\ cfg' = WithProviders(cfg, job[h].req)
    /\ Goes(h, "alerts")
    /\ UNCHANGED <<up, sched, fetchers, keys, unsure, path, tmp, content,
                   settled, current, used>>

PutChangesAlerts(h) ==
    /\ job[h].pc = "alerts"
    /\ cfg' = WithAlerts(cfg, job[h].req.alerts)
    /\ Goes(h, "build")
    /\ UNCHANGED <<up, sched, fetchers, keys, unsure, path, tmp, content,
                   settled, current, used>>

-----------------------------------------------------------------------------
(* rebuildFetchers: build from the configuration and the keychain, install *)
(* when the poll lock is free, then the order.  A key that the keychain    *)
(* does not give, because it has none or because the read fails, makes a   *)
(* static "off" block all the same.                                        *)

Builds(h) ==
    /\ job[h].pc = "build"
    /\ \E lost \in SUBSET (keys \cap AskedFor(cfg)) :
          /\ job' = [job EXCEPT ![h] = [@ EXCEPT !.pc = "install",
                                                 !.built = Fetchers(cfg, keys \ lost)]]
          /\ unsure' = lost
    /\ UNCHANGED <<up, cfg, sched, fetchers, keys, path, tmp, content,
                   settled, current, used>>

Installs(h) ==
    /\ job[h].pc = "install"
    /\ fetchers' = job[h].built
    /\ Goes(h, "order")
    /\ UNCHANGED <<up, cfg, sched, keys, unsure, path, tmp, content, settled,
                   current, used>>

\* Texts of a body as they go into the file.
Written(req) ==
    {req.listen, req.tz} \cup {req.provider_order[i] : i \in DOMAIN req.provider_order}
    \cup UNION {LET p == req.providers[i]
                IN  {p.label} \cup (IF p.plan = NoPlan THEN {}
                                    ELSE {p.plan[1].currency, p.plan[1].label}) :
                i \in DOMAIN req.providers}

\* The body has every setting the page has, in texts that read back as they
\* were written and a time zone there is: what saveSettings sends, unless a
\* label was given a tab or a quotation mark.  Alone, such a PUT leaves the
\* file, the running configuration and the fetchers of one mind, whatever was
\* before.
Full(req) ==
    /\ req.interval_sec # 0 /\ req.listen # NoText /\ req.provider_order # <<>>
    /\ req.tz \notin BadZones \cup {NoText}
    /\ WrittenAlerts \subseteq DOMAIN req.alerts
    /\ Ids = {req.providers[i].id : i \in DOMAIN req.providers}
    /\ \A i \in DOMAIN req.providers :
          LET p == req.providers[i]
          IN  p.keyEnv = NoText /\ (p.plan # NoPlan => p.plan[1].usd # <<>>)
    /\ Written(req) \subseteq Plain

Orders(h) ==
    /\ job[h].pc = "order"
    /\ sched' = [sched EXCEPT !.order = cfg.order]
    /\ settled' = IF job[h].kind = "put" THEN job[h].alone /\ Full(job[h].req)
                                         ELSE settled
    /\ current' = (current \/ (job[h].alone /\ job[h].req.interval_sec # 0))
    /\ Answers(h, "ok")
    /\ UNCHANGED <<up, cfg, fetchers, keys, unsure, path, tmp, content, used>>

-----------------------------------------------------------------------------
(* PUT /v1/config/interval: the running interval first, then the file, in  *)
(* place.  It answers ok whether or not the file could be written.         *)

IntervalBegins(h, sec) ==
    /\ sec >= MinInterval
    /\ Begins(h, "interval", "sched", [interval_sec |-> sec])
    /\ UNCHANGED <<up, cfg, sched, fetchers, keys, unsure, path, tmp, content>>

IntervalSets(h) ==
    /\ job[h].pc = "sched"
    /\ sched' = [sched EXCEPT !.interval = job[h].req.interval_sec]
    /\ Goes(h, "cfg")
    /\ UNCHANGED <<up, cfg, fetchers, keys, unsure, path, tmp, content, settled,
                   current, used>>

IntervalChangesConfig(h) ==
    /\ job[h].pc = "cfg"
    /\ cfg' = [cfg EXCEPT !.interval = job[h].req.interval_sec]
    /\ Goes(h, "read")
    /\ UNCHANGED <<up, sched, fetchers, keys, unsure, path, tmp, content, settled,
                   current, used>>

\* The line is replaced or added, whatever else the text has.
Edited(file, sec) == [file EXCEPT !.fc.interval_sec = sec]

PersistReads(h) ==
    /\ job[h].pc = "read"
    /\ job' = [job EXCEPT ![h] =
                  [@ EXCEPT !.pc = "truncate",
                            !.text = Edited(Config_yaml, job[h].req.interval_sec)]]
    /\ UNCHANGED <<up, cfg, sched, fetchers, keys, unsure, path, tmp, content,
                   settled, current, used>>

PersistTruncates(h) ==
    /\ job[h].pc = "truncate"
    /\ \E i \in Inodes :
          /\ IF path = None THEN Fresh(i) ELSE i = path
          /\ path' = i
          /\ content' = [content EXCEPT ![i] = Empty]
          /\ job' = [job EXCEPT ![h] = [@ EXCEPT !.pc = "rewrite", !.fd = i]]
    /\ UNCHANGED <<up, cfg, sched, fetchers, keys, unsure, tmp, settled, current,
                   used>>

PersistWrites(h) ==
    /\ job[h].pc = "rewrite"
    /\ \E new \in {job[h].text}
                  \cup (IF content[job[h].fd] = Empty THEN {} ELSE {Torn}) :
          content' = [content EXCEPT ![job[h].fd] = new]
    /\ Answers(h, "ok")
    /\ UNCHANGED <<up, cfg, sched, fetchers, keys, unsure, path, tmp, settled,
                   current, used>>

\* A read or an open that fails is logged and the answer is ok all the same;
\* so is a write that stops half way.
PersistFails(h) ==
    /\ \/ job[h].pc \in {"read", "truncate"} /\ UNCHANGED content
       \/ /\ job[h].pc = "rewrite"
          /\ content' = [content EXCEPT ![job[h].fd] = Torn]
    /\ settled' = FALSE
    /\ Answers(h, "ok")
    /\ UNCHANGED <<up, cfg, sched, fetchers, keys, unsure, path, tmp, current, used>>

-----------------------------------------------------------------------------
(* POST and DELETE /v1/keys.                                               *)

KeyBegins(h, id, kind) ==
    /\ kind \in {"set", "delete"}
    /\ Begins(h, kind, "keychain", [interval_sec |-> 0, id |-> id])
    /\ UNCHANGED <<up, cfg, sched, fetchers, keys, unsure, path, tmp, content>>

\* The keychain after the request took effect.
KeysAfter(j) == IF j.kind = "set" THEN keys \cup {j.req.id} ELSE keys \ {j.req.id}

\* Mutant: the fetchers keep the keys they were built with.
KeychainDoneOnly(h) ==
    /\ job[h].pc = "keychain"
    /\ keys' = KeysAfter(job[h])
    /\ Answers(h, "ok")
    /\ UNCHANGED <<up, cfg, sched, fetchers, unsure, path, tmp, content,
                   settled, current, used>>

KeychainDone(h) ==
    /\ job[h].pc = "keychain"
    /\ keys' = KeysAfter(job[h])
    /\ Goes(h, "build")
    /\ UNCHANGED <<up, cfg, sched, fetchers, unsure, path, tmp, content,
                   settled, current, used>>

\* The keychain refuses, or the process that talks to it is cut off, by a client
\* that goes away for one, before or after the change was made.
KeychainFails(h) ==
    /\ job[h].pc = "keychain"
    /\ \/ UNCHANGED <<keys, unsure>>
       \/ /\ keys' = KeysAfter(job[h])
          /\ unsure' = unsure \cup {job[h].req.id}
    /\ Answers(h, "failed")
    /\ UNCHANGED <<up, cfg, sched, fetchers, path, tmp, content,
                   settled, current, used>>

-----------------------------------------------------------------------------
(* The daemon stops at any step, and starts with what the file says.       *)

Stops ==
    /\ up /\ used.stops < MaxStops
    /\ used' = [used EXCEPT !.stops = @ + 1]
    /\ up' = FALSE
    /\ job' = [h \in Handlers |-> Idle]
    /\ tmp' = None        \* another process, another temporary name
    /\ UNCHANGED <<cfg, sched, fetchers, keys, unsure, path, content, settled,
                   current>>

\* The running configuration, the interval and the fetchers come from one Load.
StartsUp ==
    LET c == Loaded(FieldsOf(Config_yaml))
    IN  /\ ~up /\ Starts(Config_yaml)
        /\ up' = TRUE
        /\ cfg' = c
        /\ sched' = [interval |-> c.interval, order |-> c.order]
        /\ \E lost \in SUBSET (keys \cap AskedFor(c)) :
              fetchers' = Fetchers(c, keys \ lost) /\ unsure' = lost
        /\ settled' = TRUE
        /\ current' = TRUE
        /\ UNCHANGED <<keys, path, tmp, content, job, used>>

\* The owner edits config.yaml (config.example.yaml is where to start from),
\* here while the daemon is down.
OwnerWrites(fc) ==
    /\ ~up
    /\ \E i \in Inodes :
          /\ IF path = None THEN Fresh(i) ELSE i = path
          /\ path' = i
          /\ content' = [content EXCEPT ![i] = Hand(fc)]
    /\ UNCHANGED <<up, cfg, sched, fetchers, keys, unsure, tmp, job, settled,
                   current, used>>

Init ==
    /\ up = FALSE
    /\ cfg = Defaults
    /\ sched = [interval |-> Defaults.interval, order |-> Defaults.order]
    /\ keys = {} /\ unsure = {}
    /\ fetchers = Fetchers(Defaults, {})
    /\ path = None /\ tmp = None
    /\ content = [i \in Inodes |-> Empty]
    /\ job = [h \in Handlers |-> Idle]
    /\ settled = TRUE
    /\ current = TRUE
    /\ used = [changes |-> 0, stops |-> 0]

Step(h) ==
    \/ PutOpens(h) \/ PutWrites(h) \/ PutRenames(h) \/ PutFails(h)
    \/ PutApplies(h) \/ PutChangesGeneral(h)
    \/ PutChangesProviders(h) \/ PutChangesAlerts(h)
    \/ Builds(h) \/ Installs(h) \/ Orders(h)
    \/ IntervalSets(h) \/ IntervalChangesConfig(h)
    \/ PersistReads(h) \/ PersistTruncates(h) \/ PersistWrites(h)
    \/ PersistFails(h)
    \/ KeychainDone(h) \/ KeychainFails(h)

Arrives(h) ==
    \/ \E req \in Requests : PutBegins(h, req) \/ PutRefused(h, req)
    \/ \E sec \in Intervals : IntervalBegins(h, sec)
    \/ \E id \in KeyIds, kind \in {"set", "delete"} : KeyBegins(h, id, kind)

Next ==
    \/ \E h \in Handlers : Arrives(h) \/ Step(h)
    \/ Stops
    \/ StartsUp
    \/ \E fc \in HandFiles : OwnerWrites(fc)

Spec == Init /\ [][Next]_vars

-----------------------------------------------------------------------------
(* Properties.                                                             *)

\* Typing: where each handler may be, which files may exist, and that no
\* daemon runs with an interval below the minimum.
TypeOK ==
    /\ up \in BOOLEAN /\ settled \in BOOLEAN /\ current \in BOOLEAN
    /\ keys \subseteq KeyIds /\ unsure \subseteq KeyIds
    /\ path \in Inodes \cup {None} /\ tmp \in Inodes \cup {None}
    /\ \A i \in Inodes : content[i].kind \in {"hand", "doc", "torn"}
    /\ \A h \in Handlers :
          /\ job[h].pc \in {"idle", "open", "write", "rename", "apply", "applied",
                            "providers", "alerts", "build", "install", "order",
                            "sched", "cfg", "read", "truncate", "rewrite",
                            "keychain"}
          /\ job[h].fd \in Inodes \cup {None}
          /\ ~up => job[h].pc = "idle"
    /\ up => cfg.interval >= MinInterval /\ sched.interval >= MinInterval

\* "A failure at any step leaves the original file untouched": a PUT that no
\* other change meets has config.yaml as it found it or wholly as it wants it,
\* at every step, so that a daemon killed there finds one of the two.
LoneSaveIsAtomic ==
    \A h \in Busy :
        job[h].kind = "put" /\ job[h].alone =>
            Config_yaml \in {job[h].before, Doc(FileOf(job[h].req))}

\* A save that fails leaves the file and the running configuration as its request
\* found them, in a PUT no other change meets (server.go:735-744): it is not half
\* of a change.
FailedSaveChangesNothing ==
    [][\A h \in Handlers :
         /\ job'[h].answer = "failed" /\ job[h].pc # "idle"
         /\ job[h].kind = "put" /\ job[h].alone
         => Config_yaml' = job[h].before /\ cfg' = job[h].cfg0]_vars

\* What the owner saved is what a restart brings back: when no change met
\* another and every body had all the settings, the daemon would start on
\* the file as it is and have the settings it has now.
RestartKeepsSettings ==
    up /\ Busy = {} /\ settled =>
        /\ Starts(Config_yaml)
        /\ Settings(Loaded(FieldsOf(Config_yaml))) = Settings(cfg)

\* The environment gives the daemon its token and nothing the page sets: it is
\* laid over the file at every start, and the page does not write a token.
EnvironmentAside ==
    /\ Env.interval = <<>> /\ Env.listen = NoText /\ Env.tz = NoText
    /\ Env.groqProbe \in {<<>>, <<FALSE>>}
    /\ Env.token \notin {NoText, Placeholder}

\* Fetchers f are as g but for the keys of some providers.
SameBut(f, g, ids) ==
    /\ f.live \cup f.off = g.live \cup g.off
    /\ f.live \ ids = g.live \ ids
    /\ f.off \ ids = g.off \ ids
    /\ Groq \notin ids => f.probe = g.probe
    /\ f.alerts = g.alerts /\ f.tz = g.tz

\* The scheduler polls with what the configuration and the keychain say, at
\* the interval every snapshot announces, unless changes have met since the
\* fetchers were built (server.go:870-881, once.go:85-205); and a key the
\* settings page calls set is one its provider's fetcher has, as long as nobody
\* changed key_env.  A failure of the keychain is made good by the next build
\* that meets none: until then the provider it concerns, and no other, may be
\* "off" though its key is stored, or live though it is gone.
FetchersFollowConfig ==
    up /\ Busy = {} /\ current =>
        /\ SameBut(fetchers, Fetchers(cfg, keys), unsure)
        /\ \A id \in (Keyed \cap (fetchers.live \cup fetchers.off)) \ unsure :
              EffectiveProvider(cfg, id).keyEnv = DefaultProvider(id).keyEnv =>
                 (KeyState(cfg, keys, id) = "set") = (id \in fetchers.live)
        /\ sched = [interval |-> cfg.interval, order |-> cfg.order]

-----------------------------------------------------------------------------
\* "SerializeYAML renders a FileConfig back into the YAML subset that ParseYAML
\* accepts": a whole text that a PUT wrote is one the next start can read.
SavedFileLoads == Config_yaml.kind = "doc" => Readable(Config_yaml)
=============================================================================
