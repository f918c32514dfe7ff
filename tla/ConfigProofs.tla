---------------------------- MODULE ConfigProofs ----------------------------
(***************************************************************************)
(* Theorems about ConfigServer: its types, what a save leaves in the file, *)
(* that the scheduler polls with what the configuration says, and that a   *)
(* restart gives back every setting that was saved.                        *)
(***************************************************************************)
EXTENDS ConfigServer, ConfigYamlProofs, TLAPS

Fields == {"pc", "kind", "req", "fd", "text", "built", "alone", "before", "cfg0",
           "answer"}
PutPcs == {"open", "write", "rename", "apply", "applied", "providers", "alerts"}
IntervalPcs == {"sched", "cfg", "read", "truncate", "rewrite"}
BuildPcs == {"build", "install", "order"}

FileFits(f) == DOMAIN f = {"kind", "fc"} /\ f.kind \in {"hand", "doc", "torn"}

CfgFits(c) ==
    DOMAIN c = {"interval", "listen", "tz", "token", "low", "warn5h", "warnWeek",
                "provs", "order", "groqProbe"}

\* A handler is where its kind of request may be, with an interval it accepted.
JobFits(j) ==
    /\ DOMAIN j = Fields
    /\ j.pc \in {"idle", "keychain"} \cup PutPcs \cup IntervalPcs \cup BuildPcs
    /\ j.fd \in Inodes \cup {None} /\ j.alone \in BOOLEAN /\ FileFits(j.text)
    /\ j.pc # "idle" => j.answer = "none"
    /\ j.pc \in PutPcs => j.kind = "put"
    /\ j.pc \in IntervalPcs => j.kind = "interval" /\ j.req.interval_sec >= MinInterval
    /\ j.pc = "keychain" => /\ j.kind \in {"set", "delete"}
                            /\ j.req.interval_sec = 0 /\ j.req.id \in KeyIds
    /\ j.pc \in BuildPcs => j.kind \in {"put", "set", "delete"}
    /\ j.pc # "idle" /\ j.kind = "put" =>
          j.req.interval_sec = 0 \/ j.req.interval_sec >= MinInterval

JobsFit ==
    /\ DOMAIN job = Handlers
    /\ \A h \in Handlers : JobFits(job[h]) /\ (~up => job[h].pc = "idle")

\* The temporary name and config.yaml never name one file.
FilesFit ==
    /\ path \in Inodes \cup {None} /\ tmp \in Inodes \cup {None}
    /\ tmp # None => tmp # path
    /\ DOMAIN content = Inodes /\ \A i \in Inodes : FileFits(content[i])

RunningFits ==
    /\ up \in BOOLEAN /\ settled \in BOOLEAN /\ current \in BOOLEAN
    /\ keys \subseteq KeyIds /\ unsure \subseteq KeyIds
    /\ CfgFits(cfg)
    /\ sched = [interval |-> sched.interval, order |-> sched.order]
    /\ up => cfg.interval >= MinInterval /\ sched.interval >= MinInterval

\* Who is alone is the only one busy; who is not has spoilt what was current.
AloneFits ==
    \A h \in Handlers : job[h].pc # "idle" =>
        IF job[h].alone THEN \A g \in Handlers : job[g].pc # "idle" => g = h
                        ELSE ~current

\* What a PUT nobody meets has done to the file so far.
SavedBy(h) ==
    LET j == job[h]
    IN  j.pc # "idle" /\ j.kind = "put" =>
        /\ j.pc \in {"open", "write", "rename"} =>
              Config_yaml = j.before /\ cfg = j.cfg0
        /\ j.pc = "write" => tmp = j.fd /\ tmp \in Inodes /\ content[tmp] = Empty
        /\ j.pc = "rename" /\ tmp # None =>
              tmp = j.fd /\ content[tmp] = Doc(FileOf(j.req))
        /\ j.pc \in {"apply", "applied", "providers", "alerts"} \cup BuildPcs =>
              Config_yaml = Doc(FileOf(j.req))

\* The fetchers are as a build would make them, but for keys the keychain failed on.
Polled == SameBut(fetchers, Fetchers(cfg, keys), unsure) /\ sched.order = cfg.order
Synced == Polled /\ sched.interval = cfg.interval

\* How far behind the configuration the scheduler is, at each step of a request
\* nobody meets.
SyncedBy(h) ==
    LET j == job[h]
    IN  /\ current /\ j.pc \notin {"applied", "cfg", "providers", "alerts"} \cup BuildPcs =>
              Synced
        /\ current /\ j.pc \in {"applied", "cfg"} => Polled
        /\ j.pc = "applied" =>
              /\ current /\ j.req.interval_sec = 0 => sched.interval = cfg.interval
              /\ j.req.interval_sec # 0 => sched.interval = j.req.interval_sec
        /\ current /\ j.pc = "cfg" => sched.interval = j.req.interval_sec
        /\ j.pc \in {"providers", "alerts"} \cup BuildPcs
           /\ (current \/ j.req.interval_sec # 0) => sched.interval = cfg.interval
        /\ j.pc = "install" => SameBut(j.built, Fetchers(cfg, keys), unsure)
        /\ j.pc = "order" => SameBut(fetchers, Fetchers(cfg, keys), unsure)

LoneFits ==
    \A h \in Handlers : job[h].pc # "idle" /\ job[h].alone => SavedBy(h) /\ SyncedBy(h)

QuietFits ==
    up /\ current /\ (\A h \in Handlers : job[h].pc = "idle") => Synced

Shape == JobsFit /\ FilesFit /\ RunningFits /\ AloneFits
ConfigInv == Shape /\ LoneFits /\ QuietFits
-----------------------------------------------------------------------------
(* Configurations                                                          *)

\* config.go:341-358: the thresholds leave a configuration whole.
LEMMA AlertsFit ==
    ASSUME NEW c, NEW alerts, CfgFits(c)
    PROVE /\ CfgFits(WithAlerts(c, alerts))
          /\ WithAlerts(c, alerts).interval = c.interval
          /\ WithAlerts(c, alerts).order = c.order
          /\ WithAlerts(c, alerts).groqProbe = c.groqProbe
  BY DEF CfgFits, WithAlerts

\* config.go:138-175: what is loaded from any file is a whole configuration.
LEMMA LoadedFits ==
    ASSUME NEW fc
    PROVE CfgFits(Defaults) /\ CfgFits(Loaded(fc))
<1>1. CfgFits(Defaults)
  BY DEF CfgFits, Defaults
<1>2. CfgFits(ApplyFileConfig(Defaults, fc))
  <2> DEFINE w == WithAlerts(Defaults, fc.alerts)
  <2>1. CfgFits(w)
    BY <1>1, AlertsFit
  <2> HIDE DEF w
  <2>2. CfgFits([w EXCEPT
           !.interval = IF fc.interval_sec > 0 THEN fc.interval_sec ELSE Defaults.interval,
           !.listen   = Given(fc.listen, Defaults.listen),
           !.token    = Given(fc.device_token, Defaults.token),
           !.tz       = Zone(fc.tz, Defaults.tz),
           !.provs    = Layered(Defaults.provs, ById(fc.providers)),
           !.order    = IF fc.provider_order # <<>> THEN fc.provider_order
                                                    ELSE Defaults.order])
    BY <2>1 DEF CfgFits
  <2>3. QED
    BY <2>2 DEF ApplyFileConfig, w
<1> DEFINE d == ApplyFileConfig(Defaults, fc)
<1>3. CfgFits(d)
  BY <1>2
<1> HIDE DEF d
<1>4. CfgFits(ApplyEnv(d))
  BY <1>3 DEF ApplyEnv, CfgFits
<1>5. QED
  BY <1>1, <1>4 DEF Loaded, d

\* server.go:747-763: a PUT changes the interval only to one it names, and no handler
\* sets the probe the environment may.
LEMMA GroupsFit ==
    ASSUME NEW c, NEW req, CfgFits(c)
    PROVE /\ CfgFits(WithGeneral(c, req)) /\ CfgFits(WithProviders(c, req))
          /\ WithGeneral(c, req).interval = IF req.interval_sec # 0 THEN req.interval_sec
                                                                   ELSE c.interval
          /\ WithProviders(c, req).interval = c.interval
          /\ WithGeneral(c, req).groqProbe = c.groqProbe
          /\ WithProviders(c, req).groqProbe = c.groqProbe
  BY DEF CfgFits, WithGeneral, WithProviders

\* once.go:150-179: a key the keychain does not give changes one provider's fetcher.
LEMMA LostReads ==
    ASSUME NEW c, NEW ks, NEW lost
    PROVE SameBut(Fetchers(c, ks \ lost), Fetchers(c, ks), lost)
<1> DEFINE on == {x \in Ids : EffectiveProvider(c, x).enabled}
           f == Fetchers(c, ks \ lost)
           g == Fetchers(c, ks)
<1>1. \A id : id \notin lost => (HasKey(id, ks \ lost) <=> HasKey(id, ks))
  BY DEF HasKey
<1>2. /\ f.live = {x \in on : HasKey(x, ks \ lost)}
      /\ f.off = {x \in on : ~HasKey(x, ks \ lost)}
      /\ g.live = {x \in on : HasKey(x, ks)} /\ g.off = {x \in on : ~HasKey(x, ks)}
      /\ f.alerts = g.alerts /\ f.tz = g.tz
      /\ f.probe = (Groq \in on /\ HasKey(Groq, ks \ lost) /\ GroqProbeEnabled(c))
      /\ g.probe = (Groq \in on /\ HasKey(Groq, ks) /\ GroqProbeEnabled(c))
  BY DEF Fetchers
<1> HIDE DEF on, f, g
<1>3. Groq \notin lost => f.probe = g.probe
  BY <1>1, <1>2
<1>4. f.live \cup f.off = g.live \cup g.off /\ f.live \ lost = g.live \ lost
      /\ f.off \ lost = g.off \ lost
  BY <1>1, <1>2
<1>5. SameBut(f, g, lost)
  BY <1>2, <1>3, <1>4 DEF SameBut
<1>6. QED
  BY <1>5 DEF f, g

\* server.go:921-957: nor does a key that was changed, or not, without a build.
LEMMA KeyMoved ==
    ASSUME NEW c, NEW ks, NEW ids, NEW id, NEW f, SameBut(f, Fetchers(c, ks), ids),
           NEW new \in {ks \cup {id}, ks \ {id}}
    PROVE SameBut(f, Fetchers(c, new), ids \cup {id})
<1> DEFINE on == {x \in Ids : EffectiveProvider(c, x).enabled}
           g == Fetchers(c, ks)
           n == Fetchers(c, new)
<1>1. \A x : x # id => (HasKey(x, new) <=> HasKey(x, ks))
  BY DEF HasKey
<1>2. /\ g.live = {x \in on : HasKey(x, ks)} /\ g.off = {x \in on : ~HasKey(x, ks)}
      /\ n.live = {x \in on : HasKey(x, new)} /\ n.off = {x \in on : ~HasKey(x, new)}
      /\ n.alerts = g.alerts /\ n.tz = g.tz
      /\ g.probe = (Groq \in on /\ HasKey(Groq, ks) /\ GroqProbeEnabled(c))
      /\ n.probe = (Groq \in on /\ HasKey(Groq, new) /\ GroqProbeEnabled(c))
  BY DEF Fetchers
<1>3. SameBut(f, g, ids)
  OBVIOUS
<1> HIDE DEF on, g, n
<1>4. Groq # id => g.probe = n.probe
  BY <1>1, <1>2
<1>5. g.live \cup g.off = n.live \cup n.off /\ g.live \ {id} = n.live \ {id}
      /\ g.off \ {id} = n.off \ {id}
  BY <1>1, <1>2
<1>6. f.live \ (ids \cup {id}) = n.live \ (ids \cup {id})
  BY <1>3, <1>5 DEF SameBut
<1>7. f.off \ (ids \cup {id}) = n.off \ (ids \cup {id})
  BY <1>3, <1>5 DEF SameBut
<1>8. SameBut(f, n, ids \cup {id})
  BY <1>2, <1>3, <1>4, <1>5, <1>6, <1>7 DEF SameBut
<1>9. QED
  BY <1>8 DEF n

\* once.go:85-205: the fetchers depend on neither the interval nor the order.
LEMMA IntervalAside ==
    ASSUME NEW c, NEW sec, NEW ks, CfgFits(c)
    PROVE /\ Fetchers([c EXCEPT !.interval = sec], ks) = Fetchers(c, ks)
          /\ CfgFits([c EXCEPT !.interval = sec])
          /\ [c EXCEPT !.interval = sec].interval = sec
          /\ [c EXCEPT !.interval = sec].order = c.order
<1> DEFINE d == [c EXCEPT !.interval = sec]
<1>1. /\ d.provs = c.provs /\ d.groqProbe = c.groqProbe /\ d.tz = c.tz
      /\ d.low = c.low /\ d.warn5h = c.warn5h /\ d.warnWeek = c.warnWeek
      /\ d.interval = sec /\ d.order = c.order /\ CfgFits(d)
  BY DEF CfgFits
<1> HIDE DEF d
<1>2. \A id : EffectiveProvider(d, id) = EffectiveProvider(c, id)
  BY <1>1 DEF EffectiveProvider
<1>3. GroqProbeEnabled(d) = GroqProbeEnabled(c)
  BY <1>1 DEF GroqProbeEnabled
<1>4. {id \in Ids : EffectiveProvider(d, id).enabled}
        = {id \in Ids : EffectiveProvider(c, id).enabled}
  BY <1>2
<1>5. Fetchers(d, ks) = Fetchers(c, ks)
  BY <1>1, <1>3, <1>4 DEF Fetchers
<1>6. QED
  BY <1>1, <1>5 DEF d

\* server.go:503-576: as long as nobody changed key_env, the page calls a key set
\* when the provider's fetcher has one.
LEMMA KeyShown ==
    ASSUME NEW c, NEW ks, NEW id \in Keyed,
           id \in Fetchers(c, ks).live \cup Fetchers(c, ks).off,
           EffectiveProvider(c, id).keyEnv = DefaultProvider(id).keyEnv
    PROVE (KeyState(c, ks, id) = "set") = (id \in Fetchers(c, ks).live)
<1> DEFINE on == {x \in Ids : EffectiveProvider(c, x).enabled}
<1>1. /\ Fetchers(c, ks).live = {x \in on : HasKey(x, ks)}
      /\ Fetchers(c, ks).off = {x \in on : ~HasKey(x, ks)}
  BY DEF Fetchers
<1>2. (KeyState(c, ks, id) = "set") <=> (id \in Env.keys \/ id \in ks)
  BY DEF KeyState, KeySource
<1>3. HasKey(id, ks) <=> (id \in Env.keys \/ id \in ks)
  BY DEF HasKey
<1>4. (KeyState(c, ks, id) = "set") \in BOOLEAN /\ (id \in Fetchers(c, ks).live) \in BOOLEAN
  OBVIOUS
<1>5. QED
  BY <1>1, <1>2, <1>3, <1>4
-----------------------------------------------------------------------------
(* Handlers                                                                *)

\* No other handler moves.
Others(h) == DOMAIN job' = Handlers /\ \A g \in Handlers \ {h} : job'[g] = job[g]

\* h goes on with the request it has.
SameRequest(h) ==
    /\ DOMAIN job'[h] = Fields
    /\ job'[h].kind = job[h].kind /\ job'[h].req = job[h].req
    /\ job'[h].alone = job[h].alone /\ job'[h].answer = job[h].answer
    /\ job'[h].before = job[h].before /\ job'[h].cfg0 = job[h].cfg0

\* server.go:735-780: a handler that goes on keeps its request and what it noted.
LEMMA GoesShape ==
    ASSUME JobsFit, NEW h \in Handlers, NEW pc, Goes(h, pc)
    PROVE /\ Others(h) /\ SameRequest(h) /\ job'[h].pc = pc
          /\ job'[h].fd = job[h].fd /\ job'[h].text = job[h].text
          /\ job'[h].built = job[h].built
<1> DEFINE j == job[h]
           k == [j EXCEPT !.pc = pc]
<1>1. DOMAIN j = Fields
  BY DEF JobsFit, JobFits
<1>2. job'[h] = k /\ Others(h)
  BY DEF Goes, JobsFit, Others
<1> HIDE DEF j
<1>3. /\ DOMAIN k = Fields /\ k.pc = pc /\ k.kind = j.kind /\ k.req = j.req
      /\ k.alone = j.alone /\ k.answer = j.answer /\ k.before = j.before
      /\ k.cfg0 = j.cfg0 /\ k.fd = j.fd /\ k.text = j.text /\ k.built = j.built
  BY <1>1 DEF Fields
<1> HIDE DEF k
<1>4. QED
  BY <1>2, <1>3 DEF SameRequest, j

\* server.go:735-996: a handler that has answered is idle.
LEMMA AnswersShape ==
    ASSUME JobsFit, NEW h \in Handlers, NEW a, Answers(h, a)
    PROVE Others(h) /\ JobFits(job'[h]) /\ job'[h].pc = "idle" /\ job'[h].answer = a
<1> DEFINE k == [Idle EXCEPT !.answer = a]
<1>1. job'[h] = k /\ Others(h)
  BY DEF Answers, JobsFit, Others
<1>2. /\ DOMAIN k = Fields /\ k.pc = "idle" /\ k.kind = "put" /\ k.fd = None
      /\ k.text = Empty /\ k.alone = TRUE /\ k.answer = a
  BY DEF Idle, Fields
<1> HIDE DEF k
<1>3. FileFits(Empty)
  BY DEF FileFits, Empty
<1>4. JobFits(k)
  BY <1>2, <1>3 DEF JobFits, PutPcs, IntervalPcs, BuildPcs
<1>5. QED
  BY <1>1, <1>2, <1>4

\* A step of one handler keeps the invariant when what it leaves fits by itself and,
\* if nobody met the request, the file and the scheduler are where it should have
\* left them.
LEMMA OwnStep ==
    ASSUME ConfigInv, NEW h \in Handlers, job[h].pc # "idle", Others(h),
           up' = up, JobFits(job'[h]), job'[h].pc = "idle" \/ SameRequest(h),
           FilesFit', RunningFits',
           current' => current \/ (job[h].alone /\ job'[h].pc = "idle"),
           job[h].alone /\ job'[h].pc # "idle" => (SavedBy(h) /\ SyncedBy(h))',
           job[h].alone /\ job'[h].pc = "idle" /\ current' => Synced'
    PROVE ConfigInv'
<1>1. up /\ DOMAIN job' = Handlers /\ \A g \in Handlers : g # h => job'[g] = job[g]
  BY DEF ConfigInv, Shape, JobsFit, Others
<1>2. JobsFit'
  BY <1>1 DEF ConfigInv, Shape, JobsFit
<1>3. \A g \in Handlers : job'[g].pc # "idle" =>
          job[g].pc # "idle" /\ job'[g].alone = job[g].alone
  BY <1>1 DEF SameRequest
<1>4. \A g \in Handlers : g # h /\ job[g].pc # "idle" => ~job[g].alone
  BY DEF ConfigInv, Shape, AloneFits
<1>5. job[h].alone => \A g \in Handlers : job[g].pc # "idle" => g = h
  BY DEF ConfigInv, Shape, AloneFits
<1>6. ~job[h].alone => ~current'
  BY DEF ConfigInv, Shape, AloneFits
<1>7. AloneFits'
  <2> SUFFICES ASSUME NEW g \in Handlers, job'[g].pc # "idle"
               PROVE IF job'[g].alone
                     THEN \A f \in Handlers : job'[f].pc # "idle" => f = g
                     ELSE ~current'
    BY DEF AloneFits
  <2>1. CASE g = h
    BY <1>3, <1>5, <1>6, <2>1
  <2>2. CASE g # h
    <3>1. job[g].pc # "idle" /\ ~job[g].alone /\ ~job'[g].alone
      BY <1>3, <1>4, <2>2
    <3>2. ~job[h].alone
      BY <1>5, <2>2, <3>1
    <3>3. QED
      BY <1>6, <3>1, <3>2
  <2>3. QED
    BY <2>1, <2>2
<1>8. LoneFits'
  <2> SUFFICES ASSUME NEW g \in Handlers, job'[g].pc # "idle", job'[g].alone
               PROVE (SavedBy(g) /\ SyncedBy(g))'
    BY DEF LoneFits
  <2>1. g = h /\ job[h].alone
    BY <1>3, <1>4
  <2>2. QED
    BY <2>1
<1>9. QuietFits'
  BY <1>6 DEF QuietFits
<1>10. QED
  BY <1>2, <1>7, <1>8, <1>9 DEF ConfigInv, Shape
-----------------------------------------------------------------------------
(* PUT /v1/config                                                          *)

\* Every file there is a file after one of them is written.
LEMMA FileWritten ==
    ASSUME FilesFit, NEW i \in Inodes, NEW f, FileFits(f),
           content' = [content EXCEPT ![i] = f]
    PROVE /\ DOMAIN content' = Inodes /\ \A x \in Inodes : FileFits(content'[x])
          /\ content'[i] = f /\ \A x \in Inodes \ {i} : content'[x] = content[x]
  BY DEF FilesFit

\* server.go:998-1021: the texts that handlers write are files.
LEMMA TextsFit ==
    ASSUME NEW fc
    PROVE /\ FileFits(Empty) /\ FileFits(Torn) /\ FileFits(Doc(fc)) /\ FileFits(Hand(fc))
          /\ Empty # Torn
  BY DEF FileFits, Empty, Torn, Doc, Hand

\* server.go:1017-1021: the temporary file is opened empty; config.yaml is as it was.
LEMMA PutOpensKeeps ==
    ASSUME ConfigInv, ConfigServerAssumption, NEW h \in Handlers, PutOpens(h)
    PROVE ConfigInv'
<1>1. PICK i \in Inodes :
         /\ IF tmp = None THEN Fresh(i) ELSE i = tmp
         /\ tmp' = i /\ content' = [content EXCEPT ![i] = Empty]
         /\ job' = [job EXCEPT ![h] = [@ EXCEPT !.pc = "write", !.fd = i]]
  BY DEF PutOpens
<1>2. /\ job[h].pc = "open" /\ job[h].kind = "put"
      /\ UNCHANGED <<up, cfg, sched, fetchers, keys, unsure, path, settled, current,
                     used>>
  BY DEF PutOpens, ConfigInv, Shape, JobsFit, JobFits, PutPcs
<1>3. /\ Others(h) /\ SameRequest(h) /\ job'[h].pc = "write" /\ job'[h].fd = i
      /\ job'[h].text = job[h].text
  <2> DEFINE j == job[h]
             k == [j EXCEPT !.pc = "write", !.fd = i]
  <2>1. DOMAIN j = Fields /\ DOMAIN job = Handlers
    BY DEF ConfigInv, Shape, JobsFit, JobFits
  <2>2. job'[h] = k /\ Others(h)
    BY <1>1, <2>1 DEF Others
  <2> HIDE DEF j
  <2>3. /\ DOMAIN k = Fields /\ k.pc = "write" /\ k.kind = j.kind /\ k.req = j.req
        /\ k.alone = j.alone /\ k.answer = j.answer /\ k.before = j.before
        /\ k.cfg0 = j.cfg0 /\ k.fd = i /\ k.text = j.text
    BY <2>1 DEF Fields
  <2> HIDE DEF k
  <2>4. QED
    BY <2>2, <2>3 DEF SameRequest, j
<1>4. JobFits(job'[h])
  BY <1>2, <1>3 DEF ConfigInv, Shape, JobsFit, JobFits, SameRequest, PutPcs, IntervalPcs,
                    BuildPcs
<1>5. i # path /\ FilesFit
  BY <1>1 DEF Fresh, ConfigInv, Shape, FilesFit
<1>6. /\ DOMAIN content' = Inodes /\ \A x \in Inodes : FileFits(content'[x])
      /\ content'[i] = Empty /\ \A x \in Inodes \ {i} : content'[x] = content[x]
  BY <1>1, <1>5, FileWritten, TextsFit
<1>7. FilesFit'
  BY <1>1, <1>2, <1>5, <1>6 DEF FilesFit
<1>8. Config_yaml' = Config_yaml
  BY <1>2, <1>5, <1>6 DEF Config_yaml, FilesFit
<1>9. job[h].alone => SavedBy(h)'
  BY <1>1, <1>2, <1>3, <1>6, <1>8 DEF ConfigInv, LoneFits, SavedBy, SameRequest, BuildPcs
<1>10. job[h].alone => SyncedBy(h)'
  BY <1>2, <1>3 DEF ConfigInv, LoneFits, SyncedBy, Synced, Polled, BuildPcs
<1>11. RunningFits'
  BY <1>2 DEF ConfigInv, Shape, RunningFits
<1>12. QED
  BY <1>2, <1>3, <1>4, <1>7, <1>9, <1>10, <1>11, OwnStep

\* server.go:1017-1021: what is written is the whole text, when nobody else writes.
LEMMA PutWritesKeeps ==
    ASSUME ConfigInv, ConfigServerAssumption, NEW h \in Handlers, PutWrites(h)
    PROVE ConfigInv'
<1> DEFINE i == job[h].fd
<1>1. PICK new \in {Doc(FileOf(job[h].req))}
                     \cup (IF content[i] = Empty THEN {} ELSE {Torn}) :
         content' = [content EXCEPT ![i] = new]
  BY DEF PutWrites
<1>2. /\ job[h].pc = "write" /\ job[h].kind = "put" /\ Goes(h, "rename")
      /\ UNCHANGED <<up, cfg, sched, fetchers, keys, unsure, path, tmp, settled,
                     current, used>>
  BY DEF PutWrites, ConfigInv, Shape, JobsFit, JobFits, PutPcs
<1>3. /\ Others(h) /\ SameRequest(h) /\ job'[h].pc = "rename" /\ job'[h].fd = i
      /\ job'[h].text = job[h].text
  BY <1>2, GoesShape DEF ConfigInv, Shape
<1>4. JobFits(job'[h])
  BY <1>2, <1>3 DEF ConfigInv, Shape, JobsFit, JobFits, SameRequest, PutPcs, IntervalPcs,
                    BuildPcs
<1>5. FileFits(new)
  BY TextsFit
<1>6. DOMAIN content' = Inodes /\ \A x \in Inodes : FileFits(content'[x])
  BY <1>1, <1>5 DEF ConfigInv, Shape, FilesFit
<1>7. FilesFit'
  BY <1>2, <1>6 DEF ConfigInv, Shape, FilesFit
<1>8. ASSUME job[h].alone PROVE SavedBy(h)'
  <2>1. SavedBy(h) /\ tmp = i /\ tmp \in Inodes /\ content[i] = Empty /\ i # path
    BY <1>2, <1>8, ConfigServerAssumption
       DEF ConfigInv, LoneFits, SavedBy, Shape, FilesFit
  <2>2. content'[i] = Doc(FileOf(job[h].req))
        /\ \A x \in Inodes \ {i} : content'[x] = content[x]
    BY <1>1, <2>1 DEF ConfigInv, Shape, FilesFit
  <2>3. Config_yaml' = Config_yaml
    BY <1>2, <2>1, <2>2 DEF Config_yaml, ConfigInv, Shape, FilesFit
  <2>4. QED
    BY <1>2, <1>3, <2>1, <2>2, <2>3 DEF SavedBy, SameRequest, BuildPcs
<1>9. job[h].alone => SyncedBy(h)'
  BY <1>2, <1>3 DEF ConfigInv, LoneFits, SyncedBy, Synced, Polled, BuildPcs
<1>10. RunningFits'
  BY <1>2 DEF ConfigInv, Shape, RunningFits
<1>11. QED
  BY <1>2, <1>3, <1>4, <1>7, <1>8, <1>9, <1>10, OwnStep

\* server.go:1023-1029: the rename puts the written file in the place of config.yaml.
LEMMA PutRenamesKeeps ==
    ASSUME ConfigInv, ConfigServerAssumption, NEW h \in Handlers, PutRenames(h)
    PROVE ConfigInv'
<1>1. /\ job[h].pc = "rename" /\ job[h].kind = "put" /\ Goes(h, "apply")
      /\ tmp # None /\ path' = tmp /\ tmp' = None
      /\ UNCHANGED <<up, cfg, sched, fetchers, keys, unsure, content, settled,
                     current, used>>
  BY DEF PutRenames, ConfigInv, Shape, JobsFit, JobFits, PutPcs
<1>2. /\ Others(h) /\ SameRequest(h) /\ job'[h].pc = "apply" /\ job'[h].fd = job[h].fd
      /\ job'[h].text = job[h].text
  BY <1>1, GoesShape DEF ConfigInv, Shape
<1>3. JobFits(job'[h])
  BY <1>1, <1>2 DEF ConfigInv, Shape, JobsFit, JobFits, SameRequest, PutPcs, IntervalPcs,
                    BuildPcs
<1>4. FilesFit'
  BY <1>1 DEF ConfigInv, Shape, FilesFit
<1>5. ASSUME job[h].alone PROVE SavedBy(h)'
  <2>1. content[tmp] = Doc(FileOf(job[h].req))
    BY <1>1, <1>5 DEF ConfigInv, LoneFits, SavedBy
  <2>2. Config_yaml' = Doc(FileOf(job[h].req))
    BY <1>1, <2>1 DEF Config_yaml
  <2>3. QED
    BY <1>2, <2>2 DEF SavedBy, SameRequest, BuildPcs
<1>6. job[h].alone => SyncedBy(h)'
  BY <1>1, <1>2 DEF ConfigInv, LoneFits, SyncedBy, Synced, Polled, BuildPcs
<1>7. RunningFits'
  BY <1>1 DEF ConfigInv, Shape, RunningFits
<1>8. QED
  BY <1>1, <1>2, <1>3, <1>4, <1>5, <1>6, <1>7, OwnStep

\* server.go:735-744: a save that fails leaves config.yaml alone.
LEMMA PutFailsKeeps ==
    ASSUME ConfigInv, ConfigServerAssumption, NEW h \in Handlers, PutFails(h)
    PROVE ConfigInv'
<1>1. /\ job[h].pc \in {"open", "write", "rename"} /\ Answers(h, "failed")
      /\ tmp' \in {tmp, None}
      /\ content' = content \/ content' = [content EXCEPT ![job[h].fd] = Torn]
      /\ UNCHANGED <<up, cfg, sched, fetchers, keys, unsure, path, settled, current,
                     used>>
  BY DEF PutFails
<1>2. Others(h) /\ JobFits(job'[h]) /\ job'[h].pc = "idle"
  BY <1>1, AnswersShape DEF ConfigInv, Shape
<1>3. FileFits(Torn)
  BY TextsFit
<1>4. FilesFit'
  BY <1>1, <1>3 DEF ConfigInv, Shape, FilesFit
<1>5. RunningFits'
  BY <1>1 DEF ConfigInv, Shape, RunningFits
<1>6. ASSUME job[h].alone, current' PROVE Synced'
  BY <1>1, <1>6 DEF ConfigInv, LoneFits, SyncedBy, Synced, Polled, BuildPcs
<1>7. job[h].pc # "idle" /\ up' = up /\ current' = current
  BY <1>1
<1>8. QED
  BY <1>2, <1>4, <1>5, <1>6, <1>7, OwnStep

\* server.go:746-750: the scheduler is given the interval the body names.
LEMMA PutAppliesKeeps ==
    ASSUME ConfigInv, NEW h \in Handlers, PutApplies(h)
    PROVE ConfigInv'
<1> DEFINE req == job[h].req
<1>1. /\ job[h].pc = "apply" /\ job[h].kind = "put" /\ Goes(h, "applied")
      /\ sched' = [sched EXCEPT !.interval = IF req.interval_sec # 0
                                             THEN req.interval_sec ELSE sched.interval]
      /\ UNCHANGED <<up, cfg, fetchers, keys, unsure, path, tmp, content, settled,
                     current, used>>
  BY DEF PutApplies, ConfigInv, Shape, JobsFit, JobFits, PutPcs
<1>2. /\ Others(h) /\ SameRequest(h) /\ job'[h].pc = "applied" /\ job'[h].fd = job[h].fd
      /\ job'[h].text = job[h].text
  BY <1>1, GoesShape DEF ConfigInv, Shape
<1>3. JobFits(job'[h])
  BY <1>1, <1>2 DEF ConfigInv, Shape, JobsFit, JobFits, SameRequest, PutPcs, IntervalPcs,
                    BuildPcs
<1>4. /\ sched' = [interval |-> sched'.interval, order |-> sched'.order]
      /\ sched'.order = sched.order
      /\ sched'.interval = IF req.interval_sec # 0 THEN req.interval_sec
                                                   ELSE sched.interval
  BY <1>1 DEF ConfigInv, Shape, RunningFits
<1>5. req.interval_sec = 0 \/ req.interval_sec >= MinInterval
  BY <1>1 DEF ConfigInv, Shape, JobsFit, JobFits
<1>6. RunningFits'
  BY <1>1, <1>4, <1>5 DEF ConfigInv, Shape, RunningFits
<1>7. FilesFit'
  BY <1>1 DEF ConfigInv, Shape, FilesFit
<1>8. job[h].alone => SavedBy(h)'
  BY <1>1, <1>2 DEF ConfigInv, LoneFits, SavedBy, SameRequest, Config_yaml, BuildPcs
<1>9. job[h].alone => SyncedBy(h)'
  BY <1>1, <1>2, <1>4 DEF ConfigInv, LoneFits, SyncedBy, Synced, Polled, SameRequest,
                          BuildPcs
<1>10. QED
  BY <1>1, <1>2, <1>3, <1>6, <1>7, <1>8, <1>9, OwnStep

\* server.go:747-758: the configuration's interval follows the scheduler's.
LEMMA PutChangesGeneralKeeps ==
    ASSUME ConfigInv, NEW h \in Handlers, PutChangesGeneral(h)
    PROVE ConfigInv'
<1> DEFINE req == job[h].req
<1>1. /\ job[h].pc = "applied" /\ job[h].kind = "put" /\ Goes(h, "providers")
      /\ cfg' = WithGeneral(cfg, req)
      /\ UNCHANGED <<up, sched, fetchers, keys, unsure, path, tmp, content, settled,
                     current, used>>
  BY DEF PutChangesGeneral, ConfigInv, Shape, JobsFit, JobFits, PutPcs
<1>2. /\ Others(h) /\ SameRequest(h) /\ job'[h].pc = "providers" /\ job'[h].fd = job[h].fd
      /\ job'[h].text = job[h].text
  BY <1>1, GoesShape DEF ConfigInv, Shape
<1>3. JobFits(job'[h])
  BY <1>1, <1>2 DEF ConfigInv, Shape, JobsFit, JobFits, SameRequest, PutPcs, IntervalPcs,
                    BuildPcs
<1>4. /\ CfgFits(cfg')
      /\ cfg'.interval = IF req.interval_sec # 0 THEN req.interval_sec ELSE cfg.interval
  BY <1>1, GroupsFit DEF ConfigInv, Shape, RunningFits
<1>5. req.interval_sec = 0 \/ req.interval_sec >= MinInterval
  BY <1>1 DEF ConfigInv, Shape, JobsFit, JobFits
<1>6. RunningFits'
  BY <1>1, <1>4, <1>5 DEF ConfigInv, Shape, RunningFits
<1>7. FilesFit'
  BY <1>1 DEF ConfigInv, Shape, FilesFit
<1>8. job[h].alone => SavedBy(h)'
  BY <1>1, <1>2 DEF ConfigInv, LoneFits, SavedBy, SameRequest, Config_yaml, BuildPcs
<1>9. job[h].alone => SyncedBy(h)'
  BY <1>1, <1>2, <1>4 DEF ConfigInv, LoneFits, SyncedBy, SameRequest, BuildPcs
<1>10. QED
  BY <1>1, <1>2, <1>3, <1>6, <1>7, <1>8, <1>9, OwnStep

\* server.go:759-763: then the providers and their order change.
LEMMA PutChangesProvidersKeeps ==
    ASSUME ConfigInv, NEW h \in Handlers, PutChangesProviders(h)
    PROVE ConfigInv'
<1> DEFINE req == job[h].req
<1>1. /\ job[h].pc = "providers" /\ job[h].kind = "put" /\ Goes(h, "alerts")
      /\ cfg' = WithProviders(cfg, req)
      /\ UNCHANGED <<up, sched, fetchers, keys, unsure, path, tmp, content, settled,
                     current, used>>
  BY DEF PutChangesProviders, ConfigInv, Shape, JobsFit, JobFits, PutPcs
<1>2. /\ Others(h) /\ SameRequest(h) /\ job'[h].pc = "alerts" /\ job'[h].fd = job[h].fd
      /\ job'[h].text = job[h].text
  BY <1>1, GoesShape DEF ConfigInv, Shape
<1>3. JobFits(job'[h])
  BY <1>1, <1>2 DEF ConfigInv, Shape, JobsFit, JobFits, SameRequest, PutPcs, IntervalPcs,
                    BuildPcs
<1>4. /\ CfgFits(cfg')
      /\ cfg'.interval = cfg.interval
  BY <1>1, GroupsFit DEF ConfigInv, Shape, RunningFits
<1>5. req.interval_sec = 0 \/ req.interval_sec >= MinInterval
  BY <1>1 DEF ConfigInv, Shape, JobsFit, JobFits
<1>6. RunningFits'
  BY <1>1, <1>4, <1>5 DEF ConfigInv, Shape, RunningFits
<1>7. FilesFit'
  BY <1>1 DEF ConfigInv, Shape, FilesFit
<1>8. job[h].alone => SavedBy(h)'
  BY <1>1, <1>2 DEF ConfigInv, LoneFits, SavedBy, SameRequest, Config_yaml, BuildPcs
<1>9. job[h].alone => SyncedBy(h)'
  BY <1>1, <1>2, <1>4 DEF ConfigInv, LoneFits, SyncedBy, SameRequest, BuildPcs
<1>10. QED
  BY <1>1, <1>2, <1>3, <1>6, <1>7, <1>8, <1>9, OwnStep

\* server.go:764-777: then the thresholds.
LEMMA PutChangesAlertsKeeps ==
    ASSUME ConfigInv, NEW h \in Handlers, PutChangesAlerts(h)
    PROVE ConfigInv'
<1> DEFINE req == job[h].req
<1>1. /\ job[h].pc = "alerts" /\ job[h].kind = "put" /\ Goes(h, "build")
      /\ cfg' = WithAlerts(cfg, req.alerts)
      /\ UNCHANGED <<up, sched, fetchers, keys, unsure, path, tmp, content, settled,
                     current, used>>
  BY DEF PutChangesAlerts, ConfigInv, Shape, JobsFit, JobFits, PutPcs
<1>2. /\ Others(h) /\ SameRequest(h) /\ job'[h].pc = "build" /\ job'[h].fd = job[h].fd
      /\ job'[h].text = job[h].text
  BY <1>1, GoesShape DEF ConfigInv, Shape
<1>3. JobFits(job'[h])
  BY <1>1, <1>2 DEF ConfigInv, Shape, JobsFit, JobFits, SameRequest, PutPcs, IntervalPcs,
                    BuildPcs
<1>4. /\ CfgFits(cfg')
      /\ cfg'.interval = cfg.interval
  BY <1>1, AlertsFit DEF ConfigInv, Shape, RunningFits
<1>5. req.interval_sec = 0 \/ req.interval_sec >= MinInterval
  BY <1>1 DEF ConfigInv, Shape, JobsFit, JobFits
<1>6. RunningFits'
  BY <1>1, <1>4, <1>5 DEF ConfigInv, Shape, RunningFits
<1>7. FilesFit'
  BY <1>1 DEF ConfigInv, Shape, FilesFit
<1>8. job[h].alone => SavedBy(h)'
  BY <1>1, <1>2 DEF ConfigInv, LoneFits, SavedBy, SameRequest, Config_yaml, BuildPcs
<1>9. job[h].alone => SyncedBy(h)'
  BY <1>1, <1>2, <1>4 DEF ConfigInv, LoneFits, SyncedBy, SameRequest, BuildPcs
<1>10. QED
  BY <1>1, <1>2, <1>3, <1>6, <1>7, <1>8, <1>9, OwnStep
-----------------------------------------------------------------------------
(* rebuildFetchers                                                         *)

\* server.go:870-877: the fetchers are built from the configuration of the moment.
LEMMA BuildsKeeps ==
    ASSUME ConfigInv, NEW h \in Handlers, Builds(h)
    PROVE ConfigInv'
<1>1. PICK lost \in SUBSET (keys \cap AskedFor(cfg)) :
         /\ job' = [job EXCEPT ![h] = [@ EXCEPT !.pc = "install",
                                                !.built = Fetchers(cfg, keys \ lost)]]
         /\ unsure' = lost
  BY DEF Builds
<1>1a. /\ job[h].pc = "build"
       /\ UNCHANGED <<up, cfg, sched, fetchers, keys, path, tmp, content, settled,
                      current, used>>
  BY DEF Builds
<1> DEFINE b == Fetchers(cfg, keys \ lost)
<1>1b. SameBut(b, Fetchers(cfg, keys), unsure')
  BY <1>1, LostReads
<1>1c. job' = [job EXCEPT ![h] = [@ EXCEPT !.pc = "install", !.built = b]]
  BY <1>1
<1> HIDE DEF b
<1>2. /\ Others(h) /\ SameRequest(h) /\ job'[h].pc = "install" /\ job'[h].fd = job[h].fd
      /\ job'[h].text = job[h].text /\ job'[h].built = b
  <2> DEFINE j == job[h]
             k == [j EXCEPT !.pc = "install", !.built = b]
  <2>1. DOMAIN j = Fields /\ DOMAIN job = Handlers
    BY DEF ConfigInv, Shape, JobsFit, JobFits
  <2>2. job'[h] = k /\ Others(h)
    BY <1>1c, <2>1 DEF Others
  <2> HIDE DEF j
  <2>3. /\ DOMAIN k = Fields /\ k.pc = "install" /\ k.kind = j.kind /\ k.req = j.req
        /\ k.alone = j.alone /\ k.answer = j.answer /\ k.before = j.before
        /\ k.cfg0 = j.cfg0 /\ k.fd = j.fd /\ k.text = j.text
        /\ k.built = b
    BY <2>1 DEF Fields
  <2> HIDE DEF k
  <2>4. QED
    BY <2>2, <2>3 DEF SameRequest, j
<1>3. JobFits(job'[h])
  BY <1>1a, <1>2 DEF ConfigInv, Shape, JobsFit, JobFits, SameRequest, PutPcs, IntervalPcs,
                    BuildPcs
<1>4. FilesFit' /\ RunningFits'
  BY <1>1, <1>1a DEF ConfigInv, Shape, FilesFit, RunningFits
<1>5. job[h].alone => SavedBy(h)'
  BY <1>1a, <1>2 DEF ConfigInv, LoneFits, SavedBy, SameRequest, Config_yaml, BuildPcs
<1>6. job[h].alone => SyncedBy(h)'
  BY <1>1a, <1>1b, <1>2 DEF ConfigInv, LoneFits, SyncedBy, SameRequest, BuildPcs
<1>7. QED
  BY <1>1, <1>1a, <1>2, <1>3, <1>4, <1>5, <1>6, OwnStep

\* scheduler.go:357-363: what is installed is what was built.
LEMMA InstallsKeeps ==
    ASSUME ConfigInv, NEW h \in Handlers, Installs(h)
    PROVE ConfigInv'
<1>1. /\ job[h].pc = "install" /\ fetchers' = job[h].built /\ Goes(h, "order")
      /\ UNCHANGED <<up, cfg, sched, keys, unsure, path, tmp, content, settled,
                     current, used>>
  BY DEF Installs
<1>2. /\ Others(h) /\ SameRequest(h) /\ job'[h].pc = "order" /\ job'[h].fd = job[h].fd
      /\ job'[h].text = job[h].text
  BY <1>1, GoesShape DEF ConfigInv, Shape
<1>3. JobFits(job'[h])
  BY <1>1, <1>2 DEF ConfigInv, Shape, JobsFit, JobFits, SameRequest, PutPcs, IntervalPcs,
                    BuildPcs
<1>4. FilesFit' /\ RunningFits'
  BY <1>1 DEF ConfigInv, Shape, FilesFit, RunningFits
<1>5. job[h].alone => SavedBy(h)'
  BY <1>1, <1>2 DEF ConfigInv, LoneFits, SavedBy, SameRequest, Config_yaml, BuildPcs
<1>6. job[h].alone => SyncedBy(h)'
  BY <1>1, <1>2 DEF ConfigInv, LoneFits, SyncedBy, SameRequest, BuildPcs
<1>7. QED
  BY <1>1, <1>2, <1>3, <1>4, <1>5, <1>6, OwnStep

\* server.go:879-881: after the order the scheduler follows the configuration.
LEMMA OrdersKeeps ==
    ASSUME ConfigInv, NEW h \in Handlers, Orders(h)
    PROVE ConfigInv'
<1>1. /\ job[h].pc = "order" /\ sched' = [sched EXCEPT !.order = cfg.order]
      /\ settled' = IF job[h].kind = "put" THEN job[h].alone /\ Full(job[h].req)
                                           ELSE settled
      /\ current' = (current \/ (job[h].alone /\ job[h].req.interval_sec # 0))
      /\ Answers(h, "ok")
      /\ UNCHANGED <<up, cfg, fetchers, keys, unsure, path, tmp, content, used>>
  BY DEF Orders
<1>2. Others(h) /\ JobFits(job'[h]) /\ job'[h].pc = "idle"
  BY <1>1, AnswersShape DEF ConfigInv, Shape
<1>3. /\ sched' = [interval |-> sched'.interval, order |-> sched'.order]
      /\ sched'.order = cfg.order
      /\ sched'.interval = sched.interval
  BY <1>1 DEF ConfigInv, Shape, RunningFits
<1>4. (job[h].alone /\ Full(job[h].req)) \in BOOLEAN
  BY DEF Full
<1>5. settled' \in BOOLEAN /\ current' \in BOOLEAN
  BY <1>1, <1>4 DEF ConfigInv, Shape, RunningFits
<1>6. RunningFits'
  BY <1>1, <1>3, <1>5 DEF ConfigInv, Shape, RunningFits
<1>7. FilesFit'
  BY <1>1 DEF ConfigInv, Shape, FilesFit
<1>8. ASSUME job[h].alone, current' PROVE Synced'
  <2>1. current \/ job[h].req.interval_sec # 0
    BY <1>1, <1>8
  <2>2. sched.interval = cfg.interval /\ SameBut(fetchers, Fetchers(cfg, keys), unsure)
    BY <1>1, <1>8, <2>1 DEF ConfigInv, LoneFits, SyncedBy, BuildPcs
  <2>3. QED
    BY <1>1, <1>3, <2>2 DEF Synced, Polled
<1>9. job[h].pc # "idle" /\ up' = up
      /\ (current' => current \/ (job[h].alone /\ job'[h].pc = "idle"))
  BY <1>1, <1>2
<1>10. QED
  BY <1>2, <1>6, <1>7, <1>8, <1>9, OwnStep
-----------------------------------------------------------------------------
(* PUT /v1/config/interval and the keys                                    *)

\* server.go:841-842: the scheduler is given the interval first.
LEMMA IntervalSetsKeeps ==
    ASSUME ConfigInv, NEW h \in Handlers, IntervalSets(h)
    PROVE ConfigInv'
<1>1. /\ job[h].pc = "sched" /\ Goes(h, "cfg")
      /\ sched' = [sched EXCEPT !.interval = job[h].req.interval_sec]
      /\ UNCHANGED <<up, cfg, fetchers, keys, unsure, path, tmp, content, settled,
                     current, used>>
  BY DEF IntervalSets
<1>2. /\ Others(h) /\ SameRequest(h) /\ job'[h].pc = "cfg" /\ job'[h].fd = job[h].fd
      /\ job'[h].text = job[h].text
  BY <1>1, GoesShape DEF ConfigInv, Shape
<1>3. /\ job[h].kind = "interval" /\ job[h].req.interval_sec >= MinInterval
  BY <1>1 DEF ConfigInv, Shape, JobsFit, JobFits, IntervalPcs
<1>4. JobFits(job'[h])
  BY <1>1, <1>2, <1>3 DEF ConfigInv, Shape, JobsFit, JobFits, SameRequest, PutPcs,
                          IntervalPcs, BuildPcs
<1>5. /\ sched' = [interval |-> sched'.interval, order |-> sched'.order]
      /\ sched'.order = sched.order
      /\ sched'.interval = job[h].req.interval_sec
  BY <1>1 DEF ConfigInv, Shape, RunningFits
<1>6. FilesFit' /\ RunningFits'
  BY <1>1, <1>3, <1>5 DEF ConfigInv, Shape, FilesFit, RunningFits
<1>7. SavedBy(h)'
  BY <1>2, <1>3 DEF SavedBy, SameRequest
<1>8. job[h].alone => SyncedBy(h)'
  BY <1>1, <1>2, <1>5 DEF ConfigInv, LoneFits, SyncedBy, Synced, Polled, SameRequest,
                          BuildPcs
<1>9. QED
  BY <1>1, <1>2, <1>4, <1>6, <1>7, <1>8, OwnStep

\* server.go:843-847: the configuration's interval follows; no fetcher depends on it.
LEMMA IntervalChangesConfigKeeps ==
    ASSUME ConfigInv, NEW h \in Handlers, IntervalChangesConfig(h)
    PROVE ConfigInv'
<1>1. /\ job[h].pc = "cfg" /\ Goes(h, "read")
      /\ cfg' = [cfg EXCEPT !.interval = job[h].req.interval_sec]
      /\ UNCHANGED <<up, sched, fetchers, keys, unsure, path, tmp, content, settled,
                     current, used>>
  BY DEF IntervalChangesConfig
<1>2. /\ Others(h) /\ SameRequest(h) /\ job'[h].pc = "read" /\ job'[h].fd = job[h].fd
      /\ job'[h].text = job[h].text
  BY <1>1, GoesShape DEF ConfigInv, Shape
<1>3. /\ job[h].kind = "interval" /\ job[h].req.interval_sec >= MinInterval
  BY <1>1 DEF ConfigInv, Shape, JobsFit, JobFits, IntervalPcs
<1>4. JobFits(job'[h])
  BY <1>1, <1>2, <1>3 DEF ConfigInv, Shape, JobsFit, JobFits, SameRequest, PutPcs,
                          IntervalPcs, BuildPcs
<1>5. /\ CfgFits(cfg') /\ cfg'.order = cfg.order
      /\ cfg'.interval = job[h].req.interval_sec
      /\ Fetchers(cfg', keys') = Fetchers(cfg, keys)
  BY <1>1, IntervalAside DEF ConfigInv, Shape, RunningFits
<1>6. FilesFit' /\ RunningFits'
  BY <1>1, <1>3, <1>5 DEF ConfigInv, Shape, FilesFit, RunningFits
<1>7. SavedBy(h)'
  BY <1>2, <1>3 DEF SavedBy, SameRequest
<1>8. job[h].alone => SyncedBy(h)'
  BY <1>1, <1>2, <1>5 DEF ConfigInv, LoneFits, SyncedBy, Synced, Polled, BuildPcs
<1>9. QED
  BY <1>1, <1>2, <1>4, <1>6, <1>7, <1>8, OwnStep

\* server.go:963-996: the file is read, cut short and written again, and nothing
\* else changes.
LEMMA PersistGoesOnKeeps ==
    ASSUME ConfigInv, ConfigServerAssumption, NEW h \in Handlers,
           PersistReads(h) \/ PersistTruncates(h)
    PROVE ConfigInv'
<1>1. /\ job[h].pc \in {"read", "truncate"}
      /\ UNCHANGED <<up, cfg, sched, fetchers, keys, unsure, tmp, settled, current,
                     used>>
  BY DEF PersistReads, PersistTruncates
<1>2. /\ job[h].kind = "interval" /\ DOMAIN job[h] = Fields /\ DOMAIN job = Handlers
      /\ job[h].req.interval_sec >= MinInterval
  BY <1>1 DEF ConfigInv, Shape, JobsFit, JobFits, IntervalPcs
<1>3. FileFits(Config_yaml)
  BY TextsFit DEF Config_yaml, ConfigInv, Shape, FilesFit
<1>4. /\ Others(h) /\ SameRequest(h) /\ job'[h].pc \in {"truncate", "rewrite"}
      /\ FileFits(job'[h].text) /\ job'[h].fd \in Inodes \cup {None}
  <2> DEFINE j == job[h]
  <2>0. j.fd \in Inodes \cup {None} /\ FileFits(j.text)
    BY DEF ConfigInv, Shape, JobsFit, JobFits
  <2>1. CASE PersistReads(h)
    <3> DEFINE t == Edited(Config_yaml, j.req.interval_sec)
               k == [j EXCEPT !.pc = "truncate", !.text = t]
    <3>1. FileFits(t)
      BY <1>3 DEF Edited, FileFits
    <3>2. job'[h] = k /\ Others(h)
      BY <1>2, <2>1 DEF PersistReads, Others
    <3> HIDE DEF j, t
    <3>3. /\ DOMAIN k = Fields /\ k.pc = "truncate" /\ k.kind = j.kind /\ k.req = j.req
          /\ k.alone = j.alone /\ k.answer = j.answer /\ k.before = j.before
          /\ k.cfg0 = j.cfg0 /\ k.fd = j.fd /\ k.text = t
      BY <1>2 DEF Fields, j
    <3> HIDE DEF k
    <3>4. QED
      BY <2>0, <3>1, <3>2, <3>3 DEF SameRequest, j
  <2>2. CASE PersistTruncates(h)
    <3>1. PICK i \in Inodes : job' = [job EXCEPT ![h] = [@ EXCEPT !.pc = "rewrite", !.fd = i]]
      BY <2>2 DEF PersistTruncates
    <3> DEFINE k == [j EXCEPT !.pc = "rewrite", !.fd = i]
    <3>2. job'[h] = k /\ Others(h)
      BY <1>2, <3>1 DEF Others
    <3> HIDE DEF j
    <3>3. /\ DOMAIN k = Fields /\ k.pc = "rewrite" /\ k.kind = j.kind /\ k.req = j.req
          /\ k.alone = j.alone /\ k.answer = j.answer /\ k.before = j.before
          /\ k.cfg0 = j.cfg0 /\ k.fd = i /\ k.text = j.text
      BY <1>2 DEF Fields, j
    <3> HIDE DEF k
    <3>4. QED
      BY <2>0, <3>2, <3>3 DEF SameRequest, j
  <2>3. QED
    BY <2>1, <2>2
<1>5. JobFits(job'[h])
  BY <1>1, <1>2, <1>4 DEF ConfigInv, Shape, JobsFit, JobFits, SameRequest, PutPcs,
                          IntervalPcs, BuildPcs
<1>6. FilesFit'
  <2>1. CASE PersistReads(h)
    BY <2>1 DEF PersistReads, ConfigInv, Shape, FilesFit
  <2>2. CASE PersistTruncates(h)
    <3>1. PICK i \in Inodes :
             /\ IF path = None THEN Fresh(i) ELSE i = path
             /\ path' = i /\ content' = [content EXCEPT ![i] = Empty]
      BY <2>2 DEF PersistTruncates
    <3>2. FilesFit /\ (tmp # None => tmp # i)
      BY <3>1 DEF Fresh, ConfigInv, Shape, FilesFit
    <3>3. DOMAIN content' = Inodes /\ \A x \in Inodes : FileFits(content'[x])
      BY <3>1, <3>2, FileWritten, TextsFit
    <3>4. QED
      BY <1>1, <3>1, <3>2, <3>3 DEF FilesFit
  <2>3. QED
    BY <2>1, <2>2
<1>7. RunningFits'
  BY <1>1 DEF ConfigInv, Shape, RunningFits
<1>8. SavedBy(h)'
  BY <1>2, <1>4 DEF SavedBy, SameRequest
<1>9. job[h].alone => SyncedBy(h)'
  BY <1>1, <1>4 DEF ConfigInv, LoneFits, SyncedBy, Synced, Polled, BuildPcs
<1>10. QED
  BY <1>1, <1>4, <1>5, <1>6, <1>7, <1>8, <1>9, OwnStep

\* server.go:973-996: however the file was left, the scheduler has the interval of
\* the configuration.
LEMMA PersistEndsKeeps ==
    ASSUME ConfigInv, NEW h \in Handlers, PersistWrites(h) \/ PersistFails(h)
    PROVE ConfigInv'
<1>1. /\ job[h].pc \in {"read", "truncate", "rewrite"} /\ Answers(h, "ok")
      /\ settled' \in {settled, FALSE}
      /\ UNCHANGED <<up, cfg, sched, fetchers, keys, unsure, path, tmp, current,
                     used>>
  BY DEF PersistWrites, PersistFails
<1>2. Others(h) /\ JobFits(job'[h]) /\ job'[h].pc = "idle"
  BY <1>1, AnswersShape DEF ConfigInv, Shape
<1>3. \/ UNCHANGED content
      \/ \E f \in {job[h].text, Torn} : content' = [content EXCEPT ![job[h].fd] = f]
  BY DEF PersistWrites, PersistFails
<1>4. \A f \in {job[h].text, Torn} : FileFits(f)
  BY TextsFit DEF ConfigInv, Shape, JobsFit, JobFits
<1>5. FilesFit'
  BY <1>1, <1>3, <1>4 DEF ConfigInv, Shape, FilesFit
<1>6. RunningFits'
  BY <1>1 DEF ConfigInv, Shape, RunningFits
<1>7. ASSUME job[h].alone, current' PROVE Synced'
  BY <1>1, <1>7 DEF ConfigInv, LoneFits, SyncedBy, Synced, Polled, BuildPcs
<1>8. job[h].pc # "idle" /\ up' = up /\ current' = current
  BY <1>1
<1>9. QED
  BY <1>2, <1>5, <1>6, <1>7, <1>8, OwnStep

\* server.go:921-961: the keychain changes before the fetchers are built again.
LEMMA KeychainDoneKeeps ==
    ASSUME ConfigInv, NEW h \in Handlers, KeychainDone(h)
    PROVE ConfigInv'
<1>1. /\ job[h].pc = "keychain" /\ Goes(h, "build")
      /\ keys' = IF job[h].kind = "set" THEN keys \cup {job[h].req.id}
                                        ELSE keys \ {job[h].req.id}
      /\ UNCHANGED <<up, cfg, sched, fetchers, unsure, path, tmp, content, settled,
                     current, used>>
  BY DEF KeychainDone, KeysAfter
<1>2. /\ Others(h) /\ SameRequest(h) /\ job'[h].pc = "build" /\ job'[h].fd = job[h].fd
      /\ job'[h].text = job[h].text
  BY <1>1, GoesShape DEF ConfigInv, Shape
<1>3. /\ job[h].kind \in {"set", "delete"} /\ job[h].req.interval_sec = 0
      /\ job[h].req.id \in KeyIds
  BY <1>1 DEF ConfigInv, Shape, JobsFit, JobFits
<1>4. JobFits(job'[h])
  BY <1>1, <1>2, <1>3 DEF ConfigInv, Shape, JobsFit, JobFits, SameRequest, PutPcs,
                          IntervalPcs, BuildPcs
<1>5. FilesFit' /\ RunningFits'
  BY <1>1, <1>3 DEF ConfigInv, Shape, FilesFit, RunningFits
<1>6. SavedBy(h)'
  BY <1>2, <1>3 DEF SavedBy, SameRequest
<1>7. job[h].alone => SyncedBy(h)'
  BY <1>1, <1>2, <1>3 DEF ConfigInv, LoneFits, SyncedBy, Synced, SameRequest, BuildPcs
<1>8. QED
  BY <1>1, <1>2, <1>4, <1>5, <1>6, <1>7, OwnStep

\* server.go:921-957: a keychain that fails leaves everything as it was, or one key that
\* the fetchers do not know of.
LEMMA KeychainFailsKeeps ==
    ASSUME ConfigInv, NEW h \in Handlers, KeychainFails(h)
    PROVE ConfigInv'
<1> DEFINE id == job[h].req.id
<1>1. /\ job[h].pc = "keychain" /\ Answers(h, "failed")
      /\ UNCHANGED <<up, cfg, sched, fetchers, path, tmp, content, settled, current,
                     used>>
  BY DEF KeychainFails
<1>2. Others(h) /\ JobFits(job'[h]) /\ job'[h].pc = "idle"
  BY <1>1, AnswersShape DEF ConfigInv, Shape
<1>3. id \in KeyIds
  BY <1>1 DEF ConfigInv, Shape, JobsFit, JobFits
<1>4. \/ keys' = keys /\ unsure' = unsure
      \/ keys' \in {keys \cup {id}, keys \ {id}} /\ unsure' = unsure \cup {id}
  BY DEF KeychainFails, KeysAfter
<1>5. FilesFit' /\ RunningFits'
  BY <1>1, <1>3, <1>4 DEF ConfigInv, Shape, FilesFit, RunningFits
<1>6. ASSUME job[h].alone, current' PROVE Synced'
  <2>1. Synced
    BY <1>1, <1>6 DEF ConfigInv, LoneFits, SyncedBy, BuildPcs
  <2>2. SameBut(fetchers, Fetchers(cfg, keys), unsure)
    BY <2>1 DEF Synced, Polled
  <2>3. SameBut(fetchers, Fetchers(cfg, keys'), unsure')
    <3>1. CASE keys' = keys /\ unsure' = unsure
      BY <2>2, <3>1
    <3>2. ASSUME NEW new \in {keys \cup {id}, keys \ {id}},
                 keys' = new, unsure' = unsure \cup {id}
          PROVE SameBut(fetchers, Fetchers(cfg, keys'), unsure')
      <4>1. SameBut(fetchers, Fetchers(cfg, new), unsure \cup {id})
        BY <2>2, KeyMoved
      <4>2. QED
        BY <3>2, <4>1
    <3>3. QED
      BY <1>4, <3>1, <3>2
  <2>4. QED
    BY <1>1, <2>1, <2>3 DEF Synced, Polled
<1>7. job[h].pc # "idle" /\ up' = up /\ current' = current
  BY <1>1
<1>8. QED
  BY <1>2, <1>5, <1>6, <1>7, OwnStep
-----------------------------------------------------------------------------
(* Requests that arrive, and restarts                                      *)

\* server.go:578-588: who begins beside another is not alone, and neither is the
\* other any more.
LEMMA BeginsKeeps ==
    ASSUME ConfigInv, NEW h \in Handlers, NEW kind, NEW pc, NEW req,
           Begins(h, kind, pc, req), pc # "idle",
           \A j : /\ DOMAIN j = Fields /\ j.pc = pc /\ j.kind = kind /\ j.req = req
                  /\ j.fd = None /\ j.alone \in BOOLEAN /\ j.text = Empty
                  /\ j.answer = "none"
                  => JobFits(j),
           pc \in {"open", "sched", "keychain"}, kind = "put" => pc = "open",
           UNCHANGED <<up, cfg, sched, fetchers, keys, unsure, path, tmp, content>>
    PROVE ConfigInv'
<1> DEFINE new == [Idle EXCEPT !.pc = pc, !.kind = kind, !.req = req]
           j == IF Busy = {} THEN [new EXCEPT !.before = Config_yaml, !.cfg0 = cfg]
                             ELSE [new EXCEPT !.alone = FALSE]
<1>0. /\ DOMAIN new = Fields /\ new.pc = pc /\ new.kind = kind /\ new.req = req
      /\ new.fd = None /\ new.alone = TRUE /\ new.text = Empty /\ new.answer = "none"
  BY DEF Idle, Fields
<1>0a. /\ up /\ h \notin Busy /\ job'[h] = j /\ DOMAIN job' = Handlers
       /\ \A g \in Handlers \ {h} :
             job'[g] = IF g \in Busy
                       THEN [job[g] EXCEPT !.alone = FALSE, !.before = Empty,
                                           !.cfg0 = Defaults]
                       ELSE job[g]
       /\ settled' = (settled /\ Busy = {}) /\ current' = (current /\ Busy = {})
  BY DEF Begins
<1> HIDE DEF new
<1>1. /\ DOMAIN j = Fields /\ j.pc = pc /\ j.kind = kind /\ j.req = req /\ j.fd = None
      /\ j.alone = (Busy = {}) /\ j.text = Empty /\ j.answer = "none"
      /\ Busy = {} => j.before = Config_yaml /\ j.cfg0 = cfg
  BY <1>0 DEF Fields
<1> HIDE DEF j
<1>2. /\ up /\ h \notin Busy /\ DOMAIN job' = Handlers /\ job'[h] = j
      /\ settled' = (settled /\ Busy = {}) /\ current' = (current /\ Busy = {})
  BY <1>0a
<1>3. JobFits(job'[h])
  BY <1>1, <1>2
<1>4. ASSUME NEW g \in Handlers, g # h
      PROVE /\ JobFits(job'[g]) /\ job'[g].pc = job[g].pc
            /\ g \in Busy => ~job'[g].alone
  <2> DEFINE b == job[g]
             k == [b EXCEPT !.alone = FALSE, !.before = Empty, !.cfg0 = Defaults]
  <2>1. JobFits(b)
    BY DEF ConfigInv, Shape, JobsFit
  <2>2. job'[g] = IF g \in Busy THEN k ELSE b
    BY <1>0a, <1>4
  <2> HIDE DEF b
  <2>3. /\ DOMAIN k = Fields /\ k.pc = b.pc /\ k.kind = b.kind /\ k.req = b.req
        /\ k.fd = b.fd /\ k.alone = FALSE /\ k.text = b.text /\ k.answer = b.answer
    BY <2>1 DEF JobFits, Fields
  <2> HIDE DEF k
  <2>4. JobFits(k)
    BY <2>1, <2>3 DEF JobFits
  <2>5. QED
    BY <2>1, <2>2, <2>3, <2>4 DEF b
<1>5. JobsFit'
  BY <1>2, <1>3, <1>4 DEF ConfigInv, Shape, JobsFit
<1>6. FilesFit'
  BY DEF ConfigInv, Shape, FilesFit
<1>7. settled' \in BOOLEAN /\ current' \in BOOLEAN
  BY <1>2 DEF ConfigInv, Shape, RunningFits
<1>8. RunningFits'
  BY <1>7 DEF ConfigInv, Shape, RunningFits
<1>9. \A g \in Handlers : job[g].pc # "idle" <=> g \in Busy
  BY DEF Busy
<1>10. AloneFits'
  <2> SUFFICES ASSUME NEW g \in Handlers, job'[g].pc # "idle"
               PROVE IF job'[g].alone
                     THEN \A f \in Handlers : job'[f].pc # "idle" => f = g
                     ELSE ~current'
    BY DEF AloneFits
  <2>1. CASE g = h
    BY <1>1, <1>2, <1>4, <1>9, <2>1
  <2>2. CASE g # h
    BY <1>2, <1>4, <1>9, <2>2
  <2>3. QED
    BY <2>1, <2>2
<1>11. LoneFits'
  <2> SUFFICES ASSUME NEW g \in Handlers, job'[g].pc # "idle", job'[g].alone
               PROVE (SavedBy(g) /\ SyncedBy(g))'
    BY DEF LoneFits
  <2>1. g = h /\ Busy = {}
    BY <1>1, <1>2, <1>4, <1>9
  <2>2. Config_yaml' = Config_yaml
    BY DEF Config_yaml
  <2>3. SavedBy(h)'
    BY <1>1, <1>2, <2>1, <2>2 DEF SavedBy, BuildPcs
  <2>4. current' => Synced'
    BY <1>2, <1>9, <2>1 DEF ConfigInv, QuietFits, Synced, Polled
  <2>5. SyncedBy(h)'
    BY <1>1, <1>2, <2>4 DEF SyncedBy, BuildPcs
  <2>6. QED
    BY <2>1, <2>3, <2>5
<1>12. QuietFits'
  BY <1>1, <1>2 DEF QuietFits
<1>13. QED
  BY <1>5, <1>6, <1>8, <1>10, <1>11, <1>12 DEF ConfigInv, Shape

\* server.go:124-129: every route that changes something accepts or refuses.
LEMMA ArrivesKeeps ==
    ASSUME ConfigInv, NEW h \in Handlers, Arrives(h)
    PROVE ConfigInv'
<1>0. FileFits(Empty)
  BY TextsFit
<1>1. ASSUME NEW req \in Requests, PutBegins(h, req) PROVE ConfigInv'
  <2>1. req.interval_sec = 0 \/ req.interval_sec >= MinInterval
    BY <1>1 DEF PutBegins, Accepts
  <2>2. \A j : /\ DOMAIN j = Fields /\ j.pc = "open" /\ j.kind = "put" /\ j.req = req
               /\ j.fd = None /\ j.alone \in BOOLEAN /\ j.text = Empty
               /\ j.answer = "none"
               => JobFits(j)
    BY <1>0, <2>1 DEF JobFits, PutPcs, IntervalPcs, BuildPcs
  <2>3. /\ Begins(h, "put", "open", req)
        /\ UNCHANGED <<up, cfg, sched, fetchers, keys, unsure, path, tmp, content>>
    BY <1>1 DEF PutBegins
  <2>4. QED
    BY <2>2, <2>3, BeginsKeeps
<1>2. ASSUME NEW req \in Requests, PutRefused(h, req) PROVE ConfigInv'
  <2>1. /\ up /\ job[h].pc = "idle" /\ Answers(h, "refused")
        /\ UNCHANGED <<up, cfg, sched, fetchers, keys, unsure, path, tmp, content,
                       settled, current>>
    BY <1>2 DEF PutRefused, Busy
  <2>2. Others(h) /\ JobFits(job'[h]) /\ job'[h].pc = "idle"
    BY <2>1, AnswersShape DEF ConfigInv, Shape
  <2>3. /\ DOMAIN job' = Handlers /\ \A g \in Handlers : job'[g].pc = job[g].pc
        /\ \A g \in Handlers : job'[g].pc # "idle" => job'[g] = job[g]
    BY <2>1, <2>2 DEF Others
  <2>4. JobsFit' /\ FilesFit' /\ RunningFits'
    BY <2>1, <2>2 DEF ConfigInv, Shape, JobsFit, FilesFit, RunningFits, Others
  <2>5. AloneFits'
    BY <2>1, <2>3 DEF ConfigInv, Shape, AloneFits
  <2>6. LoneFits'
    <3> SUFFICES ASSUME NEW g \in Handlers, job'[g].pc # "idle", job'[g].alone
                 PROVE (SavedBy(g) /\ SyncedBy(g))'
      BY DEF LoneFits
    <3>1. SavedBy(g) /\ SyncedBy(g) /\ job'[g] = job[g]
      BY <2>3 DEF ConfigInv, LoneFits
    <3>2. QED
      BY <2>1, <3>1 DEF SavedBy, SyncedBy, Synced, Polled, Config_yaml
  <2>7. QuietFits'
    BY <2>1, <2>3 DEF ConfigInv, QuietFits, Synced, Polled
  <2>8. QED
    BY <2>4, <2>5, <2>6, <2>7 DEF ConfigInv, Shape
<1>3. ASSUME NEW sec \in Intervals, IntervalBegins(h, sec) PROVE ConfigInv'
  <2> DEFINE req == [interval_sec |-> sec]
  <2>1. \A j : /\ DOMAIN j = Fields /\ j.pc = "sched" /\ j.kind = "interval" /\ j.req = req
               /\ j.fd = None /\ j.alone \in BOOLEAN /\ j.text = Empty
               /\ j.answer = "none"
               => JobFits(j)
    BY <1>0, <1>3 DEF IntervalBegins, JobFits, PutPcs, IntervalPcs, BuildPcs
  <2>2. /\ Begins(h, "interval", "sched", req)
        /\ UNCHANGED <<up, cfg, sched, fetchers, keys, unsure, path, tmp, content>>
    BY <1>3 DEF IntervalBegins
  <2> HIDE DEF req
  <2>3. QED
    BY <2>1, <2>2, BeginsKeeps
<1>4. ASSUME NEW id \in KeyIds, NEW kind \in {"set", "delete"}, KeyBegins(h, id, kind)
      PROVE ConfigInv'
  <2> DEFINE req == [interval_sec |-> 0, id |-> id]
  <2>1. \A j : /\ DOMAIN j = Fields /\ j.pc = "keychain" /\ j.kind = kind /\ j.req = req
               /\ j.fd = None /\ j.alone \in BOOLEAN /\ j.text = Empty
               /\ j.answer = "none"
               => JobFits(j)
    BY <1>0 DEF JobFits, PutPcs, IntervalPcs, BuildPcs
  <2>2. /\ Begins(h, kind, "keychain", req)
        /\ UNCHANGED <<up, cfg, sched, fetchers, keys, unsure, path, tmp, content>>
    BY <1>4 DEF KeyBegins
  <2> HIDE DEF req
  <2>3. QED
    BY <2>1, <2>2, BeginsKeeps
<1>5. QED
  BY <1>1, <1>2, <1>3, <1>4 DEF Arrives

\* serve.go:28-182: a daemon starts with one configuration throughout, and only on a
\* file that gives an interval it serves; a stop forgets who was busy.
LEMMA RestartsKeep ==
    ASSUME ConfigInv, ConfigServerAssumption,
           Stops \/ StartsUp \/ \E fc \in HandFiles : OwnerWrites(fc)
    PROVE ConfigInv'
<1>1. CASE Stops
  <2>1. JobFits(Idle) /\ Idle.pc = "idle"
    BY TextsFit DEF Idle, JobFits, Fields, PutPcs, IntervalPcs, BuildPcs
  <2>2. /\ DOMAIN job' = Handlers /\ \A h \in Handlers : job'[h] = Idle
        /\ ~up' /\ tmp' = None
        /\ UNCHANGED <<cfg, sched, fetchers, keys, unsure, path, content, settled,
                       current>>
    BY <1>1 DEF Stops
  <2>3. up' \in BOOLEAN
    BY <1>1 DEF Stops
  <2>4. JobsFit' /\ FilesFit' /\ RunningFits'
    BY <2>1, <2>2, <2>3 DEF ConfigInv, Shape, JobsFit, FilesFit, RunningFits
  <2>5. AloneFits' /\ LoneFits' /\ QuietFits'
    BY <2>1, <2>2 DEF AloneFits, LoneFits, QuietFits
  <2>6. QED
    BY <2>4, <2>5 DEF ConfigInv, Shape
<1>2. CASE StartsUp
  <2> DEFINE c == Loaded(FieldsOf(Config_yaml))
  <2>0. PICK lost \in SUBSET (keys \cap AskedFor(c)) :
           fetchers' = Fetchers(c, keys \ lost) /\ unsure' = lost
    BY <1>2 DEF StartsUp
  <2>1. /\ ~up /\ up' = TRUE /\ cfg' = c
        /\ sched' = [interval |-> c.interval, order |-> c.order]
        /\ settled' = TRUE /\ current' = TRUE /\ Serves(c)
        /\ UNCHANGED <<keys, path, tmp, content, job>>
    BY <1>2 DEF StartsUp, Starts
  <2>2. CfgFits(c) /\ SameBut(fetchers', Fetchers(c, keys), unsure')
    BY <2>0, LoadedFits, LostReads
  <2> HIDE DEF c
  <2>3. JobsFit' /\ FilesFit'
    BY <2>1 DEF ConfigInv, Shape, JobsFit, FilesFit
  <2>4. RunningFits'
    BY <2>0, <2>1, <2>2 DEF ConfigInv, Shape, RunningFits, Serves
  <2>5. AloneFits' /\ LoneFits'
    BY <2>1 DEF ConfigInv, Shape, JobsFit, AloneFits, LoneFits
  <2>6. QuietFits'
    BY <2>1, <2>2 DEF QuietFits, Synced, Polled
  <2>7. QED
    BY <2>3, <2>4, <2>5, <2>6 DEF ConfigInv, Shape
<1>3. ASSUME NEW fc \in HandFiles, OwnerWrites(fc) PROVE ConfigInv'
  <2>1. PICK i \in Inodes :
           /\ IF path = None THEN Fresh(i) ELSE i = path
           /\ path' = i /\ content' = [content EXCEPT ![i] = Hand(fc)]
    BY <1>3 DEF OwnerWrites
  <2>2. ~up /\ UNCHANGED <<up, cfg, sched, fetchers, keys, unsure, tmp, job,
                           settled, current>>
    BY <1>3 DEF OwnerWrites
  <2>3. FilesFit /\ (tmp # None => tmp # i) /\ FileFits(Hand(fc))
    BY <2>1, TextsFit DEF Fresh, ConfigInv, Shape, FilesFit
  <2>4. DOMAIN content' = Inodes /\ \A x \in Inodes : FileFits(content'[x])
    BY <2>1, <2>3, FileWritten
  <2>5. FilesFit'
    BY <2>1, <2>2, <2>3, <2>4 DEF FilesFit
  <2>6. JobsFit' /\ RunningFits'
    BY <2>2 DEF ConfigInv, Shape, JobsFit, RunningFits
  <2>7. AloneFits' /\ LoneFits' /\ QuietFits'
    BY <2>2 DEF ConfigInv, Shape, JobsFit, AloneFits, LoneFits, QuietFits
  <2>8. QED
    BY <2>5, <2>6, <2>7 DEF ConfigInv, Shape
<1>4. QED
  BY <1>1, <1>2, <1>3
-----------------------------------------------------------------------------
(* The theorems                                                            *)

\* serve.go:28-36: a daemon that is down, on a file nobody has written.
LEMMA ConfigStarts == Init => ConfigInv
<1> SUFFICES ASSUME Init PROVE ConfigInv
  OBVIOUS
<1>1. JobFits(Idle) /\ Idle.pc = "idle"
  BY TextsFit DEF Idle, JobFits, Fields, PutPcs, IntervalPcs, BuildPcs
<1>2. JobsFit
  BY <1>1 DEF Init, JobsFit
<1>3. FilesFit
  BY TextsFit DEF Init, FilesFit
<1>4. RunningFits
  BY LoadedFits DEF Init, RunningFits
<1>5. AloneFits /\ LoneFits /\ QuietFits
  BY <1>1 DEF Init, AloneFits, LoneFits, QuietFits
<1>6. QED
  BY <1>2, <1>3, <1>4, <1>5 DEF ConfigInv, Shape

\* server.go:115-130 and serve.go:28-182: every step keeps the invariant.
LEMMA ConfigKept == ConfigInv /\ [Next]_vars => ConfigInv'
<1> SUFFICES ASSUME ConfigInv, [Next]_vars PROVE ConfigInv'
  OBVIOUS
<1> USE ConfigServerAssumption
<1>1. ASSUME NEW h \in Handlers, Step(h) PROVE ConfigInv'
  BY <1>1, PutOpensKeeps, PutWritesKeeps, PutRenamesKeeps, PutFailsKeeps, PutAppliesKeeps,
     PutChangesGeneralKeeps, PutChangesProvidersKeeps, PutChangesAlertsKeeps,
     BuildsKeeps, InstallsKeeps, OrdersKeeps, IntervalSetsKeeps,
     IntervalChangesConfigKeeps, PersistGoesOnKeeps, PersistEndsKeeps, KeychainDoneKeeps,
     KeychainFailsKeeps DEF Step
<1>2. CASE UNCHANGED vars
  <2>1. JobsFit' /\ FilesFit' /\ RunningFits' /\ AloneFits'
    BY <1>2 DEF vars, ConfigInv, Shape, JobsFit, FilesFit, RunningFits, AloneFits
  <2>2. LoneFits' /\ QuietFits'
    BY <1>2 DEF vars, ConfigInv, LoneFits, QuietFits, SavedBy, SyncedBy, Synced, Polled,
                Config_yaml
  <2>3. QED
    BY <2>1, <2>2 DEF ConfigInv, Shape
<1>3. QED
  BY <1>1, <1>2, ArrivesKeeps, RestartsKeep DEF Next

\* serve.go:28-182: the invariant holds in every reachable state of the daemon.
LEMMA ConfigAlways == Spec => []ConfigInv
  BY ConfigStarts, ConfigKept, PTL DEF Spec

\* server.go:735-996: handlers, files and the two intervals are well typed, and no
\* daemon runs with an interval below the minimum.
THEOREM ConfigTypeOK == Spec => []TypeOK
<1>1. ConfigInv => TypeOK
  BY DEF ConfigInv, Shape, JobsFit, JobFits, FilesFit, FileFits, RunningFits, TypeOK, PutPcs,
         IntervalPcs, BuildPcs
<1>2. QED
  BY <1>1, ConfigAlways, PTL

\* server.go:998-1029: a save nobody meets leaves config.yaml as it was or wholly as
\* the body wants it, at every step.
THEOREM SaveIsAtomic == Spec => []LoneSaveIsAtomic
<1>1. ConfigInv => LoneSaveIsAtomic
  <2> SUFFICES ASSUME ConfigInv, NEW h \in Handlers, job[h].pc # "idle",
                      job[h].kind = "put", job[h].alone
               PROVE Config_yaml \in {job[h].before, Doc(FileOf(job[h].req))}
    BY DEF LoneSaveIsAtomic, Busy
  <2>1. SavedBy(h)
    BY DEF ConfigInv, LoneFits
  <2>2. job[h].pc \in PutPcs \cup BuildPcs
    BY DEF ConfigInv, Shape, JobsFit, JobFits, IntervalPcs
  <2>3. QED
    BY <2>1, <2>2 DEF SavedBy, PutPcs
<1>2. QED
  BY <1>1, ConfigAlways, PTL

\* server.go:735-744: a save that fails leaves the file and the running
\* configuration as they were when its request arrived.
THEOREM FailedSaveHarmless == Spec => FailedSaveChangesNothing
<1> DEFINE Harmless ==
        \A h \in Handlers :
           /\ job'[h].answer = "failed" /\ job[h].pc # "idle"
           /\ job[h].kind = "put" /\ job[h].alone
           => Config_yaml' = job[h].before /\ cfg' = job[h].cfg0
<1>1. ASSUME ConfigInv, [Next]_vars PROVE Harmless
  <2> SUFFICES ASSUME NEW h \in Handlers, job'[h].answer = "failed", job[h].pc # "idle",
                      job[h].kind = "put", job[h].alone
               PROVE Config_yaml' = job[h].before /\ cfg' = job[h].cfg0
    OBVIOUS
  <2>1. job[h].answer = "none" /\ DOMAIN job = Handlers /\ JobsFit
    BY <1>1 DEF ConfigInv, Shape, JobsFit, JobFits
  <2>2. CASE PutFails(h)
    <3>1. /\ SavedBy(h) /\ FilesFit
          /\ job[h].pc \in {"open", "write", "rename"} /\ cfg' = cfg /\ path' = path
          /\ content' = content
             \/ (job[h].pc = "write" /\ content' = [content EXCEPT ![job[h].fd] = Torn])
      BY <1>1, <2>2 DEF PutFails, ConfigInv, Shape, LoneFits
    <3>2. job[h].pc = "write" => job[h].fd # path
      BY <3>1, ConfigServerAssumption DEF SavedBy, FilesFit
    <3>3. Config_yaml' = Config_yaml
      BY <3>1, <3>2 DEF Config_yaml, FilesFit
    <3>4. QED
      BY <3>1, <3>3 DEF SavedBy
  <2>3. ASSUME NEW g \in Handlers, Step(g), ~(g = h /\ PutFails(h)) PROVE FALSE
    <3>1. CASE g # h
      <4>1. job'[h] = job[h]
        BY <2>1, <2>3, <3>1 DEF Step, PutOpens, PutWrites, PutRenames, PutFails, PutApplies,
             PutChangesGeneral, PutChangesProviders, PutChangesAlerts, Builds,
             Installs, Orders, IntervalSets, IntervalChangesConfig,
             PersistReads, PersistTruncates, PersistWrites, PersistFails, KeychainDone,
             KeychainFails, Goes, Answers
      <4>2. QED
        BY <2>1, <4>1
    <3>2. CASE g = h
      <4>1. ~KeychainFails(h)
        BY <2>1 DEF KeychainFails, JobsFit, JobFits
      <4>2. ~(Orders(h) \/ PersistWrites(h) \/ PersistFails(h))
        BY <2>1, AnswersShape DEF Orders, PersistWrites, PersistFails
      <4>3. ASSUME NEW pc, Goes(h, pc) PROVE FALSE
        BY <2>1, <4>3, GoesShape DEF SameRequest
      <4>4. ~(PutWrites(h) \/ PutRenames(h) \/ PutApplies(h)
              \/ PutChangesGeneral(h) \/ PutChangesProviders(h) \/ PutChangesAlerts(h)
              \/ Installs(h) \/ IntervalSets(h) \/ IntervalChangesConfig(h)
              \/ KeychainDone(h))
        BY <4>3 DEF PutWrites, PutRenames, PutApplies, PutChangesGeneral,
                    PutChangesProviders, PutChangesAlerts, Installs, IntervalSets,
                    IntervalChangesConfig, KeychainDone
      <4>5. ~(PutOpens(h) \/ Builds(h) \/ PersistReads(h) \/ PersistTruncates(h))
        <5> DEFINE j == job[h]
        <5>1. DOMAIN j = Fields
          BY <2>1 DEF JobsFit, JobFits
        <5>2. j.answer # job'[h].answer
          BY <2>1
        <5>3. ASSUME PutOpens(h) PROVE FALSE
          <6>1. PICK v : job'[h] = [j EXCEPT !.pc = "write", !.fd = v]
            BY <2>1, <5>3 DEF PutOpens
          <6> HIDE DEF j
          <6>2. [j EXCEPT !.pc = "write", !.fd = v].answer = j.answer
            BY <5>1 DEF Fields
          <6>3. QED
            BY <5>2, <6>1, <6>2
        <5>4. ASSUME Builds(h) PROVE FALSE
          <6>1. PICK v : job'[h] = [j EXCEPT !.pc = "install", !.built = v]
            BY <2>1, <5>4 DEF Builds
          <6> HIDE DEF j
          <6>2. [j EXCEPT !.pc = "install", !.built = v].answer = j.answer
            BY <5>1 DEF Fields
          <6>3. QED
            BY <5>2, <6>1, <6>2
        <5>5. ASSUME PersistReads(h) PROVE FALSE
          <6>1. PICK v : job'[h] = [j EXCEPT !.pc = "truncate", !.text = v]
            BY <2>1, <5>5 DEF PersistReads
          <6> HIDE DEF j
          <6>2. [j EXCEPT !.pc = "truncate", !.text = v].answer = j.answer
            BY <5>1 DEF Fields
          <6>3. QED
            BY <5>2, <6>1, <6>2
        <5>6. ASSUME PersistTruncates(h) PROVE FALSE
          <6>1. PICK v : job'[h] = [j EXCEPT !.pc = "rewrite", !.fd = v]
            BY <2>1, <5>6 DEF PersistTruncates
          <6> HIDE DEF j
          <6>2. [j EXCEPT !.pc = "rewrite", !.fd = v].answer = j.answer
            BY <5>1 DEF Fields
          <6>3. QED
            BY <5>2, <6>1, <6>2
        <5>7. QED
          BY <5>3, <5>4, <5>5, <5>6
      <4>6. QED
        BY <2>3, <3>2, <4>1, <4>2, <4>4, <4>5 DEF Step
    <3>3. QED
      BY <3>1, <3>2
  <2>4. ASSUME NEW g \in Handlers, Arrives(g) PROVE FALSE
    <3>1. ASSUME NEW kind, NEW pc, NEW req, Begins(g, kind, pc, req) PROVE FALSE
      <4> DEFINE j == job[h]
      <4>1. DOMAIN j = Fields /\ h \in Busy
        BY <2>1 DEF JobsFit, JobFits, Busy
      <4>2. job'[h] = [j EXCEPT !.alone = FALSE, !.before = Empty, !.cfg0 = Defaults]
        BY <3>1, <4>1 DEF Begins
      <4> HIDE DEF j
      <4>3. [j EXCEPT !.alone = FALSE, !.before = Empty, !.cfg0 = Defaults].answer = j.answer
        BY <4>1 DEF Fields
      <4>4. QED
        BY <2>1, <4>2, <4>3 DEF j
    <3>2. ASSUME NEW req \in Requests, PutRefused(g, req) PROVE FALSE
      BY <2>1, <3>2 DEF PutRefused, Answers, Busy
    <3>3. QED
      BY <2>4, <3>1, <3>2 DEF Arrives, PutBegins, IntervalBegins, KeyBegins
  <2>5. ~Stops
    BY DEF Stops, Idle
  <2>6. ~(StartsUp \/ (\E fc \in HandFiles : OwnerWrites(fc)) \/ UNCHANGED vars)
    BY <2>1 DEF StartsUp, OwnerWrites, vars
  <2>7. QED
    BY <1>1, <2>2, <2>3, <2>4, <2>5, <2>6 DEF Next
<1>2. QED
  BY <1>1, ConfigAlways, PTL DEF Spec, FailedSaveChangesNothing

\* server.go:870-881 and once.go:85-205: when no request is under way and none has met
\* another since the fetchers were built, the scheduler polls with what the
\* configuration and the keychain say, but for the keys the keychain failed on.
THEOREM FetchersFollow == Spec => []FetchersFollowConfig
<1>1. ConfigInv => FetchersFollowConfig
  <2> DEFINE g == Fetchers(cfg, keys)
  <2> SUFFICES ASSUME ConfigInv, up, Busy = {}, current
               PROVE /\ SameBut(fetchers, g, unsure)
                     /\ \A id \in (Keyed \cap (fetchers.live \cup fetchers.off)) \ unsure :
                           EffectiveProvider(cfg, id).keyEnv = DefaultProvider(id).keyEnv =>
                              (KeyState(cfg, keys, id) = "set") = (id \in fetchers.live)
                     /\ sched = [interval |-> cfg.interval, order |-> cfg.order]
    BY DEF FetchersFollowConfig
  <2>1. Synced
    BY DEF ConfigInv, QuietFits, Busy
  <2>2. SameBut(fetchers, g, unsure)
    BY <2>1 DEF Synced, Polled
  <2>3. sched = [interval |-> sched.interval, order |-> sched.order]
    BY DEF ConfigInv, Shape, RunningFits
  <2>4. sched = [interval |-> cfg.interval, order |-> cfg.order]
    BY <2>1, <2>3 DEF Synced, Polled
  <2>5. ASSUME NEW id \in (Keyed \cap (fetchers.live \cup fetchers.off)) \ unsure,
               EffectiveProvider(cfg, id).keyEnv = DefaultProvider(id).keyEnv
        PROVE (KeyState(cfg, keys, id) = "set") = (id \in fetchers.live)
    <3>1. id \in g.live \cup g.off /\ (id \in g.live <=> id \in fetchers.live)
      BY <2>2 DEF SameBut
    <3>2. (KeyState(cfg, keys, id) = "set") = (id \in g.live)
      BY <2>5, <3>1, KeyShown
    <3>3. QED
      BY <3>1, <3>2
  <2>6. QED
    BY <2>2, <2>4, <2>5
<1>2. QED
  BY <1>1, ConfigAlways, PTL

-----------------------------------------------------------------------------

\* server.go:699-725: what a body's provider is when it is read.
LEMMA BodyFits ==
    ASSUME NEW p \in ProviderBodies
    PROVE  /\ FromRequest(p) \in ProviderVals
           /\ FromRequest(p).id = p.id /\ FromRequest(p).label = p.label
           /\ FromRequest(p).keyEnv = p.keyEnv
           /\ FromRequest(p).probe => FromRequest(p).hasProbe
           /\ FromRequest(p).plan # NoPlan =>
                 /\ p.plan # NoPlan /\ Len(FromRequest(p).plan) = 1
                 /\ FromRequest(p).plan[1].currency = p.plan[1].currency
                 /\ FromRequest(p).plan[1].label = p.plan[1].label
                 /\ p.plan[1].usd # <<>> => FromRequest(p).plan[1].hasUsd
<1> DEFINE pl == [cost |-> p.plan[1].cost, currency |-> p.plan[1].currency,
                  label |-> p.plan[1].label, usd |-> First(p.plan[1].usd, 0),
                  hasUsd |-> p.plan[1].usd # <<>>]
           plan == IF p.plan = <<>> THEN NoPlan ELSE <<pl>>
           q == FromRequest(p)
<1>1. /\ p.id \in Words /\ p.enabled \in Seq(BOOLEAN) /\ p.label \in Words /\ p.keyEnv \in Words
      /\ p.probe \in Seq(BOOLEAN) /\ p.plan \in Seq(PlanBodies)
  BY DEF ProviderBodies
<1>2. p.plan # <<>> => pl \in PlanVals
  <2> SUFFICES ASSUME p.plan # <<>> PROVE pl \in PlanVals
    OBVIOUS
  <2>1. p.plan[1] \in PlanBodies
    BY <1>1
  <2>2. /\ p.plan[1].cost \in Int /\ p.plan[1].currency \in Words /\ p.plan[1].label \in Words
        /\ p.plan[1].usd \in Seq(Int)
    BY <2>1 DEF PlanBodies
  <2>3. First(p.plan[1].usd, 0) \in Int
    BY <2>2 DEF First
  <2>4. QED
    BY <2>2, <2>3 DEF PlanVals
<1>3. First(p.enabled, TRUE) \in BOOLEAN /\ First(p.probe, FALSE) \in BOOLEAN
      /\ (p.probe = <<>> => First(p.probe, FALSE) = FALSE)
  <2>1. /\ p.enabled # <<>> => p.enabled[1] \in BOOLEAN
        /\ p.probe # <<>> => p.probe[1] \in BOOLEAN
    BY <1>1
  <2>2. First(p.enabled, TRUE) \in BOOLEAN
    BY <2>1, Zenon DEF First
  <2>3. First(p.probe, FALSE) \in BOOLEAN
    BY <2>1, Zenon DEF First
  <2>4. p.probe = <<>> => First(p.probe, FALSE) = FALSE
    BY Zenon DEF First
  <2>5. QED
    BY <2>2, <2>3, <2>4
<1>4. plan \in Seq(PlanVals)
  <2> HIDE DEF pl
  <2>1. QED
    BY <1>2 DEF NoPlan
<1>5. q = [id |-> p.id, enabled |-> First(p.enabled, TRUE), label |-> p.label,
           keyEnv |-> p.keyEnv, probe |-> First(p.probe, FALSE),
           hasProbe |-> p.probe # <<>>, plan |-> plan]
  BY DEF FromRequest
<1> HIDE DEF q
<1>6. q.plan # NoPlan => p.plan # NoPlan /\ q.plan = <<pl>>
  <2> HIDE DEF pl
  <2>1. QED
    BY <1>5 DEF NoPlan
<1> HIDE DEF plan
<1>7. /\ q \in ProviderVals /\ q.id = p.id /\ q.label = p.label /\ q.keyEnv = p.keyEnv
      /\ q.probe => q.hasProbe
  BY <1>1, <1>3, <1>4, <1>5 DEF ProviderVals
<1>8. /\ pl.currency = p.plan[1].currency /\ pl.label = p.plan[1].label
      /\ p.plan[1].usd # <<>> => pl.hasUsd
  OBVIOUS
<1> HIDE DEF pl
<1>9. q.plan # NoPlan => p.plan # NoPlan /\ Len(q.plan) = 1 /\ q.plan[1] = pl
  BY <1>6
<1>10. QED
  BY <1>7, <1>8, <1>9 DEF q

\* A provider as the settings page sends it: no key_env, a plan with its cost in
\* dollars or none.
PageProvider(p) ==
    /\ p \in ProviderVals /\ p.keyEnv = NoText /\ p.label \in Plain
    /\ p.probe => p.hasProbe
    /\ p.plan # NoPlan => Len(p.plan) = 1 /\ CleanPlan(p.plan[1])

\* A sequence has a last index with a given property.
LEMMA LastIndex ==
    ASSUME NEW N \in Nat, NEW T, NEW i \in 1..N, i \in T
    PROVE  \E k \in 1..N : k \in T /\ \A j \in 1..N : j \in T => j <= k
<1> DEFINE S == {n \in 0..N : (\E j \in 1..n : j \in T) =>
                                \E k \in 1..n : k \in T /\ \A j \in 1..n : j \in T => j <= k}
<1>1. 0 \in S
  OBVIOUS
<1>2. ASSUME NEW n \in 1..N, n - 1 \in S PROVE n \in S
  <2>1. CASE n \in T
    <3>1. \A j \in 1..n : j <= n
      OBVIOUS
    <3>2. QED
      BY <2>1, <3>1
  <2>2. CASE n \notin T
    <3>1. \A j \in 1..n : j \in T => j \in 1..(n - 1)
      BY <2>2
    <3>2. CASE \E j \in 1..n : j \in T
      <4>1. PICK k \in 1..(n - 1) : k \in T /\ \A j \in 1..(n - 1) : j \in T => j <= k
        BY <1>2, <3>1, <3>2
      <4>2. k \in 1..n /\ \A j \in 1..n : j \in T => j <= k
        BY <3>1, <4>1
      <4>3. QED
        BY <4>1, <4>2
    <3>3. QED
      BY <3>2
  <2>3. QED
    BY <2>1, <2>2
<1> HIDE DEF S
<1>3. N \in S
  <2>1. 0..N \subseteq S
    BY <1>1, <1>2, LineByLine
  <2>2. QED
    BY <2>1
<1>4. QED
  BY <1>3 DEF S

\* server.go:682-729: every provider of a body the page may have sent is one.
LEMMA PageFits ==
    ASSUME NEW req \in Requests, Full(req)
    PROVE  /\ DOMAIN Providers(req) = Ids
           /\ \A id \in Ids : PageProvider(Providers(req)[id])
<1> DEFINE R == req.providers
           N == Len(R)
           s == [i \in DOMAIN R |-> FromRequest(R[i])]
           at(id) == CHOOSE i \in DOMAIN s : /\ s[i].id = id
                                             /\ \A j \in DOMAIN s : s[j].id = id => j <= i
<1>1. R \in Seq(ProviderBodies)
  BY BodyAssumption
<1>2. N \in Nat /\ DOMAIN R = 1..N /\ \A i \in 1..N : R[i] \in ProviderBodies
  BY <1>1
<1>3. \A i \in 1..N : s[i] = FromRequest(R[i]) /\ s[i].id = R[i].id
  BY <1>2, BodyFits
<1>4. DOMAIN s = 1..N
  BY <1>2
<1>5. {s[i].id : i \in DOMAIN s} = Ids
  <2>1. Ids = {R[i].id : i \in DOMAIN R}
    BY DEF Full
  <2>2. {s[i].id : i \in 1..N} = {R[i].id : i \in 1..N}
    BY <1>3
  <2>3. QED
    BY <1>2, <1>4, <2>1, <2>2
<1>6. Providers(req) = [id \in {s[i].id : i \in DOMAIN s} |-> s[at(id)]]
  BY DEF Providers, ById
<1> HIDE DEF s
<1>7. ASSUME NEW id \in Ids PROVE at(id) \in 1..N
  <2> DEFINE T == {i \in 1..N : s[i].id = id}
  <2>1. \E i \in 1..N : i \in T
    BY <1>4, <1>5
  <2>2. \E k \in 1..N : k \in T /\ \A j \in 1..N : j \in T => j <= k
    <3> HIDE DEF T
    <3>1. QED
      BY <1>2, <2>1, LastIndex
  <2>3. \E k \in DOMAIN s : s[k].id = id /\ \A j \in DOMAIN s : s[j].id = id => j <= k
    BY <1>4, <2>2
  <2>4. QED
    BY <1>4, <2>3
<1> HIDE DEF at
<1>8. ASSUME NEW i \in 1..N PROVE PageProvider(s[i])
  <2>0. R[i].label \in Written(req)
        /\ (R[i].plan # NoPlan => {R[i].plan[1].currency, R[i].plan[1].label} \subseteq Written(req))
    <3> DEFINE texts(k) == LET p == R[k] IN {p.label} \cup (IF p.plan = NoPlan THEN {}
                                    ELSE {p.plan[1].currency, p.plan[1].label})
    <3>1. texts(i) \subseteq UNION {texts(k) : k \in DOMAIN R}
      <4> HIDE DEF texts
      <4>1. QED
        BY <1>2
    <3>2. UNION {texts(k) : k \in DOMAIN R} \subseteq Written(req)
      BY DEF Written
    <3>3. QED
      BY <3>1, <3>2
  <2>1. /\ R[i].keyEnv = NoText /\ R[i].label \in Plain
        /\ R[i].plan # NoPlan => /\ R[i].plan[1].usd # <<>>
                                 /\ R[i].plan[1].currency \in Plain
                                 /\ R[i].plan[1].label \in Plain
    <3>1. Written(req) \subseteq Plain /\ R[i].keyEnv = NoText
          /\ (R[i].plan # NoPlan => R[i].plan[1].usd # <<>>)
      BY <1>2 DEF Full
    <3>2. QED
      BY <2>0, <3>1
  <2>2. R[i] \in ProviderBodies /\ s[i] = FromRequest(R[i])
    BY <1>2, <1>3
  <2>3. /\ s[i] \in ProviderVals /\ s[i].label = R[i].label /\ s[i].keyEnv = R[i].keyEnv
        /\ s[i].probe => s[i].hasProbe
    BY <2>2, BodyFits
  <2>4. s[i].plan # NoPlan =>
                 /\ R[i].plan # NoPlan /\ Len(s[i].plan) = 1
                 /\ s[i].plan[1].currency = R[i].plan[1].currency
                 /\ s[i].plan[1].label = R[i].plan[1].label
                 /\ R[i].plan[1].usd # <<>> => s[i].plan[1].hasUsd
    BY <2>2, BodyFits
  <2>5. QED
    BY <2>1, <2>3, <2>4 DEF PageProvider, CleanPlan
<1>9. QED
  BY <1>5, <1>6, <1>7, <1>8

\* A provider is its seven fields.
LEMMA ProviderIs ==
    ASSUME NEW q, q = [k \in DOMAIN q |-> q[k]],
           DOMAIN q = {"id", "enabled", "label", "keyEnv", "probe", "hasProbe", "plan"},
           q.id \in Words, q.enabled \in BOOLEAN, q.label \in Words, q.keyEnv \in Words,
           q.probe \in BOOLEAN, q.hasProbe \in BOOLEAN, q.plan \in Seq(PlanVals)
    PROVE  q \in ProviderVals
  BY DEF ProviderVals

\* defaults.go:34-94: the built-in providers.
LEMMA BuiltinFits ==
    ASSUME NEW id \in Ids
    PROVE  LET d == DefaultProvider(id)
           IN  /\ d \in ProviderVals /\ d.id = id /\ d.enabled = TRUE /\ d.label = id
               /\ d.keyEnv \in Plain \ KeyShaped /\ d.probe = FALSE /\ d.hasProbe = FALSE
               /\ id \in Plain \ {NoText}
               /\ d.plan # NoPlan => Len(d.plan) = 1 /\ CleanPlan(d.plan[1])
<1> DEFINE d == DefaultProvider(id)
           pl == [cost |-> 1, currency |-> "BRL", usd |-> 1, hasUsd |-> TRUE, label |-> "Max"]
<1>1. id \in Plain \ {NoText} /\ Plain \subseteq Words
  BY BuiltinAssumption DEF Ids, Plain
<1>2. "BRL" \in Plain /\ "Max" \in Plain /\ "ENV" \in Plain \ KeyShaped
      /\ NoText \in Plain \ KeyShaped
  BY BuiltinAssumption
<1>3. pl \in PlanVals /\ CleanPlan(pl)
  BY <1>1, <1>2 DEF PlanVals, CleanPlan
<1>4. DefaultPlan = <<pl>>
  BY DEF DefaultPlan
<1> HIDE DEF pl
<1>5. DefaultPlan \in Seq(PlanVals) /\ Len(DefaultPlan) = 1 /\ DefaultPlan[1] = pl
  BY <1>3, <1>4
<1>6. d.plan \in Seq(PlanVals) /\ d.plan \in {DefaultPlan, NoPlan}
  BY <1>5 DEF DefaultProvider, NoPlan
<1>7. /\ d.id = id /\ d.enabled = TRUE /\ d.label = id /\ d.probe = FALSE /\ d.hasProbe = FALSE
      /\ d.keyEnv \in {"ENV", NoText}
      /\ d = [id |-> d.id, enabled |-> d.enabled, label |-> d.label, keyEnv |-> d.keyEnv,
              probe |-> d.probe, hasProbe |-> d.hasProbe, plan |-> d.plan]
  BY DEF DefaultProvider
<1> HIDE DEF d
<1>8. d \in ProviderVals
  BY <1>1, <1>2, <1>6, <1>7 DEF ProviderVals
<1>9. QED
  BY <1>1, <1>2, <1>3, <1>5, <1>6, <1>7, <1>8 DEF d

\* defaults.go:124-168: what is kept of a provider of the page is a provider that reads
\* back, lays over the default as it is, and says nothing when it equals the default.
LEMMA MergedFits ==
    ASSUME NEW id \in Ids, NEW p, PageProvider(p)
    PROVE  LET d == DefaultProvider(id)
               m == MergeWithDefault(p, d)
           IN  /\ m \in ProviderVals /\ CleanProvider(m) /\ m.id = id
               /\ MergeWithDefault(m, d) = m
               /\ m.hasProbe = p.hasProbe
               /\ p.hasProbe => m.probe = p.probe
               /\ ProviderEqual(m, d) => /\ m.probe = FALSE
                                         /\ [m EXCEPT !.hasProbe = TRUE] = [d EXCEPT !.hasProbe = TRUE]
<1> DEFINE d == DefaultProvider(id)
           m == MergeWithDefault(p, d)
           n == MergeWithDefault(m, d)
<1>1. /\ d \in ProviderVals /\ d.id = id /\ d.enabled = TRUE /\ d.label = id
      /\ d.keyEnv \in Plain \ KeyShaped /\ d.probe = FALSE /\ d.hasProbe = FALSE
      /\ id \in Plain \ {NoText}
      /\ d.plan # NoPlan => Len(d.plan) = 1 /\ CleanPlan(d.plan[1])
  BY BuiltinFits
<1>2. /\ p \in ProviderVals /\ p.keyEnv = NoText /\ p.label \in Plain
      /\ p.probe => p.hasProbe
      /\ p.plan # NoPlan => Len(p.plan) = 1 /\ CleanPlan(p.plan[1])
      /\ p.probe \in BOOLEAN /\ p.hasProbe \in BOOLEAN /\ p.enabled \in BOOLEAN
  BY DEF PageProvider, ProviderVals
<1>2a. Plain \subseteq Words
  BY DEF Plain
<1> HIDE DEF d, n
<1>3. m = [d EXCEPT !.enabled  = p.enabled,
              !.label    = IF p.label # NoText THEN p.label ELSE d.label,
              !.keyEnv   = IF p.keyEnv # NoText THEN p.keyEnv ELSE d.keyEnv,
              !.probe    = IF p.hasProbe THEN p.probe ELSE d.probe,
              !.hasProbe = p.hasProbe \/ d.hasProbe,
              !.plan     = IF p.plan # NoPlan THEN p.plan ELSE d.plan]
  BY DEF MergeWithDefault
<1> HIDE DEF m
<1>4. /\ m.id = id /\ m.enabled = p.enabled
      /\ m.label = IF p.label # NoText THEN p.label ELSE id
      /\ m.keyEnv = d.keyEnv
      /\ m.probe = IF p.hasProbe THEN p.probe ELSE FALSE
      /\ m.hasProbe = p.hasProbe
      /\ m.plan = IF p.plan # NoPlan THEN p.plan ELSE d.plan
  BY <1>1, <1>2, <1>3 DEF ProviderVals
<1>4a. DOMAIN m = DOMAIN d /\ m = [k \in DOMAIN m |-> m[k]]
  BY <1>3
<1>5. m \in ProviderVals
  <2>1. DOMAIN m = {"id", "enabled", "label", "keyEnv", "probe", "hasProbe", "plan"}
    BY <1>1, <1>4a DEF ProviderVals
  <2>2. /\ d.id \in Words /\ d.label \in Words /\ d.keyEnv \in Words /\ d.plan \in Seq(PlanVals)
        /\ p.label \in Words /\ p.plan \in Seq(PlanVals)
    BY <1>1, <1>2 DEF ProviderVals
  <2>3. /\ m.id \in Words /\ m.enabled \in BOOLEAN /\ m.label \in Words /\ m.keyEnv \in Words
        /\ m.probe \in BOOLEAN /\ m.hasProbe \in BOOLEAN /\ m.plan \in Seq(PlanVals)
    BY <1>1, <1>2, <1>4, <2>2
  <2>4. QED
    BY <1>4a, <2>1, <2>3, ProviderIs
<1>6. CleanProvider(m)
  BY <1>1, <1>2, <1>4 DEF CleanProvider
<1>7. MergeWithDefault(m, d) = m
  <2>1. n = [d EXCEPT !.enabled  = m.enabled,
              !.label    = IF m.label # NoText THEN m.label ELSE d.label,
              !.keyEnv   = IF m.keyEnv # NoText THEN m.keyEnv ELSE d.keyEnv,
              !.probe    = IF m.hasProbe THEN m.probe ELSE d.probe,
              !.hasProbe = m.hasProbe \/ d.hasProbe,
              !.plan     = IF m.plan # NoPlan THEN m.plan ELSE d.plan]
    BY DEF MergeWithDefault, n
  <2>2. /\ DOMAIN n = DOMAIN m /\ n = [k \in DOMAIN n |-> n[k]]
        /\ n.id = m.id /\ n.enabled = m.enabled /\ n.label = m.label /\ n.keyEnv = m.keyEnv
        /\ n.probe = m.probe /\ n.hasProbe = m.hasProbe /\ n.plan = m.plan
    <3>1. DOMAIN n = DOMAIN m /\ n = [k \in DOMAIN n |-> n[k]]
      BY <1>4a, <2>1
    <3>2. /\ n.id = d.id /\ n.enabled = m.enabled
          /\ n.label = IF m.label # NoText THEN m.label ELSE d.label
          /\ n.keyEnv = IF m.keyEnv # NoText THEN m.keyEnv ELSE d.keyEnv
          /\ n.probe = IF m.hasProbe THEN m.probe ELSE d.probe
          /\ n.hasProbe = (m.hasProbe \/ d.hasProbe)
          /\ n.plan = IF m.plan # NoPlan THEN m.plan ELSE d.plan
      BY <1>1, <2>1 DEF ProviderVals
    <3>3. m.hasProbe \in BOOLEAN
      BY <1>2, <1>4
    <3>4. n.hasProbe = m.hasProbe
      BY <1>1, <3>2, <3>3
    <3>5. QED
      BY <1>1, <1>2, <1>4, <3>1, <3>2, <3>4
  <2>3. n = m
    BY <1>4a, <1>5, <2>2 DEF ProviderVals
  <2>4. QED
    BY <2>3 DEF n
<1>8. ASSUME ProviderEqual(m, d)
      PROVE  m.probe = FALSE /\ [m EXCEPT !.hasProbe = TRUE] = [d EXCEPT !.hasProbe = TRUE]
  <2>1. /\ m.enabled = d.enabled /\ m.label = d.label /\ m.keyEnv = d.keyEnv
        /\ m.probe = d.probe /\ PlanEqual(m.plan, d.plan)
    BY <1>8 DEF ProviderEqual
  <2>2. m.plan = d.plan
    <3>1. CASE m.plan = NoPlan \/ d.plan = NoPlan
      BY <2>1, <3>1 DEF PlanEqual
    <3>2. CASE m.plan # NoPlan /\ d.plan # NoPlan
      <4> DEFINE a == m.plan[1]
                 b == d.plan[1]
      <4>1. [a EXCEPT !.hasUsd = TRUE] = [b EXCEPT !.hasUsd = TRUE]
        BY <2>1, <3>2 DEF PlanEqual
      <4>2. /\ Len(m.plan) = 1 /\ a.hasUsd /\ Len(d.plan) = 1 /\ b.hasUsd
        BY <1>1, <1>6, <3>2 DEF CleanProvider, CleanPlan
      <4>3. m.plan \in Seq(PlanVals) /\ d.plan \in Seq(PlanVals)
        BY <1>1, <1>5 DEF ProviderVals
      <4>4. a \in PlanVals /\ b \in PlanVals /\ m.plan = <<a>> /\ d.plan = <<b>>
        BY <4>2, <4>3
      <4> HIDE DEF a, b
      <4>5. a.hasUsd = TRUE /\ b.hasUsd = TRUE
        BY <4>2, <4>4 DEF PlanVals
      <4>6. [a EXCEPT !.hasUsd = TRUE] = a /\ [b EXCEPT !.hasUsd = TRUE] = b
        BY <4>4, <4>5 DEF PlanVals
      <4>7. QED
        BY <4>1, <4>4, <4>6
    <3>3. QED
      BY <3>1, <3>2
  <2> DEFINE x == [m EXCEPT !.hasProbe = TRUE]
             y == [d EXCEPT !.hasProbe = TRUE]
  <2>3. x \in ProviderVals /\ y \in ProviderVals
        /\ x.id = y.id /\ x.enabled = y.enabled /\ x.label = y.label /\ x.keyEnv = y.keyEnv
        /\ x.probe = y.probe /\ x.hasProbe = y.hasProbe /\ x.plan = y.plan
    BY <1>1, <1>4, <1>5, <2>1, <2>2 DEF ProviderVals
  <2> HIDE DEF x, y
  <2>4. x = y
    BY <2>3 DEF ProviderVals
  <2>5. m.probe = FALSE
    BY <1>1, <2>1
  <2>6. QED
    BY <2>4, <2>5 DEF x, y
<1>9. QED
  BY <1>2, <1>4, <1>5, <1>6, <1>7, <1>8 DEF m, d

\* What is kept of a provider that is not its default.
Merged(provs, id) == MergeWithDefault(provs[id], DefaultProvider(id))

\* Those of the first n built-in providers that say something, in a sequence.
OverridesOf(provs, s, n) ==
    /\ s \in Seq(ProviderVals)
    /\ \A i \in DOMAIN s : \E k \in 1..n : s[i] = Merged(provs, DefaultOrder[k])
    /\ \A i, j \in DOMAIN s : s[i].id = s[j].id => i = j
    /\ \A k \in 1..n :
          ~ProviderEqual(Merged(provs, DefaultOrder[k]), DefaultProvider(DefaultOrder[k])) =>
             \E i \in DOMAIN s : s[i] = Merged(provs, DefaultOrder[k])

\* defaults.go:124-144: what is kept of the providers, one built-in provider after the other.
LEMMA OverridesGrow ==
    ASSUME NEW provs, DOMAIN provs = Ids, \A id \in Ids : PageProvider(provs[id]),
           NEW n \in 1..Len(DefaultOrder), NEW s, OverridesOf(provs, s, n - 1)
    PROVE  OverridesOf(provs, s \o Override(provs, DefaultOrder[n]), n)
<1> DEFINE N == Len(DefaultOrder)
           M(k) == Merged(provs, DefaultOrder[k])
           x == M(n)
           over == Override(provs, DefaultOrder[n])
           Differs(k) == ~ProviderEqual(M(k), DefaultProvider(DefaultOrder[k]))
<1>1. N \in Nat /\ DOMAIN DefaultOrder = 1..N /\ \A k \in 1..N : DefaultOrder[k] \in Ids
  BY BuiltinAssumption DEF Ids
<1>2. \A k \in 1..N : M(k) \in ProviderVals /\ M(k).id = DefaultOrder[k]
  BY <1>1, MergedFits DEF Merged
<1>3. \A i, j \in 1..N : DefaultOrder[i] = DefaultOrder[j] => i = j
  BY <1>1, BuiltinAssumption
<1>4. over = IF Differs(n) THEN <<x>> ELSE <<>>
  <2>1. DefaultOrder[n] \in DOMAIN provs
    BY <1>1
  <2>2. QED
    BY <2>1 DEF Override, Merged
<1>5. /\ s \in Seq(ProviderVals)
      /\ \A i \in DOMAIN s : \E k \in 1..(n - 1) : s[i] = M(k)
      /\ \A i, j \in DOMAIN s : s[i].id = s[j].id => i = j
      /\ \A k \in 1..(n - 1) : Differs(k) => \E i \in DOMAIN s : s[i] = M(k)
  BY DEF OverridesOf
<1> HIDE DEF M, over, Differs, N
<1>6. x \in ProviderVals /\ x.id = DefaultOrder[n]
  BY <1>1, <1>2 DEF N
<1>7. \A i \in DOMAIN s : s[i].id # x.id
  <2> SUFFICES ASSUME NEW i \in DOMAIN s PROVE s[i].id # x.id
    OBVIOUS
  <2>1. PICK k \in 1..(n - 1) : s[i] = M(k)
    BY <1>5
  <2>2. k \in 1..N /\ n \in 1..N /\ k # n
    BY <1>1 DEF N
  <2>3. QED
    BY <1>2, <1>3, <1>6, <2>1, <2>2
<1>8. /\ \A k \in 1..n : k = n \/ k \in 1..(n - 1)
      /\ \A k \in 1..(n - 1) : k \in 1..n
      /\ n \in 1..n
  OBVIOUS
<1>9. CASE ~Differs(n)
  <2>1. s \o over = s
    BY <1>4, <1>5, <1>9, ConcatEmptySeq
  <2>2. \A i \in DOMAIN s : \E k \in 1..n : s[i] = M(k)
    BY <1>5, <1>8
  <2>3. \A k \in 1..n : Differs(k) => \E i \in DOMAIN s : s[i] = M(k)
    BY <1>5, <1>8, <1>9
  <2>4. OverridesOf(provs, s, n)
    BY <1>5, <2>2, <2>3 DEF OverridesOf, M, Differs
  <2>5. QED
    BY <2>1, <2>4 DEF over
<1>10. CASE Differs(n)
  <2> DEFINE t == Append(s, x)
             L == Len(s)
  <2>1. s \o over = t
    BY <1>4, <1>5, <1>6, <1>10, AppendIsConcat
  <2>2. /\ t \in Seq(ProviderVals) /\ DOMAIN s = 1..L /\ DOMAIN t = 1..(L + 1) /\ L \in Nat
        /\ \A i \in 1..L : t[i] = s[i]
        /\ t[L + 1] = x
    BY <1>5, <1>6, AppendProperties
  <2> HIDE DEF t, L
  <2>3. \A i \in DOMAIN t : (i \in DOMAIN s /\ t[i] = s[i]) \/ (i = L + 1 /\ t[i] = x)
    <3> SUFFICES ASSUME NEW i \in DOMAIN t
                 PROVE  (i \in DOMAIN s /\ t[i] = s[i]) \/ (i = L + 1 /\ t[i] = x)
      OBVIOUS
    <3>1. i \in 1..L \/ i = L + 1
      BY <2>2
    <3>2. QED
      BY <2>2, <3>1
  <2>4. \A i \in DOMAIN s : i \in DOMAIN t /\ t[i] = s[i]
    BY <2>2
  <2>5. L + 1 \in DOMAIN t
    BY <2>2
  <2>6. \A i \in DOMAIN t : \E k \in 1..n : t[i] = M(k)
    BY <1>5, <1>8, <2>3
  <2>7. ASSUME NEW i \in DOMAIN t, NEW j \in DOMAIN t, t[i].id = t[j].id
        PROVE  i = j
    BY <1>5, <1>7, <2>3, <2>7
  <2>8. ASSUME NEW k \in 1..n, Differs(k) PROVE \E i \in DOMAIN t : t[i] = M(k)
    <3>1. CASE k = n
      BY <2>2, <2>5, <3>1
    <3>2. CASE k # n
      <4>1. PICK i \in DOMAIN s : s[i] = M(k)
        BY <1>5, <1>8, <2>8, <3>2
      <4>2. QED
        BY <2>4, <4>1
    <3>3. QED
      BY <3>1, <3>2
  <2>9. OverridesOf(provs, t, n)
    BY <2>2, <2>6, <2>7, <2>8 DEF OverridesOf, M, Differs
  <2>10. QED
    BY <2>1, <2>9 DEF over
<1>11. QED
  BY <1>9, <1>10 DEF over

\* defaults.go:124-144: the overrides of a page's providers are those that are not
\* their defaults, once each.
LEMMA OverridesFit ==
    ASSUME NEW provs, DOMAIN provs = Ids, \A id \in Ids : PageProvider(provs[id])
    PROVE  OverridesOf(provs, Overrides(provs), Len(DefaultOrder))
<1> DEFINE N == Len(DefaultOrder)
           parts == [i \in DOMAIN DefaultOrder |-> Override(provs, DefaultOrder[i])]
<1>1. /\ N \in Nat /\ N > 0 /\ DOMAIN DefaultOrder = 1..N
      /\ \A k \in 1..N : DefaultOrder[k] \in Ids
  <2>1. N \in Nat /\ DOMAIN DefaultOrder = 1..N
    BY BuiltinAssumption
  <2>2. Groq \in Ids
    BY BuiltinAssumption
  <2>3. N > 0
    BY <2>1, <2>2 DEF Ids
  <2>4. QED
    BY <2>1, <2>3 DEF Ids
<1>2. Len(parts) = N /\ \A k \in 1..N : parts[k] = Override(provs, DefaultOrder[k])
  BY <1>1
<1>3. Overrides(provs) = Seqs!FlattenSeq(parts)
  BY DEF Overrides
<1>4. parts[1] \in Seq(ProviderVals)
  <2> DEFINE id == DefaultOrder[1]
  <2>1. id \in Ids /\ 1 \in 1..N
    BY <1>1
  <2> HIDE DEF id
  <2>2. MergeWithDefault(provs[id], DefaultProvider(id)) \in ProviderVals
    BY <2>1, MergedFits
  <2>3. Override(provs, id) \in Seq(ProviderVals)
    BY <2>2 DEF Override
  <2>4. QED
    BY <1>2, <2>1, <2>3 DEF id
<1> HIDE DEF parts
<1>5. PICK f : /\ f[1] = parts[1]
               /\ \A n \in 2..N : f[n] = f[n - 1] \o parts[n]
               /\ Seqs!FlattenSeq(parts) = f[N]
  <2>1. Len(parts) \in Nat /\ Len(parts) > 0
    BY <1>1, <1>2
  <2>2. PICK f : /\ f[1] = parts[1]
                 /\ \A n \in 2..Len(parts) : f[n] = f[n - 1] \o parts[n]
                 /\ Seqs!FlattenSeq(parts) = f[Len(parts)]
    BY <2>1, FlattenIs
  <2>3. QED
    BY <1>2, <2>2
<1>6. OverridesOf(provs, <<>>, 0)
  <2>1. <<>> \in Seq(ProviderVals) /\ DOMAIN <<>> = {}
    OBVIOUS
  <2>2. QED
    BY <2>1 DEF OverridesOf
<1> DEFINE S == {n \in 0..N : n > 0 => OverridesOf(provs, f[n], n)}
<1>7. 0 \in S
  BY <1>1
<1>8. ASSUME NEW n \in 1..N, n - 1 \in S PROVE n \in S
  <2>1. CASE n = 1
    <3>1. OverridesOf(provs, <<>> \o Override(provs, DefaultOrder[n]), n)
      <4>1. n \in 1..Len(DefaultOrder) /\ n - 1 = 0
        BY <2>1
      <4>2. QED
        BY <1>6, <4>1, OverridesGrow
    <3>2. <<>> \o parts[1] = parts[1]
      BY <1>4, ConcatEmptySeq
    <3>3. f[n] = <<>> \o Override(provs, DefaultOrder[n])
      BY <1>2, <1>5, <2>1, <3>2
    <3>4. QED
      BY <3>1, <3>3
  <2>2. CASE n # 1
    <3>1. n \in 2..N /\ n - 1 > 0 /\ n \in 1..Len(DefaultOrder)
      BY <1>1, <2>2
    <3>2. OverridesOf(provs, f[n - 1], n - 1)
      BY <1>8, <3>1
    <3>3. OverridesOf(provs, f[n - 1] \o Override(provs, DefaultOrder[n]), n)
      BY <3>1, <3>2, OverridesGrow
    <3>4. f[n] = f[n - 1] \o Override(provs, DefaultOrder[n])
      BY <1>2, <1>5, <3>1
    <3>5. OverridesOf(provs, f[n], n)
      BY <3>3, <3>4
    <3>6. n \in 0..N
      BY <1>1
    <3>7. QED
      BY <3>5, <3>6
  <2>3. QED
    BY <2>1, <2>2
<1> HIDE DEF S
<1>9. 0..N \subseteq S
  BY <1>1, <1>7, <1>8, LineByLine
<1>10. OverridesOf(provs, f[N], N)
  BY <1>1, <1>9 DEF S
<1>11. QED
  BY <1>3, <1>5, <1>10

\* config.go:359-361: where every id is given once, the entry for an id is the one there is.
LEMMA ByIdUnique ==
    ASSUME NEW s, DOMAIN s \subseteq Nat,
           \A i, j \in DOMAIN s : s[i].id = s[j].id => i = j
    PROVE  /\ DOMAIN ById(s) = {s[i].id : i \in DOMAIN s}
           /\ \A i \in DOMAIN s : ById(s)[s[i].id] = s[i]
<1>1. ASSUME NEW k \in DOMAIN s PROVE ById(s)[s[k].id] = s[k]
  <2> DEFINE ok(i) == s[i].id = s[k].id /\ \A j \in DOMAIN s : s[j].id = s[k].id => j <= i
             c == CHOOSE i \in DOMAIN s : ok(i)
  <2>1. ok(k)
    <3>1. \A j \in DOMAIN s : s[j].id = s[k].id => j = k
      OBVIOUS
    <3>2. k <= k
      OBVIOUS
    <3>3. QED
      BY <3>1, <3>2
  <2>2. c \in DOMAIN s /\ ok(c)
    <3> HIDE DEF ok
    <3>1. QED
      BY <2>1
  <2>3. c = k
    BY <2>2
  <2>4. ById(s)[s[k].id] = s[c]
    BY DEF ById
  <2>5. QED
    BY <2>3, <2>4
<1>2. DOMAIN ById(s) = {s[i].id : i \in DOMAIN s}
  BY DEF ById
<1>3. QED
  BY <1>1, <1>2

\* defaults.go:146-168: a provider laid over its default is a provider.
LEMMA MergedTyped ==
    ASSUME NEW id \in Ids, NEW p \in ProviderVals
    PROVE  MergeWithDefault(p, DefaultProvider(id)) \in ProviderVals
<1> DEFINE d == DefaultProvider(id)
           m == MergeWithDefault(p, d)
<1>1. d \in ProviderVals
  BY BuiltinFits
<1> HIDE DEF d
<1>2. m = [d EXCEPT !.enabled  = p.enabled,
              !.label    = IF p.label # NoText THEN p.label ELSE d.label,
              !.keyEnv   = IF p.keyEnv # NoText THEN p.keyEnv ELSE d.keyEnv,
              !.probe    = IF p.hasProbe THEN p.probe ELSE d.probe,
              !.hasProbe = p.hasProbe \/ d.hasProbe,
              !.plan     = IF p.plan # NoPlan THEN p.plan ELSE d.plan]
  BY DEF MergeWithDefault
<1> HIDE DEF m
<1>3. /\ m.id = d.id /\ m.enabled = p.enabled
      /\ m.label = IF p.label # NoText THEN p.label ELSE d.label
      /\ m.keyEnv = IF p.keyEnv # NoText THEN p.keyEnv ELSE d.keyEnv
      /\ m.probe = IF p.hasProbe THEN p.probe ELSE d.probe
      /\ m.hasProbe = (p.hasProbe \/ d.hasProbe)
      /\ m.plan = IF p.plan # NoPlan THEN p.plan ELSE d.plan
  BY <1>1, <1>2 DEF ProviderVals
<1>4. DOMAIN m = DOMAIN d /\ m = [k \in DOMAIN m |-> m[k]]
  BY <1>2
<1>5. DOMAIN m = {"id", "enabled", "label", "keyEnv", "probe", "hasProbe", "plan"}
  BY <1>1, <1>4 DEF ProviderVals
<1>6. /\ d.id \in Words /\ d.label \in Words /\ d.keyEnv \in Words /\ d.plan \in Seq(PlanVals)
      /\ d.probe \in BOOLEAN /\ d.hasProbe \in BOOLEAN
      /\ p.label \in Words /\ p.keyEnv \in Words /\ p.plan \in Seq(PlanVals)
      /\ p.probe \in BOOLEAN /\ p.hasProbe \in BOOLEAN /\ p.enabled \in BOOLEAN
  BY <1>1 DEF ProviderVals
<1>7. /\ m.id \in Words /\ m.enabled \in BOOLEAN /\ m.label \in Words /\ m.keyEnv \in Words
      /\ m.hasProbe \in BOOLEAN /\ m.plan \in Seq(PlanVals)
  BY <1>3, <1>6
<1>8. m.probe \in BOOLEAN
  BY <1>3, <1>6
<1>9. m \in ProviderVals
  BY <1>4, <1>5, <1>7, <1>8, ProviderIs
<1>10. QED
  BY <1>9 DEF m, d

\* defaults.go:124-144: whatever the providers are, their overrides are providers.
LEMMA OverridesTyped ==
    ASSUME NEW provs, \A id \in DOMAIN provs : provs[id] \in ProviderVals
    PROVE  Overrides(provs) \in Seq(ProviderVals)
<1> DEFINE N == Len(DefaultOrder)
           L == Seq(ProviderVals)
           parts == [i \in DOMAIN DefaultOrder |-> Override(provs, DefaultOrder[i])]
<1>1. /\ N \in Nat /\ N > 0 /\ DOMAIN DefaultOrder = 1..N
      /\ \A k \in 1..N : DefaultOrder[k] \in Ids
  <2>1. N \in Nat /\ DOMAIN DefaultOrder = 1..N
    BY BuiltinAssumption
  <2>2. Groq \in Ids
    BY BuiltinAssumption
  <2>3. N > 0
    BY <2>1, <2>2 DEF Ids
  <2>4. QED
    BY <2>1, <2>3 DEF Ids
<1>2. \A id \in Ids : Override(provs, id) \in L
  <2> SUFFICES ASSUME NEW id \in Ids PROVE Override(provs, id) \in L
    OBVIOUS
  <2>1. id \in DOMAIN provs => MergeWithDefault(provs[id], DefaultProvider(id)) \in ProviderVals
    BY MergedTyped
  <2>2. QED
    BY <2>1 DEF Override
<1>3. Len(parts) = N /\ \A k \in 1..N : parts[k] \in L
  BY <1>1, <1>2
<1>4. Overrides(provs) = Seqs!FlattenSeq(parts)
  BY DEF Overrides
<1>5. \A a, b \in L : a \o b \in L
  BY ConcatProperties
<1> HIDE DEF parts, L
<1>6. PICK f : /\ f[1] = parts[1]
               /\ \A n \in 2..N : f[n] = f[n - 1] \o parts[n]
               /\ Seqs!FlattenSeq(parts) = f[N]
  <2>1. Len(parts) \in Nat /\ Len(parts) > 0
    BY <1>1, <1>3
  <2>2. PICK f : /\ f[1] = parts[1]
                 /\ \A n \in 2..Len(parts) : f[n] = f[n - 1] \o parts[n]
                 /\ Seqs!FlattenSeq(parts) = f[Len(parts)]
    BY <2>1, FlattenIs
  <2>3. QED
    BY <1>3, <2>2
<1> DEFINE S == {n \in 0..N : n > 0 => f[n] \in L}
<1>7. 0 \in S
  BY <1>1
<1>8. ASSUME NEW n \in 1..N, n - 1 \in S PROVE n \in S
  <2>0. n \in 0..N
    BY <1>1
  <2>1. CASE n = 1
    BY <1>3, <1>6, <2>0, <2>1
  <2>2. CASE n # 1
    <3>1. n \in 2..N /\ f[n - 1] \in L
      BY <1>1, <1>8, <2>2
    <3>2. f[n] \in L
      BY <1>3, <1>5, <1>6, <3>1
    <3>3. QED
      BY <2>0, <3>2
  <2>3. QED
    BY <2>1, <2>2
<1> HIDE DEF S
<1>9. 0..N \subseteq S
  BY <1>1, <1>7, <1>8, LineByLine
<1>10. f[N] \in L
  BY <1>1, <1>9 DEF S
<1>11. QED
  BY <1>4, <1>6, <1>10 DEF L

\* server.go:682-735: what a PUT writes has the fields of a file.
LEMMA WrittenTyped ==
    ASSUME NEW req \in Requests, Accepts(req)
    PROVE  FileTyped(FileOf(req))
<1> DEFINE R == req.providers
           s == [i \in DOMAIN R |-> FromRequest(R[i])]
<1>1. /\ req.interval_sec \in Int /\ req.listen \in Words /\ req.tz \in Words
      /\ \A k \in DOMAIN req.alerts : req.alerts[k] \in Int
      /\ R \in Seq(ProviderBodies) /\ req.provider_order \in Seq(Words)
  BY BodyAssumption
<1>2. req.interval_sec \in Nat
  BY <1>1, BuiltinAssumption DEF Accepts
<1>3. \A i \in DOMAIN s : s[i] \in ProviderVals
  BY <1>1, BodyFits
<1>4. \A id \in DOMAIN Providers(req) : Providers(req)[id] \in ProviderVals
  <2> DEFINE at(id) == CHOOSE i \in DOMAIN s : /\ s[i].id = id
                                               /\ \A j \in DOMAIN s : s[j].id = id => j <= i
             ids == {s[i].id : i \in DOMAIN s}
  <2>1. Providers(req) = [id \in ids |-> s[at(id)]]
    BY DEF Providers, ById
  <2>2. \A id \in ids : at(id) \in DOMAIN s
    <3> DEFINE N == Len(R)
    <3>1. N \in Nat /\ DOMAIN s = 1..N
      BY <1>1
    <3> HIDE DEF s
    <3> SUFFICES ASSUME NEW id \in ids PROVE at(id) \in DOMAIN s
      OBVIOUS
    <3> DEFINE T == {i \in 1..N : s[i].id = id}
    <3>2. \E i \in 1..N : i \in T
      BY <3>1
    <3>3. \E k \in 1..N : k \in T /\ \A j \in 1..N : j \in T => j <= k
      <4> HIDE DEF T
      <4>1. QED
        BY <3>1, <3>2, LastIndex
    <3>4. \E k \in DOMAIN s : s[k].id = id /\ \A j \in DOMAIN s : s[j].id = id => j <= k
      BY <3>1, <3>3
    <3>5. QED
      BY <3>4
  <2> HIDE DEF s, at, ids
  <2>3. QED
    BY <1>3, <2>1, <2>2
<1>5. Overrides(Providers(req)) \in Seq(ProviderVals)
  BY <1>4, OverridesTyped
<1>6. /\ DOMAIN FileOf(req) = DOMAIN NoFile
      /\ FileOf(req).interval_sec = req.interval_sec /\ FileOf(req).listen = req.listen
      /\ FileOf(req).tz = req.tz /\ FileOf(req).alerts = req.alerts
      /\ FileOf(req).providers = Overrides(Providers(req))
      /\ FileOf(req).provider_order = req.provider_order
  BY DEF FileOf, NoFile
<1>7. QED
  BY <1>1, <1>2, <1>5, <1>6 DEF FileTyped

\* defaults.go:124-144, config.go:138-175: of the providers of a page, those kept in
\* the file give the same providers in effect as all of them.
LEMMA ProvidersKept ==
    ASSUME NEW provs, DOMAIN provs = Ids, \A id \in Ids : PageProvider(provs[id]),
           NEW c, c.provs = ById(Overrides(provs)), c.groqProbe = FALSE,
           NEW a, a.provs = provs, a.groqProbe = FALSE
    PROVE  /\ \A id \in Ids : [EffectiveProvider(c, id) EXCEPT !.hasProbe = TRUE]
                                = [EffectiveProvider(a, id) EXCEPT !.hasProbe = TRUE]
           /\ GroqProbeEnabled(c) = GroqProbeEnabled(a)
<1> DEFINE N == Len(DefaultOrder)
           s == Overrides(provs)
           g == ById(s)
<1>1. OverridesOf(provs, s, N)
  BY OverridesFit
<1>2. N \in Nat /\ \A k \in 1..N : DefaultOrder[k] \in Ids
  BY BuiltinAssumption DEF Ids
<1>3. \A id \in Ids : \E k \in 1..N : DefaultOrder[k] = id
  BY BuiltinAssumption DEF Ids
<1>4. c.provs = g
  OBVIOUS
<1> HIDE DEF s
<1>5. /\ s \in Seq(ProviderVals)
      /\ \A i \in DOMAIN s : \E k \in 1..N : s[i] = Merged(provs, DefaultOrder[k])
      /\ \A i, j \in DOMAIN s : s[i].id = s[j].id => i = j
      /\ \A k \in 1..N :
          ~ProviderEqual(Merged(provs, DefaultOrder[k]), DefaultProvider(DefaultOrder[k])) =>
             \E i \in DOMAIN s : s[i] = Merged(provs, DefaultOrder[k])
  BY <1>1 DEF OverridesOf
<1>6. /\ DOMAIN g = {s[i].id : i \in DOMAIN s}
      /\ \A i \in DOMAIN s : g[s[i].id] = s[i]
  <2>1. DOMAIN s \subseteq Nat
    BY <1>5
  <2>2. QED
    BY <1>5, <2>1, ByIdUnique
<1> HIDE DEF g
<1>7. \A id \in Ids : Merged(provs, id).id = id
  BY MergedFits DEF Merged
<1>8. ASSUME NEW id \in Ids
      PROVE  /\ id \in DOMAIN g => g[id] = Merged(provs, id)
             /\ id \notin DOMAIN g => ProviderEqual(Merged(provs, id), DefaultProvider(id))
  <2>1. ASSUME id \in DOMAIN g PROVE g[id] = Merged(provs, id)
    <3>1. PICK i \in DOMAIN s : s[i].id = id
      BY <1>6, <2>1
    <3>2. PICK k \in 1..N : s[i] = Merged(provs, DefaultOrder[k])
      BY <1>5
    <3>3. DefaultOrder[k] = id
      BY <1>2, <1>7, <3>1, <3>2
    <3>4. QED
      BY <1>6, <3>1, <3>2, <3>3
  <2>2. ASSUME id \notin DOMAIN g PROVE ProviderEqual(Merged(provs, id), DefaultProvider(id))
    <3>1. PICK k \in 1..N : DefaultOrder[k] = id
      BY <1>3
    <3>2. ~\E i \in DOMAIN s : s[i] = Merged(provs, id)
      BY <1>6, <1>7, <2>2
    <3>3. QED
      BY <1>5, <3>1, <3>2
  <2>3. QED
    BY <2>1, <2>2
<1>9. \A id \in Ids : EffectiveProvider(a, id) = Merged(provs, id)
  BY DEF EffectiveProvider, Merged
<1>10. ASSUME NEW id \in Ids
       PROVE  [EffectiveProvider(c, id) EXCEPT !.hasProbe = TRUE]
                = [EffectiveProvider(a, id) EXCEPT !.hasProbe = TRUE]
  <2> DEFINE m == MergeWithDefault(provs[id], DefaultProvider(id))
  <2>1. /\ MergeWithDefault(m, DefaultProvider(id)) = m
        /\ ProviderEqual(m, DefaultProvider(id)) =>
              [m EXCEPT !.hasProbe = TRUE] = [DefaultProvider(id) EXCEPT !.hasProbe = TRUE]
    BY MergedFits
  <2>2. m = Merged(provs, id)
    BY DEF Merged
  <2> HIDE DEF m
  <2>3. CASE id \in DOMAIN g
    <3>1. EffectiveProvider(c, id) = m
      BY <1>4, <1>8, <2>1, <2>2, <2>3 DEF EffectiveProvider
    <3>2. QED
      BY <1>9, <2>2, <3>1
  <2>4. CASE id \notin DOMAIN g
    <3>1. EffectiveProvider(c, id) = DefaultProvider(id)
      BY <1>4, <2>4 DEF EffectiveProvider
    <3>2. ProviderEqual(m, DefaultProvider(id))
      BY <1>8, <2>2, <2>4
    <3>3. EffectiveProvider(a, id) = m
      BY <1>9, <2>2
    <3>4. [m EXCEPT !.hasProbe = TRUE] = [DefaultProvider(id) EXCEPT !.hasProbe = TRUE]
      BY <2>1, <3>2
    <3>5. QED
      BY <3>1, <3>3, <3>4
  <2>5. QED
    BY <2>3, <2>4
<1>11. GroqProbeEnabled(c) = GroqProbeEnabled(a)
  <2> DEFINE p == provs[Groq]
             m == MergeWithDefault(p, DefaultProvider(Groq))
  <2>1. Groq \in Ids
    BY BuiltinAssumption
  <2>2. /\ m.hasProbe = p.hasProbe
        /\ p.hasProbe => m.probe = p.probe
        /\ ProviderEqual(m, DefaultProvider(Groq)) => m.probe = FALSE
    BY <2>1, MergedFits
  <2>3. m = Merged(provs, Groq)
    BY DEF Merged
  <2>3a. p.hasProbe \in BOOLEAN /\ p.probe \in BOOLEAN
    BY <2>1 DEF PageProvider, ProviderVals
  <2> HIDE DEF m
  <2>4. GroqProbeEnabled(a) = IF p.hasProbe THEN p.probe ELSE FALSE
    BY <2>1 DEF GroqProbeEnabled
  <2>5. GroqProbeEnabled(c) = IF Groq \in DOMAIN g /\ g[Groq].hasProbe THEN g[Groq].probe ELSE FALSE
    BY <1>4 DEF GroqProbeEnabled
  <2>6. CASE Groq \in DOMAIN g
    <3>1. g[Groq] = m
      BY <1>8, <2>1, <2>3, <2>6
    <3>2. GroqProbeEnabled(c) = IF p.hasProbe THEN m.probe ELSE FALSE
      BY <2>2, <2>5, <2>6, <3>1
    <3>3. CASE p.hasProbe
      <4>1. GroqProbeEnabled(c) = m.probe /\ m.probe = p.probe
        BY <2>2, <3>2, <3>3
      <4>2. QED
        BY <2>4, <3>3, <4>1
    <3>4. CASE ~p.hasProbe
      BY <2>4, <3>2, <3>4
    <3>5. QED
      BY <2>3a, <3>3, <3>4
  <2>7. CASE Groq \notin DOMAIN g
    <3>1. m.probe = FALSE
      BY <1>8, <2>1, <2>2, <2>3, <2>7
    <3>2. GroqProbeEnabled(c) = FALSE
      BY <2>5, <2>7
    <3>3. GroqProbeEnabled(a) = FALSE
      <4>1. CASE p.hasProbe
        BY <2>2, <2>4, <3>1, <4>1
      <4>2. CASE ~p.hasProbe
        BY <2>4, <4>2
      <4>3. QED
        BY <2>3a, <4>1, <4>2
    <3>4. QED
      BY <3>2, <3>3
  <2>8. QED
    BY <2>6, <2>7
<1>12. QED
  BY <1>10, <1>11

\* defaults.go:124-144: what is kept of the providers of a page reads back.
LEMMA OverridesClean ==
    ASSUME NEW provs, DOMAIN provs = Ids, \A id \in Ids : PageProvider(provs[id])
    PROVE  LET s == Overrides(provs)
           IN  \A i \in DOMAIN s :
                  /\ CleanProvider(s[i]) /\ s[i].id # NoText
                  /\ \A j \in DOMAIN s : s[j].id = s[i].id => i = j
<1> DEFINE N == Len(DefaultOrder)
           s == Overrides(provs)
<1>1. OverridesOf(provs, s, N)
  BY OverridesFit
<1>2. \A k \in 1..N : DefaultOrder[k] \in Ids
  BY BuiltinAssumption DEF Ids
<1> HIDE DEF s
<1>3. /\ \A i \in DOMAIN s : \E k \in 1..N : s[i] = Merged(provs, DefaultOrder[k])
      /\ \A i, j \in DOMAIN s : s[i].id = s[j].id => i = j
  BY <1>1 DEF OverridesOf
<1>4. \A id \in Ids : CleanProvider(Merged(provs, id)) /\ Merged(provs, id).id # NoText
  <2> SUFFICES ASSUME NEW id \in Ids
               PROVE  CleanProvider(Merged(provs, id)) /\ Merged(provs, id).id # NoText
    OBVIOUS
  <2>1. PageProvider(provs[id])
    OBVIOUS
  <2>2. CleanProvider(Merged(provs, id)) /\ Merged(provs, id).id = id
    BY <2>1, MergedFits DEF Merged
  <2>3. id # NoText
    BY BuiltinFits
  <2>4. QED
    BY <2>2, <2>3
<1>5. \A i \in DOMAIN s : CleanProvider(s[i]) /\ s[i].id # NoText
  BY <1>2, <1>3, <1>4
<1>6. QED
  BY <1>3, <1>5 DEF s

\* server.go:682-735: what a PUT with every setting writes reads back.
LEMMA SavedClean ==
    ASSUME NEW req \in Requests, Accepts(req), Full(req)
    PROVE  CleanFile(FileOf(req))
<1> DEFINE fc == FileOf(req)
<1>1. FileTyped(fc)
  BY WrittenTyped
<1>2. /\ fc.listen = req.listen /\ fc.tz = req.tz /\ fc.alerts = req.alerts
      /\ fc.provider_order = req.provider_order
      /\ fc.providers = Overrides(Providers(req))
  BY DEF FileOf
<1> HIDE DEF fc
<1>3. /\ req.listen \in Written(req) /\ req.tz \in Written(req)
      /\ \A i \in DOMAIN req.provider_order : req.provider_order[i] \in Written(req)
  <2> DEFINE order == {req.provider_order[i] : i \in DOMAIN req.provider_order}
  <2>1. order \subseteq Written(req) /\ req.listen \in Written(req) /\ req.tz \in Written(req)
    BY DEF Written
  <2>2. QED
    BY <2>1
<1>4. /\ Written(req) \subseteq Plain
      /\ req.listen # NoText /\ req.tz # NoText /\ req.provider_order # <<>>
      /\ WrittenAlerts \subseteq DOMAIN req.alerts
  BY DEF Full
<1>5. req.provider_order \in Seq(Plain)
  <2>1. req.provider_order \in Seq(Words)
    BY BodyAssumption
  <2>2. \A i \in 1..Len(req.provider_order) : req.provider_order[i] \in Plain
    BY <1>3, <1>4, <2>1
  <2>3. QED
    BY <2>1, <2>2, SeqDef
<1>6. DOMAIN Providers(req) = Ids /\ \A id \in Ids : PageProvider(Providers(req)[id])
  BY PageFits
<1>7. \A i \in DOMAIN fc.providers :
          /\ CleanProvider(fc.providers[i])
          /\ fc.providers[i].id # NoText
          /\ \A j \in DOMAIN fc.providers : fc.providers[j].id = fc.providers[i].id => i = j
  BY <1>2, <1>6, OverridesClean
<1>8. QED
  BY <1>1, <1>2, <1>3, <1>4, <1>5, <1>7 DEF CleanFile, fc

\* A start on this file gives the settings of this configuration.
Kept(file, c) ==
    /\ Starts(file)
    /\ Settings(Loaded(FieldsOf(file))) = Settings(c)

\* config.go:138-175: what is loaded from a file where the environment gives a token and
\* nothing the page sets.
LEMMA LoadedIs ==
    ASSUME NEW fc, EnvironmentAside
    PROVE  LET c == Loaded(fc)
           IN  /\ c.interval = IF fc.interval_sec > 0 THEN fc.interval_sec ELSE DefaultInterval
               /\ c.listen = Given(fc.listen, DefaultListen)
               /\ c.tz = Zone(fc.tz, DefaultTZ)
               /\ c.token = Env.token
               /\ c.low = Alert(fc.alerts, "openrouter_low_usd", 1)
               /\ c.warn5h = Alert(fc.alerts, "quota_warn_5h_pct", 70)
               /\ c.warnWeek = Alert(fc.alerts, "quota_warn_weekly_pct", 60)
               /\ c.provs = Layered(<<>>, ById(fc.providers))
               /\ c.order = IF fc.provider_order # <<>> THEN fc.provider_order ELSE DefaultOrder
               /\ c.groqProbe = FALSE
<1> DEFINE w == WithAlerts(Defaults, fc.alerts)
           a == ApplyFileConfig(Defaults, fc)
           c == ApplyEnv(a)
<1>1. /\ DOMAIN Defaults = {"interval", "listen", "tz", "token", "low", "warn5h", "warnWeek",
                            "provs", "order", "groqProbe"}
      /\ Defaults.interval = DefaultInterval /\ Defaults.listen = DefaultListen
      /\ Defaults.tz = DefaultTZ /\ Defaults.token = NoText /\ Defaults.low = 1
      /\ Defaults.warn5h = 70 /\ Defaults.warnWeek = 60 /\ Defaults.provs = <<>>
      /\ Defaults.order = DefaultOrder /\ Defaults.groqProbe = FALSE
  BY DEF Defaults
<1>2. /\ DOMAIN w = DOMAIN Defaults
      /\ w.low = Alert(fc.alerts, "openrouter_low_usd", 1)
      /\ w.warn5h = Alert(fc.alerts, "quota_warn_5h_pct", 70)
      /\ w.warnWeek = Alert(fc.alerts, "quota_warn_weekly_pct", 60)
      /\ w.groqProbe = FALSE
  BY <1>1 DEF WithAlerts
<1>3. a = [w EXCEPT
        !.interval = IF fc.interval_sec > 0 THEN fc.interval_sec ELSE Defaults.interval,
        !.listen   = Given(fc.listen, Defaults.listen),
        !.token    = Given(fc.device_token, Defaults.token),
        !.tz       = Zone(fc.tz, Defaults.tz),
        !.provs    = Layered(Defaults.provs, ById(fc.providers)),
        !.order    = IF fc.provider_order # <<>> THEN fc.provider_order
                                                 ELSE Defaults.order]
  BY DEF ApplyFileConfig
<1> HIDE DEF w, a
<1>4. /\ DOMAIN a = DOMAIN w
      /\ a.interval = IF fc.interval_sec > 0 THEN fc.interval_sec ELSE DefaultInterval
      /\ a.listen = Given(fc.listen, DefaultListen)
      /\ a.tz = Zone(fc.tz, DefaultTZ)
      /\ a.low = w.low /\ a.warn5h = w.warn5h /\ a.warnWeek = w.warnWeek
      /\ a.provs = Layered(<<>>, ById(fc.providers))
      /\ a.order = IF fc.provider_order # <<>> THEN fc.provider_order ELSE DefaultOrder
      /\ a.groqProbe = FALSE
  BY <1>1, <1>2, <1>3
<1>5. c = [a EXCEPT
        !.interval  = IF Env.interval # <<>> THEN Env.interval[1] ELSE a.interval,
        !.listen    = Given(Env.listen, a.listen),
        !.token     = Given(Env.token, a.token),
        !.tz        = Given(Env.tz, a.tz),
        !.groqProbe = IF Env.groqProbe # <<>> THEN Env.groqProbe[1]
                                              ELSE a.groqProbe]
  BY DEF ApplyEnv
<1>6. /\ Env.interval = <<>> /\ Given(Env.listen, a.listen) = a.listen
      /\ Given(Env.token, a.token) = Env.token /\ Given(Env.tz, a.tz) = a.tz
  BY DEF EnvironmentAside, Given
<1>7. (IF Env.groqProbe # <<>> THEN Env.groqProbe[1] ELSE a.groqProbe) = FALSE
  <2>1. CASE Env.groqProbe = <<>>
    BY <1>4, <2>1
  <2>2. CASE Env.groqProbe = <<FALSE>>
    BY <2>2
  <2>3. QED
    BY <2>1, <2>2 DEF EnvironmentAside
<1> HIDE DEF c
<1>8. /\ c.interval = a.interval /\ c.listen = a.listen /\ c.tz = a.tz /\ c.token = Env.token
      /\ c.low = a.low /\ c.warn5h = a.warn5h /\ c.warnWeek = a.warnWeek
      /\ c.provs = a.provs /\ c.order = a.order /\ c.groqProbe = FALSE
  BY <1>1, <1>2, <1>4, <1>5, <1>6, <1>7
<1>9. QED
  BY <1>2, <1>4, <1>8 DEF Loaded, c, a

\* server.go:746-777: the running configuration after a PUT.
LEMMA AppliedIs ==
    ASSUME NEW c, CfgFits(c), NEW req
    PROVE  LET a == Applied(c, req)
           IN  /\ a.interval = IF req.interval_sec # 0 THEN req.interval_sec ELSE c.interval
               /\ a.listen = Given(req.listen, c.listen)
               /\ a.tz = Zone(req.tz, c.tz)
               /\ a.low = Alert(req.alerts, "openrouter_low_usd", c.low)
               /\ a.warn5h = Alert(req.alerts, "quota_warn_5h_pct", c.warn5h)
               /\ a.warnWeek = Alert(req.alerts, "quota_warn_weekly_pct", c.warnWeek)
               /\ a.provs = Providers(req)
               /\ a.order = IF req.provider_order # <<>> THEN req.provider_order ELSE c.order
               /\ a.groqProbe = c.groqProbe
<1> DEFINE g == WithGeneral(c, req)
           p == WithProviders(g, req)
           a == Applied(c, req)
<1>1. /\ DOMAIN g = DOMAIN c
      /\ g.interval = IF req.interval_sec # 0 THEN req.interval_sec ELSE c.interval
      /\ g.listen = Given(req.listen, c.listen) /\ g.tz = Zone(req.tz, c.tz)
      /\ g.low = c.low /\ g.warn5h = c.warn5h /\ g.warnWeek = c.warnWeek
      /\ g.order = c.order /\ g.groqProbe = c.groqProbe
  BY DEF WithGeneral, CfgFits
<1>2. a = WithAlerts(p, req.alerts) /\ p = WithProviders(g, req)
  BY DEF Applied
<1> HIDE DEF g, p, a
<1>3. /\ DOMAIN p = DOMAIN c /\ p.provs = Providers(req)
      /\ p.order = IF req.provider_order # <<>> THEN req.provider_order ELSE c.order
      /\ p.interval = g.interval /\ p.listen = g.listen /\ p.tz = g.tz
      /\ p.low = g.low /\ p.warn5h = g.warn5h /\ p.warnWeek = g.warnWeek
      /\ p.groqProbe = g.groqProbe
  BY <1>1, <1>2 DEF WithProviders, CfgFits
<1>4. /\ a.interval = p.interval /\ a.listen = p.listen /\ a.tz = p.tz
      /\ a.low = Alert(req.alerts, "openrouter_low_usd", p.low)
      /\ a.warn5h = Alert(req.alerts, "quota_warn_5h_pct", p.warn5h)
      /\ a.warnWeek = Alert(req.alerts, "quota_warn_weekly_pct", p.warnWeek)
      /\ a.provs = p.provs /\ a.order = p.order /\ a.groqProbe = p.groqProbe
  BY <1>2, <1>3 DEF WithAlerts, CfgFits
<1>5. QED
  BY <1>1, <1>3, <1>4 DEF a

\* config.go:359-361: a file's providers laid over none are the file's.
LEMMA LayeredOverNone ==
    ASSUME NEW s
    PROVE  Layered(<<>>, ById(s)) = ById(s)
<1> DEFINE g == ById(s)
<1>1. g = [k \in DOMAIN g |-> g[k]]
  BY DEF ById
<1> HIDE DEF g
<1>2. DOMAIN <<>> \cup DOMAIN g = DOMAIN g
  OBVIOUS
<1>3. Layered(<<>>, g) = [k \in DOMAIN g |-> g[k]]
  BY <1>2 DEF Layered
<1>4. QED
  BY <1>1, <1>3 DEF g

\* serialize.go:13-81, server.go:682-777, config.go:138-175: a start on what a PUT with
\* every setting wrote has the settings the PUT gave the running configuration.
LEMMA SavedKeeps ==
    ASSUME EnvironmentAside, NEW c, CfgFits(c), c.groqProbe = FALSE,
           NEW req \in Requests, Accepts(req), Full(req)
    PROVE  Kept(Doc(FileOf(req)), Applied(c, req))
<1> DEFINE fc == FileOf(req)
           r == Parsed(SerializeYAML(fc))
           l == Loaded(r.fc)
           a == Applied(c, req)
           provs == Providers(req)
<1>1. CleanFile(fc)
  BY SavedClean
<1>2. /\ fc.interval_sec = req.interval_sec /\ fc.listen = req.listen /\ fc.tz = req.tz
      /\ fc.alerts = req.alerts /\ fc.provider_order = req.provider_order
      /\ fc.providers = Overrides(provs)
  BY DEF FileOf
<1> HIDE DEF fc
<1>3. /\ r.ok
      /\ r.fc.interval_sec = fc.interval_sec /\ r.fc.listen = fc.listen
      /\ r.fc.tz = fc.tz /\ r.fc.alerts = Shown(fc.alerts)
      /\ r.fc.providers = fc.providers /\ r.fc.provider_order = fc.provider_order
  BY <1>1, SavedReadsBack
<1>4. Readable(Doc(fc)) /\ FieldsOf(Doc(fc)) = r.fc
  BY <1>3 DEF Readable, FieldsOf, Doc
<1> HIDE DEF r
<1>5. /\ l.interval = IF r.fc.interval_sec > 0 THEN r.fc.interval_sec ELSE DefaultInterval
      /\ l.listen = Given(r.fc.listen, DefaultListen)
      /\ l.tz = Zone(r.fc.tz, DefaultTZ)
      /\ l.token = Env.token
      /\ l.low = Alert(r.fc.alerts, "openrouter_low_usd", 1)
      /\ l.warn5h = Alert(r.fc.alerts, "quota_warn_5h_pct", 70)
      /\ l.warnWeek = Alert(r.fc.alerts, "quota_warn_weekly_pct", 60)
      /\ l.provs = Layered(<<>>, ById(r.fc.providers))
      /\ l.order = IF r.fc.provider_order # <<>> THEN r.fc.provider_order ELSE DefaultOrder
      /\ l.groqProbe = FALSE
  BY LoadedIs
<1>6. /\ a.interval = IF req.interval_sec # 0 THEN req.interval_sec ELSE c.interval
      /\ a.listen = Given(req.listen, c.listen)
      /\ a.tz = Zone(req.tz, c.tz)
      /\ a.low = Alert(req.alerts, "openrouter_low_usd", c.low)
      /\ a.warn5h = Alert(req.alerts, "quota_warn_5h_pct", c.warn5h)
      /\ a.warnWeek = Alert(req.alerts, "quota_warn_weekly_pct", c.warnWeek)
      /\ a.provs = provs
      /\ a.order = IF req.provider_order # <<>> THEN req.provider_order ELSE c.order
      /\ a.groqProbe = FALSE
  BY AppliedIs
<1> HIDE DEF l, a
<1>7. /\ req.interval_sec # 0 /\ req.listen # NoText /\ req.provider_order # <<>>
      /\ req.tz \notin BadZones /\ req.tz # NoText
      /\ WrittenAlerts \subseteq DOMAIN req.alerts
  BY DEF Full
<1>8. req.interval_sec \in Nat /\ req.interval_sec >= MinInterval /\ req.interval_sec > 0
  BY <1>1, <1>2, <1>7, BuiltinAssumption DEF Accepts, CleanFile, FileTyped
<1>9. /\ l.interval = a.interval /\ l.interval >= MinInterval
      /\ l.listen = a.listen /\ l.tz = a.tz /\ l.order = a.order
  BY <1>2, <1>3, <1>5, <1>6, <1>7, <1>8 DEF Given, Zone
<1>10. l.low = a.low /\ l.warn5h = a.warn5h /\ l.warnWeek = a.warnWeek
  <2>1. /\ "openrouter_low_usd" \in WrittenAlerts /\ "quota_warn_5h_pct" \in WrittenAlerts
        /\ "quota_warn_weekly_pct" \in WrittenAlerts
    BY DEF WrittenAlerts, AlertKeys
  <2>2. ASSUME NEW k \in WrittenAlerts, NEW x, NEW y
        PROVE  Alert(Shown(req.alerts), k, x) = Alert(req.alerts, k, y)
    BY <1>7 DEF Alert, Shown
  <2>3. QED
    BY <1>2, <1>3, <1>5, <1>6, <2>1, <2>2
<1>11. DOMAIN provs = Ids /\ \A id \in Ids : PageProvider(provs[id])
  BY PageFits
<1>12. l.provs = ById(Overrides(provs))
  BY <1>2, <1>3, <1>5, LayeredOverNone
<1>12a. a.provs = provs /\ a.groqProbe = FALSE /\ l.groqProbe = FALSE
  BY <1>5, <1>6
<1> HIDE DEF provs
<1>13. /\ \A id \in Ids : [EffectiveProvider(l, id) EXCEPT !.hasProbe = TRUE]
                           = [EffectiveProvider(a, id) EXCEPT !.hasProbe = TRUE]
       /\ GroqProbeEnabled(l) = GroqProbeEnabled(a)
  BY <1>11, <1>12, <1>12a, ProvidersKept
<1>14. Settings(l) = Settings(a)
  <2> DEFINE of(x) == [id \in Ids |-> [EffectiveProvider(x, id) EXCEPT !.hasProbe = TRUE]]
  <2>1. of(l) = of(a)
    BY <1>13
  <2>2. /\ Settings(l) = [interval |-> l.interval, listen |-> l.listen, tz |-> l.tz,
                          alerts |-> <<l.low, l.warn5h, l.warnWeek>>, order |-> l.order,
                          providers |-> of(l), probe |-> GroqProbeEnabled(l)]
        /\ Settings(a) = [interval |-> a.interval, listen |-> a.listen, tz |-> a.tz,
                          alerts |-> <<a.low, a.warn5h, a.warnWeek>>, order |-> a.order,
                          providers |-> of(a), probe |-> GroqProbeEnabled(a)]
    BY DEF Settings
  <2> HIDE DEF of
  <2>3. QED
    BY <1>9, <1>10, <1>13, <2>1, <2>2
<1>15. Serves(l)
  BY <1>5, <1>9 DEF Serves, EnvironmentAside
<1>16. QED
  BY <1>4, <1>14, <1>15 DEF Kept, Starts, fc, l, a

\* A file has the fields there are; one a PUT wrote has them typed.
FileSound(f) ==
    /\ DOMAIN f.fc = DOMAIN NoFile
    /\ f.kind = "doc" => FileTyped(f.fc)

\* server.go:439-501: what a configuration has that Settings, and Serves, look at
\* apart from the interval.
LEMMA SettingsButInterval ==
    ASSUME NEW a, NEW b, NEW c, NEW d,
           a.interval = b.interval, c.interval = d.interval,
           a.provs = c.provs, b.provs = d.provs,
           a.groqProbe = c.groqProbe, b.groqProbe = d.groqProbe,
           a.listen = c.listen, b.listen = d.listen, a.tz = c.tz, b.tz = d.tz,
           a.low = c.low, b.low = d.low, a.warn5h = c.warn5h, b.warn5h = d.warn5h,
           a.warnWeek = c.warnWeek, b.warnWeek = d.warnWeek,
           a.order = c.order, b.order = d.order,
           Settings(c) = Settings(d)
    PROVE  Settings(a) = Settings(b)
<1> DEFINE of(x) == [id \in Ids |-> [EffectiveProvider(x, id) EXCEPT !.hasProbe = TRUE]]
<1>1. ASSUME NEW x
      PROVE  Settings(x) = [interval |-> x.interval, listen |-> x.listen, tz |-> x.tz,
                            alerts |-> <<x.low, x.warn5h, x.warnWeek>>, order |-> x.order,
                            providers |-> of(x), probe |-> GroqProbeEnabled(x)]
  BY DEF Settings
<1>2. of(a) = of(c) /\ of(b) = of(d)
  BY DEF EffectiveProvider
<1>3. GroqProbeEnabled(a) = GroqProbeEnabled(c) /\ GroqProbeEnabled(b) = GroqProbeEnabled(d)
  BY DEF GroqProbeEnabled
<1> HIDE DEF of
<1>4. /\ c.listen = d.listen /\ c.tz = d.tz /\ c.order = d.order
      /\ <<c.low, c.warn5h, c.warnWeek>> = <<d.low, d.warn5h, d.warnWeek>>
      /\ of(c) = of(d) /\ GroqProbeEnabled(c) = GroqProbeEnabled(d)
  <2> DEFINE s == Settings(c)
             t == Settings(d)
  <2>1. /\ s.listen = c.listen /\ s.tz = c.tz /\ s.order = c.order
        /\ s.alerts = <<c.low, c.warn5h, c.warnWeek>>
        /\ s.providers = of(c) /\ s.probe = GroqProbeEnabled(c)
    BY <1>1
  <2>2. /\ t.listen = d.listen /\ t.tz = d.tz /\ t.order = d.order
        /\ t.alerts = <<d.low, d.warn5h, d.warnWeek>>
        /\ t.providers = of(d) /\ t.probe = GroqProbeEnabled(d)
    BY <1>1
  <2>3. s = t
    OBVIOUS
  <2> HIDE DEF s, t
  <2>4. QED
    BY <2>1, <2>2, <2>3
<1>5. QED
  BY <1>1, <1>2, <1>3, <1>4

\* server.go:985-992: what an edit of the interval leaves of the fields.
LEMMA EditedFields ==
    ASSUME NEW f, FileFits(f), FileSound(f), NEW sec \in Nat
    PROVE  LET e == Edited(f, sec)
           IN  /\ FileFits(e) /\ e.kind = f.kind /\ e.fc = [f.fc EXCEPT !.interval_sec = sec]
               /\ FileSound(e)
<1> DEFINE e == Edited(f, sec)
           g == [f.fc EXCEPT !.interval_sec = sec]
<1>1. e = [f EXCEPT !.fc.interval_sec = sec]
  BY DEF Edited
<1>2. DOMAIN e = {"kind", "fc"} /\ e.kind = f.kind /\ e.fc = g
  BY <1>1 DEF FileFits
<1> HIDE DEF e
<1>3. DOMAIN f.fc = {"interval_sec", "listen", "device_token", "tz", "alerts", "providers",
                     "provider_order"}
  BY DEF FileSound, NoFile
<1>4. /\ DOMAIN g = DOMAIN f.fc /\ g.interval_sec = sec /\ g.listen = f.fc.listen
      /\ g.tz = f.fc.tz /\ g.alerts = f.fc.alerts /\ g.providers = f.fc.providers
      /\ g.provider_order = f.fc.provider_order
  BY <1>3
<1> HIDE DEF g
<1>5. f.kind = "doc" => FileTyped(g)
  BY <1>4 DEF FileSound, FileTyped
<1>6. FileSound(e)
  BY <1>2, <1>4, <1>5 DEF FileSound
<1>7. QED
  BY <1>2, <1>6 DEF FileFits, e, g

\* server.go:963-996: an edit of the interval keeps everything else a start would have.
LEMMA EditKeeps ==
    ASSUME EnvironmentAside, NEW f, FileFits(f), FileSound(f), NEW c, CfgFits(c), Kept(f, c),
           NEW sec \in Nat, sec >= MinInterval
    PROVE  Kept(Edited(f, sec), [c EXCEPT !.interval = sec])
<1> DEFINE e == Edited(f, sec)
           g == FieldsOf(f)
           h == FieldsOf(e)
           l == Loaded(g)
           m == Loaded(h)
           d == [c EXCEPT !.interval = sec]
<1>1. e.kind = f.kind /\ e.fc = [f.fc EXCEPT !.interval_sec = sec]
  BY EditedFields
<1> HIDE DEF e
<1>2. h = [g EXCEPT !.interval_sec = sec] /\ DOMAIN g = DOMAIN NoFile /\ Readable(e)
  <2>1. CASE f.kind = "doc"
    <3>1. FileTyped(f.fc)
      BY <2>1 DEF FileSound
    <3>2. LET old == Parsed(SerializeYAML(f.fc))
              new == Parsed(SerializeYAML([f.fc EXCEPT !.interval_sec = sec]))
          IN  /\ new.ok = old.ok
              /\ new.fc = [old.fc EXCEPT !.interval_sec = sec]
              /\ DOMAIN old.fc = DOMAIN NoFile
      BY <3>1, EditReads
    <3>3. Parsed(SerializeYAML(f.fc)).ok
      BY <2>1 DEF Kept, Starts, Readable
    <3>4. Readable(e)
      BY <1>1, <2>1, <3>2, <3>3 DEF Readable
    <3>5. QED
      BY <1>1, <2>1, <3>2, <3>4 DEF FieldsOf
  <2>2. CASE f.kind # "doc"
    <3>1. f.kind = "hand"
      BY <2>2 DEF Kept, Starts, Readable
    <3>2. QED
      BY <1>1, <3>1 DEF FieldsOf, Readable, FileSound
  <2>3. QED
    BY <2>1, <2>2
<1> HIDE DEF g, h
<1>3. /\ h.interval_sec = sec /\ h.listen = g.listen /\ h.tz = g.tz /\ h.alerts = g.alerts
      /\ h.providers = g.providers /\ h.provider_order = g.provider_order
  BY <1>2 DEF NoFile
<1>4. /\ l.listen = Given(g.listen, DefaultListen)
      /\ l.tz = Zone(g.tz, DefaultTZ)
      /\ l.token = Env.token
      /\ l.low = Alert(g.alerts, "openrouter_low_usd", 1)
      /\ l.warn5h = Alert(g.alerts, "quota_warn_5h_pct", 70)
      /\ l.warnWeek = Alert(g.alerts, "quota_warn_weekly_pct", 60)
      /\ l.provs = Layered(<<>>, ById(g.providers))
      /\ l.order = IF g.provider_order # <<>> THEN g.provider_order ELSE DefaultOrder
      /\ l.groqProbe = FALSE
  BY LoadedIs
<1>5. /\ m.interval = IF h.interval_sec > 0 THEN h.interval_sec ELSE DefaultInterval
      /\ m.listen = Given(h.listen, DefaultListen)
      /\ m.tz = Zone(h.tz, DefaultTZ)
      /\ m.token = Env.token
      /\ m.low = Alert(h.alerts, "openrouter_low_usd", 1)
      /\ m.warn5h = Alert(h.alerts, "quota_warn_5h_pct", 70)
      /\ m.warnWeek = Alert(h.alerts, "quota_warn_weekly_pct", 60)
      /\ m.provs = Layered(<<>>, ById(h.providers))
      /\ m.order = IF h.provider_order # <<>> THEN h.provider_order ELSE DefaultOrder
      /\ m.groqProbe = FALSE
  BY LoadedIs
<1>6. Settings(l) = Settings(c)
  BY DEF Kept, l, g
<1> HIDE DEF l, m
<1>7. sec > 0
  BY BuiltinAssumption
<1>8. /\ m.interval = sec /\ m.provs = l.provs /\ m.groqProbe = l.groqProbe
      /\ m.listen = l.listen /\ m.tz = l.tz /\ m.low = l.low /\ m.warn5h = l.warn5h
      /\ m.warnWeek = l.warnWeek /\ m.order = l.order
  BY <1>3, <1>4, <1>5, <1>7
<1>9. /\ d.interval = sec /\ d.provs = c.provs /\ d.groqProbe = c.groqProbe
      /\ d.listen = c.listen /\ d.tz = c.tz /\ d.low = c.low /\ d.warn5h = c.warn5h
      /\ d.warnWeek = c.warnWeek /\ d.order = c.order
  BY DEF CfgFits
<1> HIDE DEF d
<1>10. l.interval = c.interval
  <2>1. Settings(l).interval = l.interval /\ Settings(c).interval = c.interval
    BY DEF Settings
  <2>2. QED
    BY <1>6, <2>1
<1>11. Settings(m) = Settings(d)
  BY <1>6, <1>8, <1>9, <1>10, SettingsButInterval
<1>12. Serves(m)
  BY <1>5, <1>8 DEF Serves, EnvironmentAside
<1>13. QED
  BY <1>2, <1>11, <1>12 DEF Kept, Starts, h, d, m, e

\* config.go:138-175: a file that a daemon started on gives what the daemon has.
LEMMA StartKeeps ==
    ASSUME NEW f, Starts(f)
    PROVE  Kept(f, Loaded(FieldsOf(f)))
  BY DEF Kept

\* server.go:735-996: the texts that handlers write, and what a start or a failure leaves.
LEMMA TextsSound ==
    /\ FileSound(Empty) /\ FileSound(Torn)
    /\ \A fc \in HandFiles : FileSound(Hand(fc))
    /\ \A req \in Requests : Accepts(req) => FileSound(Doc(FileOf(req)))
<1>1. FileSound(Empty) /\ FileSound(Torn)
  BY DEF FileSound, Empty, Torn
<1>2. \A fc \in HandFiles : FileSound(Hand(fc))
  BY BodyAssumption DEF FileSound, Hand
<1>3. ASSUME NEW req \in Requests, Accepts(req) PROVE FileSound(Doc(FileOf(req)))
  <2>1. FileTyped(FileOf(req))
    BY <1>3, WrittenTyped
  <2>2. QED
    BY <2>1 DEF FileSound, Doc, FileTyped
<1>4. QED
  BY <1>1, <1>2, <1>3

\* A handler has a request it accepted, and a text that is a file's.
JobSound(j) ==
    /\ FileSound(j.text)
    /\ j.pc # "idle" /\ j.kind = "put" => j.req \in Requests /\ Accepts(j.req)
    /\ j.pc \in IntervalPcs => j.req.interval_sec \in Nat

FilesSound == \A i \in Inodes : FileSound(content[i])
JobsSound == \A h \in Handlers : JobSound(job[h])
ProbeOff == up => cfg.groqProbe = FALSE

\* A configuration that a PUT may have found and be changing.
Changed(c) == CfgFits(c) /\ c.groqProbe = FALSE

\* What a request nobody meets leaves for the next start, at each of its steps: the
\* file as it is, as it will be edited, or the text in hand.
KeptBy(h) ==
    LET j == job[h]
    IN  /\ j.pc = "providers" => \E c : Changed(c) /\ cfg = WithGeneral(c, j.req)
        /\ j.pc = "alerts" =>
              \E c : Changed(c) /\ cfg = WithProviders(WithGeneral(c, j.req), j.req)
        /\ j.kind = "put" /\ j.pc \in BuildPcs /\ Full(j.req) => Kept(Config_yaml, cfg)
        /\ settled =>
             /\ \/ j.pc \in {"open", "write", "rename", "keychain", "sched", "cfg"}
                \/ j.pc \in BuildPcs /\ j.kind # "put"
                => Kept(Config_yaml, cfg)
             /\ j.pc = "read" => Kept(Edited(Config_yaml, j.req.interval_sec), cfg)
             /\ j.pc \in {"truncate", "rewrite"} => Kept(j.text, cfg)
             /\ j.pc = "rewrite" => path = j.fd /\ path \in Inodes /\ content[path] = Empty

LoneKeeps == \A h \in Handlers : job[h].pc # "idle" /\ job[h].alone => KeptBy(h)
SettledAlone == settled => \A h \in Handlers : job[h].pc # "idle" => job[h].alone
QuietKeeps == up /\ settled /\ (\A h \in Handlers : job[h].pc = "idle") => Kept(Config_yaml, cfg)

RestartInv == FilesSound /\ JobsSound /\ ProbeOff /\ LoneKeeps /\ SettledAlone /\ QuietKeeps

\* server.go:578-996: a step of one handler keeps the invariant when what it leaves
\* is sound and, if nobody met the request, a start would bring it back.
LEMMA OwnStepKeeps ==
    ASSUME ConfigInv, RestartInv, NEW h \in Handlers, job[h].pc # "idle", Others(h),
           up' = up, JobSound(job'[h]), job'[h].pc = "idle" \/ SameRequest(h),
           FilesSound', cfg'.groqProbe = cfg.groqProbe,
           settled' => settled \/ job[h].alone,
           job[h].alone /\ job'[h].pc # "idle" => KeptBy(h)',
           job[h].alone /\ job'[h].pc = "idle" /\ settled' => Kept(Config_yaml, cfg)'
    PROVE RestartInv'
<1>1. up /\ \A g \in Handlers : g # h => job'[g] = job[g]
  BY DEF ConfigInv, Shape, JobsFit, Others
<1>2. JobsSound' /\ ProbeOff'
  BY <1>1 DEF RestartInv, JobsSound, ProbeOff
<1>3. job'[h].pc # "idle" => job'[h].alone = job[h].alone
  BY DEF SameRequest
<1>4. /\ \A g \in Handlers : g # h /\ job[g].pc # "idle" => ~job[g].alone
      /\ job[h].alone => \A g \in Handlers : job[g].pc # "idle" => g = h
  BY DEF ConfigInv, Shape, AloneFits
<1>5. LoneKeeps'
  <2> SUFFICES ASSUME NEW g \in Handlers, job'[g].pc # "idle", job'[g].alone
               PROVE KeptBy(g)'
    BY DEF LoneKeeps
  <2>1. g = h /\ job[h].alone
    BY <1>1, <1>3, <1>4
  <2>2. QED
    BY <2>1
<1>6. settled' => job[h].alone
  BY DEF RestartInv, SettledAlone
<1>7. SettledAlone'
  BY <1>1, <1>3, <1>4, <1>6 DEF SettledAlone
<1>8. QuietKeeps'
  BY <1>6 DEF QuietKeeps
<1>9. QED
  BY <1>2, <1>5, <1>7, <1>8 DEF RestartInv

\* server.go:998-1029: a file that is written leaves every file sound.
LEMMA WrittenSound ==
    ASSUME ConfigInv, RestartInv, NEW i, NEW f, FileSound(f), content' = [content EXCEPT ![i] = f]
    PROVE FilesSound'
  BY DEF ConfigInv, Shape, FilesFit, RestartInv, FilesSound

\* server.go:578-996: a handler that goes on with its request and text is sound.
LEMMA GoesSound ==
    ASSUME RestartInv, NEW h \in Handlers, SameRequest(h), job'[h].text = job[h].text,
           job[h].pc # "idle", job'[h].pc \in IntervalPcs => job[h].pc \in IntervalPcs
    PROVE JobSound(job'[h])
  BY DEF RestartInv, JobsSound, JobSound, SameRequest

\* server.go:578-996: so is one that has answered.
LEMMA AnswersSound ==
    ASSUME JobsFit, NEW h \in Handlers, NEW a, Answers(h, a)
    PROVE JobSound(job'[h])
<1> DEFINE k == [Idle EXCEPT !.answer = a]
<1>1. job'[h] = k
  BY DEF Answers, JobsFit
<1>2. k.pc = "idle" /\ k.text = Empty
  BY DEF Idle
<1> HIDE DEF k
<1>3. QED
  BY <1>1, <1>2, TextsSound DEF JobSound, IntervalPcs
-----------------------------------------------------------------------------
(* Steps that leave the file, the configuration and settled as they are    *)

\* server.go:578-996: where nothing a start looks at changes, a request nobody meets
\* leaves for it what it left before.
LEMMA SameFileKeeps ==
    ASSUME ConfigInv, RestartInv, NEW h \in Handlers,
           \/ Builds(h) \/ Installs(h) \/ IntervalSets(h) \/ KeychainDone(h)
           \/ PutRenames(h) \/ PutApplies(h)
    PROVE RestartInv'
<1>1. /\ UNCHANGED <<up, cfg, content, settled>>
      /\ PutRenames(h) \/ UNCHANGED path
  BY DEF Builds, Installs, IntervalSets, KeychainDone, PutRenames, PutApplies
<1>2. /\ job[h].pc \in {"build", "install", "sched", "keychain", "rename", "apply"}
      /\ JobFits(job[h]) /\ JobsFit
  BY DEF Builds, Installs, IntervalSets, KeychainDone, PutRenames, PutApplies, ConfigInv,
         Shape, JobsFit
<1>3. /\ Others(h) /\ SameRequest(h) /\ job'[h].text = job[h].text
      /\ <<job[h].pc, job'[h].pc>> \in
            {<<"build", "install">>, <<"install", "order">>, <<"sched", "cfg">>,
             <<"keychain", "build">>, <<"rename", "apply">>, <<"apply", "applied">>}
  <2>1. CASE Builds(h)
    <3>0. PICK b : job' = [job EXCEPT ![h] = [@ EXCEPT !.pc = "install", !.built = b]]
      BY <2>1 DEF Builds
    <3> DEFINE j == job[h]
               k == [j EXCEPT !.pc = "install", !.built = b]
    <3>1. job' = [job EXCEPT ![h] = k] /\ j.pc = "build" /\ DOMAIN j = Fields
      BY <1>2, <2>1, <3>0 DEF Builds, JobFits
    <3>2. job'[h] = k /\ Others(h)
      BY <1>2, <3>1 DEF JobsFit, Others
    <3> HIDE DEF j
    <3>3. /\ DOMAIN k = Fields /\ k.pc = "install" /\ k.kind = j.kind /\ k.req = j.req
          /\ k.alone = j.alone /\ k.answer = j.answer /\ k.before = j.before
          /\ k.cfg0 = j.cfg0 /\ k.text = j.text
      BY <3>1 DEF Fields
    <3> HIDE DEF k
    <3>4. QED
      BY <3>1, <3>2, <3>3 DEF SameRequest, j
  <2>2. CASE Installs(h)
    BY <1>2, <2>2, GoesShape DEF Installs
  <2>3. CASE IntervalSets(h)
    BY <1>2, <2>3, GoesShape DEF IntervalSets
  <2>4. CASE KeychainDone(h)
    BY <1>2, <2>4, GoesShape DEF KeychainDone
  <2>5. CASE PutRenames(h)
    BY <1>2, <2>5, GoesShape DEF PutRenames
  <2>6. CASE PutApplies(h)
    BY <1>2, <2>6, GoesShape DEF PutApplies
  <2>7. QED
    BY <2>1, <2>2, <2>3, <2>4, <2>5, <2>6
<1>4. JobSound(job'[h])
  BY <1>2, <1>3, GoesSound DEF IntervalPcs
<1>5. FilesSound'
  BY <1>1 DEF RestartInv, FilesSound
<1>6. ASSUME job[h].alone PROVE KeptBy(h)'
  <2>1. KeptBy(h)
    BY <1>2, <1>6 DEF RestartInv, LoneKeeps
  <2>2. /\ job[h].pc = "keychain" => job[h].kind # "put"
        /\ job[h].pc = "sched" => job[h].kind # "put"
    BY <1>2 DEF JobFits, IntervalPcs
  <2>3. CASE job[h].pc = "rename" \/ job[h].pc = "apply"
    BY <1>3, <2>3 DEF KeptBy, BuildPcs, SameRequest
  <2>4. CASE job[h].pc # "rename" /\ job[h].pc # "apply"
    <3>1. Config_yaml' = Config_yaml /\ Kept(Config_yaml, cfg)' = Kept(Config_yaml, cfg)
      BY <1>1, <2>4 DEF Config_yaml, PutRenames, Kept
    <3> DEFINE j == job[h]
               k == job'[h]
    <3>2. /\ k.kind = j.kind /\ k.req = j.req
          /\ k.pc \in BuildPcs \/ (k.pc = "cfg" /\ j.pc = "sched")
          /\ k.pc \in BuildPcs /\ k.kind = "put" => j.pc \in BuildPcs
          /\ \/ j.pc \in {"keychain", "sched"}
             \/ j.pc \in BuildPcs
          /\ j.pc \in {"keychain", "sched"} => j.kind # "put"
      BY <1>3, <2>2, <2>4 DEF SameRequest, BuildPcs
    <3>3. /\ j.kind = "put" /\ j.pc \in BuildPcs /\ Full(j.req) => Kept(Config_yaml, cfg)
          /\ settled /\ (\/ j.pc \in {"open", "write", "rename", "keychain", "sched", "cfg"}
                         \/ j.pc \in BuildPcs /\ j.kind # "put") => Kept(Config_yaml, cfg)
      BY <2>1 DEF KeptBy
    <3>4. /\ k.kind = "put" /\ k.pc \in BuildPcs /\ Full(k.req) => Kept(Config_yaml, cfg)
          /\ settled /\ (\/ k.pc \in {"open", "write", "rename", "keychain", "sched", "cfg"}
                         \/ k.pc \in BuildPcs /\ k.kind # "put") => Kept(Config_yaml, cfg)
          /\ k.pc \notin {"read", "truncate", "rewrite", "providers", "alerts"}
      <4> HIDE DEF j, k
      <4>1. QED
        BY <3>2, <3>3 DEF BuildPcs
    <3>5. QED
      BY <1>1, <3>1, <3>4 DEF KeptBy
  <2>5. QED
    BY <2>3, <2>4
<1>7. job'[h].pc # "idle" /\ job[h].pc # "idle" /\ (settled' => settled)
  BY <1>1, <1>3
<1>8. QED
  BY <1>1, <1>3, <1>4, <1>5, <1>6, <1>7, OwnStepKeeps

\* server.go:1017-1021: the temporary file is opened empty, and config.yaml is as it was.
LEMMA PutOpensSettled ==
    ASSUME ConfigInv, RestartInv, ConfigServerAssumption, NEW h \in Handlers, PutOpens(h)
    PROVE RestartInv'
<1>1. PICK i \in Inodes :
         /\ IF tmp = None THEN Fresh(i) ELSE i = tmp
         /\ content' = [content EXCEPT ![i] = Empty]
         /\ job' = [job EXCEPT ![h] = [@ EXCEPT !.pc = "write", !.fd = i]]
  BY DEF PutOpens
<1>2. /\ job[h].pc = "open" /\ UNCHANGED <<up, cfg, path, settled>>
  BY DEF PutOpens
<1>3. /\ Others(h) /\ SameRequest(h) /\ job'[h].pc = "write" /\ job'[h].text = job[h].text
  <2> DEFINE j == job[h]
             k == [j EXCEPT !.pc = "write", !.fd = i]
  <2>1. DOMAIN j = Fields /\ DOMAIN job = Handlers
    BY DEF ConfigInv, Shape, JobsFit, JobFits
  <2>2. job'[h] = k /\ Others(h)
    BY <1>1, <2>1 DEF Others
  <2> HIDE DEF j
  <2>3. /\ DOMAIN k = Fields /\ k.pc = "write" /\ k.kind = j.kind /\ k.req = j.req
        /\ k.alone = j.alone /\ k.answer = j.answer /\ k.before = j.before
        /\ k.cfg0 = j.cfg0 /\ k.text = j.text
    BY <2>1 DEF Fields
  <2> HIDE DEF k
  <2>4. QED
    BY <2>2, <2>3 DEF SameRequest, j
<1>4. JobSound(job'[h])
  BY <1>2, <1>3, GoesSound DEF IntervalPcs
<1>5. FilesSound'
  BY <1>1, WrittenSound, TextsSound
<1>6. i # path
  BY <1>1 DEF Fresh, ConfigInv, Shape, FilesFit
<1>7. Config_yaml' = Config_yaml
  BY <1>1, <1>2, <1>6 DEF Config_yaml, ConfigInv, Shape, FilesFit
<1>8. Kept(Config_yaml, cfg)' = Kept(Config_yaml, cfg)
  BY <1>2, <1>7 DEF Kept
<1>9. ASSUME job[h].alone PROVE KeptBy(h)'
  <2>1. settled => Kept(Config_yaml, cfg)
    BY <1>2, <1>9 DEF RestartInv, LoneKeeps, KeptBy
  <2>2. QED
    BY <1>2, <1>3, <1>8, <2>1 DEF KeptBy, BuildPcs
<1>10. job'[h].pc # "idle" /\ job[h].pc # "idle" /\ (settled' => settled)
  BY <1>2, <1>3
<1>11. QED
  BY <1>2, <1>3, <1>4, <1>5, <1>9, <1>10, OwnStepKeeps

\* server.go:1017-1021: what is written is the text of a body that was accepted.
LEMMA PutWritesSettled ==
    ASSUME ConfigInv, RestartInv, ConfigServerAssumption, NEW h \in Handlers, PutWrites(h)
    PROVE RestartInv'
<1> DEFINE i == job[h].fd
<1>1. PICK new \in {Doc(FileOf(job[h].req)), Torn} : content' = [content EXCEPT ![i] = new]
  BY DEF PutWrites
<1>2. /\ job[h].pc = "write" /\ job[h].kind = "put" /\ Goes(h, "rename")
      /\ UNCHANGED <<up, cfg, path, settled>>
  BY DEF PutWrites, ConfigInv, Shape, JobsFit, JobFits, PutPcs
<1>3. /\ Others(h) /\ SameRequest(h) /\ job'[h].pc = "rename" /\ job'[h].text = job[h].text
  BY <1>2, GoesShape DEF ConfigInv, Shape
<1>4. JobSound(job'[h])
  BY <1>2, <1>3, GoesSound DEF IntervalPcs
<1>5. FileSound(new)
  <2>1. job[h].req \in Requests /\ Accepts(job[h].req)
    BY <1>2 DEF RestartInv, JobsSound, JobSound
  <2>2. QED
    BY <2>1, TextsSound
<1>6. FilesSound'
  BY <1>1, <1>5, WrittenSound
<1>7. ASSUME job[h].alone PROVE KeptBy(h)'
  <2>1. tmp = i /\ tmp \in Inodes /\ i # path
    BY <1>2, <1>7, ConfigServerAssumption
       DEF ConfigInv, LoneFits, SavedBy, Shape, FilesFit
  <2>2. Config_yaml' = Config_yaml
    BY <1>1, <1>2, <2>1 DEF Config_yaml, ConfigInv, Shape, FilesFit
  <2>3. Kept(Config_yaml, cfg)' = Kept(Config_yaml, cfg)
    BY <1>2, <2>2 DEF Kept
  <2>4. settled => Kept(Config_yaml, cfg)
    BY <1>2, <1>7 DEF RestartInv, LoneKeeps, KeptBy
  <2>5. QED
    BY <1>2, <1>3, <2>3, <2>4 DEF KeptBy, BuildPcs
<1>8. job'[h].pc # "idle" /\ job[h].pc # "idle" /\ (settled' => settled)
  BY <1>2, <1>3
<1>9. QED
  BY <1>2, <1>3, <1>4, <1>6, <1>7, <1>8, OwnStepKeeps

\* server.go:735-744, 921-957: a save or a keychain that fails leaves config.yaml and the
\* configuration alone.
LEMMA FailuresSettled ==
    ASSUME ConfigInv, RestartInv, ConfigServerAssumption, NEW h \in Handlers,
           PutFails(h) \/ KeychainFails(h)
    PROVE RestartInv'
<1>1. /\ job[h].pc \in {"open", "write", "rename", "keychain"} /\ Answers(h, "failed")
      /\ \/ content' = content
         \/ job[h].pc = "write" /\ content' = [content EXCEPT ![job[h].fd] = Torn]
      /\ UNCHANGED <<up, cfg, path, settled>>
  BY DEF PutFails, KeychainFails
<1>2. Others(h) /\ JobSound(job'[h]) /\ job'[h].pc = "idle"
  BY <1>1, AnswersShape, AnswersSound DEF ConfigInv, Shape
<1>3. FilesSound'
  <2>1. CASE content' = content
    BY <2>1 DEF RestartInv, FilesSound
  <2>2. CASE content' = [content EXCEPT ![job[h].fd] = Torn]
    BY <2>2, WrittenSound, TextsSound
  <2>3. QED
    BY <1>1, <2>1, <2>2
<1>4. ASSUME job[h].alone, settled' PROVE Kept(Config_yaml, cfg)'
  <2>1. Config_yaml' = Config_yaml
    <3>1. CASE content' = content
      BY <1>1, <3>1 DEF Config_yaml
    <3>2. CASE job[h].pc = "write" /\ content' = [content EXCEPT ![job[h].fd] = Torn]
      <4>1. job[h].kind = "put"
        BY <3>2 DEF ConfigInv, Shape, JobsFit, JobFits, PutPcs
      <4>2. tmp = job[h].fd /\ job[h].fd \in Inodes /\ job[h].fd # path
        BY <1>4, <3>2, <4>1, ConfigServerAssumption
           DEF ConfigInv, LoneFits, SavedBy, Shape, FilesFit
      <4>3. QED
        BY <1>1, <3>2, <4>2 DEF Config_yaml, ConfigInv, Shape, FilesFit
    <3>3. QED
      BY <1>1, <3>1, <3>2
  <2>2. Kept(Config_yaml, cfg)
    BY <1>1, <1>4 DEF RestartInv, LoneKeeps, KeptBy
  <2>3. QED
    BY <1>1, <2>1, <2>2 DEF Kept
<1>5. job[h].pc # "idle" /\ (settled' => settled)
  BY <1>1
<1>6. QED
  BY <1>1, <1>2, <1>3, <1>4, <1>5, OwnStepKeeps

\* server.go:747-758: the interval, the address and the time zone of the body are in.
LEMMA PutChangesGeneralSettled ==
    ASSUME ConfigInv, RestartInv, NEW h \in Handlers, PutChangesGeneral(h)
    PROVE RestartInv'
<1> DEFINE req == job[h].req
<1>1. /\ job[h].pc = "applied" /\ job[h].kind = "put" /\ Goes(h, "providers")
      /\ cfg' = WithGeneral(cfg, req)
      /\ UNCHANGED <<up, path, content, settled>>
  BY DEF PutChangesGeneral, ConfigInv, Shape, JobsFit, JobFits, PutPcs
<1>2. /\ Others(h) /\ SameRequest(h) /\ job'[h].pc = "providers"
      /\ job'[h].text = job[h].text
  BY <1>1, GoesShape DEF ConfigInv, Shape
<1>3. JobSound(job'[h])
  BY <1>1, <1>2, GoesSound DEF IntervalPcs
<1>4. FilesSound'
  BY <1>1 DEF RestartInv, FilesSound
<1>5. CfgFits(cfg) /\ cfg.groqProbe = FALSE
  BY <1>1 DEF ConfigInv, Shape, RunningFits, JobsFit, RestartInv, ProbeOff
<1>6. cfg'.groqProbe = cfg.groqProbe
  BY <1>1, <1>5, GroupsFit
<1>7. ASSUME job[h].alone PROVE KeptBy(h)'
  <2>1. \E c : Changed(c) /\ cfg' = WithGeneral(c, req)
    BY <1>1, <1>5 DEF Changed
  <2>2. QED
    BY <1>1, <1>2, <2>1 DEF KeptBy, BuildPcs, SameRequest
<1>8. job'[h].pc # "idle" /\ job[h].pc # "idle" /\ (settled' => settled)
  BY <1>1, <1>2
<1>9. QED
  BY <1>1, <1>2, <1>3, <1>4, <1>6, <1>7, <1>8, OwnStepKeeps

\* server.go:759-763: its providers and their order are in.
LEMMA PutChangesProvidersSettled ==
    ASSUME ConfigInv, RestartInv, NEW h \in Handlers, PutChangesProviders(h)
    PROVE RestartInv'
<1> DEFINE req == job[h].req
<1>1. /\ job[h].pc = "providers" /\ job[h].kind = "put" /\ Goes(h, "alerts")
      /\ cfg' = WithProviders(cfg, req)
      /\ UNCHANGED <<up, path, content, settled>>
  BY DEF PutChangesProviders, ConfigInv, Shape, JobsFit, JobFits, PutPcs
<1>2. /\ Others(h) /\ SameRequest(h) /\ job'[h].pc = "alerts"
      /\ job'[h].text = job[h].text
  BY <1>1, GoesShape DEF ConfigInv, Shape
<1>3. JobSound(job'[h])
  BY <1>1, <1>2, GoesSound DEF IntervalPcs
<1>4. FilesSound'
  BY <1>1 DEF RestartInv, FilesSound
<1>5. CfgFits(cfg) /\ cfg.groqProbe = FALSE
  BY <1>1 DEF ConfigInv, Shape, RunningFits, JobsFit, RestartInv, ProbeOff
<1>6. cfg'.groqProbe = cfg.groqProbe
  BY <1>1, <1>5, GroupsFit
<1>7. ASSUME job[h].alone PROVE KeptBy(h)'
  <2>1. PICK c : Changed(c) /\ cfg = WithGeneral(c, req)
    BY <1>1, <1>7 DEF RestartInv, LoneKeeps, KeptBy
  <2>2. cfg' = WithProviders(WithGeneral(c, req), req)
    BY <1>1, <2>1
  <2>3. QED
    BY <1>1, <1>2, <2>1, <2>2 DEF KeptBy, BuildPcs, SameRequest
<1>8. job'[h].pc # "idle" /\ job[h].pc # "idle" /\ (settled' => settled)
  BY <1>1, <1>2
<1>9. QED
  BY <1>1, <1>2, <1>3, <1>4, <1>6, <1>7, <1>8, OwnStepKeeps

\* server.go:764-777: the running configuration has all the body that was saved says, and
\* what a start on it would read.
LEMMA PutChangesAlertsSettled ==
    ASSUME EnvironmentAside, ConfigInv, RestartInv, NEW h \in Handlers, PutChangesAlerts(h)
    PROVE RestartInv'
<1> DEFINE req == job[h].req
<1>1. /\ job[h].pc = "alerts" /\ job[h].kind = "put" /\ Goes(h, "build")
      /\ cfg' = WithAlerts(cfg, req.alerts)
      /\ UNCHANGED <<up, path, content, settled>>
  BY DEF PutChangesAlerts, ConfigInv, Shape, JobsFit, JobFits, PutPcs
<1>2. /\ Others(h) /\ SameRequest(h) /\ job'[h].pc = "build"
      /\ job'[h].text = job[h].text
  BY <1>1, GoesShape DEF ConfigInv, Shape
<1>3. JobSound(job'[h])
  BY <1>1, <1>2, GoesSound DEF IntervalPcs
<1>4. FilesSound'
  BY <1>1 DEF RestartInv, FilesSound
<1>5. CfgFits(cfg) /\ cfg.groqProbe = FALSE
  BY <1>1 DEF ConfigInv, Shape, RunningFits, JobsFit, RestartInv, ProbeOff
<1>6. cfg'.groqProbe = cfg.groqProbe
  BY <1>1, <1>5, AlertsFit
<1>7. ASSUME job[h].alone PROVE KeptBy(h)'
  <2>0. PICK c : Changed(c) /\ cfg = WithProviders(WithGeneral(c, req), req)
    BY <1>1, <1>7 DEF RestartInv, LoneKeeps, KeptBy
  <2>1. Config_yaml = Doc(FileOf(req))
    BY <1>1, <1>7 DEF ConfigInv, LoneFits, SavedBy
  <2>2. Config_yaml' = Config_yaml
    BY <1>1 DEF Config_yaml
  <2>3. req \in Requests /\ Accepts(req)
    BY <1>1 DEF RestartInv, JobsSound, JobSound
  <2>4. Full(req) => Kept(Doc(FileOf(req)), Applied(c, req))
    BY <2>0, <2>3, SavedKeeps DEF Changed
  <2>5. cfg' = Applied(c, req)
    BY <1>1, <2>0 DEF Applied
  <2>6. Full(req) => Kept(Config_yaml, cfg)'
    BY <2>1, <2>2, <2>4, <2>5 DEF Kept
  <2>7. QED
    BY <1>1, <1>2, <2>6 DEF KeptBy, BuildPcs, SameRequest
<1>8. job'[h].pc # "idle" /\ job[h].pc # "idle" /\ (settled' => settled)
  BY <1>1, <1>2
<1>9. QED
  BY <1>1, <1>2, <1>3, <1>4, <1>6, <1>7, <1>8, OwnStepKeeps

\* server.go:870-882: a request that ends with the fetchers built has left the file and the
\* configuration of one mind, or is not settled.
LEMMA OrdersSettled ==
    ASSUME ConfigInv, RestartInv, NEW h \in Handlers, Orders(h)
    PROVE RestartInv'
<1>1. /\ job[h].pc = "order" /\ Answers(h, "ok")
      /\ settled' = IF job[h].kind = "put" THEN job[h].alone /\ Full(job[h].req) ELSE settled
      /\ UNCHANGED <<up, cfg, path, content>>
  BY DEF Orders
<1>2. Others(h) /\ JobSound(job'[h]) /\ job'[h].pc = "idle"
  BY <1>1, AnswersShape, AnswersSound DEF ConfigInv, Shape
<1>3. FilesSound'
  BY <1>1 DEF RestartInv, FilesSound
<1>4. ASSUME job[h].alone, settled' PROVE Kept(Config_yaml, cfg)'
  <2>1. Config_yaml' = Config_yaml
    BY <1>1 DEF Config_yaml
  <2>2. KeptBy(h)
    BY <1>1, <1>4 DEF RestartInv, LoneKeeps
  <2>3. Kept(Config_yaml, cfg)
    BY <1>1, <1>4, <2>2 DEF KeptBy, BuildPcs
  <2>4. QED
    BY <1>1, <2>1, <2>3 DEF Kept
<1>5. job[h].pc # "idle" /\ (settled' => settled \/ job[h].alone) /\ cfg'.groqProbe = cfg.groqProbe
  BY <1>1
<1>6. QED
  BY <1>1, <1>2, <1>3, <1>4, <1>5, OwnStepKeeps

\* server.go:841-847: the running interval changes before the line of the file is edited.
LEMMA IntervalChangesConfigSettled ==
    ASSUME EnvironmentAside, ConfigInv, RestartInv, ConfigServerAssumption, NEW h \in Handlers,
           IntervalChangesConfig(h)
    PROVE RestartInv'
<1> DEFINE sec == job[h].req.interval_sec
<1>1. /\ job[h].pc = "cfg" /\ job[h].kind = "interval" /\ Goes(h, "read")
      /\ cfg' = [cfg EXCEPT !.interval = sec]
      /\ UNCHANGED <<up, path, content, settled>>
  BY DEF IntervalChangesConfig, ConfigInv, Shape, JobsFit, JobFits, IntervalPcs
<1>2. /\ Others(h) /\ SameRequest(h) /\ job'[h].pc = "read" /\ job'[h].text = job[h].text
  BY <1>1, GoesShape DEF ConfigInv, Shape
<1>3. JobSound(job'[h])
  BY <1>1, <1>2, GoesSound DEF IntervalPcs
<1>4. FilesSound'
  BY <1>1 DEF RestartInv, FilesSound
<1>5. CfgFits(cfg)
  BY DEF ConfigInv, Shape, RunningFits
<1>6. cfg'.groqProbe = cfg.groqProbe
  BY <1>1, <1>5 DEF CfgFits
<1>7. sec \in Nat /\ sec >= MinInterval
  BY <1>1 DEF RestartInv, JobsSound, JobSound, IntervalPcs, ConfigInv, Shape, JobsFit, JobFits
<1>8. FileFits(Config_yaml) /\ FileSound(Config_yaml)
  BY TextsFit, TextsSound DEF Config_yaml, ConfigInv, Shape, FilesFit, RestartInv, FilesSound
<1>9. ASSUME job[h].alone PROVE KeptBy(h)'
  <2>1. Config_yaml' = Config_yaml
    BY <1>1 DEF Config_yaml
  <2>2. settled => Kept(Config_yaml, cfg)
    BY <1>1, <1>9 DEF RestartInv, LoneKeeps, KeptBy
  <2>3. settled => Kept(Edited(Config_yaml, sec), [cfg EXCEPT !.interval = sec])
    BY <1>5, <1>7, <1>8, <2>2, EditKeeps
  <2>4. settled => Kept(Edited(Config_yaml, job[h].req.interval_sec), cfg)'
    <3>1. Edited(Config_yaml, job[h].req.interval_sec)' = Edited(Config_yaml, sec)
      BY <1>2, <2>1 DEF Edited, SameRequest
    <3>2. QED
      BY <1>1, <2>3, <3>1 DEF Kept
  <2>5. QED
    BY <1>1, <1>2, <2>4 DEF KeptBy, BuildPcs, SameRequest
<1>10. job'[h].pc # "idle" /\ job[h].pc # "idle" /\ (settled' => settled)
  BY <1>1, <1>2
<1>11. QED
  BY <1>1, <1>2, <1>3, <1>4, <1>6, <1>9, <1>10, OwnStepKeeps

\* server.go:963-992: the text in hand is the file with its line edited.
LEMMA PersistReadsSettled ==
    ASSUME ConfigInv, RestartInv, ConfigServerAssumption, NEW h \in Handlers, PersistReads(h)
    PROVE RestartInv'
<1> DEFINE t == Edited(Config_yaml, job[h].req.interval_sec)
<1>1. /\ job[h].pc = "read" /\ job[h].kind = "interval"
      /\ job' = [job EXCEPT ![h] = [@ EXCEPT !.pc = "truncate", !.text = t]]
      /\ UNCHANGED <<up, cfg, path, content, settled>>
  BY DEF PersistReads, ConfigInv, Shape, JobsFit, JobFits, IntervalPcs
<1>2. job[h].req.interval_sec \in Nat
  BY <1>1 DEF RestartInv, JobsSound, JobSound, IntervalPcs
<1>3. FileSound(t)
  <2>1. FileFits(Config_yaml) /\ FileSound(Config_yaml)
    BY TextsFit, TextsSound DEF Config_yaml, ConfigInv, Shape, FilesFit, RestartInv, FilesSound
  <2>2. QED
    BY <1>2, <2>1, EditedFields
<1>4. settled /\ job[h].alone => Kept(t, cfg)
  BY <1>1 DEF RestartInv, LoneKeeps, KeptBy
<1> HIDE DEF t
<1>5. /\ Others(h) /\ SameRequest(h) /\ job'[h].pc = "truncate" /\ job'[h].text = t
  <2> DEFINE j == job[h]
             k == [j EXCEPT !.pc = "truncate", !.text = t]
  <2>1. DOMAIN j = Fields /\ DOMAIN job = Handlers
    BY DEF ConfigInv, Shape, JobsFit, JobFits
  <2>2. job'[h] = k /\ Others(h)
    BY <1>1, <2>1 DEF Others
  <2> HIDE DEF j
  <2>3. /\ DOMAIN k = Fields /\ k.pc = "truncate" /\ k.kind = j.kind /\ k.req = j.req
        /\ k.alone = j.alone /\ k.answer = j.answer /\ k.before = j.before
        /\ k.cfg0 = j.cfg0 /\ k.text = t
    BY <2>1 DEF Fields
  <2> HIDE DEF k
  <2>4. QED
    BY <2>2, <2>3 DEF SameRequest, j
<1>6. JobSound(job'[h])
  BY <1>1, <1>2, <1>3, <1>5 DEF JobSound, SameRequest
<1>7. FilesSound'
  BY <1>1 DEF RestartInv, FilesSound
<1>8. job[h].alone => KeptBy(h)'
  <2>1. settled' /\ job[h].alone => Kept(job'[h].text, cfg')
    BY <1>1, <1>4, <1>5
  <2>2. QED
    BY <1>1, <1>5, <2>1 DEF KeptBy, BuildPcs, SameRequest
<1>9. job'[h].pc # "idle" /\ job[h].pc # "idle" /\ (settled' => settled)
  BY <1>1, <1>5
<1>10. QED
  BY <1>1, <1>5, <1>6, <1>7, <1>8, <1>9, OwnStepKeeps

\* server.go:993: config.yaml is cut short, the text still in hand.
LEMMA PersistTruncatesSettled ==
    ASSUME ConfigInv, RestartInv, ConfigServerAssumption, NEW h \in Handlers,
           PersistTruncates(h)
    PROVE RestartInv'
<1>1. PICK i \in Inodes :
         /\ path' = i /\ content' = [content EXCEPT ![i] = Empty]
         /\ job' = [job EXCEPT ![h] = [@ EXCEPT !.pc = "rewrite", !.fd = i]]
  BY DEF PersistTruncates
<1>2. /\ job[h].pc = "truncate" /\ job[h].kind = "interval" /\ UNCHANGED <<up, cfg,
                                                                           settled>>
  BY DEF PersistTruncates, ConfigInv, Shape, JobsFit, JobFits, IntervalPcs
<1>3. /\ Others(h) /\ SameRequest(h) /\ job'[h].pc = "rewrite" /\ job'[h].text = job[h].text
      /\ job'[h].fd = i
  <2> DEFINE j == job[h]
             k == [j EXCEPT !.pc = "rewrite", !.fd = i]
  <2>1. DOMAIN j = Fields /\ DOMAIN job = Handlers
    BY DEF ConfigInv, Shape, JobsFit, JobFits
  <2>2. job'[h] = k /\ Others(h)
    BY <1>1, <2>1 DEF Others
  <2> HIDE DEF j
  <2>3. /\ DOMAIN k = Fields /\ k.pc = "rewrite" /\ k.kind = j.kind /\ k.req = j.req
        /\ k.alone = j.alone /\ k.answer = j.answer /\ k.before = j.before
        /\ k.cfg0 = j.cfg0 /\ k.text = j.text /\ k.fd = i
    BY <2>1 DEF Fields
  <2> HIDE DEF k
  <2>4. QED
    BY <2>2, <2>3 DEF SameRequest, j
<1>4. JobSound(job'[h])
  BY <1>2, <1>3, GoesSound DEF IntervalPcs
<1>5. FilesSound'
  BY <1>1, WrittenSound, TextsSound
<1>6. content'[i] = Empty
  BY <1>1 DEF ConfigInv, Shape, FilesFit
<1>7. ASSUME job[h].alone PROVE KeptBy(h)'
  <2>1. settled => Kept(job[h].text, cfg)
    BY <1>2, <1>7 DEF RestartInv, LoneKeeps, KeptBy
  <2>2. settled' => Kept(job'[h].text, cfg')
    BY <1>2, <1>3, <2>1
  <2>3. QED
    BY <1>1, <1>2, <1>3, <1>6, <2>2 DEF KeptBy, BuildPcs, SameRequest
<1>8. job'[h].pc # "idle" /\ job[h].pc # "idle" /\ (settled' => settled)
  BY <1>2, <1>3
<1>9. QED
  BY <1>2, <1>3, <1>4, <1>5, <1>7, <1>8, OwnStepKeeps

\* server.go:985-996: the edited text is in the file, or the file is left behind.
LEMMA PersistEndsSettled ==
    ASSUME ConfigInv, RestartInv, ConfigServerAssumption, NEW h \in Handlers,
           PersistWrites(h) \/ PersistFails(h)
    PROVE RestartInv'
<1>1. /\ job[h].pc \in {"read", "truncate", "rewrite"} /\ Answers(h, "ok")
      /\ UNCHANGED <<up, cfg, path>> /\ (settled' => settled)
  BY DEF PersistWrites, PersistFails
<1>2. Others(h) /\ JobSound(job'[h]) /\ job'[h].pc = "idle"
  BY <1>1, AnswersShape, AnswersSound DEF ConfigInv, Shape
<1>3. \/ content' = content
      \/ \E f \in {job[h].text, Torn} : content' = [content EXCEPT ![job[h].fd] = f]
  BY DEF PersistWrites, PersistFails
<1>4. FilesSound'
  <2>1. CASE content' = content
    BY <2>1 DEF RestartInv, FilesSound
  <2>2. ASSUME NEW f \in {job[h].text, Torn}, content' = [content EXCEPT ![job[h].fd] = f]
        PROVE FilesSound'
    <3>1. FileSound(f)
      BY TextsSound DEF RestartInv, JobsSound, JobSound
    <3>2. QED
      BY <2>2, <3>1, WrittenSound
  <2>3. QED
    BY <1>3, <2>1, <2>2
<1>5. ASSUME job[h].alone, settled' PROVE Kept(Config_yaml, cfg)'
  <2>1. PersistWrites(h) /\ settled /\ job[h].pc = "rewrite"
    BY <1>5 DEF PersistWrites, PersistFails
  <2>2. /\ Kept(job[h].text, cfg) /\ path = job[h].fd /\ path \in Inodes
        /\ content[path] = Empty
    BY <1>5, <2>1 DEF RestartInv, LoneKeeps, KeptBy
  <2>3. content' = [content EXCEPT ![path] = job[h].text]
    BY <2>1, <2>2 DEF PersistWrites
  <2>4. Config_yaml' = job[h].text
    BY <1>1, <2>2, <2>3, ConfigServerAssumption DEF Config_yaml, ConfigInv, Shape, FilesFit
  <2>5. QED
    BY <1>1, <2>2, <2>4 DEF Kept
<1>6. job[h].pc # "idle" /\ cfg'.groqProbe = cfg.groqProbe
  BY <1>1
<1>7. QED
  BY <1>1, <1>2, <1>4, <1>5, <1>6, OwnStepKeeps

-----------------------------------------------------------------------------
(* Requests that arrive, and restarts                                      *)

\* server.go:582-588: who begins alone begins on a file and a configuration of one mind.
LEMMA BeginsSettled ==
    ASSUME ConfigInv, RestartInv, NEW h \in Handlers, NEW kind, NEW pc, NEW req,
           Begins(h, kind, pc, req), pc \in {"open", "sched", "keychain"},
           kind = "put" => req \in Requests /\ Accepts(req),
           pc = "sched" => req.interval_sec \in Nat,
           UNCHANGED <<up, cfg, sched, fetchers, keys, unsure, path, tmp, content>>
    PROVE RestartInv'
<1> DEFINE new == [Idle EXCEPT !.pc = pc, !.kind = kind, !.req = req]
           j == IF Busy = {} THEN [new EXCEPT !.before = Config_yaml, !.cfg0 = cfg]
                             ELSE [new EXCEPT !.alone = FALSE]
<1>0. /\ DOMAIN new = Fields /\ new.pc = pc /\ new.kind = kind /\ new.req = req
      /\ new.fd = None /\ new.alone = TRUE /\ new.text = Empty /\ new.answer = "none"
  BY DEF Idle, Fields
<1>0a. /\ up /\ h \notin Busy /\ job'[h] = j /\ DOMAIN job' = Handlers
       /\ \A g \in Handlers \ {h} :
             job'[g] = IF g \in Busy
                       THEN [job[g] EXCEPT !.alone = FALSE, !.before = Empty,
                                           !.cfg0 = Defaults]
                       ELSE job[g]
       /\ settled' = (settled /\ Busy = {}) /\ current' = (current /\ Busy = {})
  BY DEF Begins
<1> HIDE DEF new
<1>1. /\ j.pc = pc /\ j.kind = kind /\ j.req = req
      /\ j.alone = (Busy = {}) /\ j.text = Empty
  BY <1>0 DEF Fields
<1> HIDE DEF j
<1>2. /\ up /\ h \notin Busy /\ job'[h] = j /\ settled' = (settled /\ Busy = {})
  BY <1>0a
<1>3. \A g \in Handlers : job[g].pc # "idle" <=> g \in Busy
  BY DEF Busy
<1>4. ASSUME NEW g \in Handlers, g # h
      PROVE /\ JobSound(job'[g]) /\ job'[g].pc = job[g].pc
            /\ g \in Busy => ~job'[g].alone
  <2> DEFINE b == job[g]
             k == [b EXCEPT !.alone = FALSE, !.before = Empty, !.cfg0 = Defaults]
  <2>1. JobFits(b) /\ JobSound(b)
    BY DEF ConfigInv, Shape, JobsFit, RestartInv, JobsSound
  <2>2. job'[g] = IF g \in Busy THEN k ELSE b
    BY <1>0a, <1>4
  <2> HIDE DEF b
  <2>3. /\ k.pc = b.pc /\ k.kind = b.kind /\ k.req = b.req /\ k.alone = FALSE
        /\ k.text = b.text
    BY <2>1 DEF JobFits, Fields
  <2> HIDE DEF k
  <2>4. JobSound(k)
    BY <2>1, <2>3 DEF JobSound
  <2>5. QED
    BY <2>1, <2>2, <2>3, <2>4 DEF b
<1>5. JobSound(job'[h])
  BY <1>1, <1>2, TextsSound DEF JobSound, IntervalPcs
<1>6. JobsSound' /\ FilesSound' /\ ProbeOff'
  BY <1>4, <1>5 DEF RestartInv, JobsSound, FilesSound, ProbeOff
<1>7. SettledAlone'
  BY <1>1, <1>2, <1>3, <1>4 DEF SettledAlone
<1>8. LoneKeeps'
  <2> SUFFICES ASSUME NEW g \in Handlers, job'[g].pc # "idle", job'[g].alone
               PROVE KeptBy(g)'
    BY DEF LoneKeeps
  <2>1. g = h /\ Busy = {}
    BY <1>1, <1>2, <1>3, <1>4
  <2>2. settled' => Kept(Config_yaml, cfg)'
    <3>1. settled => Kept(Config_yaml, cfg)
      BY <1>2, <1>3, <2>1 DEF RestartInv, QuietKeeps
    <3>2. Kept(Config_yaml, cfg)' = Kept(Config_yaml, cfg)
      BY DEF Kept, Config_yaml
    <3>3. QED
      BY <1>2, <3>1, <3>2
  <2>3. job'[h].pc = pc
    BY <1>1, <1>2
  <2>4. KeptBy(h)'
    BY <2>2, <2>3 DEF KeptBy, BuildPcs
  <2>5. QED
    BY <2>1, <2>4
<1>9. QuietKeeps'
  BY <1>1, <1>2 DEF QuietKeeps
<1>10. QED
  BY <1>6, <1>7, <1>8, <1>9 DEF RestartInv

\* server.go:124-129: every route that changes something accepts or refuses.
LEMMA ArrivesSettled ==
    ASSUME ConfigInv, RestartInv, NEW h \in Handlers, Arrives(h)
    PROVE RestartInv'
<1>1. ASSUME NEW req \in Requests, PutBegins(h, req) PROVE RestartInv'
  <2>1. /\ Begins(h, "put", "open", req) /\ Accepts(req)
        /\ UNCHANGED <<up, cfg, sched, fetchers, keys, unsure, path, tmp, content>>
    BY <1>1 DEF PutBegins
  <2>2. QED
    BY <2>1, BeginsSettled
<1>2. ASSUME NEW req \in Requests, PutRefused(h, req) PROVE RestartInv'
  <2>1. /\ job[h].pc = "idle" /\ Answers(h, "refused")
        /\ UNCHANGED <<up, cfg, path, content, settled>>
    BY <1>2 DEF PutRefused, Busy
  <2>2. Others(h) /\ JobSound(job'[h]) /\ job'[h].pc = "idle"
    BY <2>1, AnswersShape, AnswersSound DEF ConfigInv, Shape
  <2>3. /\ \A g \in Handlers : job'[g].pc = job[g].pc
        /\ \A g \in Handlers : job'[g].pc # "idle" => job'[g] = job[g]
        /\ \A g \in Handlers : g # h => job'[g] = job[g]
    BY <2>1, <2>2 DEF Others
  <2>4. JobsSound' /\ FilesSound' /\ ProbeOff'
    BY <2>1, <2>2, <2>3 DEF RestartInv, JobsSound, FilesSound, ProbeOff
  <2>5. SettledAlone'
    BY <2>1, <2>3 DEF RestartInv, SettledAlone
  <2>6. Config_yaml' = Config_yaml
    BY <2>1 DEF Config_yaml
  <2>7. LoneKeeps'
    <3> SUFFICES ASSUME NEW g \in Handlers, job'[g].pc # "idle", job'[g].alone
                 PROVE KeptBy(g)'
      BY DEF LoneKeeps
    <3>1. KeptBy(g) /\ job'[g] = job[g]
      BY <2>3 DEF RestartInv, LoneKeeps
    <3>2. QED
      BY <2>1, <2>6, <3>1 DEF KeptBy, Kept, Edited
  <2>8. QuietKeeps'
    BY <2>1, <2>3, <2>6 DEF RestartInv, QuietKeeps, Kept
  <2>9. QED
    BY <2>4, <2>5, <2>7, <2>8 DEF RestartInv
<1>3. ASSUME NEW sec \in Intervals, IntervalBegins(h, sec) PROVE RestartInv'
  <2> DEFINE req == [interval_sec |-> sec]
  <2>1. /\ Begins(h, "interval", "sched", req)
        /\ UNCHANGED <<up, cfg, sched, fetchers, keys, unsure, path, tmp, content>>
    BY <1>3 DEF IntervalBegins
  <2>2. req.interval_sec \in Nat
    BY <1>3, BodyAssumption, BuiltinAssumption DEF IntervalBegins
  <2> HIDE DEF req
  <2>3. QED
    BY <2>1, <2>2, BeginsSettled
<1>4. ASSUME NEW id \in KeyIds, NEW kind \in {"set", "delete"}, KeyBegins(h, id, kind)
      PROVE RestartInv'
  <2> DEFINE req == [interval_sec |-> 0, id |-> id]
  <2>1. /\ Begins(h, kind, "keychain", req)
        /\ UNCHANGED <<up, cfg, sched, fetchers, keys, unsure, path, tmp, content>>
    BY <1>4 DEF KeyBegins
  <2> HIDE DEF req
  <2>2. QED
    BY <2>1, BeginsSettled
<1>5. QED
  BY <1>1, <1>2, <1>3, <1>4 DEF Arrives

\* serve.go:28-182: a daemon that starts has what the file says.
LEMMA RestartsSettled ==
    ASSUME EnvironmentAside, ConfigInv, RestartInv,
           Stops \/ StartsUp \/ \E fc \in HandFiles : OwnerWrites(fc)
    PROVE RestartInv'
<1>1. CASE Stops
  <2>1. JobSound(Idle) /\ Idle.pc = "idle"
    BY TextsSound DEF Idle, JobSound, IntervalPcs
  <2>2. /\ \A h \in Handlers : job'[h] = Idle
        /\ ~up' /\ content' = content
    BY <1>1 DEF Stops
  <2>3. JobsSound' /\ FilesSound' /\ ProbeOff'
    BY <2>1, <2>2 DEF RestartInv, JobsSound, FilesSound, ProbeOff
  <2>4. LoneKeeps' /\ SettledAlone' /\ QuietKeeps'
    BY <2>1, <2>2 DEF LoneKeeps, SettledAlone, QuietKeeps
  <2>5. QED
    BY <2>3, <2>4 DEF RestartInv
<1>2. CASE StartsUp
  <2> DEFINE f == Config_yaml
  <2>1. /\ ~up /\ cfg' = Loaded(FieldsOf(f)) /\ Starts(f) /\ settled' = TRUE
        /\ UNCHANGED <<path, content, job>>
    BY <1>2 DEF StartsUp
  <2>2. \A h \in Handlers : job'[h] = job[h] /\ job[h].pc = "idle"
    BY <2>1 DEF ConfigInv, Shape, JobsFit
  <2>3. cfg'.groqProbe = FALSE
    BY <2>1, LoadedIs
  <2>4. JobsSound' /\ FilesSound' /\ ProbeOff'
    BY <2>1, <2>2, <2>3 DEF RestartInv, JobsSound, FilesSound, ProbeOff
  <2>5. Config_yaml' = f
    BY <2>1 DEF Config_yaml
  <2> HIDE DEF f
  <2>6. Kept(Config_yaml, cfg)'
    BY <2>1, <2>5, StartKeeps DEF Kept
  <2>7. LoneKeeps' /\ SettledAlone' /\ QuietKeeps'
    BY <2>2, <2>6 DEF LoneKeeps, SettledAlone, QuietKeeps
  <2>8. QED
    BY <2>4, <2>7 DEF RestartInv
<1>3. ASSUME NEW fc \in HandFiles, OwnerWrites(fc) PROVE RestartInv'
  <2>1. PICK i \in Inodes : content' = [content EXCEPT ![i] = Hand(fc)]
    BY <1>3 DEF OwnerWrites
  <2>2. ~up /\ UNCHANGED <<up, cfg, job, settled>>
    BY <1>3 DEF OwnerWrites
  <2>3. FilesSound'
    BY <2>1, WrittenSound, TextsSound
  <2>4. \A h \in Handlers : job'[h] = job[h] /\ job[h].pc = "idle"
    BY <2>2 DEF ConfigInv, Shape, JobsFit
  <2>5. JobsSound' /\ ProbeOff'
    BY <2>2, <2>4 DEF RestartInv, JobsSound, ProbeOff
  <2>6. LoneKeeps' /\ SettledAlone' /\ QuietKeeps'
    BY <2>2, <2>4 DEF LoneKeeps, SettledAlone, QuietKeeps
  <2>7. QED
    BY <2>3, <2>5, <2>6 DEF RestartInv
<1>4. QED
  BY <1>1, <1>2, <1>3
-----------------------------------------------------------------------------
(* The theorem                                                             *)

\* serve.go:28-36: a daemon that is down, on a file nobody has written.
LEMMA RestartInvStarts == Init => RestartInv
<1> SUFFICES ASSUME Init PROVE RestartInv
  OBVIOUS
<1>1. JobSound(Idle) /\ Idle.pc = "idle"
  BY TextsSound DEF Idle, JobSound, IntervalPcs
<1>2. JobsSound /\ FilesSound /\ ProbeOff
  BY <1>1, TextsSound DEF Init, JobsSound, FilesSound, ProbeOff
<1>3. LoneKeeps /\ SettledAlone /\ QuietKeeps
  BY <1>1 DEF Init, LoneKeeps, SettledAlone, QuietKeeps
<1>4. QED
  BY <1>2, <1>3 DEF RestartInv

\* server.go:115-130 and serve.go:28-182: every step keeps the invariant.
LEMMA RestartInvKept ==
    ASSUME EnvironmentAside, ConfigInv, RestartInv, [Next]_vars
    PROVE RestartInv'
<1> USE ConfigServerAssumption
<1>1. ASSUME NEW h \in Handlers, Step(h) PROVE RestartInv'
  BY <1>1, PutOpensSettled, PutWritesSettled, FailuresSettled, SameFileKeeps,
     PutChangesGeneralSettled, PutChangesProvidersSettled, PutChangesAlertsSettled,
     OrdersSettled, IntervalChangesConfigSettled,
     PersistReadsSettled, PersistTruncatesSettled, PersistEndsSettled DEF Step
<1>2. CASE UNCHANGED vars
  <2>1. FilesSound' /\ JobsSound' /\ ProbeOff' /\ SettledAlone'
    BY <1>2 DEF vars, RestartInv, FilesSound, JobsSound, ProbeOff, SettledAlone
  <2>2. Config_yaml' = Config_yaml
    BY <1>2 DEF vars, Config_yaml
  <2>3. LoneKeeps' /\ QuietKeeps'
    BY <1>2, <2>2 DEF vars, RestartInv, LoneKeeps, QuietKeeps, KeptBy, Kept, Edited
  <2>4. QED
    BY <2>1, <2>3 DEF RestartInv
<1>3. QED
  BY <1>1, <1>2, ArrivesSettled, RestartsSettled DEF Next

\* server.go:578-996, serialize.go:13-81, yaml.go:67-460, config.go:138-175: what the owner
\* saved is what a restart brings back, where the environment gives the daemon its token and
\* nothing the page sets.
THEOREM SettingsSurvive == EnvironmentAside => (Spec => []RestartKeepsSettings)
<1> SUFFICES ASSUME EnvironmentAside PROVE Spec => []RestartKeepsSettings
  OBVIOUS
<1>1. Init => RestartInv
  BY RestartInvStarts
<1>2. ConfigInv /\ RestartInv /\ [Next]_vars => RestartInv'
  BY RestartInvKept
<1>3. RestartInv => RestartKeepsSettings
  <2>1. Busy = {} => \A h \in Handlers : job[h].pc = "idle"
    BY DEF Busy
  <2>2. QED
    BY <2>1 DEF RestartInv, QuietKeeps, Kept, RestartKeepsSettings
<1>4. QED
  BY <1>1, <1>2, <1>3, ConfigAlways, PTL DEF Spec

=============================================================================
