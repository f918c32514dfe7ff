------------------------------- MODULE Config -------------------------------
(***************************************************************************)
(* The daemon's configuration as values: what a config.yaml holds          *)
(* (FileConfig), what a PUT keeps of its providers, how a file is laid     *)
(* over the built-in defaults and under the environment, the providers     *)
(* that result and the fetchers built from them.  ConfigYaml has the lines *)
(* of the file; ConfigServer the handlers that change the configuration    *)
(* while the daemon runs.                                                  *)
(*                                                                         *)
(* A string is a member of Texts.  Only what yaml.go and serialize.go make *)
(* of it is told apart: RawControl have a tab or a line break and nothing  *)
(* that yamlStr quotes, Mangled are quoted with escapes that unquote does  *)
(* not undo, KeyShaped start with sk- or gsk_.  An optional value is a     *)
(* sequence of length at most one.                                         *)
(***************************************************************************)
EXTENDS Naturals, Sequences, FiniteSets

Seqs == INSTANCE SequencesExt

CONSTANTS
    Texts, RawControl, Mangled, KeyShaped,
    Garbled,          \* what a Mangled text reads back as
    BadZones,         \* texts time.LoadLocation refuses
    Loopback,         \* listen addresses that are loopback
    Placeholder,      \* the device token published in the repository's history
    DefaultListen, DefaultTZ, DefaultInterval, MinInterval,
    DefaultOrder,     \* the ids of the built-in providers, in display order
    Planned, Keyed,   \* built-in providers with a plan, with a key_env
    Groq,             \* the one provider with a probe
    Env               \* what the environment (or a flag) sets

NoText == ""
Words == Texts \cup {NoText}

\* Texts that a file gives back as they were written.
Plain == Words \ (RawControl \cup Mangled)
Ids == {DefaultOrder[i] : i \in DOMAIN DefaultOrder}

\* Names that are in the program.
ASSUME BuiltinAssumption ==
    /\ DefaultOrder \in Seq(Plain \ {NoText})
    /\ \A i, j \in DOMAIN DefaultOrder : DefaultOrder[i] = DefaultOrder[j] => i = j
    /\ Groq \in Ids
    /\ {NoText, "ENV", "BRL", "Max"} \subseteq Plain
    /\ {NoText, "ENV"} \cap KeyShaped = {}
    /\ MinInterval \in Nat \ {0}

AlertKeys == {"openrouter_low_usd", "quota_warn_pct",
              "quota_warn_5h_pct", "quota_warn_weekly_pct"}
WrittenAlerts == AlertKeys \ {"quota_warn_pct"}

NoPlan == <<>>
DefaultPlan == <<[cost |-> 1, currency |-> "BRL", usd |-> 1, hasUsd |-> TRUE,
                  label |-> "Max"]>>

DefaultProvider(id) ==
    [id |-> id, enabled |-> TRUE, label |-> id,
     keyEnv |-> IF id \in Keyed THEN "ENV" ELSE NoText,
     probe |-> FALSE, hasProbe |-> FALSE,
     plan |-> IF id \in Planned THEN DefaultPlan ELSE NoPlan]

NoFile == [interval_sec |-> 0, listen |-> NoText, device_token |-> NoText,
           tz |-> NoText, alerts |-> <<>>, providers |-> <<>>,
           provider_order |-> <<>>]

-----------------------------------------------------------------------------
(* What a PUT keeps of the providers: those that differ from the default.  *)

\* mergeWithDefault: blank fields of p take the default's value.
MergeWithDefault(p, d) ==
    [d EXCEPT !.enabled  = p.enabled,
              !.label    = IF p.label # NoText THEN p.label ELSE d.label,
              !.keyEnv   = IF p.keyEnv # NoText THEN p.keyEnv ELSE d.keyEnv,
              !.probe    = IF p.hasProbe THEN p.probe ELSE d.probe,
              !.hasProbe = p.hasProbe \/ d.hasProbe,
              !.plan     = IF p.plan # NoPlan THEN p.plan ELSE d.plan]

PlanEqual(a, b) ==
    \/ a = NoPlan /\ b = NoPlan
    \/ /\ a # NoPlan /\ b # NoPlan
       /\ [a[1] EXCEPT !.hasUsd = TRUE] = [b[1] EXCEPT !.hasUsd = TRUE]

\* Mutant: the probe is not compared.
ProviderEqualButProbe(a, b) ==
    /\ <<a.id, a.enabled, a.label, a.keyEnv>>
           = <<b.id, b.enabled, b.label, b.keyEnv>>
    /\ PlanEqual(a.plan, b.plan)

\* providerEqual: has_probe and has_cost_usd do not count.
ProviderEqual(a, b) ==
    /\ <<a.id, a.enabled, a.label, a.keyEnv, a.probe>>
           = <<b.id, b.enabled, b.label, b.keyEnv, b.probe>>
    /\ PlanEqual(a.plan, b.plan)

\* What a provider of a body says beyond its default, if anything.
Override(provs, id) ==
    LET merged == MergeWithDefault(provs[id], DefaultProvider(id))
    IN  IF id \in DOMAIN provs /\ ~ProviderEqual(merged, DefaultProvider(id))
        THEN <<merged>> ELSE <<>>

\* OverridesOnly(buildYamlProviders(provs)): in display order, ids that are
\* not built in left out, those equal to their default left out.
Overrides(provs) ==
    Seqs!FlattenSeq([i \in DOMAIN DefaultOrder |-> Override(provs, DefaultOrder[i])])

-----------------------------------------------------------------------------
(* Load: defaults, then the file, then the environment.                    *)

Defaults ==
    [interval |-> DefaultInterval, listen |-> DefaultListen, tz |-> DefaultTZ,
     token |-> NoText, low |-> 1, warn5h |-> 70, warnWeek |-> 60,
     provs |-> <<>>, order |-> DefaultOrder, groqProbe |-> FALSE]

Given(t, old) == IF t # NoText THEN t ELSE old

Zone(t, old) == IF t # NoText /\ t \notin BadZones THEN t ELSE old

\* An alert threshold: its own key wins over the legacy one it may come from.
Alert(alerts, key, old) ==
    IF key \in DOMAIN alerts THEN alerts[key]
    ELSE IF key # "openrouter_low_usd" /\ "quota_warn_pct" \in DOMAIN alerts
         THEN alerts["quota_warn_pct"]
         ELSE old

WithAlerts(cfg, alerts) ==
    [cfg EXCEPT !.low = Alert(alerts, "openrouter_low_usd", cfg.low),
                !.warn5h = Alert(alerts, "quota_warn_5h_pct", cfg.warn5h),
                !.warnWeek = Alert(alerts, "quota_warn_weekly_pct", cfg.warnWeek)]

\* The last entry for an id is the one that counts.
ById(provs) ==
    [id \in {provs[i].id : i \in DOMAIN provs} |->
        provs[CHOOSE i \in DOMAIN provs :
                 /\ provs[i].id = id
                 /\ \A j \in DOMAIN provs : provs[j].id = id => j <= i]]

Layered(f, g) ==
    [id \in DOMAIN f \cup DOMAIN g |-> IF id \in DOMAIN g THEN g[id] ELSE f[id]]

ApplyFileConfig(cfg, fc) ==
    [WithAlerts(cfg, fc.alerts) EXCEPT
        !.interval = IF fc.interval_sec > 0 THEN fc.interval_sec ELSE cfg.interval,
        !.listen   = Given(fc.listen, cfg.listen),
        !.token    = Given(fc.device_token, cfg.token),
        !.tz       = Zone(fc.tz, cfg.tz),
        !.provs    = Layered(cfg.provs, ById(fc.providers)),
        !.order    = IF fc.provider_order # <<>> THEN fc.provider_order
                                                 ELSE cfg.order]

ApplyEnv(cfg) ==
    [cfg EXCEPT
        !.interval  = IF Env.interval # <<>> THEN Env.interval[1] ELSE cfg.interval,
        !.listen    = Given(Env.listen, cfg.listen),
        !.token     = Given(Env.token, cfg.token),
        !.tz        = Given(Env.tz, cfg.tz),
        !.groqProbe = IF Env.groqProbe # <<>> THEN Env.groqProbe[1]
                                              ELSE cfg.groqProbe]

\* The configuration a daemon that starts on a file with the fields fc has.
Loaded(fc) == ApplyEnv(ApplyFileConfig(Defaults, fc))

\* Mutant: the interval is not checked.
ServesAnyInterval(cfg) ==
    cfg.listen \in Loopback \/ cfg.token \notin {NoText, Placeholder}

\* Load's validation and New's refusal to serve the LAN without a token.
Serves(cfg) ==
    /\ cfg.interval >= MinInterval
    /\ cfg.listen \in Loopback \/ cfg.token \notin {NoText, Placeholder}

-----------------------------------------------------------------------------
(* The providers in effect, and the fetchers built from them.              *)

EffectiveProvider(cfg, id) ==
    IF id \in DOMAIN cfg.provs
    THEN MergeWithDefault(cfg.provs[id], DefaultProvider(id))
    ELSE DefaultProvider(id)

GroqProbeEnabled(cfg) ==
    IF Groq \in DOMAIN cfg.provs /\ cfg.provs[Groq].hasProbe
    THEN cfg.provs[Groq].probe
    ELSE cfg.groqProbe

\* A provider that needs a key has a live fetcher when the environment or the
\* keychain gives one, and a static "off" block otherwise.
HasKey(id, keys) == id \notin Keyed \/ id \in Env.keys \/ id \in keys

\* The ids whose key is asked of the keychain when the fetchers are built.
AskedFor(cfg) ==
    {id \in Keyed : EffectiveProvider(cfg, id).enabled /\ id \notin Env.keys}

Fetchers(cfg, keys) ==
    LET on == {id \in Ids : EffectiveProvider(cfg, id).enabled}
    IN  [live |-> {id \in on : HasKey(id, keys)},
         off |-> {id \in on : ~HasKey(id, keys)},
         probe |-> /\ Groq \in on
                   /\ HasKey(Groq, keys)
                   /\ GroqProbeEnabled(cfg),
         alerts |-> <<cfg.low, cfg.warn5h, cfg.warnWeek>>,
         tz |-> cfg.tz]

\* keySource: where GET /v1/config says the key of a provider is.  It asks the
\* variable key_env names, where the fetchers go by the provider's own.
KeySource(cfg, keys, id) ==
    LET p == EffectiveProvider(cfg, id)
    IN  IF p.keyEnv = DefaultProvider(id).keyEnv /\ id \in Env.keys THEN "env"
        ELSE IF id \in keys THEN "keychain" ELSE "none"

\* keyState, of a provider with a key_env.
KeyState(cfg, keys, id) ==
    IF KeySource(cfg, keys, id) # "none" THEN "set" ELSE "not_set"

\* What of a configuration the settings page shows and a save is to keep.
Settings(cfg) ==
    [interval |-> cfg.interval, listen |-> cfg.listen, tz |-> cfg.tz,
     alerts |-> <<cfg.low, cfg.warn5h, cfg.warnWeek>>, order |-> cfg.order,
     providers |-> [id \in Ids |->
                       [EffectiveProvider(cfg, id) EXCEPT !.hasProbe = TRUE]],
     probe |-> GroqProbeEnabled(cfg)]
=============================================================================
