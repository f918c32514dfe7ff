----------------------------- MODULE ConfigYaml -----------------------------
(***************************************************************************)
(* config.yaml as lines: SerializeYAML, and ParseYAML as a fold over the   *)
(* lexed lines.  A line has its indentation, whether it opens a list item, *)
(* its key, and a value that is a text, a number (booleans are 0 and 1) or *)
(* missing.                                                                *)
(***************************************************************************)
EXTENDS Config, Integers

\* What a quoted text reads back as.
ReadText(t) == IF t \in Mangled THEN Garbled ELSE t

Missing == <<>>

Line(n, item, key, text, num) ==
    [indent |-> n, item |-> item, key |-> key, text |-> text, num |-> num]

Header(n, key)     == <<Line(n, FALSE, key, NoText, Missing)>>
Scalar(n, key, t)  == IF t = NoText THEN <<>>
                      ELSE <<Line(n, FALSE, key, ReadText(t), Missing)>>
Number(n, key, v)  == <<Line(n, FALSE, key, NoText, <<v>>)>>
Amount(n, key, v)  == IF v = 0 THEN <<>> ELSE Number(n, key, v)
Truth(n, key, b)   == Number(n, key, IF b THEN 1 ELSE 0)

PlanLines(plan) ==
    Header(2, "plan")
    \o Amount(4, "cost", plan.cost)
    \o Scalar(4, "currency", plan.currency)
    \o Scalar(4, "label", plan.label)
    \o IF plan.hasUsd THEN Number(4, "cost_usd", plan.usd) ELSE <<>>

ProviderLines(p) ==
    <<Line(0, TRUE, "id", ReadText(p.id), Missing)>>
    \o (IF p.enabled THEN <<>> ELSE Truth(2, "enabled", FALSE))
    \o Scalar(2, "label", p.label)
    \o Scalar(2, "key_env", p.keyEnv)
    \o (IF p.hasProbe THEN Truth(2, "probe", p.probe) ELSE <<>>)
    \o (IF p.plan # NoPlan THEN PlanLines(p.plan[1]) ELSE <<>>)

IntervalLines(sec) ==
    IF sec > 0 THEN Number(0, "interval_sec", sec) ELSE <<>>

AlertLine(alerts, key) ==
    IF key \in DOMAIN alerts THEN Number(2, key, alerts[key]) ELSE <<>>

AlertsLines(alerts) ==
    IF alerts = <<>> THEN <<>>
    ELSE Header(0, "alerts")
         \o AlertLine(alerts, "openrouter_low_usd")
         \o AlertLine(alerts, "quota_warn_5h_pct")
         \o AlertLine(alerts, "quota_warn_weekly_pct")

OrderLines(order) ==
    IF order = <<>> THEN <<>>
    ELSE Header(0, "provider_order")
         \o [i \in DOMAIN order |-> Line(2, TRUE, NoText, ReadText(order[i]), Missing)]

ProvidersLines(provs) ==
    IF provs = <<>> THEN <<>>
    ELSE Header(0, "providers")
         \o Seqs!FlattenSeq([i \in DOMAIN provs |-> ProviderLines(provs[i])])

SerializeYAML(fc) ==
    IntervalLines(fc.interval_sec)
    \o Scalar(0, "listen", fc.listen)
    \o Scalar(0, "tz", fc.tz)
    \o AlertsLines(fc.alerts)
    \o OrderLines(fc.provider_order)
    \o ProvidersLines(fc.providers)

-----------------------------------------------------------------------------
(* The parser's state: where it is, the indentation of the list it is in,  *)
(* whether the line that opened the block was the last one, and the fields *)
(* read so far.                                                            *)

Start == [ok |-> TRUE, mode |-> "top", base |-> 0, fresh |-> FALSE, fc |-> NoFile]

Fail(p) == [p EXCEPT !.ok = FALSE]

HasValue(ln) == ln.text # NoText \/ ln.num # Missing

Texted == {"listen", "device_token", "tz"}
Blocks == {"alerts", "providers", "provider_order"}

\* A key at column 0 of a line that is no list item.
Top(p, ln) ==
    IF ln.indent # 0 \/ ln.item THEN Fail(p)
    ELSE CASE ln.key = "interval_sec" /\ ln.num # Missing ->
                 [p EXCEPT !.mode = "top", !.fc.interval_sec = ln.num[1]]
           [] ln.key \in Texted /\ HasValue(ln) ->
                 [p EXCEPT !.mode = "top", !.fc[ln.key] = ln.text]
           [] ln.key = "alerts" /\ ~HasValue(ln) ->
                 [p EXCEPT !.mode = "alerts", !.fresh = TRUE]
           [] ln.key \in Blocks \ {"alerts"} /\ ~HasValue(ln) ->
                 [p EXCEPT !.mode = ln.key, !.fresh = TRUE, !.fc[ln.key] = <<>>]
           [] OTHER -> Fail(p)

\* parseScalarMap
AlertStep(p, ln) ==
    IF ln.indent # 2 THEN IF p.fresh THEN Fail(p) ELSE Top(p, ln)
    ELSE IF ln.item \/ ln.key \notin AlertKeys \/ ln.num = Missing THEN Fail(p)
    ELSE [p EXCEPT !.fresh = FALSE,
                   !.fc.alerts = Layered(@, [k \in {ln.key} |-> ln.num[1]])]

\* parseStringList
OrderStep(p, ln) ==
    IF ln.indent = 2 /\ ln.item
    THEN [p EXCEPT !.fresh = FALSE, !.fc.provider_order = Append(@, ln.text)]
    ELSE IF p.fresh /\ ln.indent # 2 THEN Fail(p) ELSE Top(p, ln)

NewProvider ==
    [id |-> NoText, enabled |-> TRUE, label |-> NoText, keyEnv |-> NoText,
     probe |-> FALSE, hasProbe |-> FALSE, plan |-> NoPlan]
NewPlan == [cost |-> 0, currency |-> NoText, usd |-> 0, hasUsd |-> FALSE, label |-> NoText]

\* The provider in hand, read last.
Last(p) == p.fc.providers[Len(p.fc.providers)]
WithLast(p, prov) == [p EXCEPT !.fc.providers[Len(p.fc.providers)] = prov]

\* setProviderField
ProviderField(p, ln) ==
    CASE ln.key = "id"    -> WithLast(p, [Last(p) EXCEPT !.id = ln.text])
      [] ln.key = "label" -> WithLast(p, [Last(p) EXCEPT !.label = ln.text])
      [] ln.key = "enabled" /\ ln.num \in {<<0>>, <<1>>} ->
            WithLast(p, [Last(p) EXCEPT !.enabled = (ln.num = <<1>>)])
      [] ln.key = "probe" /\ ln.num \in {<<0>>, <<1>>} ->
            WithLast(p, [Last(p) EXCEPT !.probe = (ln.num = <<1>>), !.hasProbe = TRUE])
      [] ln.key = "key_env" /\ ln.text \notin KeyShaped ->
            WithLast(p, [Last(p) EXCEPT !.keyEnv = ln.text])
      [] OTHER -> Fail(p)

\* parseProviderList: items at one indentation, their other keys two further.
ListStep(p, ln) ==
    LET base == IF p.fresh THEN ln.indent ELSE p.base
        q == [p EXCEPT !.mode = "providers", !.base = base, !.fresh = FALSE]
    IN  IF ln.indent = base /\ ln.item
        THEN ProviderField([q EXCEPT !.mode = "provider",
                                     !.fc.providers = Append(@, NewProvider)], ln)
        ELSE Top(q, ln)

\* A plan: line with no value opens a block of its own.
ProviderStep(p, ln) ==
    LET q == [p EXCEPT !.mode = "provider"]
    IN  IF ln.indent # p.base + 2 THEN ListStep(p, ln)
        ELSE IF ln.key = "plan" /\ ~HasValue(ln)
        THEN WithLast([q EXCEPT !.mode = "plan", !.fresh = TRUE],
                      [Last(q) EXCEPT !.plan = <<NewPlan>>])
        ELSE ProviderField(q, ln)

\* parsePlanBlock
PlanStep(p, ln) ==
    LET set(new) == WithLast([p EXCEPT !.fresh = FALSE], [Last(p) EXCEPT !.plan = <<new>>])
        plan == Last(p).plan[1]
    IN  IF ln.indent # p.base + 4 THEN IF p.fresh THEN Fail(p) ELSE ProviderStep(p, ln)
        ELSE CASE ln.key = "cost" /\ ln.num # Missing ->
                     set([plan EXCEPT !.cost = ln.num[1]])
               [] ln.key = "cost_usd" /\ ln.num # Missing ->
                     set([plan EXCEPT !.usd = ln.num[1], !.hasUsd = TRUE])
               [] ln.key = "currency" /\ HasValue(ln) ->
                     set([plan EXCEPT !.currency = ln.text])
               [] ln.key = "label" /\ HasValue(ln) ->
                     set([plan EXCEPT !.label = ln.text])
               [] OTHER -> Fail(p)

\* lexYAML refuses a tab and a raw line break leaves a line without a colon:
\* either way the whole file is refused.
ParseLine(p, ln) ==
    IF ~p.ok \/ ln.text \in RawControl THEN Fail(p)
    ELSE CASE p.mode = "top"            -> Top(p, ln)
           [] p.mode = "alerts"         -> AlertStep(p, ln)
           [] p.mode = "provider_order" -> OrderStep(p, ln)
           [] p.mode = "providers"      -> ListStep(p, ln)
           [] p.mode = "provider"       -> ProviderStep(p, ln)
           [] p.mode = "plan"           -> PlanStep(p, ln)

\* Lines read one after the other.
Parse(p, lines) ==
    LET after[n \in 0..Len(lines)] ==
            IF n = 0 THEN p ELSE ParseLine(after[n - 1], lines[n])
    IN  after[Len(lines)]

\* The blocks alerts: and plan: must not be empty, and an id is given once.
Result(p) ==
    LET provs == p.fc.providers
    IN  [ok |-> /\ p.ok
                /\ ~(p.fresh /\ p.mode \in {"alerts", "plan"})
                /\ \A i \in DOMAIN provs :
                      /\ provs[i].id # NoText
                      /\ \A j \in DOMAIN provs : provs[j].id = provs[i].id => i = j,
         fc |-> p.fc]

Parsed(lines) == Result(Parse(Start, lines))
=============================================================================
