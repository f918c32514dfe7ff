------------------------------ MODULE MCConfig ------------------------------
(***************************************************************************)
(* Values of the constants of ConfigServer for TLC: three built-in         *)
(* providers (one with a plan, one with a key, Groq with a key and a       *)
(* probe), a body as the settings page sends it in three variants and a    *)
(* body as a script may send it, and a hand-written file.                  *)
(***************************************************************************)
EXTENDS ConfigServer, TLC

CONSTANTS h1, h2, i1, i2, i3

TwoHandlers == {h1, h2}
ThreeFiles == {i1, i2, i3}
Symmetry == Permutations(TwoHandlers) \cup Permutations(ThreeFiles)

AllTexts == {"lan", "loop", "utc", "nowhere", "claude", "groq", "main", "mine",
             "tab", "quote", "back", "sk", "token", "change-me", "BRL", "Max", "ENV"}
Order == <<"claude", "main", "groq">>

PlainEnv == [interval |-> <<>>, listen |-> NoText, token |-> "token",
             tz |-> NoText, groqProbe |-> <<>>, keys |-> {"main"}]

ASSUME EnvironmentAside

\* A provider of a body.
Body(id, enabled, probe, plan) ==
    [id |-> id, enabled |-> <<enabled>>, label |-> id, keyEnv |-> NoText,
     probe |-> probe, plan |-> plan]

Zero == <<[cost |-> 0, currency |-> NoText, label |-> NoText, usd |-> <<0>>]>>
Listed == <<[cost |-> 1, currency |-> "BRL", label |-> "Max", usd |-> <<1>>]>>

\* What saveSettings sends.
Page(interval, probe, plan) ==
    [interval_sec |-> interval, listen |-> "lan", tz |-> "utc",
     literalKey |-> FALSE,
     alerts |-> [openrouter_low_usd |-> 1, quota_warn_5h_pct |-> 70,
                 quota_warn_weekly_pct |-> 60],
     providers |-> <<Body("claude", TRUE, <<>>, plan),
                     Body("main", FALSE, <<>>, NoPlan),
                     Body("groq", TRUE, <<probe>>, NoPlan)>>,
     provider_order |-> <<"groq", "claude", "main">>]

\* What a script may send: the legacy threshold alone, one provider.
Script ==
    [interval_sec |-> 0, listen |-> NoText, tz |-> "nowhere",
     literalKey |-> FALSE, alerts |-> [quota_warn_pct |-> 80],
     providers |-> <<Body("claude", TRUE, <<>>, NoPlan)>>,
     provider_order |-> <<>>]

Refused == [Script EXCEPT !.alerts = [quota_warn_5h_pct |-> 20]]

PageBodies == {Page(5, TRUE, Zero), Page(9, FALSE, Listed)}
Bodies == PageBodies \cup {Script, Refused}

\* config.example.yaml: a token, a disabled provider.
ByHand ==
    [NoFile EXCEPT !.device_token = "token", !.listen = "lan",
                   !.providers = <<[DefaultProvider("claude") EXCEPT
                                       !.enabled = FALSE]>>]

TooOften == [NoFile EXCEPT !.interval_sec = 1]
SomeHand == {ByHand, TooOften}
=============================================================================
