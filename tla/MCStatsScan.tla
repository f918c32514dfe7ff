---------------------------- MODULE MCStatsScan -----------------------------
(***************************************************************************)
(* Values of the constants of StatsScan for TLC.                           *)
(***************************************************************************)
EXTENDS StatsScan, TLC

CONSTANTS claude, codex, opus, gpt

Context(m) == [kind |-> "context", id |-> 0, model |-> m]
Tokens(i, m) == [kind |-> "tokens", id |-> i, model |-> m]
HugeLine == [kind |-> "huge", id |-> 0, model |-> opus]

BothFiles == {claude, codex}
BothModels == {opus, gpt}
JustClaude == {claude}
JustCodex == {codex}
Nothing == {}

\* Claude Code logs messages, and one more than once; a Codex session names its
\* model and makes requests.  A line can be too long to read.
Transcripts == (claude :> {Tokens(1, opus), HugeLine})
            @@ (codex :> {Context(gpt), Tokens(0, opus)})
Session == codex :> {Context(opus), Context(gpt), Tokens(0, opus)}
=============================================================================
