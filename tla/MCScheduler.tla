---------------------------- MODULE MCScheduler -----------------------------
(***************************************************************************)
(* Values of the constants of Scheduler for TLC: two providers, one of     *)
(* which the configuration has at a time, and two handlers.                *)
(***************************************************************************)
EXTENDS Scheduler, TLC

CONSTANTS plan, credit, h1, h2

TwoProviders == {plan, credit}
TwoKinds == (plan :> "plan") @@ (credit :> "credit")
TwoLists == {{plan}, {credit}}
OneTwoOrder == {(plan :> 0) @@ (credit :> 1)}
TwoHandlers == {h1, h2}
=============================================================================
