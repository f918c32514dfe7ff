---------------------------- MODULE MCServedUsage ---------------------------
(***************************************************************************)
(* Values of the constants of ServedUsage for TLC: one provider and one    *)
(* handler.                                                                *)
(***************************************************************************)
EXTENDS ServedUsage, TLC

CONSTANTS plan, h1

OneProvider == {plan}
OneList == {{plan}}
PlanOnly == plan :> "plan"
OneOrder == {plan :> 0}
OneHandler == {h1}
=============================================================================
