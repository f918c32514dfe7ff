------------------------------ MODULE SetupRun ------------------------------
(***************************************************************************)
(* What the dashboard is promised of a setup run (internal/api/setup.go):  *)
(* its steps come one after the other, "applied" comes after the last of   *)
(* them, and a run that is over stays as it ended until another begins.    *)
(***************************************************************************)
EXTENDS Naturals

CONSTANT LastStep   \* steps are 1..LastStep; 0 before the first

VARIABLES state, step

runVars == <<state, step>>

Over == {"applied", "failed", "cancelled"}

Init == state = "none" /\ step = 0

Begin == state # "running" /\ state' = "running" /\ step' = 0

Advance == state = "running" /\ step < LastStep /\ step' = step + 1 /\ UNCHANGED state

End ==
    /\ state = "running"
    /\ state' \in Over
    /\ state' = "applied" => step = LastStep
    /\ UNCHANGED step

\* The process is restarted: nothing of a run is persisted.
Forget == state' = "none" /\ step' = 0

Next == Begin \/ Advance \/ End \/ Forget

Spec == Init /\ [][Next]_runVars
=============================================================================
