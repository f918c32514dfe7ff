------------------------------- MODULE MCSetup ------------------------------
(***************************************************************************)
(* Values of the constants of Setup for TLC.                               *)
(***************************************************************************)
EXTENDS Setup, TLC

CONSTANTS d1, d2

OneDevice == {d1}
TwoDevices == {d1, d2}
=============================================================================
