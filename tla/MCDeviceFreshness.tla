------------------------- MODULE MCDeviceFreshness -------------------------
(***************************************************************************)
(* Values of the constants of DeviceFreshness for TLC.                     *)
(***************************************************************************)
EXTENDS DeviceFreshness, TLC

CONSTANTS r1, r2

TwoRevs == {r1, r2}
Symmetric == Permutations(TwoRevs)
=============================================================================
