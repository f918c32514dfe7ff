---------------------------- MODULE MCBleDevice -----------------------------
(***************************************************************************)
(* Values of the constants of BleDevice for TLC.                           *)
(***************************************************************************)
EXTENDS BleDevice, TLC

CONSTANTS first, second, arm, bare

Unit(s, i) == [stream |-> s, index |-> i]
Filled(s, fields) == [k \in KeySet |-> IF k \in fields THEN s ELSE Empty]

\* A full record in one chunk or two, a stream that arms OTA alone, and one that names
\* only a network.
Kinds == (first :> KeySet) @@ (second :> KeySet) @@ (arm :> {"ssid", "ota"})
             @@ (bare :> {"ssid", "pass"})
Records1 == [s \in Streams |-> Filled(IF s = arm THEN first ELSE s, Kinds[s])]
Lengths == [s \in Streams |-> IF s = first THEN 2 ELSE 1]
Runs == {<<Unit(s, 1)>> : s \in Streams} \union {Whole(s) : s \in Streams}
EmptyRecord == [k \in KeySet |-> Empty]

FirstAndArm == {first, arm}
Pair == {first, second}
JustBare == {bare}
FirstNetwork == {<<first, first>>}
BareNetwork == {<<bare, bare>>}
=============================================================================
