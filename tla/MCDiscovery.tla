----------------------------- MODULE MCDiscovery ----------------------------
(***************************************************************************)
(* Values of the constants of Discovery for TLC: one interface, which may  *)
(* have either of two addresses behind a link-local one, or none, and      *)
(* queries for the type, the host, the instance and a mixture.             *)
(***************************************************************************)
EXTENDS Discovery

CONSTANT wifi

OneIface == {wifi}
Lists == {<<>>, <<"local", "a1">>, <<"a2">>}

Q(name, type) == [name |-> name, type |-> type, class |-> "IN", qu |-> FALSE]

SomeQuestions ==
    {{Q("type", "PTR")}, {Q("host", "A"), Q("host", "AAAA")},
     {Q("type", "PTR"), Q("instance", "TXT")}, {Q("instance", "ANY")},
     {[Q("instance", "SRV") EXCEPT !.qu = TRUE]},
     {[Q("type", "PTR") EXCEPT !.class = "other"], Q("enum", "PTR")},
     {Q("other", "A")}}
=============================================================================
