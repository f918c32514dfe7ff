-------------------------------- MODULE Mdns --------------------------------
(***************************************************************************)
(* What the daemon publishes on the local network and how it answers a     *)
(* query (internal/mdns/service.go): pure operators on messages.           *)
(*                                                                         *)
(* A name is one of the four the service has, or another; letter case is   *)
(* not told apart.  The sections of a message are sets: no two records of  *)
(* a service share name and type, which is what appendUnique goes by, and  *)
(* nothing depends on their order.                                         *)
(***************************************************************************)
EXTENDS Naturals, Sequences, FiniteSets

CONSTANT Port   \* the port of the listen address

HostTTL    == 120
ServiceTTL == 4500
LegacyTTL  == 10

Record(name, type, data, ttl, flush) ==
    [name |-> name, type |-> type, data |-> data, ttl |-> ttl, flush |-> flush]

ARecord(ip) == Record("host", "A", ip, HostTTL, TRUE)
SrvRecord   == Record("instance", "SRV", <<"host", Port>>, HostTTL, TRUE)
TxtRecord   == Record("instance", "TXT", "path", HostTTL, TRUE)
PtrRecord   == Record("type", "PTR", "instance", ServiceTTL, FALSE)
EnumRecord  == Record("enum", "PTR", "type", ServiceTTL, FALSE)

All(ip) == {PtrRecord, SrvRecord, TxtRecord, ARecord(ip)}

Message(answers, additional, legacy) ==
    [response |-> TRUE, standard |-> TRUE, legacy |-> legacy, questions |-> {},
     answers |-> answers, additional |-> additional]

Announcement(ip) == Message(All(ip), {}, FALSE)

\* Mutant: the loop sets the field of a copy of each record.
GoodbyeOfCopies(ip) == Announcement(ip)

Goodbye(ip) == Message({[r EXCEPT !.ttl = 0] : r \in All(ip)}, {}, FALSE)

-----------------------------------------------------------------------------
(* Answering.                                                              *)

\* answer: what one question asks for, and what is sent along with it.
Asked(qn, ip) ==
    {r \in All(ip) \cup {EnumRecord} :
        r.name = qn.name /\ qn.type \in {r.type, "ANY"}}

SentAlong(qn, ip) ==
    (IF PtrRecord \in Asked(qn, ip) THEN {SrvRecord, TxtRecord, ARecord(ip)} ELSE {})
    \cup (IF SrvRecord \in Asked(qn, ip) THEN {ARecord(ip)} ELSE {})

\* A question of another class than IN and ANY is passed over.
Heeded(q) == {qn \in q.questions : qn.class \in {"IN", "ANY"}}

Answers(q, ip) == UNION {Asked(qn, ip) : qn \in Heeded(q)}

\* Mutant: a record is taken for a duplicate when its name is there.
AdditionalByName(q, ip) ==
    {r \in UNION {SentAlong(qn, ip) : qn \in Heeded(q)} :
        \A a \in Answers(q, ip) : a.name # r.name}

Additional(q, ip) ==
    (UNION {SentAlong(qn, ip) : qn \in Heeded(q)}) \ Answers(q, ip)

\* makeLegacy: for a plain resolver, which hears no announcement or goodbye.
Plain(r) ==
    [r EXCEPT !.flush = FALSE, !.ttl = IF r.ttl > LegacyTTL THEN LegacyTTL ELSE @]

Answerable(q, ip) == ~q.response /\ q.standard /\ Answers(q, ip) # {}

Reply(q, ip) ==
    LET as(rs) == IF q.legacy THEN {Plain(r) : r \in rs} ELSE rs
    IN  [Message(as(Answers(q, ip)), as(Additional(q, ip)), q.legacy)
            EXCEPT !.questions = IF q.legacy THEN q.questions ELSE {}]

\* The reply goes to the asker alone: a plain resolver, or the QU bit of any
\* question, its class notwithstanding.
Unicast(q) == q.legacy \/ \E qn \in q.questions : qn.qu

-----------------------------------------------------------------------------
(* What a listener makes of a message, for the addresses it would connect  *)
(* to: a record with the cache-flush bit takes the place of what it had    *)
(* under that name and type, one with a lifetime of zero goes.             *)

Key(r) == <<r.name, r.type>>

Heard(cache, m) ==
    LET new  == m.answers \cup m.additional
        keep == {c \in cache : \A r \in new :
                    Key(r) = Key(c) => ~r.flush /\ r.data # c.data}
    IN  keep \cup {[name |-> r.name, type |-> r.type, data |-> r.data] :
                      r \in {s \in new : s.ttl > 0}}

Addresses(cache) == {c.data : c \in {d \in cache : d.type = "A"}}
=============================================================================
