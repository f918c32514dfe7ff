-------------------------- MODULE DiscoveryProofs ---------------------------
(***************************************************************************)
(* Theorems about Discovery: its types, what listeners are told of         *)
(* addresses, what an answer has in it, and what the goodbye leaves.       *)
(***************************************************************************)
EXTENDS Discovery, TLAPS

\* Every address an interface may have, and the mark of a socket never joined.
Ips == {"none"} \cup UNION {{as[n] : n \in DOMAIN as} : as \in AddrLists}

Has(i, ip) == \E n \in DOMAIN addrs[i] : addrs[i][n] = ip

Reachable(ip) == ip \notin Unroutable /\ host \in {"any", ip}

\* One socket and its goroutines.
ConnFits(c) ==
    /\ DOMAIN c = {"ip", "open", "reader", "reply", "errs", "sent", "announcer", "bye"}
    /\ c.open \in BOOLEAN /\ c.bye \in BOOLEAN
    /\ c.reader \in {"reading", "replying", "gone"}
    /\ c.announcer \in {"sending", "gone"}
    /\ c.errs \in 0..MaxReadErrors - 1
    /\ c.sent \in 0..Announcements
    /\ c.announcer = "sending" => c.sent < Announcements
    /\ c.open \/ c.reader # "gone" \/ c.announcer # "gone" => c.ip # "none"
    /\ c.ip # "none" => c.ip \notin Unroutable
    /\ c.reader = "replying" => Answerable(c.reply[1], c.ip)

Typed ==
    /\ phase \in {"off", "disabled", "serving", "goodbye", "close", "wait", "closed"}
    /\ host \in Hosts
    /\ addrs \in [Ifaces -> AddrLists]
    /\ DOMAIN conn = Ifaces /\ \A i \in Ifaces : ConnFits(conn[i])
    /\ DOMAIN behind = Ifaces /\ DOMAIN stale = Ifaces /\ DOMAIN cache = Ifaces

\* A listener has heard of one host only.
CacheFits == \A i \in Ifaces : \A c \in cache[i] : c.type = "A" => c.name = "host"

\* As long as an interface stays as it was read, its socket publishes an
\* address it has.
SocketsFit ==
    \A i \in Ifaces : conn[i].ip # "none" /\ ~behind[i]
        => Has(i, conn[i].ip) /\ Reachable(conn[i].ip)

\* A listener that is not stale holds at most one address, a good one.
CachesTrue ==
    \A i \in Ifaces : ~stale[i] =>
        \A ip \in Addresses(cache[i]) :
            Has(i, ip) /\ Reachable(ip) /\ Addresses(cache[i]) = {ip}

DiscoveryInv == Typed /\ CacheFits /\ SocketsFit /\ CachesTrue
-----------------------------------------------------------------------------
(* Messages *)

\* The address records of a message name the host, have one address and
\* replace what was there.
Speaks(m, ip) ==
    \A r \in m.answers \cup m.additional :
        r.type = "A" => r.name = "host" /\ r.data = ip /\ r.flush

\* service.go:146-163: an announcement and a goodbye speak of one address.
LEMMA UnaskedSpeak ==
    ASSUME NEW ip
    PROVE Speaks(Announcement(ip), ip) /\ Speaks(Goodbye(ip), ip)
<1>1. \A r \in All(ip) : r.type = "A" => r.name = "host" /\ r.data = ip /\ r.flush
  BY DEF All, PtrRecord, SrvRecord, TxtRecord, ARecord, Record
<1>2. Speaks(Announcement(ip), ip)
  BY <1>1 DEF Speaks, Announcement, Message
<1>3. \A r \in {[x EXCEPT !.ttl = 0] : x \in All(ip)} :
         r.type = "A" => r.name = "host" /\ r.data = ip /\ r.flush
  BY <1>1 DEF All, PtrRecord, SrvRecord, TxtRecord, ARecord, Record
<1>4. Speaks(Goodbye(ip), ip)
  BY <1>3 DEF Speaks, Goodbye, Message
<1>5. QED
  BY <1>2, <1>4

\* service.go:165-276: a reply has records of the service, each once.
LEMMA ReplyHasRecords ==
    ASSUME NEW q, NEW ip
    PROVE /\ Answers(q, ip) \subseteq All(ip) \cup {EnumRecord}
          /\ Additional(q, ip) \subseteq All(ip) \cup {EnumRecord}
          /\ Answers(q, ip) \cap Additional(q, ip) = {}
<1>1. \A qn : Asked(qn, ip) \subseteq All(ip) \cup {EnumRecord}
  BY DEF Asked
<1>2. \A qn : SentAlong(qn, ip) \subseteq All(ip)
  BY DEF SentAlong, All
<1>3. QED
  BY <1>1, <1>2 DEF Answers, Additional

\* service.go:206-225: a reply to a listener speaks of one address.
LEMMA ReplySpeaks ==
    ASSUME NEW q, NEW ip, ~q.legacy
    PROVE Speaks(Reply(q, ip), ip)
<1>1. \A r \in All(ip) \cup {EnumRecord} :
         r.type = "A" => r.name = "host" /\ r.data = ip /\ r.flush
  BY DEF All, PtrRecord, SrvRecord, TxtRecord, ARecord, EnumRecord, Record
<1>2. /\ Reply(q, ip).answers = Answers(q, ip)
      /\ Reply(q, ip).additional = Additional(q, ip)
  BY DEF Reply, Message
<1>3. QED
  BY <1>1, <1>2, ReplyHasRecords DEF Speaks

\* What a listener holds after a message: the address it has, if it has one,
\* and nothing else than before if it has none.
LEMMA HeardSpeech ==
    ASSUME NEW old, NEW m, NEW ip, Speaks(m, ip),
           \A c \in old : c.type = "A" => c.name = "host"
    PROVE /\ \A c \in Heard(old, m) : c.type = "A" => c.name = "host"
          /\ (\E r \in m.answers \cup m.additional : r.type = "A")
                => Addresses(Heard(old, m)) \subseteq {ip}
          /\ ~(\E r \in m.answers \cup m.additional : r.type = "A")
                => Addresses(Heard(old, m)) = Addresses(old)
<1> DEFINE new == m.answers \cup m.additional
           keep == {c \in old : \A r \in new :
                        Key(r) = Key(c) => ~r.flush /\ r.data # c.data}
           told == {[name |-> r.name, type |-> r.type, data |-> r.data] :
                        r \in {s \in new : s.ttl > 0}}
<1>1. Heard(old, m) = keep \cup told
  BY DEF Heard
<1>2. \A c \in told : c.type = "A" => c.name = "host" /\ c.data = ip
  BY DEF Speaks
<1>3. keep \subseteq old
  OBVIOUS
<1>4. (\E r \in new : r.type = "A") => \A c \in keep : c.type # "A"
  <2> SUFFICES ASSUME NEW r \in new, r.type = "A", NEW c \in keep, c.type = "A"
               PROVE FALSE
    OBVIOUS
  <2>1. Key(r) = Key(c)
    BY DEF Key, Speaks
  <2>2. r.flush
    BY DEF Speaks
  <2>3. QED
    BY <2>1, <2>2
<1>5. ~(\E r \in new : r.type = "A") =>
         /\ \A c \in told : c.type # "A"
         /\ \A c \in old : c.type = "A" => c \in keep
  <2> SUFFICES ASSUME \A r \in new : r.type # "A"
               PROVE /\ \A c \in told : c.type # "A"
                     /\ \A c \in old : c.type = "A" => c \in keep
    OBVIOUS
  <2>1. \A c \in told : c.type # "A"
    OBVIOUS
  <2>2. \A c \in old, r \in new : c.type = "A" => Key(r) # Key(c)
    BY DEF Key
  <2>3. QED
    BY <2>1, <2>2
<1> HIDE DEF keep, told
<1>6. QED
  BY <1>1, <1>2, <1>3, <1>4, <1>5 DEF Addresses

\* What a listener makes of a message that speaks of the address of the socket
\* it came from: it forgets every other one.
LEMMA HearingIsTrue ==
    ASSUME DiscoveryInv, NEW i \in Ifaces, NEW m, Hears(i, m),
           Speaks(m, conn[i].ip), conn[i].ip # "none",
           UNCHANGED <<addrs, host, behind>>
    PROVE /\ CacheFits' /\ CachesTrue'
          /\ DOMAIN stale' = Ifaces /\ DOMAIN cache' = Ifaces
<1> USE DEF DiscoveryInv
<1>1. CASE UNCHANGED <<cache, stale>>
  BY <1>1 DEF CacheFits, CachesTrue, Typed, Has, Reachable
<1>2. CASE /\ cache' = [cache EXCEPT ![i] = Heard(cache[i], m)]
           /\ stale' = [stale EXCEPT ![i] =
                          IF \E r \in m.answers \cup m.additional : r.type = "A"
                          THEN behind[i] ELSE @]
  <2> DEFINE ip == conn[i].ip
             speaks == \E r \in m.answers \cup m.additional : r.type = "A"
             held == Addresses(Heard(cache[i], m))
  <2>1. DOMAIN stale = Ifaces /\ DOMAIN cache = Ifaces
    BY DEF Typed
  <2>2. DOMAIN stale' = Ifaces /\ DOMAIN cache' = Ifaces
    BY <1>2, <2>1
  <2>3. \A j \in Ifaces \ {i} : cache'[j] = cache[j] /\ stale'[j] = stale[j]
    BY <1>2, <2>1
  <2>4. /\ cache'[i] = Heard(cache[i], m)
        /\ stale'[i] = IF speaks THEN behind[i] ELSE stale[i]
    BY <1>2, <2>1
  <2>5. /\ \A c \in Heard(cache[i], m) : c.type = "A" => c.name = "host"
        /\ speaks => held \subseteq {ip}
        /\ ~speaks => held = Addresses(cache[i])
    BY HeardSpeech DEF CacheFits
  <2>6. CacheFits'
    BY <2>3, <2>4, <2>5 DEF CacheFits
  <2>7. ~behind[i] => Has(i, ip) /\ Reachable(ip)
    BY DEF SocketsFit
  <2> HIDE DEF ip, speaks, held
  <2>8. ASSUME ~stale'[i], NEW a \in held
        PROVE Has(i, a) /\ Reachable(a) /\ held = {a}
    <3>1. CASE speaks
      BY <2>4, <2>5, <2>7, <2>8, <3>1
    <3>2. CASE ~speaks
      BY <2>4, <2>5, <2>8, <3>2 DEF CachesTrue
    <3>3. QED
      BY <3>1, <3>2
  <2>9. \A a : (Has(i, a) <=> Has(i, a)') /\ (Reachable(a) <=> Reachable(a)')
    BY DEF Has, Reachable
  <2>10. \A j \in Ifaces : \A a : (Has(j, a) <=> Has(j, a)')
    BY DEF Has
  <2>11. Addresses(cache'[i]) = held
    BY <2>4 DEF held
  <2>12. CachesTrue'
    <3> SUFFICES ASSUME NEW j \in Ifaces, ~stale'[j], NEW a \in Addresses(cache'[j])
                 PROVE Has(j, a)' /\ Reachable(a)' /\ Addresses(cache'[j]) = {a}
      BY DEF CachesTrue
    <3>1. CASE j = i
      BY <2>8, <2>9, <2>11, <3>1
    <3>2. CASE j # i
      BY <2>3, <2>9, <2>10, <3>2 DEF CachesTrue
    <3>3. QED
      BY <3>1, <3>2
  <2>13. QED
    BY <2>2, <2>6, <2>12
<1>3. QED
  BY <1>1, <1>2 DEF Hears
-----------------------------------------------------------------------------
(* The invariant *)

\* responder.go:102-124: nothing is joined, held or heard before the first start.
LEMMA DiscoveryStarts == Init => DiscoveryInv
<1> SUFFICES ASSUME Init PROVE DiscoveryInv
  OBVIOUS
<1>1. ConnFits(NoConn)
  BY DiscoveryAssumption DEF ConnFits, NoConn
<1>2. Typed
  BY <1>1 DEF Init, Typed
<1>3. CacheFits /\ CachesTrue
  BY DEF Init, CacheFits, CachesTrue, Addresses
<1>4. SocketsFit
  BY DEF Init, SocketsFit, NoConn
<1>5. QED
  BY <1>2, <1>3, <1>4 DEF DiscoveryInv

\* responder.go:152-200: a socket that is joined publishes a usable address of its
\* interface.
LEMMA JoinedFits ==
    ASSUME Typed, NEW i \in Targets
    PROVE LET ip == CHOOSE a \in Target(i) : TRUE
          IN  /\ ConnFits(Joined(ip)) /\ Joined(ip).ip = ip
              /\ Has(i, ip) /\ Reachable(ip)
<1> DEFINE ip == CHOOSE a \in Target(i) : TRUE
<1>1. ip \in Target(i) /\ i \in Ifaces
  BY DEF Targets
<1> HIDE DEF ip
<1>2. PICK n \in DOMAIN addrs[i] : addrs[i][n] = ip /\ Usable(addrs[i][n])
  BY <1>1 DEF Target
<1>3. ip \notin Unroutable /\ host \in {"any", ip}
  BY <1>2 DEF Usable
<1>4. ip # "none"
  BY <1>1, <1>2, DiscoveryAssumption DEF Typed
<1> DEFINE c == Joined(ip)
<1>5. /\ DOMAIN c = {"ip", "open", "reader", "reply", "errs", "sent", "announcer", "bye"}
      /\ c.ip = ip /\ c.open = TRUE /\ c.reader = "reading" /\ c.errs = 0
      /\ c.sent = 0 /\ c.announcer = "sending" /\ c.bye = FALSE
  BY DEF Joined, NoConn
<1> HIDE DEF c
<1>6. ConnFits(c)
  <2>1. c.open \in BOOLEAN /\ c.bye \in BOOLEAN
    BY <1>5
  <2>2. /\ c.errs \in 0..MaxReadErrors - 1 /\ c.sent \in 0..Announcements
        /\ c.sent < Announcements
    BY <1>5, DiscoveryAssumption
  <2>3. /\ c.reader \in {"reading", "replying", "gone"} /\ c.reader # "replying"
        /\ c.announcer \in {"sending", "gone"}
    BY <1>5
  <2>4. c.ip # "none" /\ c.ip \notin Unroutable
    BY <1>3, <1>4, <1>5
  <2>5. QED
    BY <1>5, <2>1, <2>2, <2>3, <2>4 DEF ConnFits
<1>7. QED
  BY <1>2, <1>3, <1>5, <1>6 DEF Has, Reachable, ip, c

\* A step that changes one socket, keeps its address and moves no interface
\* keeps what holds of sockets.
LEMMA OneSocket ==
    ASSUME DiscoveryInv, NEW i \in Ifaces, NEW c, conn' = [conn EXCEPT ![i] = c],
           ConnFits(c), c.ip = conn[i].ip,
           UNCHANGED <<host, addrs, behind>>
    PROVE /\ DOMAIN conn' = Ifaces /\ \A j \in Ifaces : ConnFits(conn'[j])
          /\ SocketsFit'
<1>1. DOMAIN conn' = Ifaces /\ \A j \in Ifaces : ConnFits(conn'[j]) /\ conn'[j].ip = conn[j].ip
  BY DEF DiscoveryInv, Typed
<1>2. SocketsFit'
  BY <1>1 DEF DiscoveryInv, SocketsFit, Has, Reachable
<1>3. QED
  BY <1>1, <1>2

\* A step of which no listener hears anything, and that moves no interface, keeps
\* what listeners hold.
LEMMA Unhearing ==
    ASSUME DiscoveryInv, UNCHANGED <<host, addrs, cache, stale>>
    PROVE CacheFits' /\ CachesTrue' /\ DOMAIN stale' = Ifaces /\ DOMAIN cache' = Ifaces
<1>1. \A i \in Ifaces : \A a : (Has(i, a) <=> Has(i, a)') /\ (Reachable(a) <=> Reachable(a)')
  BY DEF Has, Reachable
<1>2. QED
  BY <1>1 DEF DiscoveryInv, CacheFits, CachesTrue, Typed

\* responder.go:102-200: a start joins sockets that publish usable addresses.
LEMMA StartKeeps == DiscoveryInv /\ Starts => DiscoveryInv'
<1> SUFFICES ASSUME DiscoveryInv, Starts PROVE DiscoveryInv'
  OBVIOUS
<1> DEFINE ip(i) == CHOOSE a \in Target(i) : TRUE
<1>1. PICK joined \in SUBSET Targets :
         /\ phase' = IF joined = {} THEN "disabled" ELSE "serving"
         /\ conn' = [i \in Ifaces |-> IF i \in joined THEN Joined(ip(i)) ELSE NoConn]
  BY DEF Starts
<1>2. ConnFits(NoConn) /\ NoConn.ip = "none"
  BY DiscoveryAssumption DEF ConnFits, NoConn
<1>3. \A i \in joined : /\ ConnFits(Joined(ip(i))) /\ Joined(ip(i)).ip = ip(i)
                        /\ Has(i, ip(i)) /\ Reachable(ip(i))
  BY <1>1, JoinedFits DEF DiscoveryInv
<1> HIDE DEF ip
<1>4. UNCHANGED <<host, addrs, cache, stale>> /\ behind' = [i \in Ifaces |-> FALSE]
  BY DEF Starts
<1>5. Typed'
  BY <1>1, <1>2, <1>3, <1>4 DEF DiscoveryInv, Typed
<1>6. SocketsFit'
  BY <1>1, <1>2, <1>3, <1>4 DEF SocketsFit, Has, Reachable
<1>7. QED
  BY <1>4, <1>5, <1>6, Unhearing DEF DiscoveryInv

\* responder.go:350-438: a step of the goroutines of one socket keeps the invariant.
LEMMA GoroutineKeeps ==
    ASSUME DiscoveryInv, NEW i \in Ifaces, Goroutine(i)
    PROVE DiscoveryInv'
<1> DEFINE c == conn[i]
<1>0. /\ DOMAIN conn = Ifaces /\ ConnFits(c)
      /\ DOMAIN c = {"ip", "open", "reader", "reply", "errs", "sent", "announcer", "bye"}
  BY DEF DiscoveryInv, Typed, ConnFits
<1>1. CASE Announces(i)
  <2> DEFINE d == [c EXCEPT !.sent = c.sent + 1,
                            !.announcer = IF c.sent + 1 = Announcements
                                          THEN "gone" ELSE "sending"]
  <2>1. conn' = [conn EXCEPT ![i] = d] /\ UNCHANGED <<phase, host, addrs, behind>>
    BY <1>1 DEF Announces
  <2>2. /\ DOMAIN d = DOMAIN c /\ d.ip = c.ip /\ d.open = c.open /\ d.bye = c.bye
        /\ d.reader = c.reader /\ d.reply = c.reply /\ d.errs = c.errs
        /\ d.sent = c.sent + 1
        /\ d.announcer = IF c.sent + 1 = Announcements THEN "gone" ELSE "sending"
    BY <1>0
  <2>3. c.announcer = "sending" /\ c.ip # "none" /\ c.sent < Announcements
    BY <1>0, <1>1 DEF Announces, ConnFits
  <2> HIDE DEF d
  <2>4. ConnFits(d)
    BY <1>0, <2>2, <2>3, DiscoveryAssumption DEF ConnFits
  <2>5. CacheFits' /\ CachesTrue' /\ DOMAIN stale' = Ifaces /\ DOMAIN cache' = Ifaces
    <3>1. CASE c.open
      BY <1>1, <2>1, <2>3, <3>1, HearingIsTrue, UnaskedSpeak DEF Announces, Multicasts
    <3>2. CASE ~c.open
      BY <1>1, <2>1, <3>2, Unhearing DEF Announces, Unheard
    <3>3. QED
      BY <3>1, <3>2
  <2>6. QED
    BY <2>1, <2>2, <2>4, <2>5, OneSocket DEF DiscoveryInv, Typed
<1>2. CASE AnnouncerStops(i)
  <2> DEFINE d == [c EXCEPT !.announcer = "gone"]
  <2>1. conn' = [conn EXCEPT ![i] = d] /\ UNCHANGED <<phase, host, addrs, cache, behind, stale>>
    BY <1>2 DEF AnnouncerStops
  <2>2. ConnFits(d) /\ d.ip = c.ip
    BY <1>0 DEF ConnFits
  <2> HIDE DEF d
  <2>3. QED
    BY <2>1, <2>2, OneSocket, Unhearing DEF DiscoveryInv, Typed
<1>3. CASE Reads(i)
  <2> DEFINE q == Head(inbox[i])
             d == IF Answerable(q, c.ip)
                  THEN [c EXCEPT !.errs = 0, !.reader = "replying", !.reply = <<q>>]
                  ELSE [c EXCEPT !.errs = 0]
  <2>1. conn' = [conn EXCEPT ![i] = d] /\ UNCHANGED <<phase, host, addrs, cache, behind, stale>>
    BY <1>3 DEF Reads
  <2>2. ConnFits(d) /\ d.ip = c.ip
    <3>1. c.open /\ c.reader = "reading" /\ c.ip # "none"
      BY <1>0, <1>3 DEF Reads, ConnFits
    <3>2. CASE Answerable(q, c.ip)
      <4> HIDE DEF q
      <4>1. /\ DOMAIN d = DOMAIN c /\ d.ip = c.ip /\ d.open = c.open /\ d.bye = c.bye
            /\ d.reader = "replying" /\ d.reply = <<q>> /\ d.errs = 0
            /\ d.sent = c.sent /\ d.announcer = c.announcer
        BY <1>0, <3>2
      <4>2. d.reply[1] = q
        BY <4>1
      <4> HIDE DEF d
      <4>3. ConnFits(d)
        BY <1>0, <3>1, <3>2, <4>1, <4>2, DiscoveryAssumption DEF ConnFits
      <4>4. QED
        BY <4>1, <4>3
    <3>3. CASE ~Answerable(q, c.ip)
      <4>1. /\ DOMAIN d = DOMAIN c /\ d.ip = c.ip /\ d.open = c.open /\ d.bye = c.bye
            /\ d.reader = c.reader /\ d.reply = c.reply /\ d.errs = 0
            /\ d.sent = c.sent /\ d.announcer = c.announcer
        BY <1>0, <3>3
      <4> HIDE DEF d
      <4>2. ConnFits(d)
        BY <1>0, <3>1, <4>1, DiscoveryAssumption DEF ConnFits
      <4>3. QED
        BY <4>1, <4>2
    <3>4. QED
      BY <3>2, <3>3
  <2> HIDE DEF d
  <2>3. QED
    BY <2>1, <2>2, OneSocket, Unhearing DEF DiscoveryInv, Typed
<1>4. CASE Replies(i)
  <2> DEFINE q == c.reply[1]
             d == [c EXCEPT !.reader = "reading", !.reply = <<>>]
  <2>1. conn' = [conn EXCEPT ![i] = d] /\ UNCHANGED <<phase, host, addrs, behind>>
    BY <1>4 DEF Replies
  <2>2. c.reader = "replying" /\ c.ip # "none"
    BY <1>0, <1>4 DEF Replies, ConnFits
  <2>3. /\ DOMAIN d = DOMAIN c /\ d.ip = c.ip /\ d.open = c.open /\ d.bye = c.bye
        /\ d.reader = "reading" /\ d.errs = c.errs
        /\ d.sent = c.sent /\ d.announcer = c.announcer
    BY <1>0
  <2> HIDE DEF d
  <2>4. ConnFits(d)
    BY <1>0, <2>2, <2>3 DEF ConnFits
  <2>5. CacheFits' /\ CachesTrue' /\ DOMAIN stale' = Ifaces /\ DOMAIN cache' = Ifaces
    <3>1. \/ UNCHANGED <<cache, stale>>
          \/ ~q.legacy /\ Hears(i, Reply(q, c.ip))
      <4>1. CASE ~c.open
        BY <1>4, <4>1 DEF Replies, Unheard
      <4>2. CASE c.open /\ Unicast(q)
        BY <1>4, <4>2 DEF Replies, UnicastsTo, Reply, Message
      <4>3. CASE c.open /\ ~Unicast(q)
        BY <1>4, <4>3 DEF Replies, Multicasts, Unicast
      <4>4. QED
        BY <4>1, <4>2, <4>3
    <3>2. CASE UNCHANGED <<cache, stale>>
      BY <2>1, <3>2, Unhearing
    <3>3. CASE ~q.legacy /\ Hears(i, Reply(q, c.ip))
      BY <2>1, <2>2, <3>3, HearingIsTrue, ReplySpeaks
    <3>4. QED
      BY <3>1, <3>2, <3>3
  <2>6. QED
    BY <2>1, <2>3, <2>4, <2>5, OneSocket DEF DiscoveryInv, Typed
<1>5. CASE ReadFails(i)
  <2> DEFINE gives == Done \/ c.errs + 1 >= MaxReadErrors
             d == IF gives THEN [c EXCEPT !.reader = "gone"]
                           ELSE [c EXCEPT !.errs = c.errs + 1]
  <2>1. conn' = [conn EXCEPT ![i] = d] /\ UNCHANGED <<phase, host, addrs, cache, behind, stale>>
    BY <1>5 DEF ReadFails
  <2>2. ConnFits(d) /\ d.ip = c.ip
    <3>1. c.reader = "reading" /\ c.ip # "none"
      BY <1>0, <1>5 DEF ReadFails, ConnFits
    <3>2. CASE gives
      <4>1. /\ DOMAIN d = DOMAIN c /\ d.ip = c.ip /\ d.open = c.open /\ d.bye = c.bye
            /\ d.reader = "gone" /\ d.errs = c.errs
            /\ d.sent = c.sent /\ d.announcer = c.announcer
        BY <1>0, <3>2
      <4> HIDE DEF d
      <4>2. QED
        BY <1>0, <3>1, <4>1 DEF ConnFits
    <3>3. CASE ~gives
      <4>1. c.errs + 1 < MaxReadErrors /\ c.errs \in Nat
        BY <1>0, <3>3, DiscoveryAssumption DEF ConnFits
      <4>2. /\ DOMAIN d = DOMAIN c /\ d.ip = c.ip /\ d.open = c.open /\ d.bye = c.bye
            /\ d.reader = c.reader /\ d.errs = c.errs + 1
            /\ d.sent = c.sent /\ d.announcer = c.announcer
        BY <1>0, <3>3
      <4> HIDE DEF d
      <4>3. QED
        BY <1>0, <3>1, <4>1, <4>2, DiscoveryAssumption DEF ConnFits
    <3>4. QED
      BY <3>2, <3>3
  <2> HIDE DEF d
  <2>3. QED
    BY <2>1, <2>2, OneSocket, Unhearing DEF DiscoveryInv, Typed
<1>6. QED
  BY <1>1, <1>2, <1>3, <1>4, <1>5 DEF Goroutine

\* responder.go:202-220 and serve.go: a step of Close, or the end of the process,
\* keeps the invariant.
LEMMA ClosingKeeps ==
    ASSUME DiscoveryInv, Closes \/ Closing \/ Ends
    PROVE DiscoveryInv'
<1> USE DEF DiscoveryInv
<1>1. CASE Closes
  <2>1. UNCHANGED <<host, addrs, conn, cache, behind, stale>>
    BY <1>1 DEF Closes
  <2>2. SocketsFit'
    BY <2>1 DEF SocketsFit, Has, Reachable
  <2>3. Typed'
    BY <1>1, <2>1 DEF Closes, Typed
  <2>4. QED
    BY <2>1, <2>2, <2>3, Unhearing
<1>2. ASSUME NEW i \in Ifaces, SaysGoodbye(i) PROVE DiscoveryInv'
  <2> DEFINE c == conn[i]
             d == [c EXCEPT !.bye = TRUE]
  <2>1. conn' = [conn EXCEPT ![i] = d] /\ UNCHANGED <<host, addrs, behind>> /\ c.ip # "none"
    BY <1>2 DEF SaysGoodbye, Conns, Typed
  <2>2. ConnFits(d) /\ d.ip = c.ip
    BY DEF Typed, ConnFits
  <2> HIDE DEF d
  <2>3. CacheFits' /\ CachesTrue' /\ DOMAIN stale' = Ifaces /\ DOMAIN cache' = Ifaces
    BY <1>2, <2>1, HearingIsTrue, UnaskedSpeak DEF SaysGoodbye, Multicasts
  <2>4. phase' \in {"goodbye", "close"}
    BY <1>2 DEF SaysGoodbye
  <2>5. QED
    BY <2>1, <2>2, <2>3, <2>4, OneSocket DEF Typed
<1>3. ASSUME NEW i \in Ifaces, ClosesSocket(i) PROVE DiscoveryInv'
  <2> DEFINE c == conn[i]
             d == [c EXCEPT !.open = FALSE]
  <2>1. conn' = [conn EXCEPT ![i] = d] /\ UNCHANGED <<host, addrs, cache, behind, stale>>
    BY <1>3 DEF ClosesSocket, Typed
  <2>2. ConnFits(d) /\ d.ip = c.ip
    BY DEF Typed, ConnFits
  <2> HIDE DEF d
  <2>3. phase' \in {"close", "wait"}
    BY <1>3 DEF ClosesSocket
  <2>4. QED
    BY <2>1, <2>2, <2>3, OneSocket, Unhearing DEF Typed
<1>4. CASE Waits
  <2>1. phase' = "closed" /\ UNCHANGED <<host, addrs, conn, cache, behind, stale>>
    BY <1>4 DEF Waits
  <2>2. SocketsFit' /\ Typed'
    BY <2>1 DEF SocketsFit, Has, Reachable, Typed
  <2>3. QED
    BY <2>1, <2>2, Unhearing
<1>5. CASE Ends
  <2>1. /\ phase' = "off" /\ conn' = [i \in Ifaces |-> NoConn]
        /\ UNCHANGED <<host, addrs, cache, behind, stale>>
    BY <1>5 DEF Ends
  <2>2. ConnFits(NoConn) /\ NoConn.ip = "none"
    BY DiscoveryAssumption DEF ConnFits, NoConn
  <2>3. SocketsFit' /\ Typed'
    BY <2>1, <2>2 DEF SocketsFit, Typed
  <2>4. QED
    BY <2>1, <2>3, Unhearing
<1>6. QED
  BY <1>1, <1>2, <1>3, <1>4, <1>5 DEF Closing

\* A query, a change of addresses and the end of what was told keep the invariant.
LEMMA NetworkKeeps ==
    ASSUME DiscoveryInv, NEW i \in Ifaces, Asks(i) \/ Moves(i) \/ Expires(i)
    PROVE DiscoveryInv'
<1> USE DEF DiscoveryInv
<1>1. CASE Asks(i)
  <2>1. UNCHANGED <<phase, host, addrs, conn, cache, behind, stale>>
    BY <1>1 DEF Asks
  <2>2. SocketsFit' /\ Typed'
    BY <2>1 DEF SocketsFit, Has, Reachable, Typed
  <2>3. QED
    BY <2>1, <2>2, Unhearing
<1>2. CASE Moves(i)
  <2>1. /\ UNCHANGED <<phase, host, conn, cache>>
        /\ behind' = [behind EXCEPT ![i] = TRUE] /\ stale' = [stale EXCEPT ![i] = TRUE]
    BY <1>2 DEF Moves
  <2>2. PICK as \in AddrLists : addrs' = [addrs EXCEPT ![i] = as]
    BY <1>2 DEF Moves
  <2>3. addrs' \in [Ifaces -> AddrLists] /\ \A j \in Ifaces \ {i} : addrs'[j] = addrs[j]
    BY <2>2 DEF Typed
  <2>4. /\ DOMAIN behind' = Ifaces /\ DOMAIN stale' = Ifaces
        /\ behind'[i] /\ stale'[i]
        /\ \A j \in Ifaces \ {i} : behind'[j] = behind[j] /\ stale'[j] = stale[j]
    BY <2>1 DEF Typed
  <2>5. Typed' /\ CacheFits'
    BY <2>1, <2>3, <2>4 DEF Typed, CacheFits
  <2>6. SocketsFit'
    BY <2>1, <2>3, <2>4 DEF SocketsFit, Has, Reachable
  <2>7. CachesTrue'
    BY <2>1, <2>3, <2>4 DEF CachesTrue, Has, Reachable
  <2>8. QED
    BY <2>5, <2>6, <2>7
<1>3. CASE Expires(i)
  <2>1. /\ UNCHANGED <<phase, host, addrs, conn, behind, stale>>
        /\ cache' = [cache EXCEPT ![i] = {}]
    BY <1>3 DEF Expires
  <2>2. DOMAIN cache' = Ifaces /\ \A j \in Ifaces : cache'[j] = cache[j] \/ cache'[j] = {}
    BY <2>1 DEF Typed
  <2>3. SocketsFit' /\ Typed' /\ CacheFits'
    BY <2>1, <2>2 DEF SocketsFit, Has, Reachable, Typed, CacheFits
  <2>4. CachesTrue'
    BY <2>1, <2>2 DEF CachesTrue, Has, Reachable, Addresses
  <2>5. QED
    BY <2>3, <2>4
<1>4. QED
  BY <1>1, <1>2, <1>3

\* The invariant holds over any step.
LEMMA InvariantKept == DiscoveryInv /\ [Next]_vars => DiscoveryInv'
<1> SUFFICES ASSUME DiscoveryInv, [Next]_vars PROVE DiscoveryInv'
  OBVIOUS
<1>1. CASE UNCHANGED vars
  <2>1. SocketsFit' /\ Typed'
    BY <1>1 DEF vars, DiscoveryInv, SocketsFit, Has, Reachable, Typed
  <2>2. QED
    BY <1>1, <2>1, Unhearing DEF vars, DiscoveryInv
<1>2. CASE Starts
  BY <1>2, StartKeeps
<1>3. CASE Closes \/ Closing \/ Ends
  BY <1>3, ClosingKeeps
<1>4. ASSUME NEW i \in Ifaces, Goroutine(i) \/ Asks(i) \/ Moves(i) \/ Expires(i)
      PROVE DiscoveryInv'
  BY <1>4, GoroutineKeeps, NetworkKeeps
<1>5. QED
  BY <1>1, <1>2, <1>3, <1>4 DEF Next

\* responder.go: the invariant of the responder and its listeners.
LEMMA AlwaysFits == Spec => []DiscoveryInv
<1>1. QED
  BY DiscoveryStarts, InvariantKept, PTL DEF Spec
-----------------------------------------------------------------------------
(* Theorems *)

\* responder.go:75-90: no goroutine runs without a socket that was joined, and no
\* socket is joined on an address that leads nowhere.
THEOREM DiscoveryTypeOK == Spec => []TypeOK
<1>1. DiscoveryInv => TypeOK
  BY DEF DiscoveryInv, Typed, TypeOK, ConnFits, Gone
<1>2. QED
  BY <1>1, AlwaysFits, PTL

\* responder.go:224-272: what a listener was told since its interface last changed
\* is one address, which the interface has and the server answers on.
THEOREM PublishedServed == Spec => []PublishedIsServed
<1>1. DiscoveryInv => PublishedIsServed
  BY DEF DiscoveryInv, CachesTrue, PublishedIsServed, Has, Reachable
<1>2. QED
  BY <1>1, AlwaysFits, PTL

\* responder.go:209-213: a goodbye takes every address back from who hears it.
LEMMA GoodbyeLeavesNothing ==
    ASSUME NEW old, NEW ip, \A c \in old : c.type = "A" => c.name = "host"
    PROVE Addresses(Heard(old, Goodbye(ip))) = {}
<1> DEFINE new == {[r EXCEPT !.ttl = 0] : r \in All(ip)}
<1>1. Goodbye(ip).answers = new /\ Goodbye(ip).additional = {}
  BY DEF Goodbye, Message
<1>2. \A r \in new : ~(r.ttl > 0)
  BY DEF All, PtrRecord, SrvRecord, TxtRecord, ARecord, Record
<1>3. PICK a \in new : a.name = "host" /\ a.type = "A" /\ a.flush
  <2>1. ARecord(ip) \in All(ip)
    BY DEF All
  <2>2. [ARecord(ip) EXCEPT !.ttl = 0] \in new
    BY <2>1
  <2>3. QED
    BY <2>2 DEF ARecord, Record
<1> HIDE DEF new
<1>4. \A c \in Heard(old, Goodbye(ip)) :
         c \in old /\ \A r \in new : Key(r) = Key(c) => ~r.flush
  BY <1>1, <1>2 DEF Heard
<1>5. \A c \in old : c.type = "A" => Key(a) = Key(c)
  BY <1>3 DEF Key
<1>6. QED
  BY <1>3, <1>4, <1>5 DEF Addresses

\* service.go:154-163 and responder.go:117-214: a goroutine, and Close as it closes
\* a socket, write the record of that socket only and do not mark its goodbye sent.
LEMMA KeepsBye ==
    ASSUME NEW j \in Ifaces, Goroutine(j) \/ ClosesSocket(j),
           \A i \in Ifaces : ConnFits(conn[i])
    PROVE \E d : conn' = [conn EXCEPT ![j] = d] /\ d.bye = conn[j].bye
<1> DEFINE c == conn[j]
<1>0. DOMAIN c = {"ip", "open", "reader", "reply", "errs", "sent", "announcer", "bye"}
  BY DEF ConnFits
<1>1. CASE Announces(j)
  <2> DEFINE d == [c EXCEPT !.sent = c.sent + 1,
                            !.announcer = IF c.sent + 1 = Announcements
                                          THEN "gone" ELSE "sending"]
  <2>1. conn' = [conn EXCEPT ![j] = d]
    BY <1>1 DEF Announces
  <2>2. d.bye = c.bye
    BY <1>0
  <2> HIDE DEF d
  <2>3. QED
    BY <2>1, <2>2
<1>2. CASE AnnouncerStops(j)
  <2> DEFINE d == [c EXCEPT !.announcer = "gone"]
  <2>1. conn' = [conn EXCEPT ![j] = d]
    BY <1>2 DEF AnnouncerStops
  <2>2. d.bye = c.bye
    BY <1>0
  <2> HIDE DEF d
  <2>3. QED
    BY <2>1, <2>2
<1>3. CASE Reads(j)
  <2> DEFINE q == Head(inbox[j])
             d == IF Answerable(q, c.ip)
                  THEN [c EXCEPT !.errs = 0, !.reader = "replying", !.reply = <<q>>]
                  ELSE [c EXCEPT !.errs = 0]
  <2>1. conn' = [conn EXCEPT ![j] = d]
    BY <1>3 DEF Reads
  <2>2. d.bye = c.bye
    BY <1>0
  <2> HIDE DEF d
  <2>3. QED
    BY <2>1, <2>2
<1>4. CASE Replies(j)
  <2> DEFINE d == [c EXCEPT !.reader = "reading", !.reply = <<>>]
  <2>1. conn' = [conn EXCEPT ![j] = d]
    BY <1>4 DEF Replies
  <2>2. d.bye = c.bye
    BY <1>0
  <2> HIDE DEF d
  <2>3. QED
    BY <2>1, <2>2
<1>5. CASE ReadFails(j)
  <2> DEFINE d == IF Done \/ c.errs + 1 >= MaxReadErrors
                  THEN [c EXCEPT !.reader = "gone"]
                  ELSE [c EXCEPT !.errs = c.errs + 1]
  <2>1. conn' = [conn EXCEPT ![j] = d]
    BY <1>5 DEF ReadFails
  <2>2. d.bye = c.bye
    BY <1>0
  <2> HIDE DEF d
  <2>3. QED
    BY <2>1, <2>2
<1>6. CASE ClosesSocket(j)
  <2> DEFINE d == [c EXCEPT !.open = FALSE]
  <2>1. conn' = [conn EXCEPT ![j] = d]
    BY <1>6 DEF ClosesSocket
  <2>2. d.bye = c.bye
    BY <1>0
  <2> HIDE DEF d
  <2>3. QED
    BY <2>1, <2>2
<1>7. QED
  BY <1>1, <1>2, <1>3, <1>4, <1>5, <1>6 DEF Goroutine

\* service.go:154-163 and responder.go:209-213: a goodbye that is heard leaves no
\* address of the daemon with the listener.
THEOREM GoodbyeHeard == Spec => GoodbyeForgets
<1> DEFINE Forgets == \A i \in Ifaces :
                         phase = "goodbye" /\ conn'[i].bye /\ ~conn[i].bye
                           => cache'[i] = cache[i] \/ Addresses(cache'[i]) = {}
<1>1. ASSUME DiscoveryInv, [Next]_vars PROVE Forgets
  <2> SUFFICES ASSUME NEW i \in Ifaces, phase = "goodbye", conn'[i].bye, ~conn[i].bye
               PROVE cache'[i] = cache[i] \/ Addresses(cache'[i]) = {}
    OBVIOUS
  <2>0. /\ DOMAIN conn = Ifaces /\ DOMAIN cache = Ifaces
        /\ \A j \in Ifaces : DOMAIN conn[j] = {"ip", "open", "reader", "reply", "errs",
                                               "sent", "announcer", "bye"}
    BY <1>1 DEF DiscoveryInv, Typed, ConnFits
  <2>1. ASSUME NEW j \in Ifaces, SaysGoodbye(j)
        PROVE cache'[i] = cache[i] \/ Addresses(cache'[i]) = {}
    <3>1. Hears(j, Goodbye(conn[j].ip))
      BY <2>1 DEF SaysGoodbye, Multicasts
    <3>2. cache' = cache \/ cache' = [cache EXCEPT ![j] = Heard(cache[j], Goodbye(conn[j].ip))]
      BY <3>1 DEF Hears
    <3>3. Addresses(Heard(cache[j], Goodbye(conn[j].ip))) = {}
      BY <1>1, GoodbyeLeavesNothing DEF DiscoveryInv, CacheFits
    <3>4. QED
      BY <2>0, <3>2, <3>3
  <2>2. ASSUME NEW j \in Ifaces, Goroutine(j) \/ ClosesSocket(j)
        PROVE conn'[i].bye = conn[i].bye
    <3>1. \E d : conn' = [conn EXCEPT ![j] = d] /\ d.bye = conn[j].bye
      BY <1>1, <2>2, KeepsBye DEF DiscoveryInv, Typed
    <3>2. PICK d : conn' = [conn EXCEPT ![j] = d] /\ d.bye = conn[j].bye
      BY <3>1
    <3>3. CASE i = j
      BY <2>0, <3>2, <3>3
    <3>4. CASE i # j
      BY <2>0, <3>2, <3>4
    <3>5. QED
      BY <3>3, <3>4
  <2>3. ASSUME UNCHANGED conn PROVE FALSE
    BY <2>3
  <2>4. ~Starts /\ ~Closes
    BY DEF Starts, Closes
  <2>5. CASE Ends
    BY <2>5 DEF Ends, NoConn
  <2>6. ASSUME Waits PROVE UNCHANGED conn
    BY <2>6 DEF Waits
  <2>7. ASSUME NEW j \in Ifaces, Asks(j) \/ Moves(j) \/ Expires(j) PROVE UNCHANGED conn
    BY <2>7 DEF Asks, Moves, Expires
  <2>8. ASSUME UNCHANGED vars PROVE UNCHANGED conn
    BY <2>8 DEF vars
  <2>9. QED
    BY <1>1, <2>1, <2>2, <2>3, <2>4, <2>5, <2>6, <2>7, <2>8 DEF Next, Closing
<1>2. QED
  BY <1>1, AlwaysFits, PTL DEF Spec, GoodbyeForgets
-----------------------------------------------------------------------------
(* Answers *)

\* service.go:64-144: name and type tell the records of the service apart, all but
\* the pointers are the host's alone, and no lifetime is negative.
LEMMA RecordsApart ==
    ASSUME NEW ip
    PROVE \A r \in All(ip) \cup {EnumRecord} :
             /\ r.flush = (r.type # "PTR") /\ r.ttl \in Nat
             /\ Key(r) = <<"type", "PTR">> => r = PtrRecord
             /\ Key(r) = <<"instance", "SRV">> => r = SrvRecord
             /\ \A s \in All(ip) \cup {EnumRecord} : Key(r) = Key(s) => r = s
<1> DEFINE five == {PtrRecord, SrvRecord, TxtRecord, ARecord(ip), EnumRecord}
<1>1. All(ip) \cup {EnumRecord} = five
  BY DEF All
<1>2. /\ PtrRecord.name = "type" /\ PtrRecord.type = "PTR"
      /\ SrvRecord.name = "instance" /\ SrvRecord.type = "SRV"
      /\ TxtRecord.name = "instance" /\ TxtRecord.type = "TXT"
      /\ ARecord(ip).name = "host" /\ ARecord(ip).type = "A"
      /\ EnumRecord.name = "enum" /\ EnumRecord.type = "PTR"
  BY DEF PtrRecord, SrvRecord, TxtRecord, ARecord, EnumRecord, Record
<1>3. /\ PtrRecord.flush = FALSE /\ SrvRecord.flush = TRUE /\ TxtRecord.flush = TRUE
      /\ ARecord(ip).flush = TRUE /\ EnumRecord.flush = FALSE
  BY DEF PtrRecord, SrvRecord, TxtRecord, ARecord, EnumRecord, Record
<1>4. \A r \in five : r.ttl \in Nat
  BY DEF PtrRecord, SrvRecord, TxtRecord, ARecord, EnumRecord, Record,
         HostTTL, ServiceTTL
<1>5. \A r \in five : r.flush = (r.type # "PTR")
  BY <1>2, <1>3
<1>6. \A r, s \in five : r.name = s.name /\ r.type = s.type => r = s
  BY <1>2
<1>7. \A r, s : Key(r) = Key(s) => r.name = s.name /\ r.type = s.type
  BY DEF Key
<1>8. \A r \in five :
         /\ Key(r) = <<"type", "PTR">> => r = PtrRecord
         /\ Key(r) = <<"instance", "SRV">> => r = SrvRecord
  BY <1>2 DEF Key
<1> HIDE DEF five
<1>9. QED
  BY <1>1, <1>4, <1>5, <1>6, <1>7, <1>8

\* service.go:278-286: what a plain resolver is sent keeps its key.
LEMMA PlainKeeps ==
    ASSUME NEW ip, NEW r \in All(ip) \cup {EnumRecord}
    PROVE Key(Plain(r)) = Key(r) /\ Plain(r).flush = FALSE /\ Plain(r).ttl <= LegacyTTL
<1>1. DOMAIN r = {"name", "type", "data", "ttl", "flush"}
  BY DEF All, PtrRecord, SrvRecord, TxtRecord, ARecord, EnumRecord, Record
<1>2. r.ttl \in Nat
  BY RecordsApart
<1>3. Plain(r).ttl = IF r.ttl > LegacyTTL THEN LegacyTTL ELSE r.ttl
  BY <1>1 DEF Plain
<1>4. Plain(r).flush = FALSE /\ Plain(r).name = r.name /\ Plain(r).type = r.type
  BY <1>1 DEF Plain
<1>5. QED
  BY <1>2, <1>3, <1>4 DEF Key, LegacyTTL

\* service.go:227-276: the records that lead from an answer to an address are in
\* the same reply.
LEMMA AnswersLead ==
    ASSUME NEW q, NEW ip, NEW r \in Answers(q, ip)
    PROVE /\ r = PtrRecord => {SrvRecord, ARecord(ip)}
                                \subseteq Answers(q, ip) \cup Additional(q, ip)
          /\ r = SrvRecord => ARecord(ip) \in Answers(q, ip) \cup Additional(q, ip)
<1>1. PICK qn \in Heeded(q) : r \in Asked(qn, ip)
  BY DEF Answers
<1>2. SentAlong(qn, ip) \subseteq Answers(q, ip) \cup Additional(q, ip)
  BY <1>1 DEF Additional
<1>3. r = PtrRecord => {SrvRecord, ARecord(ip)} \subseteq SentAlong(qn, ip)
  BY <1>1 DEF SentAlong
<1>4. r = SrvRecord => ARecord(ip) \in SentAlong(qn, ip)
  BY <1>1 DEF SentAlong
<1>5. QED
  BY <1>2, <1>3, <1>4

\* What AnswerSuffices says of one reply m to the query q.
Suffices(q, m) ==
    LET both == m.answers \cup m.additional
        has(key) == \E r \in both : Key(r) = key
        leads(key) == CASE key = <<"type", "PTR">> ->
                               has(<<"instance", "SRV">>) /\ has(<<"host", "A">>)
                        [] key = <<"instance", "SRV">> -> has(<<"host", "A">>)
                        [] OTHER -> TRUE
    IN  /\ ~q.response
        /\ \A r \in m.answers : leads(Key(r))
        /\ \A r, s \in both : Key(r) = Key(s) => r = s
        /\ m.answers \cap m.additional = {}
        /\ \A r \in both : IF q.legacy THEN ~r.flush /\ r.ttl <= LegacyTTL
                           ELSE r.flush = (r.type # "PTR")

\* service.go:165-225: every reply suffices.
LEMMA ReplySuffices ==
    ASSUME NEW q, NEW ip, Answerable(q, ip)
    PROVE Suffices(q, Reply(q, ip))
<1> DEFINE m == Reply(q, ip)
           five == All(ip) \cup {EnumRecord}
           A == Answers(q, ip)
           B == Additional(q, ip)
           both == m.answers \cup m.additional
           Present(key) == \E r \in both : Key(r) = key
<1>0. A \subseteq five /\ B \subseteq five /\ A \cap B = {}
  BY ReplyHasRecords
<1>1. \A r, s \in five : Key(r) = Key(s) => r = s
  BY RecordsApart
<1>2. /\ Key(SrvRecord) = <<"instance", "SRV">> /\ Key(ARecord(ip)) = <<"host", "A">>
      /\ <<"type", "PTR">> # <<"instance", "SRV">>
  BY DEF Key, SrvRecord, ARecord, Record
<1>3. /\ q.legacy => m.answers = {Plain(r) : r \in A} /\ m.additional = {Plain(r) : r \in B}
      /\ ~q.legacy => m.answers = A /\ m.additional = B
  BY DEF Reply, Message
<1>4. \A r \in five : Key(Plain(r)) = Key(r) /\ ~Plain(r).flush /\ Plain(r).ttl <= LegacyTTL
  BY PlainKeeps
<1>5. \A r \in five : r.flush = (r.type # "PTR")
  BY RecordsApart
<1>6. \A r \in A : /\ Key(r) = <<"type", "PTR">> => {SrvRecord, ARecord(ip)} \subseteq A \cup B
                   /\ Key(r) = <<"instance", "SRV">> => ARecord(ip) \in A \cup B
  BY <1>0, AnswersLead, RecordsApart
<1>7. \A r \in A \cup B : \E s \in both : Key(s) = Key(r)
  BY <1>0, <1>3, <1>4
<1>8. \A s \in m.answers : \E r \in A : Key(s) = Key(r)
  BY <1>0, <1>3, <1>4
<1> HIDE DEF m, five, A, B
<1>9. \A s \in m.answers :
         /\ Key(s) = <<"type", "PTR">> => Present(<<"instance", "SRV">>) /\ Present(<<"host", "A">>)
         /\ Key(s) = <<"instance", "SRV">> => Present(<<"host", "A">>)
  <2> SUFFICES ASSUME NEW s \in m.answers
               PROVE /\ Key(s) = <<"type", "PTR">> =>
                           Present(<<"instance", "SRV">>) /\ Present(<<"host", "A">>)
                     /\ Key(s) = <<"instance", "SRV">> => Present(<<"host", "A">>)
    OBVIOUS
  <2>1. PICK r \in A : Key(s) = Key(r)
    BY <1>8
  <2>2. SrvRecord \in A \cup B => Present(<<"instance", "SRV">>)
    BY <1>2, <1>7
  <2>3. ARecord(ip) \in A \cup B => Present(<<"host", "A">>)
    BY <1>2, <1>7
  <2>4. QED
    BY <1>6, <2>1, <2>2, <2>3
<1>10. \A r, s \in both : Key(r) = Key(s) => r = s
  BY <1>0, <1>1, <1>3, <1>4
<1>11. m.answers \cap m.additional = {}
  BY <1>0, <1>1, <1>3, <1>4
<1>12. \A r \in both : IF q.legacy THEN ~r.flush /\ r.ttl <= LegacyTTL
                       ELSE r.flush = (r.type # "PTR")
  BY <1>0, <1>3, <1>4, <1>5
<1>13. ~q.response
  BY DEF Answerable
<1>14. QED
  BY <1>2, <1>9, <1>10, <1>11, <1>12, <1>13 DEF Suffices, m

\* service.go:165-286: whoever asked for the type, or for address and port of the
\* instance, has the records that lead to an address, each of them once, and a
\* plain resolver nothing it could hold for long.
THEOREM AnswersSuffice == Spec => []AnswerSuffices
<1>1. DiscoveryInv => AnswerSuffices
  <2> SUFFICES ASSUME DiscoveryInv, NEW i \in Ifaces, conn[i].reader = "replying"
               PROVE Suffices(conn[i].reply[1], Reply(conn[i].reply[1], conn[i].ip))
    BY DEF AnswerSuffices, Suffices
  <2>1. Answerable(conn[i].reply[1], conn[i].ip)
    BY DEF DiscoveryInv, Typed, ConnFits
  <2>2. QED
    BY <2>1, ReplySuffices
<1>2. QED
  BY <1>1, AlwaysFits, PTL
=============================================================================
