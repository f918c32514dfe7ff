----------------------------- MODULE Discovery ------------------------------
(***************************************************************************)
(* The responder that publishes the daemon on the local network            *)
(* (internal/mdns/responder.go), and one listener on each segment.         *)
(*                                                                         *)
(* Every interface with a routable IPv4 address that the HTTP server       *)
(* answers on gets a socket, the address read back at that moment, and two *)
(* goroutines: one announces, one answers queries.  Close says goodbye on  *)
(* every socket, closes them and waits for the goroutines, which go on in  *)
(* the meantime.  A kill says nothing.  A socket hears what its own        *)
(* process multicasts (sockopt_unix.go).  Any packet may be lost.          *)
(***************************************************************************)
EXTENDS Mdns

CONSTANTS
    Ifaces,         \* network interfaces, one listener on the segment of each
    Unroutable,     \* addresses that are loopback, link-local or not IPv4
    AddrLists,      \* address lists an interface may have
    Hosts,          \* host parts of the listen address: any, loopback, one address
    Questions,      \* question sections of the queries that may arrive
    Announcements,  \* announcements on each interface
    MaxReadErrors,  \* reads that fail in a row before a loop gives up
    MaxQueries,     \* bound: packets from elsewhere
    MaxErrors,      \* bound: reads that fail on an open socket
    MaxStarts,      \* bound: times the daemon starts
    MaxMoves        \* bound: changes of an interface's addresses

ASSUME DiscoveryAssumption ==
    /\ Announcements \in Nat \ {0} /\ MaxReadErrors \in Nat \ {0}
    /\ {MaxQueries, MaxErrors, MaxStarts, MaxMoves} \subseteq Nat
    /\ \A as \in AddrLists : \A n \in DOMAIN as : as[n] # "none"

VARIABLES
    phase,    \* the responder: off, disabled, serving, or where Close is
    host,     \* host part of the listen address
    addrs,    \* what each interface has now, <<>> when it is down
    conn,     \* the joined interfaces' sockets and goroutines
    inbox,    \* packets waiting in each socket
    cache,    \* what each listener holds
    behind,   \* interfaces that changed since the daemon read them
    stale,    \* listeners told no address since their interface changed
    used      \* queries, errors, starts and moves so far

vars == <<phase, host, addrs, conn, inbox, cache, behind, stale, used>>

-----------------------------------------------------------------------------
(* Sockets.                                                                *)

NoConn == [ip |-> "none", open |-> FALSE, reader |-> "gone", reply |-> <<>>,
           errs |-> 0, sent |-> 0, announcer |-> "gone", bye |-> FALSE]

Joined(ip) == [NoConn EXCEPT !.ip = ip, !.open = TRUE, !.reader = "reading",
                             !.announcer = "sending"]

Conns == {i \in Ifaces : conn[i].ip # "none"}

\* r.done is closed.
Done == phase \in {"goodbye", "close", "wait", "closed"}

\* The listener of i hears m, or does not.  What names no address tells it
\* nothing of a change.
Hears(i, m) ==
    \/ /\ cache' = [cache EXCEPT ![i] = Heard(cache[i], m)]
       /\ stale' = [stale EXCEPT ![i] =
                       IF \E r \in m.answers \cup m.additional : r.type = "A"
                       THEN behind[i] ELSE @]
    \/ UNCHANGED <<cache, stale>>

\* send: the packet goes to the segment, this process included, or to the one
\* asker.  A plain resolver keeps no cache that lasts.
Multicasts(i, m) ==
    /\ Hears(i, m)
    /\ inbox' = [inbox EXCEPT ![i] = Append(@, m)]

UnicastsTo(i, m) ==
    /\ IF m.legacy THEN UNCHANGED <<cache, stale>> ELSE Hears(i, m)
    /\ UNCHANGED inbox

Unheard == UNCHANGED <<cache, stale, inbox>>

-----------------------------------------------------------------------------
(* Start.                                                                  *)

\* Mutant: every interface is used, whatever address the server binds.
UsableAny(a) == a \notin Unroutable

\* Mutant: any IPv4 address will do, a link-local one included.
UsableLinkLocal(a) == host \in {"any", a}

\* An address a device can reach and the server answers on.
Usable(a) == a \notin Unroutable /\ host \in {"any", a}

\* targets: the first usable address of an interface.
Target(i) ==
    {addrs[i][n] : n \in {k \in DOMAIN addrs[i] :
        /\ Usable(addrs[i][k])
        /\ \A m \in DOMAIN addrs[i] : Usable(addrs[i][m]) => k <= m}}

Targets == {i \in Ifaces : host # "loopback" /\ Target(i) # {}}

\* A join that fails leaves its interface out; without any, discovery is off.
Starts ==
    /\ phase = "off" /\ used.starts < MaxStarts
    /\ used' = [used EXCEPT !.starts = @ + 1]
    /\ \E joined \in SUBSET Targets :
          /\ phase' = IF joined = {} THEN "disabled" ELSE "serving"
          /\ conn' = [i \in Ifaces |-> IF i \in joined THEN Joined(CHOOSE a \in Target(i) : TRUE)
                                                       ELSE NoConn]
    /\ behind' = [i \in Ifaces |-> FALSE]
    /\ UNCHANGED <<host, addrs, inbox, cache, stale>>

-----------------------------------------------------------------------------
(* announce: the first at once, the others when a timer fires first.       *)

Announces(i) ==
    /\ conn[i].announcer = "sending"
    /\ conn' = [conn EXCEPT ![i] =
                  [@ EXCEPT !.sent = conn[i].sent + 1,
                            !.announcer = IF conn[i].sent + 1 = Announcements
                                          THEN "gone" ELSE "sending"]]
    /\ IF conn[i].open THEN Multicasts(i, Announcement(conn[i].ip)) ELSE Unheard
    /\ UNCHANGED <<phase, host, addrs, behind, used>>

AnnouncerStops(i) ==
    /\ conn[i].announcer = "sending" /\ conn[i].sent > 0 /\ Done
    /\ conn' = [conn EXCEPT ![i].announcer = "gone"]
    /\ UNCHANGED <<phase, host, addrs, inbox, cache, behind, stale, used>>

-----------------------------------------------------------------------------
(* readLoop.                                                               *)

\* A packet that is no query, asks for nothing of ours or cannot be parsed is
\* passed over.
Reads(i) ==
    LET q == Head(inbox[i])
    IN  /\ conn[i].reader = "reading" /\ conn[i].open /\ inbox[i] # <<>>
        /\ inbox' = [inbox EXCEPT ![i] = Tail(@)]
        /\ conn' = [conn EXCEPT ![i] =
                      IF Answerable(q, conn[i].ip)
                      THEN [@ EXCEPT !.errs = 0, !.reader = "replying", !.reply = <<q>>]
                      ELSE [@ EXCEPT !.errs = 0]]
        /\ UNCHANGED <<phase, host, addrs, cache, behind, stale, used>>

\* pack and send.
Replies(i) ==
    LET q == conn[i].reply[1]
        m == Reply(q, conn[i].ip)
    IN  /\ conn[i].reader = "replying"
        /\ conn' = [conn EXCEPT ![i] = [@ EXCEPT !.reader = "reading", !.reply = <<>>]]
        /\ CASE ~conn[i].open -> Unheard
             [] conn[i].open /\ Unicast(q) -> UnicastsTo(i, m)
             [] OTHER -> Multicasts(i, m)
        /\ UNCHANGED <<phase, host, addrs, behind, used>>

\* Mutant: a loop that cannot read waits for its socket to recover.
ReadFailsPatiently(i) ==
    /\ conn[i].reader = "reading" /\ conn[i].open
    /\ used.errors < MaxErrors
    /\ used' = [used EXCEPT !.errors = @ + 1]
    /\ UNCHANGED <<phase, host, addrs, conn, inbox, cache, behind, stale>>

\* A closed socket fails every read; an open one may.
ReadFails(i) ==
    /\ conn[i].reader = "reading"
    /\ conn[i].open => used.errors < MaxErrors
    /\ used' = IF conn[i].open THEN [used EXCEPT !.errors = @ + 1] ELSE used
    /\ conn' = [conn EXCEPT ![i] =
                  IF Done \/ conn[i].errs + 1 >= MaxReadErrors
                  THEN [@ EXCEPT !.reader = "gone"]
                  ELSE [@ EXCEPT !.errs = conn[i].errs + 1]]
    /\ UNCHANGED <<phase, host, addrs, inbox, cache, behind, stale>>

-----------------------------------------------------------------------------
(* Close, and a kill.                                                      *)

Closes ==
    /\ phase \in {"serving", "disabled"}
    /\ phase' = IF phase = "disabled" THEN "closed" ELSE "goodbye"
    /\ UNCHANGED <<host, addrs, conn, inbox, cache, behind, stale, used>>

SaysGoodbye(i) ==
    /\ phase = "goodbye" /\ i \in Conns /\ ~conn[i].bye
    /\ conn' = [conn EXCEPT ![i].bye = TRUE]
    /\ phase' = IF \A j \in Conns \ {i} : conn[j].bye THEN "close" ELSE phase
    /\ Multicasts(i, Goodbye(conn[i].ip))
    /\ UNCHANGED <<host, addrs, behind, used>>

ClosesSocket(i) ==
    /\ phase = "close" /\ conn[i].open
    /\ conn' = [conn EXCEPT ![i].open = FALSE]
    /\ inbox' = [inbox EXCEPT ![i] = <<>>]
    /\ phase' = IF \A j \in Conns \ {i} : ~conn[j].open THEN "wait" ELSE phase
    /\ UNCHANGED <<host, addrs, cache, behind, stale, used>>

Gone(i) == conn[i].reader = "gone" /\ conn[i].announcer = "gone"

\* r.wg.Wait
Waits ==
    /\ phase = "wait" /\ \A i \in Ifaces : Gone(i)
    /\ phase' = "closed"
    /\ UNCHANGED <<host, addrs, conn, inbox, cache, behind, stale, used>>

\* The process ends, after Close or without one.
Ends ==
    /\ phase # "off"
    /\ phase' = "off"
    /\ conn' = [i \in Ifaces |-> NoConn]
    /\ inbox' = [i \in Ifaces |-> <<>>]
    /\ UNCHANGED <<host, addrs, cache, behind, stale, used>>

-----------------------------------------------------------------------------
(* The network.                                                            *)

QueryFor(qs, legacy) ==
    [response |-> FALSE, standard |-> TRUE, legacy |-> legacy, questions |-> qs,
     answers |-> {}, additional |-> {}]

\* A query reaches the socket of i.
Asks(i) ==
    /\ conn[i].open /\ used.queries < MaxQueries
    /\ used' = [used EXCEPT !.queries = @ + 1]
    /\ \E qs \in Questions, legacy \in BOOLEAN :
          inbox' = [inbox EXCEPT ![i] = Append(@, QueryFor(qs, legacy))]
    /\ UNCHANGED <<phase, host, addrs, conn, cache, behind, stale>>

\* The lease of an interface changes, or the interface goes or comes.
Moves(i) ==
    /\ used.moves < MaxMoves
    /\ used' = [used EXCEPT !.moves = @ + 1]
    /\ \E as \in AddrLists \ {addrs[i]} : addrs' = [addrs EXCEPT ![i] = as]
    /\ behind' = [behind EXCEPT ![i] = TRUE]
    /\ stale' = [stale EXCEPT ![i] = TRUE]
    /\ UNCHANGED <<phase, host, conn, inbox, cache>>

\* What a listener was told runs out.
Expires(i) ==
    /\ cache[i] # {}
    /\ cache' = [cache EXCEPT ![i] = {}]
    /\ UNCHANGED <<phase, host, addrs, conn, inbox, behind, stale, used>>

Init ==
    /\ phase = "off"
    /\ host \in Hosts
    /\ addrs \in [Ifaces -> AddrLists]
    /\ conn = [i \in Ifaces |-> NoConn]
    /\ inbox = [i \in Ifaces |-> <<>>]
    /\ cache = [i \in Ifaces |-> {}]
    /\ behind = [i \in Ifaces |-> FALSE]
    /\ stale = [i \in Ifaces |-> FALSE]
    /\ used = [queries |-> 0, errors |-> 0, starts |-> 0, moves |-> 0]

Goroutine(i) ==
    Announces(i) \/ AnnouncerStops(i) \/ Reads(i) \/ Replies(i) \/ ReadFails(i)

Closing == (\E i \in Ifaces : SaysGoodbye(i) \/ ClosesSocket(i)) \/ Waits

Next ==
    \/ Starts \/ Closes \/ Closing \/ Ends
    \/ \E i \in Ifaces : Goroutine(i) \/ Asks(i) \/ Moves(i) \/ Expires(i)

Spec == Init /\ [][Next]_vars

\* The runtime schedules every goroutine, and Close runs in the main one.
FairSpec == Spec /\ WF_vars(Closing) /\ \A i \in Ifaces : WF_vars(Goroutine(i))

-----------------------------------------------------------------------------
(* Properties.                                                             *)

\* Typing, and no goroutine without a socket that was joined.
TypeOK ==
    /\ phase \in {"off", "disabled", "serving", "goodbye", "close", "wait", "closed"}
    /\ host \in Hosts
    /\ addrs \in [Ifaces -> AddrLists]
    /\ \A i \in Ifaces :
          /\ conn[i].reader \in {"reading", "replying", "gone"}
          /\ conn[i].announcer \in {"sending", "gone"}
          /\ conn[i].errs \in 0..MaxReadErrors - 1
          /\ conn[i].sent \in 0..Announcements
          /\ ~Gone(i) \/ conn[i].open => conn[i].ip # "none"
          /\ conn[i].open => conn[i].ip \notin Unroutable

\* "Advertising an address the server does not answer on is worse than not
\* advertising at all": whatever was lost, and whoever was killed or moved
\* before, a listener that was told an address by a responder started since
\* its interface last changed holds no address but one, which the interface
\* has and the server answers on.
PublishedIsServed ==
    \A i \in Ifaces :
       ~stale[i] =>
          \A ip \in Addresses(cache[i]) :
             /\ \E n \in DOMAIN addrs[i] : addrs[i][n] = ip
             /\ ip \notin Unroutable /\ host \in {"any", ip}
             /\ Addresses(cache[i]) = {ip}

\* One reply is enough to connect, "so the querier does not have to ask again":
\* who asked for the type, or for the instance's address and port, has the
\* records that lead to an address.  No record is there twice, only a query is
\* answered, and a plain resolver is told nothing it could hold for long.
AnswerSuffices ==
    \A i \in Ifaces : conn[i].reader = "replying" =>
       LET q == conn[i].reply[1]
           m == Reply(q, conn[i].ip)
           both == m.answers \cup m.additional
           has(key) == \E r \in both : Key(r) = key
           leads(key) == CASE key = <<"type", "PTR">> ->
                                  has(<<"instance", "SRV">>) /\ has(<<"host", "A">>)
                           [] key = <<"instance", "SRV">> -> has(<<"host", "A">>)
                           [] OTHER -> TRUE
       IN  /\ ~q.response
           /\ \A r \in m.answers : leads(Key(r))
           /\ \A r, s \in both : Key(r) = Key(s) => r = s
           /\ m.answers \cap m.additional = {}
           /\ \A r \in both : IF q.legacy THEN ~r.flush /\ r.ttl <= LegacyTTL
                              ELSE r.flush = (r.type # "PTR")

\* "So listeners drop us the moment the agent stops": what a goodbye that is
\* heard leaves leads nowhere.
GoodbyeForgets ==
    [][\A i \in Ifaces :
          phase = "goodbye" /\ conn'[i].bye /\ ~conn[i].bye
              => cache'[i] = cache[i] \/ Addresses(cache'[i]) = {}]_vars

\* Close returns: every loop notices that its socket is closed.
CloseEnds == phase = "goodbye" ~> phase \in {"closed", "off"}
=============================================================================
