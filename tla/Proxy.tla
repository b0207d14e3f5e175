------------------------------- MODULE Proxy --------------------------------
(***************************************************************************)
(* The proxies (svr/proxysvr: ProxyServer, ServerManager) and the servers' *)
(* connections to them (core: ProxyManager).  Every server is connected to *)
(* every proxy and has told it who it is; a message goes to one of the     *)
(* proxies, which passes it on by its connection to the addressee.  What   *)
(* cannot be sent is kept in a buffer, at either end, for the connection   *)
(* of the same two that comes next.                                        *)
(*                                                                         *)
(* TCP keeps the order of one connection and loses what is on its way when *)
(* an end closes or dies; a send to an end that is gone may still seem to  *)
(* succeed.  Left out: the bytes (a send takes all of what it is given, or *)
(* none, or a part of it, after which nothing more can be read from that   *)
(* connection), what messages say, the routes (a broadcast or a hash only  *)
(* chooses addressees), and the clock.                                     *)
(***************************************************************************)
EXTENDS Naturals, Sequences, FiniteSets

CONSTANTS Server,    \* the servers
          ProxyNum,  \* proxy_addrs_size
          Route,     \* <<a, b>>: server a sends messages to b
          BufSize,   \* messages that fill a _send_buf
          Mixes      \* bounds: messages, sends that find no room, parts sent,
                     \* registrations that come late, connections that break, deaths
                     \* of proxies and of servers, messages that find the queue full

Proxy == 1 .. ProxyNum
Kinds == {"send", "again", "part", "late", "cut", "proxy", "server", "full"}

ASSUME ServerAssumption == IsFiniteSet(Server) /\ Server # {} /\ Server \cap Proxy = {}
ASSUME RouteAssumption == Route \subseteq Server \X Server
ASSUME SizeAssumption == ProxyNum \in Nat \ {0} /\ BufSize \in Nat \ {0}
ASSUME MixAssumption == Mixes \subseteq [Kinds -> Nat]

VARIABLES left,   \* bound: how many of each may still come
          run,    \* processes that run
          link,   \* link[s][p]: their connections, oldest first
          out,    \* out[s][p]: _send_buf of server s for proxy p
          reg,    \* reg[p][s]: _servers of proxy p, and that socket's _send_buf
          sent,   \* history: number of the latest message by a route and a proxy
          got     \* history: number of the latest one that came

vars == <<left, run, link, out, reg, sent, got>>

Part == [route |-> <<>>, n |-> 0]
Fresh == [s |-> "open", p |-> "wait", cut |-> FALSE, up |-> << >>, down |-> << >>]
Stranger == [known |-> FALSE, buf |-> << >>]

Init == /\ left \in Mixes
        /\ run = Server \cup Proxy
        /\ link = [s \in Server |-> [p \in Proxy |-> <<[Fresh EXCEPT !.p = "open"]>>]]
        /\ out = [s \in Server |-> [p \in Proxy |-> << >>]]
        /\ reg = [p \in Proxy |-> [s \in Server |-> [known |-> TRUE, buf |-> << >>]]]
        /\ sent = [r \in Route |-> [p \in Proxy |-> 0]]
        /\ got = sent

(* There is a whole message to read.                                       *)
Readable(way) == way # << >> /\ Head(way) # Part

Spend(k) == left[k] > 0 /\ left' = [left EXCEPT ![k] = @ - 1]

-----------------------------------------------------------------------------
(* Sockets.  One end of a connection, as the sender at that end sees it:   *)
(* is its own end open, is the other one gone, what is on the way, what is *)
(* in the buffer, and what may still go wrong.                             *)

(* send: whether it was taken, and the socket after it.                    *)
Tries(k, items) ==
    {[taken |-> TRUE, to |-> [k EXCEPT !.way = IF k.gone THEN @ ELSE @ \o items]]}
    \cup {[taken |-> FALSE, to |-> [k EXCEPT !.open = FALSE]] : x \in {y \in {1} : k.gone}}
    \cup {[taken |-> FALSE, to |-> [k EXCEPT !.left["again"] = @ - 1]] :
            x \in {y \in {1} : k.left["again"] > 0}}
    \cup {[taken |-> TRUE, to |-> [k EXCEPT !.left["part"] = @ - 1,
                                            !.way = @ \o SubSeq(items, 1, n) \o <<Part>>]] :
            n \in {y \in 0 .. Len(items) - 1 : k.left["part"] > 0 /\ ~k.gone}}

(* Mutant: no limit.                                                       *)
ReserveAny(k, m) == [k EXCEPT !.buf = Append(@, m)]

(* A full buffer is emptied first.                                         *)
ReserveData(k, m) ==
    [k EXCEPT !.buf = IF Len(@) = BufSize THEN <<m>> ELSE Append(@, m)]

(* All of the buffer is sent, or it stays.                                 *)
SendBufData(k) ==
    IF k.buf = << >> THEN {k}
    ELSE {IF t.taken THEN [t.to EXCEPT !.buf = << >>] ELSE t.to : t \in Tries(k, k.buf)}

(* Mutants: the message goes ahead of what is in the buffer; it is not     *)
(* kept when its send fails.                                               *)
SendAhead(k, m) ==
    IF ~k.open THEN {ReserveData(k, m)}
    ELSE {IF t.taken THEN t.to ELSE ReserveData(t.to, m) : t \in Tries(k, <<m>>)}
SendOrDrop(k, m) == IF k.open THEN {t.to : t \in Tries(k, <<m>>)} ELSE {k}

(* The buffer first, then the message; what is not sent is kept.           *)
SendOneData(k, m) ==
    IF ~k.open THEN {ReserveData(k, m)}
    ELSE UNION {IF f.buf # << >> THEN {ReserveData(f, m)}
                ELSE {IF t.taken THEN t.to ELSE ReserveData(t.to, m) : t \in Tries(f, <<m>>)} :
                  f \in SendBufData(k)}

-----------------------------------------------------------------------------
(* A server's end.                                                         *)

Links(s, p) == DOMAIN link[s][p]
Newest(s, p) == Len(link[s][p])
Connected(s, p) == link[s][p][Newest(s, p)].s = "open"

(* What both ends have closed is no more: nothing comes by it or to it.    *)
Alive(l) == l.s = "open" \/ l.p # "shut"

ServerEnd(s, p) ==
    LET l == link[s][p][Newest(s, p)]
    IN  IF Connected(s, p)
        THEN [open |-> TRUE, gone |-> l.p = "shut" \/ l.cut, way |-> l.up,
              buf |-> out[s][p], left |-> left]
        ELSE [open |-> FALSE, gone |-> TRUE, way |-> << >>, buf |-> out[s][p], left |-> left]

(* DisConnect: what comes to an end that is closed is lost.                *)
ServerClosed(l) == [l EXCEPT !.s = "closed", !.down = << >>]

(* The end becomes k.                                                      *)
ServerBecomes(s, p, k) ==
    /\ left' = k.left
    /\ out' = [out EXCEPT ![s][p] = k.buf]
    /\ IF ~Connected(s, p) THEN UNCHANGED link
       ELSE LET l == [link[s][p][Newest(s, p)] EXCEPT !.up = k.way]
            IN  link' = [link EXCEPT ![s][p][Newest(s, p)] =
                            IF k.open THEN l ELSE ServerClosed(l)]

(* SendProxyData, by any of the proxies.                                   *)
Send(r, p) ==
    /\ r[1] \in run /\ left["send"] > 0
    /\ sent' = [sent EXCEPT ![r][p] = @ + 1]
    /\ LET m == [route |-> r, n |-> sent[r][p] + 1]
           e == ServerEnd(r[1], p)
       IN  \E k \in SendOneData([e EXCEPT !.left["send"] = @ - 1], m) : ServerBecomes(r[1], p, k)
    /\ UNCHANGED <<run, reg, got>>

SendProxyBuf(s, p) ==
    /\ s \in run /\ Connected(s, p) /\ out[s][p] # << >>
    /\ \E k \in SendBufData(ServerEnd(s, p)) : ServerBecomes(s, p, k)
    /\ UNCHANGED <<run, reg, sent, got>>

(* RecvData and GetProxyData: a message comes, if the queue has room.      *)
(* (FD_ISSET of a closed socket is undefined; a receive by it, which may   *)
(* follow, fails and changes nothing.)                                     *)
Deliver(s, p) ==
    /\ s \in run /\ Connected(s, p)
    /\ LET l == link[s][p][Newest(s, p)]
           m == Head(l.down)
       IN  /\ Readable(l.down)
           /\ link' = [link EXCEPT ![s][p][Newest(s, p)].down = Tail(@)]
           /\ \/ got' = [got EXCEPT ![m.route][p] = m.n] /\ UNCHANGED left
              \/ Spend("full") /\ UNCHANGED got
    /\ UNCHANGED <<run, out, reg, sent>>

(* RecvData finds that the other end is gone; what it has received with    *)
(* that, and before, is thrown away.                                       *)
RecvEnd(s, p) ==
    /\ s \in run /\ Connected(s, p)
    /\ LET l == link[s][p][Newest(s, p)]
       IN  /\ l.p = "shut" \/ l.cut
           /\ link' = [link EXCEPT ![s][p][Newest(s, p)] = ServerClosed(l)]
    /\ UNCHANGED <<left, run, out, reg, sent, got>>

(* Mutant: a server never connects again.                                  *)
NoneLost(s) == {}

(* The proxies that CheckConnect connects to: it ends at the first that    *)
(* there is a connection to, or that does not answer (the descriptor of a  *)
(* connect that fails, which stays open, is left out).                     *)
Lost(s) == {p \in Proxy : \A q \in 1 .. p : ~Connected(s, q) /\ q \in run}

(* The buffers go with the new connections; one of the sends may fail.     *)
CheckConnect(s) ==
    /\ s \in run /\ Lost(s) # {}
    /\ \E f \in Lost(s) :
         \E k \in SendBufData([open |-> TRUE, gone |-> FALSE, way |-> << >>,
                               buf |-> out[s][f], left |-> left]) :
            /\ left' = k.left
            /\ out' = [out EXCEPT ![s] = [p \in Proxy |-> IF p = f THEN k.buf
                                                          ELSE IF p \in Lost(s) THEN << >>
                                                          ELSE @[p]]]
            /\ link' = [link EXCEPT ![s] =
                          [p \in Proxy |->
                             IF p \notin Lost(s) THEN @[p]
                             ELSE Append(@[p], [Fresh EXCEPT !.up = IF p = f THEN k.way
                                                                    ELSE out[s][p]])]]
    /\ UNCHANGED <<run, reg, sent, got>>

-----------------------------------------------------------------------------
(* A proxy's end.                                                          *)

(* The connection that a server is registered with, if it is open; they    *)
(* are accepted in order.                                                  *)
OpenLinks(p, s) == {i \in Links(s, p) : link[s][p][i].p = "open"}
Waiting(p, s) == {i \in Links(s, p) : link[s][p][i].p = "wait"}

ProxyEnd(l, buf) == [open |-> TRUE, gone |-> l.s = "closed" \/ l.cut, way |-> l.down,
                     buf |-> buf, left |-> left]

(* SocketDisconn, SocketRelease.                                           *)
ProxyClosed(l) == [l EXCEPT !.p = "shut", !.up = << >>]
ProxyLink(l, k) == LET d == [l EXCEPT !.down = k.way]
                   IN  IF k.open THEN d ELSE ProxyClosed(d)

(* Slots of the pool in use: the listener's and one for every server that  *)
(* has registered, whether its connection is open or not.                  *)
UsedSlots(p) == 1 + Cardinality({s \in Server : reg[p][s].known})
SlotNum == 2 * Cardinality(Server)

Inherited(p, s) == IF reg[p][s].known THEN reg[p][s].buf ELSE << >>

(* AcceptConnect: the server's registration comes in time and there is a   *)
(* slot, or the connection is closed.  Register: the buffer goes with it,  *)
(* and the connection before is released.                                  *)
Accept(p, s) ==
    /\ p \in run
    /\ \E i \in Waiting(p, s) :
         LET l == link[s][p][i]
         IN  /\ \A h \in Waiting(p, s) : i <= h
             /\ \/ /\ l.cut \/ UsedSlots(p) = SlotNum
                   /\ link' = [link EXCEPT ![s][p][i] = ProxyClosed(l)]
                   /\ UNCHANGED <<left, reg>>
                \/ /\ Spend("late")
                   /\ link' = [link EXCEPT ![s][p][i] = ProxyClosed(l)]
                   /\ UNCHANGED reg
                \/ /\ ~l.cut /\ UsedSlots(p) < SlotNum
                   /\ \E k \in SendBufData(ProxyEnd(l, Inherited(p, s))) :
                         /\ left' = k.left
                         /\ reg' = [reg EXCEPT ![p][s] = [known |-> TRUE, buf |-> k.buf]]
                         /\ link' = [link EXCEPT ![s][p] =
                               [j \in Links(s, p) |-> IF j < i THEN ProxyClosed(@[j])
                                                      ELSE IF j = i
                                                      THEN ProxyLink([l EXCEPT !.p = "open"], k)
                                                      ELSE @[j]]]
    /\ UNCHANGED <<run, out, sent, got>>

(* RecvServerData and DoTransfer: what is for a server that has never      *)
(* registered is dropped, for one whose connection is closed it is kept.   *)
Transfer(p, s) ==
    /\ p \in run
    /\ \E i \in OpenLinks(p, s) :
         LET l  == link[s][p][i]
             m  == Head(l.up)
             d  == m.route[2]
             l1 == [link EXCEPT ![s][p][i].up = Tail(@)]
         IN  /\ Readable(l.up)
             /\ \/ /\ ~reg[p][d].known
                   /\ link' = l1 /\ UNCHANGED <<left, reg>>
                \/ /\ reg[p][d].known /\ OpenLinks(p, d) = {}
                   /\ link' = l1
                   /\ reg' = [reg EXCEPT ![p][d] = ReserveData(@, m)]
                   /\ UNCHANGED left
                \/ \E j \in OpenLinks(p, d) :
                     \E k \in SendOneData(ProxyEnd(l1[d][p][j], reg[p][d].buf), m) :
                        /\ left' = k.left
                        /\ reg' = [reg EXCEPT ![p][d].buf = k.buf]
                        /\ link' = [l1 EXCEPT ![d][p][j] = ProxyLink(@, k)]
    /\ UNCHANGED <<run, out, sent, got>>

(* RecvServerData finds the end, when it has read all there was.           *)
RecvServerEnd(p, s) ==
    /\ p \in run
    /\ \E i \in OpenLinks(p, s) :
         LET l == link[s][p][i]
         IN  /\ l.s = "closed" \/ l.cut
             /\ ~Readable(l.up)
             /\ link' = [link EXCEPT ![s][p][i] = ProxyClosed(l)]
    /\ UNCHANGED <<left, run, out, reg, sent, got>>

(* ServerManager::SendBufData.                                             *)
SendServerBuf(p, s) ==
    /\ p \in run /\ reg[p][s].buf # << >>
    /\ \E i \in OpenLinks(p, s) :
         \E k \in SendBufData(ProxyEnd(link[s][p][i], reg[p][s].buf)) :
            /\ left' = k.left
            /\ reg' = [reg EXCEPT ![p][s].buf = k.buf]
            /\ link' = [link EXCEPT ![s][p][i] = ProxyLink(@, k)]
    /\ UNCHANGED <<run, out, sent, got>>

-----------------------------------------------------------------------------
(* What goes wrong.                                                        *)

(* A connection breaks, with all that is on its way.                       *)
Cut(s, p) ==
    /\ Spend("cut")
    /\ \E i \in Links(s, p) :
          /\ Alive(link[s][p][i]) /\ ~link[s][p][i].cut
          /\ link' = [link EXCEPT ![s][p][i] = [@ EXCEPT !.cut = TRUE, !.up = << >>,
                                                        !.down = << >>]]
    /\ UNCHANGED <<run, out, reg, sent, got>>

(* A proxy dies with its buffers, and is started again.                    *)
ProxyDies(p) ==
    /\ p \in run /\ Spend("proxy")
    /\ run' = run \ {p}
    /\ reg' = [reg EXCEPT ![p] = [s \in Server |-> Stranger]]
    /\ link' = [s \in Server |-> [link[s] EXCEPT ![p] =
                  [i \in Links(s, p) |-> ProxyClosed(@[i])]]]
    /\ UNCHANGED <<out, sent, got>>

ProxyStarts(p) ==
    /\ p \in Proxy \ run
    /\ run' = run \cup {p}
    /\ UNCHANGED <<left, link, out, reg, sent, got>>

(* A server dies, and is started again: it does not run without all of the *)
(* proxies (Init).                                                         *)
ServerDies(s) ==
    /\ s \in run /\ Spend("server")
    /\ run' = run \ {s}
    /\ out' = [out EXCEPT ![s] = [p \in Proxy |-> << >>]]
    /\ link' = [link EXCEPT ![s] = [p \in Proxy |->
                  [i \in Links(s, p) |-> ServerClosed(@[p][i])]]]
    /\ UNCHANGED <<reg, sent, got>>

ServerStarts(s) ==
    /\ s \in Server \ run /\ Proxy \subseteq run
    /\ run' = run \cup {s}
    /\ link' = [link EXCEPT ![s] = [p \in Proxy |-> Append(@[p], Fresh)]]
    /\ UNCHANGED <<left, out, reg, sent, got>>

-----------------------------------------------------------------------------
Next ==
    \/ \E r \in Route, p \in Proxy : Send(r, p)
    \/ \E s \in Server, p \in Proxy :
          \/ SendProxyBuf(s, p) \/ Deliver(s, p) \/ RecvEnd(s, p)
          \/ Accept(p, s) \/ Transfer(p, s) \/ RecvServerEnd(p, s) \/ SendServerBuf(p, s)
          \/ Cut(s, p)
    \/ \E s \in Server : CheckConnect(s) \/ ServerDies(s) \/ ServerStarts(s)
    \/ \E p \in Proxy : ProxyDies(p) \/ ProxyStarts(p)

Spec == Init /\ [][Next]_vars

(* The loops of the servers and the proxies run on, and what has died is   *)
(* started again.                                                          *)
FairSpec ==
    /\ Spec
    /\ \A s \in Server, p \in Proxy :
          /\ WF_vars(SendProxyBuf(s, p)) /\ WF_vars(Deliver(s, p)) /\ WF_vars(RecvEnd(s, p))
          /\ WF_vars(Accept(p, s)) /\ WF_vars(Transfer(p, s))
          /\ WF_vars(RecvServerEnd(p, s)) /\ WF_vars(SendServerBuf(p, s))
    /\ \A s \in Server : WF_vars(CheckConnect(s)) /\ WF_vars(ServerStarts(s))
    /\ \A p \in Proxy : WF_vars(ProxyStarts(p))

-----------------------------------------------------------------------------
(* Properties.                                                             *)

Items(seq) == {seq[i] : i \in DOMAIN seq}

(* Buffers keep their limit, a proxy has at most one connection of a       *)
(* server that it reads from, and no more slots in use than it has.        *)
TypeOK ==
    /\ left \in [Kinds -> Nat] /\ run \subseteq Server \cup Proxy
    /\ \A s \in Server, p \in Proxy :
          /\ Len(out[s][p]) <= BufSize /\ Len(reg[p][s].buf) <= BufSize
          /\ Cardinality(OpenLinks(p, s)) <= 1
          /\ OpenLinks(p, s) # {} => reg[p][s].known
          /\ \A i \in Links(s, p) : i < Newest(s, p) => link[s][p][i].s = "closed"
    /\ \A p \in Proxy : UsedSlots(p) <= SlotNum

(* The messages of a route that a proxy and its connections have.          *)
Flight(r, p) ==
    LET ups   == UNION {Items(link[r[1]][p][i].up) : i \in Links(r[1], p)}
        downs == UNION {Items(link[r[2]][p][i].down) : i \in Links(r[2], p)}
        all   == Items(out[r[1]][p]) \cup ups \cup Items(reg[p][r[2]].buf) \cup downs
    IN  {m.n : m \in {x \in all : x.route = r}}

(* Whatever fails, is late, breaks, dies or is kept for later, the         *)
(* messages of a route by one proxy come once and in order: none that was  *)
(* buffered comes after a later one or once more (SendOneData, ReserveData *)
(* and Register at both ends).                                             *)
Lane == Route \X Proxy
Path == INSTANCE Channel WITH sent <- [l \in Lane |-> sent[l[1]][l[2]]],
                              flight <- [l \in Lane |-> Flight(l[1], l[2])],
                              got <- [l \in Lane |-> got[l[1]][l[2]]]
InOrder == Path!Spec

(* While nothing breaks, dies or is sent in part, every message comes,     *)
(* each by itself and not only the latest, however sends find no room at   *)
(* either end (SendBufData, SendOneData, DoTransfer); except one that lay  *)
(* in a full buffer, which ReserveData empties when one more must be kept. *)
(* A state with sent = n that is never followed by one with got = n is a   *)
(* message that was skipped.                                               *)
Quiet == \A k \in Kinds \ {"send", "again"} : left[k] = 0
Numbers == UNION {1 .. mix["send"] : mix \in Mixes}
Crowded(r, p, n) == \E buf \in {out[r[1]][p], reg[p][r[2]].buf} :
                       Len(buf) = BufSize /\ [route |-> r, n |-> n] \in Items(buf)
AllArrive ==
    Quiet => \A r \in Route, p \in Proxy, n \in Numbers :
                sent[r][p] = n ~> (got[r][p] = n \/ Crowded(r, p, n))

(* "If it is disconnected, buffer and wait for the reconnection"           *)
(* (SendOneData of ProxyManager and ServerManager): what was buffered      *)
(* does not stay so for good.                                              *)
NothingStuck ==
    <>[](\A s \in Server, p \in Proxy : out[s][p] = << >> /\ reg[p][s].buf = << >>)
=============================================================================
