------------------------------ MODULE Gateway -------------------------------
(***************************************************************************)
(* Clients' connections: a connect server (svr/connectsvr, or connectwssvr *)
(* for websockets) accepts them in a pool of slots and passes what comes   *)
(* on them through the cs pipe to a logic server (svr/lipsticksvr), which  *)
(* answers through the sc pipe.  Each is a process of one loop.  A slot    *)
(* and the time its connection was accepted, the head of every message,    *)
(* name a connection to the logic server.  When a client has logged in (a  *)
(* machine by tcp, a player by websocket), the logic server keeps an       *)
(* object of it and sends the connect server the object's id, which comes  *)
(* back in the notice that the connection was closed.                      *)
(*                                                                         *)
(* Left out: what the messages say and do beyond the login, the tokens of  *)
(* a login, how TCP cuts the bytes (a recv returns one package), the bytes *)
(* of the pipes (ShmPipe has them; here a pipe holds PipeSize messages of  *)
(* one size), and the clock but for the time a connection is accepted:     *)
(* what has been idle for long enough may be found so at any moment.       *)
(***************************************************************************)
EXTENDS ObjectPool

CONSTANTS Conn,       \* connections, 1 .. n, in the order they are made in
          Uid,        \* ids that clients log in with
          Owner,      \* Owner[c]: the id of the client of connection c
          SlotNum,    \* max_client_num, without the listener's slot
          ObjectNum,  \* max_machine_num, max_player_num
          PipeSize,   \* messages that fill a cs or an sc pipe
          QueueSize,  \* messages that fill _pmsg_pipe
          BufSize,    \* packages that fill RECV_BUF_LEN
          Mixes       \* kind of connect server, and bounds: connections, packages,
                      \* restarts of each server

ASSUME ConnAssumption == Conn \subseteq Nat \ {0} /\ Owner \in [Conn -> Uid]
ASSUME SizeAssumption ==
    /\ SlotNum \in Nat /\ ObjectNum \in Nat
    /\ {PipeSize, QueueSize, BufSize} \subseteq Nat

Kind == {"tcp", "ws"}
Budget == [conn : Nat, send : Nat, connect : Nat, logic : Nat]

ASSUME MixAssumption == Mixes \subseteq Kind \X Budget

VARIABLES kind,     \* the kind of the connect server
          left,     \* bound: how many of each may still come
          link,     \* the client's end of a connection
          wire,     \* packages sent on a connection and not received
          now,      \* the clock, in milliseconds
          sock,     \* stCliSocket of every slot
          free,     \* _free_list
          cs, sc,   \* the pipes, oldest message first
          queue,    \* _pmsg_pipe
          pool,     \* MachineManager, PlayerManager
          object,   \* what the pool's slots hold: the connection of an object
          given,    \* history: the head of a connection that was accepted
          unheard,  \* history: closed without a notice
          late,     \* history: closed before a login of it was handled
          astray    \* history: <<c, d>>, what was for c had its effect on d

client == <<link, wire>>
conns == <<now, sock, free, given, unheard>>
logic == <<queue, pool, object, late>>
vars == <<kind, left, client, conns, cs, sc, logic, astray>>

Slot == 0 .. SlotNum - 1
NoHead == [pos |-> 0, born |-> 0]
Socket(c, t) == [conn |-> c, born |-> t, index |-> FALSE, shaken |-> FALSE, buf |-> << >>]
Unused == Socket(0, 0)

Init == /\ \E m \in Mixes : kind = m[1] /\ left = m[2]
        /\ link = [c \in Conn |-> "new"]
        /\ wire = [c \in Conn |-> << >>]
        /\ now = 1
        /\ sock = [s \in Slot |-> Unused]
        /\ free = [i \in 1 .. SlotNum |-> i - 1]
        /\ cs = << >> /\ sc = << >> /\ queue = << >>
        /\ pool = NewPool(ObjectNum)
        /\ object = [i \in 0 .. ObjectNum - 1 |-> 0]
        /\ given = [c \in Conn |-> NoHead]
        /\ unheard = {} /\ late = {} /\ astray = {}

Spend(k) == left[k] > 0 /\ left' = [left EXCEPT ![k] = @ - 1]

(* Mutant: one message too many.                                           *)
AlmostRoom(pipe) == Len(pipe) <= PipeSize

HasRoom(pipe) == Len(pipe) < PipeSize

(* AppendOneData, its result ignored.                                      *)
Put(pipe, m) == IF HasRoom(pipe) THEN Append(pipe, m) ELSE pipe

(* conn is there for the properties; the servers know it by its head.      *)
Msg(k, c) == [k |-> k, conn |-> c, head |-> given[c]]
Alive(c) == \E s \in Slot : sock[s].conn = c

-----------------------------------------------------------------------------
(* The connect server's clients.                                           *)

(* AcceptConnect.  The clock may not have moved since the latest one.      *)
(* (A socket that fcntl or EpollAdd refuses is left out.)                  *)
Connect(c) ==
    /\ link[c] = "new" /\ \A d \in Conn : d < c => link[d] # "new"
    /\ Spend("conn")
    /\ IF free = << >>
       THEN link' = [link EXCEPT ![c] = "gone"] /\ UNCHANGED <<wire, conns>>
       ELSE \E t \in {now, now + 1} :
              /\ now' = t
              /\ sock' = [sock EXCEPT ![Head(free)] = Socket(c, t)]
              /\ given' = [given EXCEPT ![c] = [pos |-> Head(free), born |-> t]]
              /\ free' = Tail(free)
              /\ link' = [link EXCEPT ![c] = "open"]
              /\ wire' = [wire EXCEPT ![c] = IF kind = "ws" THEN <<"hello">> ELSE << >>]
              /\ UNCHANGED unheard
    /\ UNCHANGED <<kind, cs, sc, logic, astray>>

(* A login, or another message; a long one on a websocket has its length   *)
(* in the frame's third and fourth byte.                                   *)
ClientSend(c) ==
    /\ link[c] = "open"
    /\ Spend("send")
    /\ \E k \in {"login", "play"} \cup (IF kind = "ws" THEN {"long"} ELSE {}) :
          wire' = [wire EXCEPT ![c] = Append(@, k)]
    /\ UNCHANGED <<kind, link, conns, cs, sc, logic, astray>>

(* The client closes, or it dies and what it sent is lost.                 *)
ClientClose(c) ==
    /\ link[c] = "open"
    /\ link' = [link EXCEPT ![c] = "shut"]
    /\ wire' \in {wire, [wire EXCEPT ![c] = << >>]}
    /\ UNCHANGED <<kind, left, conns, cs, sc, logic, astray>>

-----------------------------------------------------------------------------
(* The connect server.                                                     *)

(* Mutants: a notice that names no connection; a slot is kept.             *)
Nameless(c) == [Msg("gone", c) EXCEPT !.head = NoHead]
Keep(s) == free

(* NotifyLogicDiscon takes the head that the latest packages left in front *)
(* of the receive buffer.  A websocket's frame puts it further on, and     *)
(* what is in front of the buffer names no connection.                     *)
Notice(c) == [Msg("gone", c) EXCEPT !.head = IF kind = "ws" THEN NoHead ELSE @]

GiveBack(s) == Append(free, s)

(* SocketRelease, of a slot in use; the cs pipe holds the messages pipe.   *)
SocketRelease(s, notify, pipe) ==
    LET c == sock[s].conn
        tell == notify /\ sock[s].index /\ HasRoom(pipe)
    IN  /\ sock' = [sock EXCEPT ![s] = Unused]
        /\ free' = GiveBack(s)
        /\ cs' = IF tell THEN Append(pipe, Notice(c)) ELSE pipe
        /\ unheard' = IF tell THEN unheard ELSE unheard \cup {c}
        /\ link' = [link EXCEPT ![c] = "gone"]
        /\ wire' = [wire EXCEPT ![c] = << >>]
        /\ UNCHANGED <<now, given>>

(* How many of the packages in buf can be passed on: those in front of one *)
(* that is long or spoilt, and no more than the pipe has room for.         *)
Passable(buf) ==
    {n \in 0 .. Len(buf) : /\ Len(cs) + n <= PipeSize
                           /\ \A i \in 1 .. n : buf[i] \notin {"long", "spoilt"}}

(* What stays in the buffer.  A websocket's frame is unmasked, and the     *)
(* message's head written over its first bytes, before the pipe is asked   *)
(* for room: there is no second attempt at it.                             *)
Kept(buf, n) ==
    LET rest == SubSeq(buf, n + 1, Len(buf))
    IN  IF kind = "ws" /\ rest # << >> /\ rest[1] # "long" THEN <<"spoilt">> \o Tail(rest)
        ELSE rest

(* RecvClientData with a package: all are passed on that can be.           *)
Recv(s) ==
    LET c   == sock[s].conn
        buf == Append(sock[s].buf, Head(wire[c]))
    IN  \E n \in Passable(buf) :
          LET all == cs \o [i \in 1 .. n |-> Msg(buf[i], c)]
          IN  /\ \A m \in Passable(buf) : m <= n
              /\ IF n < Len(buf) /\ buf[n + 1] = "spoilt"
                 THEN SocketRelease(s, TRUE, all)
                 ELSE /\ cs' = all
                      /\ sock' = [sock EXCEPT ![s].buf = Kept(buf, n)]
                      /\ wire' = [wire EXCEPT ![c] = Tail(@)]
                      /\ UNCHANGED <<link, now, free, given, unheard>>

(* The websocket's handshake; the client may not live to get the answer.   *)
(* (One whose answer finds no room until the retries are used up, and is   *)
(* then done once more with the next bytes, is left out.)                  *)
Handshake(s) ==
    LET c == sock[s].conn
    IN  \/ /\ sock' = [sock EXCEPT ![s].shaken = TRUE]
           /\ wire' = [wire EXCEPT ![c] = Tail(@)]
           /\ UNCHANGED <<link, cs, now, free, given, unheard>>
        \/ link[c] = "shut" /\ SocketRelease(s, TRUE, cs)

(* A slot is ready to be read when there is something to receive, or the   *)
(* end; with the receive buffer full nothing is, not even the end.         *)
Receive(s) ==
    LET c == sock[s].conn
    IN  /\ c # 0 /\ Len(sock[s].buf) < BufSize
        /\ \/ wire[c] # << >> /\ kind = "ws" /\ ~sock[s].shaken /\ Handshake(s)
           \/ wire[c] # << >> /\ (kind = "tcp" \/ sock[s].shaken) /\ Recv(s)
           \/ wire[c] = << >> /\ link[c] = "shut" /\ SocketRelease(s, TRUE, cs)
        /\ UNCHANGED <<kind, left, sc, logic, astray>>

(* Mutant: only clients that have not logged in are looked at.             *)
NewOnly(s) == sock[s].conn # 0 /\ ~sock[s].index

Idle(s) == sock[s].conn # 0

(* OnRoutineCheck: a client that has not logged in in time, or has long    *)
(* had no message, is cut off.                                             *)
CutOff(s) ==
    /\ Idle(s)
    /\ SocketRelease(s, sock[s].index, cs)
    /\ UNCHANGED <<kind, left, sc, logic, astray>>

(* Mutant: the slot alone names the connection.                            *)
SameSlot(m) == sock[m.head.pos].conn # 0

SameConn(m) == sock[m.head.pos].born = m.head.born

(* SendClientData: what is for a connection that is there goes to its      *)
(* client, unless its send buffer has no room until the retries are used   *)
(* up, or the client is gone.                                              *)
SendClientData ==
    /\ sc # << >>
    /\ sc' = Tail(sc)
    /\ LET m == Head(sc)
           s == m.head.pos
       IN  IF ~SameConn(m)
           THEN UNCHANGED <<client, conns, cs, astray>>
           ELSE /\ astray' = IF sock[s].conn = m.conn THEN astray
                             ELSE astray \cup {<<m.conn, sock[s].conn>>}
                /\ \/ /\ m.k = "index"
                      /\ sock' = [sock EXCEPT ![s].index = TRUE]
                      /\ UNCHANGED <<client, cs, now, free, given, unheard>>
                   \/ m.k = "kick" /\ SocketRelease(s, FALSE, cs)
                   \/ m.k # "index" /\ UNCHANGED <<client, cs, conns>>
                   \/ m.k # "index" /\ link[sock[s].conn] = "shut" /\ SocketRelease(s, TRUE, cs)
    /\ UNCHANGED <<kind, left, logic>>

(* The connect server ends and is started again: its connections are gone, *)
(* what is in the pipes stays.                                             *)
RestartConnect ==
    /\ Spend("connect")
    /\ sock' = [s \in Slot |-> Unused]
    /\ free' = [i \in 1 .. SlotNum |-> i - 1]
    /\ link' = [c \in Conn |-> IF link[c] = "new" THEN "new" ELSE "gone"]
    /\ wire' = [c \in Conn |-> << >>]
    /\ unheard' = unheard \cup {c \in Conn : Alive(c)}
    /\ UNCHANGED <<kind, now, given, cs, sc, logic, astray>>
-----------------------------------------------------------------------------
(* The logic server.                                                       *)

Online(u) == u \in Ids(pool)
ConnOf(u) == object[pool.index[u]]

SameHead(m) == Online(Owner[m.conn]) /\ given[ConnOf(Owner[m.conn])] = m.head

(* GetClientMessage: a message goes to the queue, or is lost if that is    *)
(* full.  A notice is acted upon at once (OnClientOffline).                *)
Fetch ==
    /\ cs # << >>
    /\ cs' = Tail(cs)
    /\ LET m == Head(cs)
           u == Owner[m.conn]
       IN  IF m.k # "gone"
           THEN /\ queue' = IF Len(queue) < QueueSize THEN Append(queue, m) ELSE queue
                /\ UNCHANGED <<pool, astray>>
           ELSE /\ pool' = IF SameHead(m) THEN Release(pool, u) ELSE pool
                /\ astray' = IF SameHead(m) /\ ConnOf(u) # m.conn
                             THEN astray \cup {<<m.conn, ConnOf(u)>>} ELSE astray
                /\ UNCHANGED queue
    /\ UNCHANGED <<kind, left, client, conns, sc, object, late>>

(* Message::LogoutMachine on a login from another connection.              *)
LoggedOut(u) == IF Online(u) THEN Release(pool, u) ELSE pool

(* Mutant: an object is made whether or not the connect server can be told.*)
Regardless(pipe) == TRUE

CanNotify(pipe) == HasRoom(pipe)

(* Message::OnMachineLogin and OnPlayerLogin; the answer is sent at once.  *)
Login(c) ==
    LET u   == Owner[c]
        sc1 == IF Online(u) THEN Put(sc, Msg("kick", ConnOf(u))) ELSE sc
        sc2 == Put(sc1, Msg("index", c))
        p   == LoggedOut(u)
    IN  /\ IF Online(u) /\ given[ConnOf(u)] = given[c]
           THEN sc' = Put(sc, Msg("reply", c)) /\ UNCHANGED <<pool, object>>
           ELSE \/ /\ ~CanNotify(sc1)
                   /\ sc' = sc1 /\ pool' = p
                   /\ UNCHANGED object
                \/ /\ CanNotify(sc1) /\ IsFull(p)
                   /\ sc' = Put(sc2, Msg("kick", c)) /\ pool' = p
                   /\ UNCHANGED object
                \/ /\ CanNotify(sc1) /\ ~IsFull(p)
                   /\ pool' = Create(p, u)
                   /\ object' = [object EXCEPT ![Head(p.free)] = c]
                   /\ sc' = Put(sc2, Msg("reply", c))
        /\ late' = IF Alive(c) THEN late ELSE late \cup {c}

(* OnLoginCheck: a message from another connection than the object's is    *)
(* refused and its connection closed (SendCommonErr).                      *)
Play(c) ==
    /\ sc' = Put(sc, IF Online(Owner[c]) /\ given[ConnOf(Owner[c])] = given[c]
                     THEN Msg("reply", c) ELSE Msg("kick", c))
    /\ UNCHANGED <<pool, object, late>>

(* DispatchMessage and MessageFilter.                                      *)
Dispatch ==
    /\ queue # << >>
    /\ queue' = Tail(queue)
    /\ LET m == Head(queue)
       IN  IF m.k = "login" THEN Login(m.conn) ELSE Play(m.conn)
    /\ UNCHANGED <<kind, left, client, conns, cs, astray>>

(* OnRoutineCheck: a client that has not been heard of for long.           *)
HeartBeat(u) ==
    /\ Online(u)
    /\ sc' = Put(sc, Msg("kick", ConnOf(u)))
    /\ pool' = Release(pool, u)
    /\ UNCHANGED <<kind, left, client, conns, cs, queue, object, late, astray>>

(* The logic server is stopped and started again: its objects pass over in *)
(* shared memory, the queue and the pipes stay.                            *)
RestartLogic ==
    /\ Spend("logic")
    /\ \E f \in Orders(pool) :
          /\ pool' = Restored(pool, ObjectNum, f)
          /\ object' = [i \in DOMAIN object |->
                          IF \E j \in pool.used : f[j] = i
                          THEN object[CHOOSE j \in pool.used : f[j] = i] ELSE 0]
    /\ UNCHANGED <<kind, client, conns, cs, sc, queue, late, astray>>

-----------------------------------------------------------------------------
Next ==
    \/ \E c \in Conn : Connect(c) \/ ClientSend(c) \/ ClientClose(c)
    \/ \E s \in Slot : Receive(s) \/ CutOff(s)
    \/ SendClientData
    \/ RestartConnect
    \/ Fetch
    \/ Dispatch
    \/ \E u \in Uid : HeartBeat(u)
    \/ RestartLogic

Spec == Init /\ [][Next]_vars

(* Both loops run on, and what is idle is found to be so in the end.       *)
FairSpec == /\ Spec
            /\ WF_vars(SendClientData) /\ WF_vars(Fetch) /\ WF_vars(Dispatch)
            /\ \A s \in Slot : WF_vars(Receive(s)) /\ WF_vars(CutOff(s))
            /\ \A u \in Uid : WF_vars(HeartBeat(u))

-----------------------------------------------------------------------------
(* Properties.                                                             *)

(* The variables have their types, pipes and buffers keep their limits,    *)
(* and a slot's connection has that slot's head.                           *)
TypeOK ==
    /\ kind \in Kind /\ left \in Budget
    /\ link \in [Conn -> {"new", "open", "shut", "gone"}]
    /\ now \in Nat
    /\ given \in [Conn -> [pos : Slot \cup {0}, born : Nat]]
    /\ \A s \in Slot : /\ sock[s].conn \in Conn \cup {0}
                       /\ Len(sock[s].buf) <= BufSize
                       /\ sock[s].conn # 0 => given[sock[s].conn] = [pos |-> s, born |-> sock[s].born]
    /\ Len(cs) <= PipeSize /\ Len(sc) <= PipeSize /\ Len(queue) <= QueueSize
    /\ object \in [0 .. ObjectNum - 1 -> Conn \cup {0}]

(* However connections close (by the client, a failed send, a kick, the    *)
(* routine check, the restart of a server), every slot of the connect      *)
(* server is in use or in the free list once, and every slot of the pool   *)
(* of objects is free or some client's alone (SocketRelease, Malloc, Free, *)
(* and the logout before a second login in OnMachineLogin).                *)
SlotsKept ==
    /\ Distinct(free)
    /\ Listed(free) = {s \in Slot : sock[s].conn = 0}
PoolKept == Sound(pool, ObjectNum)

(* What is for a connection has its effect on no other, in whichever order *)
(* slots are used again and clients log in again: an answer or a kick      *)
(* comes to no other client, and no notice logs a client out that is there *)
(* by a later connection ("reuse socket", SendClientData;                  *)
(* OnClientOffline) -- but for two connections that had one slot in one    *)
(* millisecond.                                                            *)
RightOne == \A p \in astray : given[p[1]] = given[p[2]]

(* The connection of an object that is online is there and knows, or will  *)
(* know, the object's id (NotifyConnectLogicIndex before CreateMachine).   *)
Indexed ==
    \A u \in Ids(pool) : LET c == ConnOf(u)
                         IN  Alive(c) => \/ \E s \in Slot : sock[s].conn = c /\ sock[s].index
                                         \/ Msg("index", c) \in {sc[i] : i \in DOMAIN sc}

(* "conn_msg_client_discon: conn tells logic of a disconnection"           *)
(* (net_head.h): a client that is online on a connection that is gone is   *)
(* about to be logged out by a notice, but if the connection was closed    *)
(* before its index came to the connect server, by the logic server's own  *)
(* command or the connect server's restart, while the pipe was full, or    *)
(* before the login was handled.                                           *)
Told ==
    \A u \in Ids(pool) : LET c == ConnOf(u)
                         IN  \/ Alive(c) \/ c \in unheard \cup late
                             \/ \E i \in DOMAIN cs : cs[i].k = "gone" /\ cs[i].head = given[c]
ToldTcp == kind = "tcp" => Told

(* When no client comes any more, every slot and every object is free in   *)
(* the end, whatever notices and kicks were lost and although a client     *)
(* whose receive buffer is full is never read again (OnRoutineCheck of     *)
(* both servers).  This depends on heart_beat_check being switched on in   *)
(* the connect server's configuration: CutOff is fair.                     *)
ComesToRest == <>[](Len(free) = SlotNum /\ Ids(pool) = {})
=============================================================================
