--------------------------- MODULE GatewayProofs ----------------------------
(***************************************************************************)
(* The connect server and the logic server for any number of connections,  *)
(* clients, slots and objects, any size of the pipes and the queue, and    *)
(* any bounds: slots and objects are neither lost nor shared, and what is  *)
(* for a connection reaches no other.                                      *)
(***************************************************************************)
EXTENDS Gateway, SequenceTheorems, FiniteSetTheorems, TLAPS

-----------------------------------------------------------------------------
(* Lists.                                                                  *)

(* The first slot of a list is taken from it.                              *)
LEMMA TailOf ==
    ASSUME NEW S, NEW s \in Seq(S), s # << >>
    PROVE  /\ Tail(s) \in Seq(S) /\ Head(s) \in S /\ Head(s) \in Listed(s)
           /\ Len(s) \in Nat /\ Len(Tail(s)) = Len(s) - 1
           /\ Listed(Tail(s)) \subseteq Listed(s)
           /\ Listed(s) = {Head(s)} \cup Listed(Tail(s))
           /\ Distinct(s) => Distinct(Tail(s)) /\ Head(s) \notin Listed(Tail(s))
<1> DEFINE n == Len(s)
<1>1. /\ n \in Nat /\ n > 0 /\ DOMAIN s = 1 .. n
      /\ Head(s) = s[1] /\ Head(s) \in S /\ Tail(s) \in Seq(S)
      /\ Len(Tail(s)) = n - 1 /\ DOMAIN Tail(s) = 1 .. n - 1
      /\ \A i \in 1 .. n - 1 : Tail(s)[i] = s[i + 1]
  BY HeadTailProperties, LenProperties, EmptySeq
<1> HIDE DEF n
<1>2. Head(s) \in Listed(s)
  BY <1>1 DEF Listed
<1>3. Listed(Tail(s)) \subseteq Listed(s)
  <2>1. ASSUME NEW i \in 1 .. n - 1 PROVE Tail(s)[i] \in Listed(s)
    <3>1. i + 1 \in DOMAIN s /\ Tail(s)[i] = s[i + 1]
      BY <1>1
    <3> QED BY <3>1 DEF Listed
  <2> QED BY <2>1, <1>1 DEF Listed
<1>4. ASSUME NEW i \in DOMAIN s, i # 1 PROVE s[i] \in Listed(Tail(s))
  <2>1. i - 1 \in DOMAIN Tail(s) /\ s[i] = Tail(s)[i - 1]
    BY <1>1, <1>4
  <2> QED BY <2>1 DEF Listed
<1>5. Listed(s) = {Head(s)} \cup Listed(Tail(s))
  BY <1>1, <1>2, <1>3, <1>4 DEF Listed
<1>6. ASSUME Distinct(s) PROVE Distinct(Tail(s)) /\ Head(s) \notin Listed(Tail(s))
  <2>1. ASSUME NEW i \in 1 .. n - 1, NEW j \in 1 .. n - 1, Tail(s)[i] = Tail(s)[j]
        PROVE  i = j
    <3>1. i + 1 \in DOMAIN s /\ j + 1 \in DOMAIN s /\ s[i + 1] = s[j + 1]
      BY <1>1, <2>1
    <3>2. i + 1 = j + 1
      BY <3>1, <1>6 DEF Distinct
    <3> QED BY <3>2
  <2>2. ASSUME NEW i \in 1 .. n - 1 PROVE Tail(s)[i] # Head(s)
    <3>1. i + 1 \in DOMAIN s /\ 1 \in DOMAIN s /\ i + 1 # 1 /\ Tail(s)[i] = s[i + 1]
      BY <1>1
    <3> QED BY <3>1, <1>1, <1>6 DEF Distinct
  <2> QED BY <2>1, <2>2, <1>1 DEF Distinct, Listed
<1> QED BY <1>1, <1>2, <1>3, <1>5, <1>6 DEF n

(* A slot is put last in a list that does not have it.                     *)
LEMMA AppendTo ==
    ASSUME NEW S, NEW s \in Seq(S), NEW x \in S
    PROVE  /\ Append(s, x) \in Seq(S)
           /\ Len(s) \in Nat /\ Len(Append(s, x)) = Len(s) + 1
           /\ Listed(Append(s, x)) = Listed(s) \cup {x}
           /\ Distinct(s) /\ x \notin Listed(s) => Distinct(Append(s, x))
<1> DEFINE n == Len(s)
           t == Append(s, x)
<1>1. /\ n \in Nat /\ DOMAIN s = 1 .. n /\ t \in Seq(S) /\ Len(t) = n + 1
      /\ DOMAIN t = 1 .. n + 1 /\ t[n + 1] = x /\ \A i \in 1 .. n : t[i] = s[i]
  BY AppendProperties, LenProperties
<1> HIDE DEF n, t
<1>2. \A i \in 1 .. n + 1 : i \in 1 .. n \/ i = n + 1
  BY <1>1
<1>3. 1 .. n \subseteq 1 .. n + 1 /\ n + 1 \in 1 .. n + 1
  BY <1>1
<1>4. Listed(t) = Listed(s) \cup {x}
  BY <1>1, <1>2, <1>3 DEF Listed
<1>5. Distinct(s) /\ x \notin Listed(s) => Distinct(t)
  BY <1>1, <1>2 DEF Distinct, Listed
<1> QED BY <1>1, <1>4, <1>5 DEF n, t

(* Two lists one after the other.                                          *)
LEMMA ConcatOf ==
    ASSUME NEW S, NEW s \in Seq(S), NEW t \in Seq(S)
    PROVE  /\ s \o t \in Seq(S)
           /\ Len(s \o t) = Len(s) + Len(t)
           /\ Listed(s \o t) = Listed(s) \cup Listed(t)
<1> DEFINE m == Len(s)
           n == Len(t)
           u == s \o t
<1>1. /\ m \in Nat /\ n \in Nat /\ DOMAIN s = 1 .. m /\ DOMAIN t = 1 .. n
      /\ u \in Seq(S) /\ Len(u) = m + n /\ DOMAIN u = 1 .. m + n
      /\ \A i \in 1 .. m + n : u[i] = IF i <= m THEN s[i] ELSE t[i - m]
  BY ConcatProperties, LenProperties
<1> HIDE DEF m, n, u
<1>2. ASSUME NEW i \in 1 .. m PROVE i \in DOMAIN u /\ u[i] = s[i]
  BY <1>1
<1>3. ASSUME NEW i \in 1 .. n PROVE i + m \in DOMAIN u /\ u[i + m] = t[i]
  BY <1>1
<1>4. ASSUME NEW i \in 1 .. m + n
      PROVE  (i \in 1 .. m /\ u[i] = s[i]) \/ (i - m \in 1 .. n /\ u[i] = t[i - m])
  BY <1>1
<1>5. Listed(u) \subseteq Listed(s) \cup Listed(t)
  BY <1>1, <1>4 DEF Listed
<1>6. ASSUME NEW i \in 1 .. m PROVE s[i] \in Listed(u)
  BY <1>2 DEF Listed
<1>7. ASSUME NEW i \in 1 .. n PROVE t[i] \in Listed(u)
  BY <1>3 DEF Listed
<1>8. Listed(s) \subseteq Listed(u) /\ Listed(t) \subseteq Listed(u)
  BY <1>1, <1>6, <1>7 DEF Listed
<1> QED BY <1>1, <1>5, <1>8 DEF m, n, u

(* The list of all the slots from n on.                                    *)
LEMMA SlotsFrom ==
    ASSUME NEW size \in Nat, NEW n \in 0 .. size
    PROVE  LET s == [i \in 1 .. size - n |-> n + i - 1]
           IN  /\ s \in Seq(0 .. size - 1)
               /\ Distinct(s) /\ Listed(s) = n .. size - 1
<1> DEFINE s == [i \in 1 .. size - n |-> n + i - 1]
<1>1. size - n \in Nat
  OBVIOUS
<1>2. \A i \in 1 .. size - n : s[i] = n + i - 1 /\ s[i] \in n .. size - 1
  OBVIOUS
<1>3. s \in Seq(0 .. size - 1)
  <2>1. s \in [1 .. size - n -> 0 .. size - 1]
    BY <1>2
  <2> QED BY <2>1, <1>1, SeqDef
<1>4. Distinct(s)
  BY <1>2 DEF Distinct
<1>5. ASSUME NEW x \in n .. size - 1 PROVE x \in Listed(s)
  <2>1. x - n + 1 \in DOMAIN s /\ s[x - n + 1] = x
    OBVIOUS
  <2> QED BY <2>1 DEF Listed
<1>6. Listed(s) = n .. size - 1
  BY <1>2, <1>5 DEF Listed
<1> QED BY <1>3, <1>4, <1>6

LEMMA AllSlots ==
    ASSUME NEW size \in Nat
    PROVE  LET s == [i \in 1 .. size |-> i - 1]
           IN  s \in Seq(0 .. size - 1) /\ Distinct(s) /\ Listed(s) = 0 .. size - 1
<1>1. 0 \in 0 .. size /\ size - 0 = size /\ \A i \in 1 .. size : 0 + i - 1 = i - 1
  OBVIOUS
<1> DEFINE s == [i \in 1 .. size |-> i - 1]
<1>2. s = [i \in 1 .. size - 0 |-> 0 + i - 1]
  BY <1>1
<1> QED BY <1>1, <1>2, SlotsFrom

-----------------------------------------------------------------------------
(* Pools.                                                                  *)

LEMMA NewSound ==
    ASSUME NEW size \in Nat
    PROVE  Sound(NewPool(size), size) /\ NewPool(size).free \in Seq(0 .. size - 1)
<1> DEFINE s == [i \in 1 .. size |-> i - 1]
<1>3. s \in Seq(0 .. size - 1) /\ Distinct(s) /\ Listed(s) = 0 .. size - 1
  BY AllSlots
<1>4. Distinct(<< >>) /\ Listed(<< >>) = {}
  BY DEF Distinct, Listed
<1> QED BY <1>3, <1>4 DEF Sound, NewPool

LEMMA CreateSound ==
    ASSUME NEW size \in Nat, NEW p, Sound(p, size), p.free \in Seq(0 .. size - 1),
           ~IsFull(p), NEW id, id \notin Ids(p)
    PROVE  /\ Sound(Create(p, id), size) /\ Create(p, id).free \in Seq(0 .. size - 1)
           /\ Head(p.free) \in 0 .. size - 1
           /\ Ids(Create(p, id)) = Ids(p) \cup {id}
           /\ Create(p, id).index[id] = Head(p.free)
           /\ \A u \in Ids(p) : /\ Create(p, id).index[u] = p.index[u]
                                /\ p.index[u] # Head(p.free)
<1> DEFINE q == Create(p, id)
           h == Head(p.free)
<1>1. /\ Tail(p.free) \in Seq(0 .. size - 1) /\ h \in 0 .. size - 1 /\ h \in Listed(p.free)
      /\ Listed(p.free) = {h} \cup Listed(Tail(p.free))
      /\ Distinct(Tail(p.free)) /\ h \notin Listed(Tail(p.free))
  <2> DEFINE S == 0 .. size - 1
             f == p.free
  <2>1. f \in Seq(S) /\ f # << >> /\ Distinct(f)
    BY DEF Sound, IsFull
  <2> HIDE DEF S, f
  <2>2. /\ Tail(f) \in Seq(S) /\ Head(f) \in S /\ Head(f) \in Listed(f)
        /\ Listed(f) = {Head(f)} \cup Listed(Tail(f))
        /\ Distinct(Tail(f)) /\ Head(f) \notin Listed(Tail(f))
    BY <2>1, TailOf
  <2> QED BY <2>2 DEF S, f
<1>2. /\ q.free = Tail(p.free) /\ q.used = p.used \cup {h}
      /\ DOMAIN q.index = DOMAIN p.index \cup {id} /\ q.index[id] = h
      /\ \A u \in DOMAIN p.index : q.index[u] = p.index[u]
  BY DEF Create, Ids
<1> HIDE DEF q, h
<1>3. \A u \in DOMAIN p.index : p.index[u] \in p.used
  BY DEF Sound, Listed
<1>4. h \notin p.used
  BY <1>1 DEF Sound
<1>5. Listed(q.index) = q.used
  BY <1>2 DEF Sound, Listed
<1>6. Distinct(q.index)
  BY <1>2, <1>3, <1>4 DEF Sound, Distinct
<1>7. Listed(q.free) \cap q.used = {} /\ Listed(q.free) \cup q.used = 0 .. size - 1
  BY <1>1, <1>2, <1>4 DEF Sound
<1>8. Sound(q, size)
  BY <1>1, <1>2, <1>5, <1>6, <1>7 DEF Sound
<1> QED BY <1>1, <1>2, <1>3, <1>4, <1>8 DEF q, h, Ids

LEMMA ReleaseSound ==
    ASSUME NEW size \in Nat, NEW p, Sound(p, size), p.free \in Seq(0 .. size - 1),
           NEW id \in Ids(p)
    PROVE  /\ Sound(Release(p, id), size) /\ Release(p, id).free \in Seq(0 .. size - 1)
           /\ Ids(Release(p, id)) = Ids(p) \ {id}
           /\ \A u \in Ids(p) \ {id} : Release(p, id).index[u] = p.index[u]
<1> DEFINE q == Release(p, id)
           h == p.index[id]
<1>1. h \in p.used /\ h \in 0 .. size - 1 /\ h \notin Listed(p.free)
  BY DEF Sound, Listed, Ids
<1>2. /\ Append(p.free, h) \in Seq(0 .. size - 1) /\ Distinct(Append(p.free, h))
      /\ Listed(Append(p.free, h)) = Listed(p.free) \cup {h}
  BY <1>1, AppendTo DEF Sound
<1>3. /\ q.free = Append(p.free, h) /\ q.used = p.used \ {h}
      /\ DOMAIN q.index = DOMAIN p.index \ {id}
      /\ \A u \in DOMAIN p.index \ {id} : q.index[u] = p.index[u]
  BY DEF Release, Ids
<1>4. Distinct(q.index)
  BY <1>3 DEF Sound, Distinct
<1>5. \A u \in DOMAIN p.index \ {id} : p.index[u] # h
  BY DEF Sound, Distinct, Ids
<1>6. Listed(q.index) = q.used
  BY <1>3, <1>5 DEF Sound, Listed
<1>7. Listed(q.free) \cap q.used = {} /\ Listed(q.free) \cup q.used = 0 .. size - 1
  BY <1>1, <1>2, <1>3 DEF Sound
<1>8. Sound(q, size)
  BY <1>2, <1>3, <1>4, <1>6, <1>7 DEF Sound
<1> QED BY <1>2, <1>3, <1>8 DEF Ids

(* The objects that come over a restart find room, keep their order's      *)
(* slots apart and leave the others free.                                  *)
LEMMA RestoredSound ==
    ASSUME NEW size \in Nat, NEW p, Sound(p, size), NEW f \in Orders(p)
    PROVE  /\ Sound(Restored(p, size, f), size)
           /\ Restored(p, size, f).free \in Seq(0 .. size - 1)
           /\ Ids(Restored(p, size, f)) = Ids(p)
           /\ \A u \in Ids(p) : /\ p.index[u] \in p.used
                                /\ Restored(p, size, f).index[u] = f[p.index[u]]
                                /\ f[p.index[u]] \in 0 .. size - 1
           /\ \A i, j \in p.used : f[i] = f[j] => i = j
<1> DEFINE n == Cardinality(p.used)
           q == Restored(p, size, f)
           s == [i \in 1 .. size - n |-> n + i - 1]
<1>1. n \in 0 .. size
  <2>1. IsFiniteSet(0 .. size - 1) /\ Cardinality(0 .. size - 1) = size
    BY FS_Interval
  <2>2. p.used \subseteq 0 .. size - 1
    BY DEF Sound
  <2>3. IsFiniteSet(p.used) /\ n <= size
    BY <2>1, <2>2, FS_Subset
  <2> QED BY <2>3, FS_CardinalityType
<1>2. /\ f \in [p.used -> 0 .. n - 1] /\ Distinct(f) /\ Listed(f) = 0 .. n - 1
  BY DEF Orders
<1>3. /\ q.free = s /\ q.used = 0 .. n - 1 /\ DOMAIN q.index = DOMAIN p.index
      /\ \A u \in DOMAIN p.index : q.index[u] = f[p.index[u]]
  BY DEF Restored, Ids
<1> HIDE DEF n, q
<1>4. s \in Seq(0 .. size - 1) /\ Distinct(s) /\ Listed(s) = n .. size - 1
  BY <1>1, SlotsFrom
<1>5. 0 .. n - 1 \subseteq 0 .. size - 1
  BY <1>1
<1> HIDE DEF s
<1>7. (n .. size - 1) \cap (0 .. n - 1) = {} /\ (n .. size - 1) \cup (0 .. n - 1) = 0 .. size - 1
  BY <1>1
<1>8. \A u \in DOMAIN p.index : p.index[u] \in p.used
  BY DEF Sound, Listed
<1>9. Distinct(q.index)
  BY <1>2, <1>3, <1>8 DEF Sound, Distinct
<1>10. Listed(q.index) = q.used
  <2>1. ASSUME NEW u \in DOMAIN p.index PROVE q.index[u] \in 0 .. n - 1
    BY <1>2, <1>3, <1>8
  <2>2. ASSUME NEW x \in 0 .. n - 1 PROVE x \in Listed(q.index)
    <3>1. PICK i \in p.used : f[i] = x
      BY <1>2 DEF Listed
    <3>2. PICK u \in DOMAIN p.index : p.index[u] = i
      BY DEF Sound, Listed
    <3> QED BY <1>3, <3>1, <3>2 DEF Listed
  <2> QED BY <1>3, <2>1, <2>2 DEF Listed
<1>11. Sound(q, size)
  BY <1>3, <1>4, <1>7, <1>9, <1>10 DEF Sound
<1> QED BY <1>2, <1>3, <1>4, <1>5, <1>8, <1>11 DEF q, n, s, Ids, Distinct

-----------------------------------------------------------------------------
(* What the invariants speak of.                                           *)

Pkg == {"hello", "login", "play", "long", "spoilt"}
HeadSet == [pos : Nat, born : Nat]
Message == [k : Pkg \cup {"gone", "index", "kick", "reply"}, conn : Conn, head : HeadSet]

(* A connection that was accepted keeps its head for good.                 *)
Accepted(c) == c \in Conn /\ given[c].born # 0
Growing == \A c \in Conn : given[c].born # 0 => given'[c] = given[c]

(* The connect server's table of connections.                              *)
ConnTyped ==
    /\ link \in [Conn -> {"new", "open", "shut", "gone"}]
    /\ wire \in [Conn -> Seq(Pkg)]
    /\ now \in Nat /\ now > 0
    /\ given \in [Conn -> HeadSet]
    /\ sock \in [Slot -> [conn : Conn \cup {0}, born : Nat, index : BOOLEAN,
                          shaken : BOOLEAN, buf : Seq(Pkg)]]
    /\ free \in Seq(Slot)
ConnKnown ==
    /\ \A c \in Conn : given[c].born # 0 => given[c].pos \in Slot /\ link[c] # "new"
    /\ \A c \in Conn : given[c].born = 0 => given[c].pos = 0
    /\ \A s \in Slot : IF sock[s].conn = 0 THEN sock[s].born = 0
                       ELSE /\ sock[s].born # 0
                            /\ given[sock[s].conn] = [pos |-> s, born |-> sock[s].born]
BufKept == \A s \in Slot : Len(sock[s].buf) <= BufSize
ConnInv == ConnTyped /\ ConnKnown /\ BufKept /\ SlotsKept

(* What is in the pipes and in the queue.                                  *)
FromConn(pipe) ==
    /\ pipe \in Seq(Message) /\ Len(pipe) <= PipeSize
    /\ \A m \in Listed(pipe) : Accepted(m.conn) /\ m.head \in {given[m.conn], NoHead}
ToConn(pipe) ==
    /\ pipe \in Seq(Message) /\ Len(pipe) <= PipeSize
    /\ \A m \in Listed(pipe) : Accepted(m.conn) /\ m.head = given[m.conn]
CsInv == FromConn(cs)
ScInv == ToConn(sc)
QueueInv == /\ queue \in Seq(Message) /\ Len(queue) <= QueueSize
            /\ \A m \in Listed(queue) : Accepted(m.conn)

(* The logic server's objects.                                             *)
PoolInv == /\ PoolKept /\ pool.free \in Seq(0 .. ObjectNum - 1)
           /\ Ids(pool) \subseteq Uid
           /\ object \in [0 .. ObjectNum - 1 -> Conn \cup {0}]
           /\ \A u \in Ids(pool) : Accepted(ConnOf(u))

AstrayInv == \A p \in astray : /\ Accepted(p[1]) /\ Accepted(p[2])
                               /\ given[p[1]] = given[p[2]]

Bounds == kind \in Kind /\ left \in Budget

IInv == Bounds /\ ConnInv /\ CsInv /\ ScInv /\ QueueInv /\ PoolInv /\ AstrayInv

-----------------------------------------------------------------------------
LEMMA InitInv == Init => IInv
<1> SUFFICES ASSUME Init PROVE IInv
  OBVIOUS
<1>1. SlotNum \in Nat /\ ObjectNum \in Nat /\ PipeSize \in Nat /\ QueueSize \in Nat /\ BufSize \in Nat
  BY SizeAssumption
<1>2. Bounds
  BY MixAssumption DEF Init, Bounds
<1>3. << >> \in Seq(Pkg) /\ << >> \in Seq(Message) /\ Len(<< >>) = 0 /\ Listed(<< >>) = {}
  BY EmptySeq DEF Listed
<1>4. ConnTyped
  <2>1. free \in Seq(Slot)
    BY <1>1, AllSlots DEF Init, Slot
  <2> QED BY <1>3, <2>1 DEF Init, ConnTyped, Unused, Socket, NoHead, HeadSet
<1>5. ConnKnown
  BY DEF Init, ConnKnown, Unused, Socket, NoHead
<1>6. BufKept
  BY <1>1, <1>3 DEF Init, BufKept, Unused, Socket
<1>7. SlotsKept
  <2>1. Distinct(free) /\ Listed(free) = Slot
    BY <1>1, AllSlots DEF Init, Slot
  <2> QED BY <2>1 DEF Init, SlotsKept, Unused, Socket
<1>8. CsInv /\ ScInv /\ QueueInv
  BY <1>1, <1>3 DEF Init, CsInv, ScInv, QueueInv, FromConn, ToConn
<1>9. PoolInv
  <2>1. PoolKept /\ pool.free \in Seq(0 .. ObjectNum - 1)
    BY <1>1, NewSound DEF Init, PoolKept
  <2>2. Ids(pool) = {}
    BY DEF Init, NewPool, Ids
  <2> QED BY <2>1, <2>2 DEF Init, PoolInv
<1>10. AstrayInv
  BY DEF Init, AstrayInv
<1> QED BY <1>2, <1>4, <1>5, <1>6, <1>7, <1>8, <1>9, <1>10 DEF IInv, ConnInv

-----------------------------------------------------------------------------
(* What a step leaves alone.                                               *)

LEMMA SameBounds == Bounds /\ UNCHANGED <<kind, left>> => Bounds'
  BY DEF Bounds

LEMMA Spent == ASSUME Bounds, UNCHANGED kind, NEW k \in {"conn", "send", "connect", "logic"}, Spend(k)
               PROVE  Bounds'
<1>1. left[k] \in Nat /\ left[k] > 0
  BY DEF Bounds, Budget, Spend
<1> QED BY <1>1 DEF Bounds, Budget, Spend

LEMMA SameConns == ConnInv /\ UNCHANGED <<link, wire, now, sock, free, given>> => ConnInv'
  BY DEF ConnInv, ConnTyped, ConnKnown, BufKept, SlotsKept

LEMMA GivenSame == UNCHANGED given => Growing
  BY DEF Growing

LEMMA SameCs == CsInv /\ Growing /\ UNCHANGED cs => CsInv'
  BY DEF CsInv, FromConn, Growing, Accepted

LEMMA SameSc == ScInv /\ Growing /\ UNCHANGED sc => ScInv'
  BY DEF ScInv, ToConn, Growing, Accepted

LEMMA SameQueue == QueueInv /\ Growing /\ UNCHANGED queue => QueueInv'
  BY DEF QueueInv, Growing, Accepted

LEMMA SamePool == PoolInv /\ Growing /\ UNCHANGED <<pool, object>> => PoolInv'
  BY DEF PoolInv, PoolKept, ConnOf, Growing, Accepted

LEMMA SameAstray == AstrayInv /\ Growing /\ UNCHANGED astray => AstrayInv'
  BY DEF AstrayInv, Growing, Accepted

(* A message of a connection that was accepted.                            *)
LEMMA MsgTyped ==
    ASSUME ConnTyped, NEW c, Accepted(c),
           NEW k \in Pkg \cup {"gone", "index", "kick", "reply"}
    PROVE  /\ Msg(k, c) \in Message /\ Msg(k, c).conn = c /\ Msg(k, c).head = given[c]
           /\ Msg(k, c).k = k
<1>1. c \in Conn /\ given[c] \in HeadSet
  BY DEF ConnTyped, Accepted
<1> QED BY <1>1 DEF Msg, Message

LEMMA PutKeeps ==
    ASSUME ConnTyped, NEW pipe, ToConn(pipe), NEW c, Accepted(c),
           NEW k \in {"index", "kick", "reply"}
    PROVE  ToConn(Put(pipe, Msg(k, c)))
<1> DEFINE m == Msg(k, c)
<1>1. m \in Message /\ m.conn = c /\ m.head = given[c]
  BY MsgTyped
<1>2. pipe \in Seq(Message) /\ Len(pipe) <= PipeSize /\ PipeSize \in Nat
  BY SizeAssumption DEF ToConn
<1> HIDE DEF m
<1>3. /\ Append(pipe, m) \in Seq(Message) /\ Len(pipe) \in Nat
      /\ Len(Append(pipe, m)) = Len(pipe) + 1
      /\ Listed(Append(pipe, m)) = Listed(pipe) \cup {m}
  BY <1>1, <1>2, AppendTo
<1>4. CASE HasRoom(pipe)
  <2>1. Len(pipe) < PipeSize
    BY <1>4 DEF HasRoom
  <2>2. Len(Append(pipe, m)) <= PipeSize
    BY <1>2, <1>3, <2>1
  <2>3. ToConn(Append(pipe, m))
    BY <1>1, <1>3, <2>2 DEF ToConn
  <2> QED BY <1>4, <2>3 DEF Put, m
<1>5. CASE ~HasRoom(pipe)
  BY <1>5 DEF Put
<1> QED BY <1>4, <1>5

-----------------------------------------------------------------------------
(* The connect server.                                                     *)

LEMMA ConnectKeeps == ASSUME IInv, NEW c \in Conn, Connect(c) PROVE IInv'
<1>1. Bounds'
  BY Spent DEF IInv, Connect
<1>2. ConnTyped /\ ConnKnown /\ BufKept /\ SlotsKept /\ link[c] = "new"
  BY DEF IInv, ConnInv, Connect
<1>3. Growing
  BY <1>2 DEF Growing, Connect, ConnTyped, ConnKnown, conns
<1>4. ConnInv'
  <2>1. CASE free = << >>
    <3>1. link' = [link EXCEPT ![c] = "gone"] /\ UNCHANGED <<wire, conns>>
      BY <2>1 DEF Connect
    <3>2. ConnTyped' /\ ConnKnown'
      BY <1>2, <3>1 DEF ConnTyped, ConnKnown, conns
    <3> QED BY <1>2, <3>1, <3>2 DEF ConnInv, BufKept, SlotsKept, conns
  <2>2. CASE free # << >>
    <3> DEFINE h == Head(free)
    <3>1. PICK t \in {now, now + 1} :
            /\ now' = t
            /\ sock' = [sock EXCEPT ![h] = Socket(c, t)]
            /\ given' = [given EXCEPT ![c] = [pos |-> h, born |-> t]]
            /\ free' = Tail(free)
            /\ link' = [link EXCEPT ![c] = "open"]
            /\ wire' = [wire EXCEPT ![c] = IF kind = "ws" THEN <<"hello">> ELSE << >>]
      BY <2>2 DEF Connect
    <3>2. t \in Nat /\ t > 0
      BY <1>2 DEF ConnTyped
    <3>3. /\ Tail(free) \in Seq(Slot) /\ h \in Slot /\ h \in Listed(free)
          /\ Listed(free) = {h} \cup Listed(Tail(free))
          /\ Distinct(Tail(free)) /\ h \notin Listed(Tail(free))
      BY <1>2, <2>2, TailOf DEF ConnTyped, SlotsKept
    <3>4. h \in Nat
      BY <3>3, SizeAssumption DEF Slot
    <3> HIDE DEF h
    <3>5. << >> \in Seq(Pkg) /\ <<"hello">> \in Seq(Pkg) /\ Len(<< >>) = 0
      BY DEF Pkg
    <3>6. Socket(c, t) \in [conn : Conn \cup {0}, born : Nat, index : BOOLEAN,
                            shaken : BOOLEAN, buf : Seq(Pkg)]
      BY <3>2, <3>5 DEF Socket
    <3>7. ConnTyped'
      BY <1>2, <3>1, <3>2, <3>3, <3>4, <3>5, <3>6 DEF ConnTyped, HeadSet
    <3>8. sock[h].conn = 0
      BY <1>2, <3>3 DEF SlotsKept
    <3>9. c # 0
      BY ConnAssumption
    <3>10. given[c].born = 0
      BY <1>2 DEF ConnKnown
    <3>11. \A s \in Slot : sock'[s] = IF s = h THEN Socket(c, t) ELSE sock[s]
      BY <1>2, <3>1 DEF ConnTyped
    <3>12. \A d \in Conn : /\ given'[d] = IF d = c THEN [pos |-> h, born |-> t] ELSE given[d]
                           /\ link'[d] = IF d = c THEN "open" ELSE link[d]
      BY <1>2, <3>1 DEF ConnTyped
    <3>13. ASSUME NEW s \in Slot, sock[s].conn = c PROVE FALSE
      <4>1. sock[s].born # 0 /\ given[c] = [pos |-> s, born |-> sock[s].born]
        BY <1>2, <3>9, <3>13 DEF ConnKnown
      <4> QED BY <3>10, <4>1
    <3>14. ConnKnown'
      <4>1. \A d \in Conn : given'[d].born # 0 => given'[d].pos \in Slot /\ link'[d] # "new"
        BY <1>2, <3>3, <3>12 DEF ConnKnown
      <4>2. \A d \in Conn : given'[d].born = 0 => given'[d].pos = 0
        BY <1>2, <3>2, <3>12 DEF ConnKnown
      <4>3. ASSUME NEW s \in Slot
            PROVE  IF sock'[s].conn = 0 THEN sock'[s].born = 0
                   ELSE /\ sock'[s].born # 0
                        /\ given'[sock'[s].conn] = [pos |-> s, born |-> sock'[s].born]
        <5>1. CASE s = h
          BY <3>2, <3>9, <3>11, <3>12, <5>1 DEF Socket
        <5>2. CASE s # h
          <6>1. sock'[s] = sock[s] /\ sock[s].conn # c /\ sock[s].conn \in Conn \cup {0}
            BY <1>2, <3>11, <3>13, <5>2 DEF ConnTyped
          <6> QED BY <1>2, <6>1, <3>12 DEF ConnKnown
        <5> QED BY <5>1, <5>2
      <4> QED BY <4>1, <4>2, <4>3 DEF ConnKnown
    <3>15. BufKept'
      BY <1>2, <3>5, <3>11, SizeAssumption DEF BufKept, Socket
    <3>16. SlotsKept'
      <4>1. Listed(free') = {s \in Slot : sock'[s].conn = 0}
        BY <1>2, <3>1, <3>3, <3>9, <3>11 DEF SlotsKept, Socket
      <4> QED BY <4>1, <3>1, <3>3 DEF SlotsKept
    <3> QED BY <3>7, <3>14, <3>15, <3>16 DEF ConnInv
  <2> QED BY <2>1, <2>2
<1>5. UNCHANGED <<cs, sc, queue, pool, object, astray>>
  BY DEF Connect, logic
<1> QED BY <1>1, <1>3, <1>4, <1>5, SameCs, SameSc, SameQueue, SamePool, SameAstray DEF IInv

LEMMA ClientKeeps ==
    ASSUME IInv, NEW c \in Conn, ClientSend(c) \/ ClientClose(c) PROVE IInv'
<1>1. UNCHANGED <<conns, cs, sc, queue, pool, object, astray>>
  BY DEF ClientSend, ClientClose, logic
<1>2. Bounds'
  BY Spent, SameBounds DEF IInv, ClientSend, ClientClose
<1>3. ConnTyped /\ ConnKnown /\ BufKept /\ SlotsKept
  BY DEF IInv, ConnInv
<1>4. link' \in [Conn -> {"new", "open", "shut", "gone"}] /\ \A d \in Conn : link'[d] = "new" => link[d] = "new"
  BY <1>3 DEF ClientSend, ClientClose, ConnTyped
<1>5. wire' \in [Conn -> Seq(Pkg)]
  <2>1. \A k \in Pkg : Append(wire[c], k) \in Seq(Pkg)
    BY <1>3, AppendProperties DEF ConnTyped
  <2>2. << >> \in Seq(Pkg)
    BY EmptySeq
  <2>3. {"login", "play"} \cup (IF kind = "ws" THEN {"long"} ELSE {}) \subseteq Pkg
    BY DEF Pkg
  <2>4. ASSUME ClientSend(c) PROVE wire' \in [Conn -> Seq(Pkg)]
    BY <1>3, <2>1, <2>3, <2>4 DEF ClientSend, ConnTyped
  <2>5. ASSUME ClientClose(c) PROVE wire' \in [Conn -> Seq(Pkg)]
    BY <1>3, <2>2, <2>5 DEF ClientClose, ConnTyped
  <2> QED BY <2>4, <2>5
<1>6. ConnInv'
  <2>1. ConnTyped' /\ ConnKnown'
    BY <1>1, <1>3, <1>4, <1>5 DEF ConnTyped, ConnKnown, conns
  <2> QED BY <1>1, <1>3, <2>1 DEF ConnInv, BufKept, SlotsKept, conns
<1>7. Growing
  BY <1>1, GivenSame DEF conns
<1> QED BY <1>1, <1>2, <1>6, <1>7, SameCs, SameSc, SameQueue, SamePool, SameAstray DEF IInv

(* SocketRelease, whatever is then in the cs pipe.                         *)
LEMMA ReleaseKeeps ==
    ASSUME ConnInv, NEW s \in Slot, sock[s].conn # 0, NEW notify, NEW pipe, FromConn(pipe),
           SocketRelease(s, notify, pipe)
    PROVE  ConnInv' /\ CsInv'
<1> DEFINE c == sock[s].conn
<1>1. ConnTyped /\ ConnKnown /\ BufKept /\ SlotsKept
  BY DEF ConnInv
<1>2. /\ sock' = [sock EXCEPT ![s] = Unused] /\ free' = Append(free, s)
      /\ link' = [link EXCEPT ![c] = "gone"] /\ wire' = [wire EXCEPT ![c] = << >>]
      /\ now' = now /\ given' = given
      /\ cs' = pipe \/ (cs' = Append(pipe, Notice(c)) /\ HasRoom(pipe))
  BY DEF SocketRelease, GiveBack
<1>3. c \in Conn /\ Accepted(c)
  <2>1. c \in Conn
    BY <1>1 DEF ConnTyped
  <2>2. sock[s].born # 0 /\ given[c] = [pos |-> s, born |-> sock[s].born]
    BY <1>1 DEF ConnKnown
  <2> QED BY <2>1, <2>2 DEF Accepted
<1> HIDE DEF c
<1>4. << >> \in Seq(Pkg) /\ Len(<< >>) = 0
  BY EmptySeq
<1>5. Unused \in [conn : Conn \cup {0}, born : Nat, index : BOOLEAN,
                  shaken : BOOLEAN, buf : Seq(Pkg)]
  BY <1>4 DEF Unused, Socket
<1>6. Unused.conn = 0 /\ Unused.born = 0 /\ Unused.buf = << >>
  BY DEF Unused, Socket
<1>7. s \notin Listed(free)
  <2>1. \A x \in Listed(free) : sock[x].conn = 0
    BY <1>1 DEF SlotsKept
  <2> QED BY <2>1
<1>8. /\ Append(free, s) \in Seq(Slot) /\ Distinct(Append(free, s))
      /\ Listed(Append(free, s)) = Listed(free) \cup {s}
  BY <1>1, <1>7, AppendTo DEF ConnTyped, SlotsKept
<1>9. ConnTyped'
  BY <1>1, <1>2, <1>3, <1>4, <1>5, <1>8 DEF ConnTyped
<1>10. \A x \in Slot : sock'[x] = IF x = s THEN Unused ELSE sock[x]
  BY <1>1, <1>2 DEF ConnTyped
<1>11. \A d \in Conn : link'[d] = IF d = c THEN "gone" ELSE link[d]
  BY <1>1, <1>2 DEF ConnTyped
<1>12. ConnKnown'
  <2>1. \A d \in Conn : given[d].born # 0 => given[d].pos \in Slot /\ link'[d] # "new"
    BY <1>1, <1>11 DEF ConnKnown
  <2>2. \A x \in Slot : IF sock'[x].conn = 0 THEN sock'[x].born = 0
                        ELSE /\ sock'[x].born # 0
                             /\ given[sock'[x].conn] = [pos |-> x, born |-> sock'[x].born]
    BY <1>1, <1>6, <1>10 DEF ConnKnown
  <2> QED BY <1>1, <1>2, <2>1, <2>2 DEF ConnKnown
<1>13. BufKept'
  BY <1>1, <1>4, <1>6, <1>10, SizeAssumption DEF BufKept
<1>14. SlotsKept'
  BY <1>1, <1>2, <1>6, <1>8, <1>10 DEF SlotsKept
<1>15. CsInv'
  <2>1. FromConn(pipe)'
    BY <1>2 DEF FromConn, Accepted
  <2>2. ASSUME cs' = Append(pipe, Notice(c)), HasRoom(pipe) PROVE CsInv'
    <3> DEFINE m == Notice(c)
    <3>1. /\ Msg("gone", c) \in Message /\ Msg("gone", c).conn = c
          /\ Msg("gone", c).head = given[c]
      BY <1>1, <1>3, MsgTyped
    <3>2. NoHead \in HeadSet
      BY DEF NoHead, HeadSet
    <3>3. m \in Message /\ m.conn = c /\ m.head \in {given[c], NoHead}
      BY <3>1, <3>2 DEF Notice, Message
    <3> HIDE DEF m
    <3>4. pipe \in Seq(Message) /\ Len(pipe) < PipeSize
      BY <2>2 DEF FromConn, HasRoom
    <3>5. /\ Append(pipe, m) \in Seq(Message) /\ Len(pipe) \in Nat
          /\ Len(Append(pipe, m)) = Len(pipe) + 1
          /\ Listed(Append(pipe, m)) = Listed(pipe) \cup {m}
      BY <3>3, <3>4, AppendTo
    <3>6. Len(Append(pipe, m)) <= PipeSize
      BY <3>4, <3>5, SizeAssumption
    <3>7. cs' = Append(pipe, m)
      BY <2>2 DEF m
    <3>8. \A x \in Listed(pipe) \cup {m} : Accepted(x.conn)' /\ x.head \in {given'[x.conn], NoHead}
      BY <1>2, <1>3, <3>3 DEF FromConn, Accepted
    <3> QED BY <3>5, <3>6, <3>7, <3>8 DEF CsInv, FromConn
  <2> QED BY <1>2, <2>1, <2>2 DEF CsInv
<1> QED BY <1>9, <1>12, <1>13, <1>14, <1>15 DEF ConnInv

(* A slot in use keeps its connection and the receive buffer its limit.    *)
LEMMA SlotUsed ==
    ASSUME ConnInv, NEW s \in Slot, sock[s].conn # 0, NEW b \in Seq(Pkg), Len(b) <= BufSize,
           NEW w \in Seq(Pkg), NEW i \in BOOLEAN, NEW h \in BOOLEAN,
           sock' = [sock EXCEPT ![s].buf = b] \/ sock' = [sock EXCEPT ![s].shaken = h]
              \/ sock' = [sock EXCEPT ![s].index = i],
           wire' = [wire EXCEPT ![sock[s].conn] = w] \/ wire' = wire,
           UNCHANGED <<link, now, free, given>>
    PROVE  ConnInv'
<1>1. ConnTyped /\ ConnKnown /\ BufKept /\ SlotsKept
  BY DEF ConnInv
<1>2. ConnTyped'
  <2> DEFINE Rec == [conn : Conn \cup {0}, born : Nat, index : BOOLEAN, shaken : BOOLEAN,
                     buf : Seq(Pkg)]
  <2>1. sock \in [Slot -> Rec] /\ wire \in [Conn -> Seq(Pkg)]
    BY <1>1 DEF ConnTyped
  <2>2. /\ [sock[s] EXCEPT !.buf = b] \in Rec /\ [sock[s] EXCEPT !.shaken = h] \in Rec
        /\ [sock[s] EXCEPT !.index = i] \in Rec
    BY <2>1
  <2> HIDE DEF Rec
  <2>3. sock' \in [Slot -> Rec]
    BY <2>1, <2>2
  <2>4. wire' \in [Conn -> Seq(Pkg)]
    BY <2>1
  <2> QED BY <1>1, <2>3, <2>4 DEF ConnTyped, Rec
<1>3. \A x \in Slot : /\ sock'[x].conn = sock[x].conn /\ sock'[x].born = sock[x].born
                      /\ sock'[x].buf \in {sock[x].buf, b}
  <2>1. \A x \in Slot : sock[x] \in [conn : Conn \cup {0}, born : Nat, index : BOOLEAN,
                                    shaken : BOOLEAN, buf : Seq(Pkg)]
    BY <1>1 DEF ConnTyped
  <2>2. CASE sock' = [sock EXCEPT ![s].buf = b]
    BY <1>1, <2>1, <2>2 DEF ConnTyped
  <2>3. CASE sock' = [sock EXCEPT ![s].shaken = h]
    BY <1>1, <2>1, <2>3 DEF ConnTyped
  <2>4. CASE sock' = [sock EXCEPT ![s].index = i]
    BY <1>1, <2>1, <2>4 DEF ConnTyped
  <2> QED BY <2>2, <2>3, <2>4
<1>4. ConnKnown'
  BY <1>1, <1>3 DEF ConnKnown
<1>5. BufKept'
  BY <1>1, <1>3 DEF BufKept
<1>6. SlotsKept'
  BY <1>1, <1>3 DEF SlotsKept
<1> QED BY <1>2, <1>4, <1>5, <1>6 DEF ConnInv

(* What a client's packages become in the cs pipe.                         *)
LEMMA PassedOn ==
    ASSUME ConnTyped, CsInv, NEW c, Accepted(c), NEW buf \in Seq(Pkg), NEW n \in Passable(buf)
    PROVE  LET all == cs \o [i \in 1 .. n |-> Msg(buf[i], c)]
           IN  FromConn(all) /\ Listed(cs) \subseteq Listed(all)
<1> DEFINE new == [i \in 1 .. n |-> Msg(buf[i], c)]
<1>1. n \in Nat /\ n <= Len(buf) /\ Len(cs) + n <= PipeSize /\ Len(buf) \in Nat
  BY LenProperties DEF Passable
<1>2. \A i \in 1 .. n : Msg(buf[i], c) \in Message /\ Msg(buf[i], c).conn = c
                        /\ Msg(buf[i], c).head = given[c]
  <2>1. ASSUME NEW i \in 1 .. n PROVE buf[i] \in Pkg
    BY <1>1, ElementOfSeq
  <2> QED BY <2>1, MsgTyped
<1>3. new \in [1 .. n -> Message]
  BY <1>2
<1>4. new \in Seq(Message) /\ DOMAIN new = 1 .. n
  BY <1>1, <1>3, SeqDef
<1>5. Len(new) = n
  BY <1>1, <1>4, LenProperties
<1>6. \A m \in Listed(new) : m.conn = c /\ m.head = given[c]
  BY <1>2 DEF Listed
<1> HIDE DEF new
<1>7. /\ cs \o new \in Seq(Message) /\ Len(cs \o new) = Len(cs) + Len(new)
      /\ Listed(cs \o new) = Listed(cs) \cup Listed(new)
  BY <1>4, ConcatOf DEF CsInv, FromConn
<1>8. Len(cs \o new) <= PipeSize
  BY <1>1, <1>5, <1>7
<1>9. FromConn(cs \o new) /\ Listed(cs) \subseteq Listed(cs \o new)
  BY <1>6, <1>7, <1>8 DEF CsInv, FromConn
<1> QED BY <1>9 DEF new

(* What is left of them.                                                   *)
LEMMA KeptTyped ==
    ASSUME NEW buf \in Seq(Pkg), NEW n \in Passable(buf)
    PROVE  Kept(buf, n) \in Seq(Pkg) /\ Len(Kept(buf, n)) <= Len(buf)
<1> DEFINE rest == SubSeq(buf, n + 1, Len(buf))
<1>1. n \in Nat /\ n <= Len(buf) /\ Len(buf) \in Nat
  BY LenProperties DEF Passable
<1>2. \A i \in n + 1 .. Len(buf) : buf[i] \in Pkg
  BY <1>1, ElementOfSeq
<1>3. rest \in Seq(Pkg) /\ Len(rest) <= Len(buf)
  <2>1. /\ rest \in Seq(Pkg)
        /\ Len(rest) = IF n + 1 <= Len(buf) THEN Len(buf) - (n + 1) + 1 ELSE 0
    BY <1>1, <1>2, SubSeqProperties
  <2> QED BY <1>1, <2>1
<1> HIDE DEF rest
<1>4. CASE kind = "ws" /\ rest # << >> /\ rest[1] # "long"
  <2>1. Kept(buf, n) = <<"spoilt">> \o Tail(rest)
    BY <1>4 DEF Kept, rest
  <2>2. Tail(rest) \in Seq(Pkg) /\ Len(Tail(rest)) = Len(rest) - 1 /\ Len(rest) \in Nat
    BY <1>3, <1>4, TailOf
  <2>3. <<"spoilt">> \in Seq(Pkg) /\ Len(<<"spoilt">>) = 1
    BY DEF Pkg
  <2>4. /\ <<"spoilt">> \o Tail(rest) \in Seq(Pkg)
        /\ Len(<<"spoilt">> \o Tail(rest)) = Len(<<"spoilt">>) + Len(Tail(rest))
    BY <2>2, <2>3, ConcatProperties
  <2> QED BY <1>1, <1>3, <2>1, <2>2, <2>3, <2>4
<1>5. CASE ~(kind = "ws" /\ rest # << >> /\ rest[1] # "long")
  BY <1>3, <1>5 DEF Kept, rest
<1> QED BY <1>4, <1>5

LEMMA UsedKnown ==
    ASSUME ConnInv, NEW s \in Slot, sock[s].conn # 0
    PROVE  /\ sock[s].conn \in Conn /\ Accepted(sock[s].conn)
           /\ given[sock[s].conn] = [pos |-> s, born |-> sock[s].born] /\ sock[s].born # 0
<1>1. sock[s].conn \in Conn
  BY DEF ConnInv, ConnTyped
<1>2. sock[s].born # 0 /\ given[sock[s].conn] = [pos |-> s, born |-> sock[s].born]
  BY DEF ConnInv, ConnKnown
<1> QED BY <1>1, <1>2 DEF Accepted

LEMMA RecvKeeps ==
    ASSUME ConnInv, CsInv, NEW s \in Slot, sock[s].conn # 0, Len(sock[s].buf) < BufSize,
           wire[sock[s].conn] # << >>, Recv(s)
    PROVE  ConnInv' /\ CsInv' /\ UNCHANGED given
<1> DEFINE c == sock[s].conn
           buf == Append(sock[s].buf, Head(wire[c]))
<1>1. ConnTyped /\ c \in Conn /\ Accepted(c)
  BY UsedKnown DEF ConnInv
<1>2. /\ wire[c] \in Seq(Pkg) /\ Head(wire[c]) \in Pkg /\ Tail(wire[c]) \in Seq(Pkg)
      /\ sock[s].buf \in Seq(Pkg)
  BY <1>1, HeadTailProperties DEF ConnTyped
<1>3. buf \in Seq(Pkg) /\ Len(buf) <= BufSize /\ Len(buf) \in Nat
  BY <1>2, AppendProperties, LenProperties, SizeAssumption
<1>4. PICK n \in Passable(buf) :
        LET all == cs \o [i \in 1 .. n |-> Msg(buf[i], c)]
        IN  IF n < Len(buf) /\ buf[n + 1] = "spoilt"
            THEN SocketRelease(s, TRUE, all)
            ELSE /\ cs' = all
                 /\ sock' = [sock EXCEPT ![s].buf = Kept(buf, n)]
                 /\ wire' = [wire EXCEPT ![c] = Tail(@)]
                 /\ UNCHANGED <<link, now, free, given, unheard>>
  BY DEF Recv
<1> DEFINE all == cs \o [i \in 1 .. n |-> Msg(buf[i], c)]
<1> HIDE DEF c, buf
<1>5. FromConn(all)
  BY <1>1, <1>3, PassedOn
<1>6. Kept(buf, n) \in Seq(Pkg) /\ Len(Kept(buf, n)) <= BufSize
  <2>1. Kept(buf, n) \in Seq(Pkg) /\ Len(Kept(buf, n)) <= Len(buf)
    BY <1>3, KeptTyped
  <2> QED BY <1>3, <2>1, LenProperties, SizeAssumption
<1>7. CASE SocketRelease(s, TRUE, all)
  <2> HIDE DEF all
  <2> QED BY <1>5, <1>7, ReleaseKeeps DEF SocketRelease
<1>8. CASE /\ cs' = all
           /\ sock' = [sock EXCEPT ![s].buf = Kept(buf, n)]
           /\ wire' = [wire EXCEPT ![c] = Tail(@)]
           /\ UNCHANGED <<link, now, free, given, unheard>>
  <2> HIDE DEF all
  <2>1. wire' = [wire EXCEPT ![sock[s].conn] = Tail(wire[c])]
    BY <1>8 DEF c
  <2>2. ConnInv'
    BY <1>2, <1>6, <1>8, <2>1, SlotUsed
  <2>3. CsInv'
    BY <1>5, <1>8 DEF CsInv, FromConn, Accepted
  <2> QED BY <1>8, <2>2, <2>3
<1> QED BY <1>4, <1>7, <1>8

LEMMA HandshakeKeeps ==
    ASSUME ConnInv, CsInv, NEW s \in Slot, sock[s].conn # 0, wire[sock[s].conn] # << >>,
           Handshake(s)
    PROVE  ConnInv' /\ CsInv' /\ UNCHANGED given
<1> DEFINE c == sock[s].conn
<1>1. ConnTyped /\ c \in Conn
  BY UsedKnown DEF ConnInv
<1>2. Tail(wire[c]) \in Seq(Pkg)
  BY <1>1, HeadTailProperties DEF ConnTyped
<1>3. CASE SocketRelease(s, TRUE, cs)
  BY <1>3, ReleaseKeeps DEF CsInv, SocketRelease
<1>4. CASE /\ sock' = [sock EXCEPT ![s].shaken = TRUE]
           /\ wire' = [wire EXCEPT ![c] = Tail(@)]
           /\ UNCHANGED <<link, cs, now, free, given, unheard>>
  <2>1. << >> \in Seq(Pkg) /\ Len(<< >>) <= BufSize
    BY EmptySeq, SizeAssumption
  <2>2. wire' = [wire EXCEPT ![sock[s].conn] = Tail(wire[c])]
    BY <1>4
  <2>3. ConnInv'
    BY <1>2, <1>4, <2>1, <2>2, SlotUsed
  <2> QED BY <1>4, <2>3, GivenSame, SameCs
<1> QED BY <1>3, <1>4 DEF Handshake

LEMMA ReceiveKeeps == ASSUME IInv, NEW s \in Slot, Receive(s) PROVE IInv'
<1>1. ConnInv /\ CsInv /\ sock[s].conn # 0 /\ Len(sock[s].buf) < BufSize
  BY DEF IInv, Receive
<1>2. ConnInv' /\ CsInv' /\ UNCHANGED given
  <2>1. CASE wire[sock[s].conn] # << >> /\ Handshake(s)
    BY <1>1, <2>1, HandshakeKeeps
  <2>2. CASE wire[sock[s].conn] # << >> /\ Recv(s)
    BY <1>1, <2>2, RecvKeeps
  <2>3. CASE SocketRelease(s, TRUE, cs)
    BY <1>1, <2>3, ReleaseKeeps DEF CsInv, SocketRelease
  <2> QED BY <2>1, <2>2, <2>3 DEF Receive
<1>3. UNCHANGED <<kind, left, sc, queue, pool, object, astray>>
  BY DEF Receive, logic
<1> QED BY <1>2, <1>3, GivenSame, SameBounds, SameSc, SameQueue, SamePool, SameAstray DEF IInv

LEMMA CutOffKeeps == ASSUME IInv, NEW s \in Slot, CutOff(s) PROVE IInv'
<1>1. ConnInv /\ CsInv /\ sock[s].conn # 0
  BY DEF IInv, CutOff, Idle
<1>2. ConnInv' /\ CsInv' /\ UNCHANGED given
  BY <1>1, ReleaseKeeps DEF CutOff, CsInv, SocketRelease
<1>3. UNCHANGED <<kind, left, sc, queue, pool, object, astray>>
  BY DEF CutOff, logic
<1> QED BY <1>2, <1>3, GivenSame, SameBounds, SameSc, SameQueue, SamePool, SameAstray DEF IInv

(* An answer's head is that of a slot only if its connection has the slot, *)
(* or another one has it that was given the same head.                     *)
LEMMA SendKeeps == ASSUME IInv, SendClientData PROVE IInv'
<1> DEFINE m == Head(sc)
           s == m.head.pos
<1>1. ConnInv /\ CsInv /\ ScInv /\ sc # << >> /\ sc' = Tail(sc)
  BY DEF IInv, SendClientData
<1>2. m \in Listed(sc) /\ Tail(sc) \in Seq(Message) /\ Listed(Tail(sc)) \subseteq Listed(sc)
      /\ Len(Tail(sc)) = Len(sc) - 1 /\ Len(sc) \in Nat /\ m \in Message
  BY <1>1, TailOf DEF ScInv, ToConn
<1>3. UNCHANGED <<kind, left, queue, pool, object>>
  BY DEF SendClientData, logic
<1>4. Accepted(m.conn) /\ m.head = given[m.conn]
  BY <1>1, <1>2 DEF ScInv, ToConn
<1>5. s \in Slot /\ given[m.conn].born # 0 /\ m.head \in HeadSet
  BY <1>1, <1>2, <1>4 DEF Accepted, ConnInv, ConnKnown, Message
<1>6. ASSUME UNCHANGED given PROVE ScInv'
  <2>1. Len(Tail(sc)) <= PipeSize
    BY <1>1, <1>2, SizeAssumption DEF ScInv, ToConn
  <2>2. \A x \in Listed(Tail(sc)) : Accepted(x.conn) /\ x.head = given[x.conn]
    BY <1>1, <1>2 DEF ScInv, ToConn
  <2> QED BY <1>1, <1>2, <1>6, <2>1, <2>2 DEF ScInv, ToConn, Accepted
<1>7. CASE ~SameConn(m)
  <2>1. UNCHANGED <<client, conns, cs, astray>>
    BY <1>7 DEF SendClientData
  <2>2. ConnInv' /\ UNCHANGED given
    BY <1>1, <2>1, SameConns DEF client, conns
  <2> QED BY <1>3, <1>6, <2>1, <2>2, GivenSame, SameBounds, SameCs, SameQueue, SamePool, SameAstray
      DEF IInv
<1>8. CASE SameConn(m)
  <2>1. sock[s].born = given[m.conn].born
    BY <1>4, <1>8 DEF SameConn
  <2>2. sock[s].conn # 0
    BY <1>1, <1>5, <2>1 DEF ConnInv, ConnKnown
  <2>3. /\ Accepted(sock[s].conn)
        /\ given[sock[s].conn] = [pos |-> s, born |-> sock[s].born]
    BY <1>1, <1>5, <2>2, UsedKnown
  <2>4. given[m.conn] = given[sock[s].conn]
    BY <1>4, <1>5, <2>1, <2>3 DEF HeadSet
  <2>5. /\ \/ astray' = astray
           \/ astray' = astray \cup {<<m.conn, sock[s].conn>>}
        /\ \/ /\ sock' = [sock EXCEPT ![s].index = TRUE]
              /\ UNCHANGED <<client, cs, now, free, given, unheard>>
           \/ SocketRelease(s, FALSE, cs)
           \/ UNCHANGED <<client, cs, conns>>
           \/ SocketRelease(s, TRUE, cs)
    BY <1>8 DEF SendClientData
  <2>6. ConnInv' /\ CsInv' /\ UNCHANGED given
    <3>1. CASE SocketRelease(s, FALSE, cs) \/ SocketRelease(s, TRUE, cs)
      BY <1>1, <1>5, <2>2, <3>1, ReleaseKeeps DEF CsInv, SocketRelease
    <3>2. CASE UNCHANGED <<client, cs, conns>>
      BY <1>1, <3>2, SameConns, SameCs, GivenSame DEF client, conns
    <3>3. CASE /\ sock' = [sock EXCEPT ![s].index = TRUE]
               /\ UNCHANGED <<client, cs, now, free, given, unheard>>
      <4>1. << >> \in Seq(Pkg) /\ Len(<< >>) <= BufSize
        BY EmptySeq, SizeAssumption
      <4>2. ConnInv'
        BY <1>1, <1>5, <2>2, <3>3, <4>1, SlotUsed DEF client
      <4> QED BY <1>1, <3>3, <4>2, SameCs, GivenSame
    <3> QED BY <2>5, <3>1, <3>2, <3>3
  <2>7. AstrayInv'
    <3>1. AstrayInv
      BY DEF IInv
    <3> HIDE DEF m, s
    <3>2. \A p \in astray \cup {<<m.conn, sock[s].conn>>} :
             Accepted(p[1]) /\ Accepted(p[2]) /\ given[p[1]] = given[p[2]]
      BY <1>4, <2>3, <2>4, <3>1 DEF AstrayInv
    <3> QED BY <2>5, <2>6, <3>1, <3>2 DEF AstrayInv, Accepted
  <2> QED BY <1>3, <1>6, <2>6, <2>7, GivenSame, SameBounds, SameQueue, SamePool DEF IInv
<1> QED BY <1>7, <1>8

LEMMA RestartConnectKeeps == ASSUME IInv, RestartConnect PROVE IInv'
<1>1. ConnTyped /\ ConnKnown /\ BufKept /\ SlotsKept
  BY DEF IInv, ConnInv
<1>2. /\ sock' = [s \in Slot |-> Unused] /\ free' = [i \in 1 .. SlotNum |-> i - 1]
      /\ link' = [c \in Conn |-> IF link[c] = "new" THEN "new" ELSE "gone"]
      /\ wire' = [c \in Conn |-> << >>]
      /\ UNCHANGED <<now, given, cs, sc, queue, pool, object, astray>>
  BY DEF RestartConnect, logic
<1>3. << >> \in Seq(Pkg) /\ Len(<< >>) = 0
  BY EmptySeq
<1>4. free' \in Seq(Slot) /\ Distinct(free') /\ Listed(free') = Slot
  BY <1>2, AllSlots, SizeAssumption DEF Slot
<1>5. ConnTyped'
  BY <1>1, <1>2, <1>3, <1>4 DEF ConnTyped, Unused, Socket
<1>6. ConnKnown'
  BY <1>1, <1>2 DEF ConnKnown, ConnTyped, Unused, Socket
<1>7. BufKept' /\ SlotsKept'
  <2>1. \A s \in Slot : sock'[s].conn = 0 /\ sock'[s].buf = << >>
    BY <1>2 DEF Unused, Socket
  <2>2. BufKept'
    BY <1>3, <2>1, SizeAssumption DEF BufKept
  <2> QED BY <1>4, <2>1, <2>2 DEF SlotsKept
<1>8. Bounds'
  BY Spent DEF IInv, RestartConnect
<1> QED BY <1>2, <1>5, <1>6, <1>7, <1>8, GivenSame, SameCs, SameSc, SameQueue, SamePool, SameAstray
    DEF IInv, ConnInv

-----------------------------------------------------------------------------
(* The logic server.                                                       *)

LEMMA LogoutKeeps ==
    ASSUME PoolInv, NEW u \in Ids(pool)
    PROVE  LET p == Release(pool, u)
           IN  /\ Sound(p, ObjectNum) /\ p.free \in Seq(0 .. ObjectNum - 1)
               /\ Ids(p) = Ids(pool) \ {u}
               /\ \A v \in Ids(p) : p.index[v] = pool.index[v]
  BY ReleaseSound, SizeAssumption DEF PoolInv, PoolKept

LEMMA ReleaseObject ==
    ASSUME PoolInv, NEW u \in Ids(pool), pool' = Release(pool, u), UNCHANGED <<object, given>>
    PROVE  PoolInv'
<1>1. /\ Sound(pool', ObjectNum) /\ pool'.free \in Seq(0 .. ObjectNum - 1)
      /\ Ids(pool') = Ids(pool) \ {u}
      /\ \A v \in Ids(pool') : pool'.index[v] = pool.index[v]
  BY LogoutKeeps
<1>2. \A v \in Ids(pool') : ConnOf(v)' = ConnOf(v)
  BY <1>1 DEF ConnOf
<1>3. Ids(pool)' = Ids(pool')
  BY DEF Ids
<1> QED BY <1>1, <1>2, <1>3 DEF PoolInv, PoolKept, Accepted

LEMMA FetchKeeps == ASSUME IInv, Fetch PROVE IInv'
<1> DEFINE m == Head(cs)
           u == Owner[m.conn]
<1>1. ConnInv /\ CsInv /\ QueueInv /\ PoolInv /\ AstrayInv /\ cs # << >> /\ cs' = Tail(cs)
  BY DEF IInv, Fetch
<1>2. m \in Listed(cs) /\ Tail(cs) \in Seq(Message) /\ Listed(Tail(cs)) \subseteq Listed(cs)
      /\ Len(Tail(cs)) = Len(cs) - 1 /\ Len(cs) \in Nat /\ m \in Message
  BY <1>1, TailOf DEF CsInv, FromConn
<1>3. Accepted(m.conn) /\ m.head \in {given[m.conn], NoHead}
  BY <1>1, <1>2 DEF CsInv, FromConn
<1>4. UNCHANGED <<kind, left, link, wire, now, sock, free, given, sc, object>>
  BY DEF Fetch, client, conns
<1>5. CsInv'
  <2>1. Len(Tail(cs)) <= PipeSize
    BY <1>1, <1>2, SizeAssumption DEF CsInv, FromConn
  <2>2. \A x \in Listed(Tail(cs)) : Accepted(x.conn) /\ x.head \in {given[x.conn], NoHead}
    BY <1>1, <1>2 DEF CsInv, FromConn
  <2> QED BY <1>1, <1>2, <1>4, <2>1, <2>2 DEF CsInv, FromConn, Accepted
<1>6. QueueInv' /\ PoolInv' /\ AstrayInv'
  <2>1. CASE m.k # "gone"
    <3>1. UNCHANGED <<pool, astray>>
          /\ queue' \in {queue, Append(queue, m)} /\ (queue' = queue \/ Len(queue) < QueueSize)
      BY <2>1 DEF Fetch
    <3>2. /\ Append(queue, m) \in Seq(Message) /\ Len(queue) \in Nat
          /\ Len(Append(queue, m)) = Len(queue) + 1
          /\ Listed(Append(queue, m)) = Listed(queue) \cup {m}
      BY <1>1, <1>2, AppendTo DEF QueueInv
    <3>3. queue' \in Seq(Message) /\ Len(queue') <= QueueSize
      BY <1>1, <3>1, <3>2, SizeAssumption DEF QueueInv
    <3>4. \A x \in Listed(queue') : Accepted(x.conn)
      BY <1>1, <1>3, <3>1, <3>2 DEF QueueInv
    <3>5. QueueInv'
      BY <1>4, <3>3, <3>4 DEF QueueInv, Accepted
    <3> QED BY <1>1, <1>4, <3>1, <3>5, GivenSame, SamePool, SameAstray
  <2>2. CASE m.k = "gone" /\ ~SameHead(m)
    <3>1. UNCHANGED <<pool, astray, queue>>
      BY <2>2 DEF Fetch
    <3> QED BY <1>1, <1>4, <3>1, GivenSame, SamePool, SameAstray, SameQueue
  <2>3. CASE m.k = "gone" /\ SameHead(m)
    <3>1. pool' = Release(pool, u) /\ UNCHANGED queue
          /\ astray' \in {astray, astray \cup {<<m.conn, ConnOf(u)>>}}
      BY <2>3 DEF Fetch
    <3>2. u \in Ids(pool) /\ given[ConnOf(u)] = m.head
      BY <2>3 DEF SameHead, Online
    <3>3. Accepted(ConnOf(u))
      BY <1>1, <3>2 DEF PoolInv
    <3>4. given[m.conn] = given[ConnOf(u)]
      BY <1>3, <3>2, <3>3 DEF Accepted, NoHead
    <3>5. PoolInv'
      BY <1>1, <1>4, <3>1, <3>2, ReleaseObject
    <3> HIDE DEF m, u
    <3>6. \A p \in astray \cup {<<m.conn, ConnOf(u)>>} :
             Accepted(p[1]) /\ Accepted(p[2]) /\ given[p[1]] = given[p[2]]
      BY <1>1, <1>3, <3>3, <3>4 DEF AstrayInv
    <3>7. AstrayInv'
      BY <1>4, <3>1, <3>6 DEF AstrayInv, Accepted
    <3> QED BY <1>1, <1>4, <3>1, <3>5, <3>7, GivenSame, SameQueue
  <2> QED BY <2>1, <2>2, <2>3
<1> QED BY <1>1, <1>4, <1>5, <1>6, GivenSame, SameBounds, SameConns, SameSc DEF IInv

LEMMA LoginKeeps ==
    ASSUME IInv, NEW c, Accepted(c), Login(c), UNCHANGED given
    PROVE  ToConn(sc') /\ PoolInv'
<1> DEFINE u   == Owner[c]
           sc1 == IF Online(u) THEN Put(sc, Msg("kick", ConnOf(u))) ELSE sc
           sc2 == Put(sc1, Msg("index", c))
           p   == LoggedOut(u)
<1>1. ConnTyped /\ PoolInv /\ ToConn(sc) /\ c \in Conn /\ u \in Uid
  BY ConnAssumption DEF IInv, ConnInv, ScInv, Accepted
<1>2. ToConn(sc1)
  <2>1. CASE Online(u)
    <3>1. Accepted(ConnOf(u))
      BY <1>1, <2>1 DEF Online, PoolInv
    <3> QED BY <1>1, <2>1, <3>1, PutKeeps
  <2> QED BY <1>1, <2>1
<1>3. ToConn(sc2)
  BY <1>1, <1>2, PutKeeps
<1>4. ToConn(Put(sc2, Msg("kick", c))) /\ ToConn(Put(sc2, Msg("reply", c)))
      /\ ToConn(Put(sc, Msg("reply", c)))
  BY <1>1, <1>3, PutKeeps
<1>5. /\ Sound(p, ObjectNum) /\ p.free \in Seq(0 .. ObjectNum - 1)
      /\ Ids(p) = Ids(pool) \ {u}
      /\ \A v \in Ids(p) : p.index[v] = pool.index[v]
  <2>1. CASE Online(u)
    BY <1>1, <2>1, LogoutKeeps DEF LoggedOut, Online
  <2>2. CASE ~Online(u)
    BY <1>1, <2>2 DEF LoggedOut, Online, PoolInv, PoolKept
  <2> QED BY <2>1, <2>2
<1>6. \/ sc' = Put(sc, Msg("reply", c)) /\ UNCHANGED <<pool, object>>
      \/ sc' = sc1 /\ pool' = p /\ UNCHANGED object
      \/ sc' = Put(sc2, Msg("kick", c)) /\ pool' = p /\ UNCHANGED object
      \/ /\ ~IsFull(p) /\ pool' = Create(p, u)
         /\ object' = [object EXCEPT ![Head(p.free)] = c]
         /\ sc' = Put(sc2, Msg("reply", c))
  BY DEF Login
<1> HIDE DEF sc1, sc2, p, u
<1>7. ToConn(sc')
  BY <1>2, <1>3, <1>4, <1>6
<1>8. Ids(pool)' = Ids(pool')
  BY DEF Ids
<1>9. CASE UNCHANGED <<pool, object>>
  BY <1>1, <1>7, <1>9, SamePool, GivenSame
<1>10. CASE pool' = p /\ UNCHANGED object
  <2>1. \A v \in Ids(pool') : ConnOf(v)' = ConnOf(v)
    BY <1>5, <1>10 DEF ConnOf
  <2> QED BY <1>1, <1>5, <1>7, <1>8, <1>10, <2>1 DEF PoolInv, PoolKept, Accepted
<1>11. CASE /\ ~IsFull(p) /\ pool' = Create(p, u)
            /\ object' = [object EXCEPT ![Head(p.free)] = c]
  <2>1. /\ Sound(pool', ObjectNum) /\ pool'.free \in Seq(0 .. ObjectNum - 1)
        /\ Head(p.free) \in 0 .. ObjectNum - 1
        /\ Ids(pool') = Ids(p) \cup {u}
        /\ pool'.index[u] = Head(p.free)
        /\ \A v \in Ids(p) : /\ pool'.index[v] = p.index[v]
                             /\ p.index[v] # Head(p.free)
    BY <1>5, <1>11, CreateSound, SizeAssumption
  <2>2. /\ object' \in [0 .. ObjectNum - 1 -> Conn \cup {0}]
        /\ object'[Head(p.free)] = c
    BY <1>1, <1>11, <2>1 DEF PoolInv
  <2>3. ASSUME NEW v \in Ids(p) PROVE ConnOf(v)' = ConnOf(v)
    <3>1. pool.index[v] \in 0 .. ObjectNum - 1
      BY <1>1, <1>5 DEF PoolInv, PoolKept, Sound, Listed, Ids
    <3> QED BY <1>1, <1>5, <1>11, <2>1, <3>1 DEF ConnOf, PoolInv
  <2>4. ConnOf(u)' = c
    BY <2>1, <2>2 DEF ConnOf
  <2>5. \A v \in Ids(pool') : Accepted(ConnOf(v))'
    BY <1>1, <1>5, <2>1, <2>3, <2>4 DEF PoolInv, Accepted
  <2> QED BY <1>1, <1>5, <1>7, <1>8, <2>1, <2>2, <2>5 DEF PoolInv, PoolKept
<1> QED BY <1>6, <1>7, <1>9, <1>10, <1>11

LEMMA PlayKeeps ==
    ASSUME IInv, NEW c, Accepted(c), Play(c), UNCHANGED given
    PROVE  ToConn(sc') /\ PoolInv'
<1>1. ConnTyped /\ PoolInv /\ ToConn(sc)
  BY DEF IInv, ConnInv, ScInv
<1>2. ToConn(Put(sc, Msg("reply", c))) /\ ToConn(Put(sc, Msg("kick", c)))
  BY <1>1, PutKeeps
<1>3. sc' = Put(sc, Msg("reply", c)) \/ sc' = Put(sc, Msg("kick", c))
  BY DEF Play
<1> QED BY <1>1, <1>2, <1>3, SamePool, GivenSame DEF Play

LEMMA DispatchKeeps == ASSUME IInv, Dispatch PROVE IInv'
<1> DEFINE m == Head(queue)
<1>1. QueueInv /\ queue # << >> /\ queue' = Tail(queue)
      /\ UNCHANGED <<kind, left, link, wire, now, sock, free, given, cs, astray>>
  BY DEF IInv, Dispatch, client, conns
<1>2. m \in Listed(queue) /\ Tail(queue) \in Seq(Message)
      /\ Listed(Tail(queue)) \subseteq Listed(queue)
      /\ Len(Tail(queue)) = Len(queue) - 1 /\ Len(queue) \in Nat
  BY <1>1, TailOf DEF QueueInv
<1>3. QueueInv'
  <2>1. Len(Tail(queue)) <= QueueSize
    BY <1>1, <1>2, SizeAssumption DEF QueueInv
  <2> QED BY <1>1, <1>2, <2>1 DEF QueueInv, Accepted
<1>4. Accepted(m.conn)
  BY <1>1, <1>2 DEF QueueInv
<1>5. Login(m.conn) \/ Play(m.conn)
  BY DEF Dispatch
<1>6. ToConn(sc') /\ PoolInv'
  BY <1>1, <1>4, <1>5, LoginKeeps, PlayKeeps
<1>7. ScInv'
  BY <1>1, <1>6 DEF ScInv, ToConn, Accepted
<1> QED BY <1>1, <1>3, <1>6, <1>7, GivenSame, SameBounds, SameConns, SameCs, SameAstray DEF IInv

LEMMA HeartBeatKeeps == ASSUME IInv, NEW u \in Uid, HeartBeat(u) PROVE IInv'
<1>1. ConnTyped /\ PoolInv /\ ToConn(sc) /\ u \in Ids(pool)
      /\ UNCHANGED <<kind, left, link, wire, now, sock, free, given, cs, queue, object, astray>>
  BY DEF IInv, ConnInv, ScInv, HeartBeat, Online, client, conns
<1>2. Accepted(ConnOf(u))
  BY <1>1 DEF PoolInv
<1>3. ToConn(sc')
  BY <1>1, <1>2, PutKeeps DEF HeartBeat
<1>4. ScInv'
  BY <1>1, <1>3 DEF ScInv, ToConn, Accepted
<1>5. PoolInv'
  BY <1>1, ReleaseObject DEF HeartBeat
<1> QED BY <1>1, <1>4, <1>5, GivenSame, SameBounds, SameConns, SameCs, SameQueue, SameAstray DEF IInv

(* Every object goes with its id to the slot it has after the restart.     *)
LEMMA RestoredConns ==
    ASSUME PoolInv, RestartLogic
    PROVE  Ids(pool') = Ids(pool) /\ \A u \in Ids(pool) : ConnOf(u)' = ConnOf(u)
<1>1. PICK f \in Orders(pool) :
        /\ pool' = Restored(pool, ObjectNum, f)
        /\ object' = [i \in DOMAIN object |->
                        IF \E j \in pool.used : f[j] = i
                        THEN object[CHOOSE j \in pool.used : f[j] = i] ELSE 0]
  BY DEF RestartLogic
<1>2. /\ Ids(pool') = Ids(pool)
      /\ \A u \in Ids(pool) : /\ pool.index[u] \in pool.used
                              /\ pool'.index[u] = f[pool.index[u]]
                              /\ f[pool.index[u]] \in 0 .. ObjectNum - 1
      /\ \A i, j \in pool.used : f[i] = f[j] => i = j
  BY <1>1, RestoredSound, SizeAssumption DEF PoolInv, PoolKept
<1>3. DOMAIN object = 0 .. ObjectNum - 1
  BY DEF PoolInv
<1>4. ASSUME NEW u \in Ids(pool) PROVE ConnOf(u)' = ConnOf(u)
  <2> DEFINE i == pool.index[u]
  <2>1. i \in pool.used /\ f[i] \in DOMAIN object
    BY <1>2, <1>3
  <2>2. (CHOOSE j \in pool.used : f[j] = f[i]) = i
    BY <1>2, <2>1
  <2>3. object'[f[i]] = object[i]
    BY <1>1, <2>1, <2>2
  <2> QED BY <1>2, <2>3 DEF ConnOf
<1> QED BY <1>2, <1>4

LEMMA RestartLogicKeeps == ASSUME IInv, RestartLogic PROVE IInv'
<1>1. PoolInv /\ UNCHANGED <<link, wire, now, sock, free, given, cs, sc, queue, astray>>
  BY DEF IInv, RestartLogic, client, conns
<1>2. PICK f \in Orders(pool) :
        /\ pool' = Restored(pool, ObjectNum, f)
        /\ object' = [i \in DOMAIN object |->
                        IF \E j \in pool.used : f[j] = i
                        THEN object[CHOOSE j \in pool.used : f[j] = i] ELSE 0]
  BY DEF RestartLogic
<1>3. /\ Sound(pool', ObjectNum) /\ pool'.free \in Seq(0 .. ObjectNum - 1)
  BY <1>1, <1>2, RestoredSound, SizeAssumption DEF PoolInv, PoolKept
<1>4. pool.used \subseteq 0 .. ObjectNum - 1 /\ DOMAIN object = 0 .. ObjectNum - 1
  BY <1>1 DEF PoolInv, PoolKept, Sound
<1>5. ASSUME NEW i \in 0 .. ObjectNum - 1 PROVE object'[i] \in Conn \cup {0}
  <2>1. CASE \E j \in pool.used : f[j] = i
    <3>1. (CHOOSE j \in pool.used : f[j] = i) \in pool.used
      BY <2>1
    <3> QED BY <1>1, <1>2, <1>4, <2>1, <3>1 DEF PoolInv
  <2> QED BY <1>2, <1>4, <2>1
<1>6. object' \in [0 .. ObjectNum - 1 -> Conn \cup {0}]
  BY <1>2, <1>4, <1>5
<1>7. Ids(pool') = Ids(pool) /\ \A u \in Ids(pool) : ConnOf(u)' = ConnOf(u)
  BY <1>1, RestoredConns
<1>8. PoolInv'
  <2>1. Ids(pool)' = Ids(pool')
    BY DEF Ids
  <2> QED BY <1>1, <1>3, <1>6, <1>7, <2>1 DEF PoolInv, PoolKept, Accepted
<1>9. Bounds'
  BY Spent DEF IInv, RestartLogic
<1> QED BY <1>1, <1>8, <1>9, GivenSame, SameConns, SameCs, SameSc, SameQueue, SameAstray DEF IInv

-----------------------------------------------------------------------------
LEMMA NextInv == IInv /\ [Next]_vars => IInv'
<1> SUFFICES ASSUME IInv, [Next]_vars PROVE IInv'
  OBVIOUS
<1>1. ASSUME NEW c \in Conn, Connect(c) PROVE IInv'
  BY <1>1, ConnectKeeps
<1>2. ASSUME NEW c \in Conn, ClientSend(c) \/ ClientClose(c) PROVE IInv'
  BY <1>2, ClientKeeps
<1>3. ASSUME NEW s \in Slot, Receive(s) PROVE IInv'
  BY <1>3, ReceiveKeeps
<1>4. ASSUME NEW s \in Slot, CutOff(s) PROVE IInv'
  BY <1>4, CutOffKeeps
<1>5. CASE SendClientData
  BY <1>5, SendKeeps
<1>6. CASE RestartConnect
  BY <1>6, RestartConnectKeeps
<1>7. CASE Fetch
  BY <1>7, FetchKeeps
<1>8. CASE Dispatch
  BY <1>8, DispatchKeeps
<1>9. ASSUME NEW u \in Uid, HeartBeat(u) PROVE IInv'
  BY <1>9, HeartBeatKeeps
<1>10. CASE RestartLogic
  BY <1>10, RestartLogicKeeps
<1>11. CASE UNCHANGED vars
  BY <1>11, GivenSame, SameBounds, SameConns, SameCs, SameSc, SameQueue, SamePool, SameAstray
     DEF IInv, vars, client, conns, logic
<1> QED BY <1>1, <1>2, <1>3, <1>4, <1>5, <1>6, <1>7, <1>8, <1>9, <1>10, <1>11 DEF Next

-----------------------------------------------------------------------------
(* Who is online, and what the connect server and the logic server will    *)
(* have told each other of it.                                             *)

SlotKnown(c) == \E s \in Slot : sock[s].conn = c /\ sock[s].index
Known(c) == SlotKnown(c) \/ Msg("index", c) \in Listed(sc)
Announced(c) == \/ Alive(c) \/ c \in unheard \cup late
                \/ \E m \in Listed(cs) : m.k = "gone" /\ m.conn = c /\ m.head = given[c]

(* The client of an object is the owner of the object's connection; that   *)
(* knows of the object, or will, and the object's end is on its way.       *)
Served(u) == LET c == ConnOf(u)
             IN  /\ Owner[c] = u
                 /\ Alive(c) => Known(c)
                 /\ kind = "tcp" => Announced(c)
NoticeInv == \A u \in Ids(pool) : Served(u)

(* What a step of the connect server may not undo.                         *)
ConnTells ==
    \A c \in Conn : Accepted(c) => /\ Alive(c)' => Alive(c) /\ (Known(c) => Known(c)')
                                   /\ kind = "tcp" /\ Announced(c) => Announced(c)'

LEMMA InitNotice == Init => NoticeInv
<1> SUFFICES ASSUME Init PROVE NoticeInv
  OBVIOUS
<1>1. Ids(pool) = {}
  BY DEF Init, NewPool, Ids
<1> QED BY <1>1 DEF NoticeInv

LEMMA TellsServed ==
    ASSUME PoolInv, NoticeInv, ConnTells, UNCHANGED <<kind, pool, object>> PROVE NoticeInv'
<1> SUFFICES ASSUME NEW u \in Ids(pool) PROVE Served(u)'
  BY DEF NoticeInv, Ids
<1>1. PICK c : c = ConnOf(u)
  OBVIOUS
<1>2. c \in Conn /\ Accepted(c) /\ Served(u) /\ c = ConnOf(u)'
  BY <1>1 DEF PoolInv, Accepted, NoticeInv, ConnOf
<1>3. /\ Alive(c)' => Alive(c) /\ (Known(c) => Known(c)')
      /\ kind = "tcp" /\ Announced(c) => Announced(c)'
  BY <1>2 DEF ConnTells
<1>4. Owner[c] = u /\ (Alive(c) => Known(c)) /\ (kind = "tcp" => Announced(c))
  BY <1>1, <1>2 DEF Served
<1>5. Owner[c] = u /\ (Alive(c)' => Known(c)') /\ (kind' = "tcp" => Announced(c)')
  BY <1>3, <1>4
<1> QED BY <1>2, <1>5 DEF Served

(* Slots keep their connections and what they know of them, and nothing    *)
(* that was sent is taken back.                                            *)
LEMMA SlotsTell ==
    ASSUME \A s \in Slot : /\ sock'[s].conn = sock[s].conn
                           /\ sock[s].index => sock'[s].index,
           Growing, UNCHANGED <<kind, late>>,
           Listed(sc) \subseteq Listed(sc'), Listed(cs) \subseteq Listed(cs'),
           unheard \subseteq unheard'
    PROVE  ConnTells
<1> SUFFICES ASSUME NEW c \in Conn, Accepted(c)
             PROVE  /\ Alive(c)' => Alive(c) /\ (Known(c) => Known(c)')
                    /\ kind = "tcp" /\ Announced(c) => Announced(c)'
  BY DEF ConnTells
<1>1. given'[c] = given[c]
  BY DEF Growing, Accepted
<1>2. Alive(c)' <=> Alive(c)
  BY DEF Alive
<1>3. SlotKnown(c) => SlotKnown(c)'
  BY DEF SlotKnown
<1>4. Msg("index", c)' = Msg("index", c)
  BY <1>1 DEF Msg
<1>5. Listed(sc)' = Listed(sc') /\ Listed(cs)' = Listed(cs')
  BY DEF Listed
<1>6. Known(c) => Known(c)'
  BY <1>3, <1>4, <1>5 DEF Known
<1>7. Announced(c) => Announced(c)'
  BY <1>1, <1>2, <1>5 DEF Announced
<1> QED BY <1>2, <1>6, <1>7

(* A connection has no other slot than its head says.                      *)
LEMMA OneSlot ==
    ASSUME ConnInv, NEW s \in Slot, sock[s].conn # 0 PROVE given[sock[s].conn].pos = s
<1>1. given[sock[s].conn] = [pos |-> s, born |-> sock[s].born]
  BY UsedKnown
<1> QED BY <1>1

(* A slot that is released was its connection's only one, and the notice   *)
(* names the connection, or the connection is among the unheard.           *)
LEMMA ReleaseTells ==
    ASSUME ConnInv, NEW s \in Slot, sock[s].conn # 0, NEW notify, NEW pipe, FromConn(pipe),
           Listed(cs) \subseteq Listed(pipe), SocketRelease(s, notify, pipe),
           UNCHANGED <<kind, late>>, NEW c \in Conn, Accepted(c)
    PROVE  /\ Alive(c)' => Alive(c) /\ c # sock[s].conn /\ (SlotKnown(c) => SlotKnown(c)')
           /\ kind = "tcp" /\ Announced(c) => Announced(c)'
<1> DEFINE d == sock[s].conn
<1>1. ConnTyped /\ ConnKnown
  BY DEF ConnInv
<1>2. /\ d \in Conn /\ Accepted(d) /\ given[d].pos = s
  BY UsedKnown, OneSlot
<1>3. c # 0
  BY ConnAssumption
<1>4. /\ sock' = [sock EXCEPT ![s] = Unused] /\ given' = given
      /\ \/ cs' = Append(pipe, Notice(d)) /\ unheard' = unheard
         \/ cs' = pipe /\ unheard' = unheard \cup {d}
  BY DEF SocketRelease
<1> HIDE DEF d
<1>5. \A x \in Slot : sock'[x] = IF x = s THEN Unused ELSE sock[x]
  BY <1>1, <1>4 DEF ConnTyped
<1>6. Unused.conn = 0
  BY DEF Unused, Socket
<1>7. /\ Msg("gone", d) \in Message /\ Msg("gone", d).conn = d
      /\ Msg("gone", d).head = given[d] /\ Msg("gone", d).k = "gone"
  BY <1>1, <1>2, MsgTyped
<1>8. /\ Notice(d) \in Message /\ Notice(d).conn = d /\ Notice(d).k = "gone"
      /\ kind = "tcp" => Notice(d).head = given[d]
  <2>1. NoHead \in HeadSet
    BY DEF NoHead, HeadSet
  <2> QED BY <1>7, <2>1 DEF Notice, Message
<1>9. \/ Listed(cs') = Listed(pipe) \cup {Notice(d)} /\ unheard' = unheard
      \/ Listed(cs') = Listed(pipe) /\ unheard' = unheard \cup {d}
  <2>1. pipe \in Seq(Message)
    BY DEF FromConn
  <2>2. Listed(Append(pipe, Notice(d))) = Listed(pipe) \cup {Notice(d)}
    BY <1>8, <2>1, AppendTo
  <2> QED BY <1>4, <2>2
<1>10. ASSUME Alive(c)' PROVE Alive(c) /\ c # d
  <2>1. PICK x \in Slot : sock'[x].conn = c
    BY <1>10 DEF Alive
  <2>2. x # s /\ sock[x].conn = c
    BY <1>3, <1>5, <1>6, <2>1
  <2>3. given[c].pos = x
    BY <1>3, <2>2, OneSlot
  <2> QED BY <1>2, <2>2, <2>3 DEF Alive
<1>11. ASSUME c # d, SlotKnown(c) PROVE SlotKnown(c)'
  <2>1. PICK x \in Slot : sock[x].conn = c /\ sock[x].index
    BY <1>11 DEF SlotKnown
  <2>2. x # s
    BY <1>11, <2>1 DEF d
  <2> QED BY <1>5, <2>1, <2>2 DEF SlotKnown
<1>12. Listed(cs)' = Listed(cs')
  BY DEF Listed
<1>13. ASSUME kind = "tcp", Announced(c) PROVE Announced(c)'
  <2>1. CASE Alive(c) /\ c # d
    <3>1. PICK x \in Slot : sock[x].conn = c
      BY <2>1 DEF Alive
    <3>2. x # s
      BY <2>1, <3>1 DEF d
    <3>3. Alive(c)'
      BY <1>5, <3>1, <3>2 DEF Alive
    <3> QED BY <3>3 DEF Announced
  <2>2. CASE c = d
    <3>1. c \in unheard' \/ Notice(d) \in Listed(cs')
      BY <1>9, <2>2
    <3> QED BY <1>4, <1>8, <1>12, <1>13, <2>2, <3>1 DEF Announced
  <2>3. CASE c \in unheard \cup late
    BY <1>9, <2>3 DEF Announced
  <2>4. CASE \E m \in Listed(cs) : m.k = "gone" /\ m.conn = c /\ m.head = given[c]
    BY <1>4, <1>9, <1>12, <2>4 DEF Announced
  <2> QED BY <1>13, <2>1, <2>2, <2>3, <2>4 DEF Announced
<1> QED BY <1>10, <1>11, <1>13 DEF d

LEMMA ReleaseTellsAll ==
    ASSUME ConnInv, NEW s \in Slot, sock[s].conn # 0, NEW notify, NEW pipe, FromConn(pipe),
           Listed(cs) \subseteq Listed(pipe), SocketRelease(s, notify, pipe),
           UNCHANGED <<kind, late, sc>>
    PROVE  ConnTells
<1> SUFFICES ASSUME NEW c \in Conn, Accepted(c)
             PROVE  /\ Alive(c)' => Alive(c) /\ (Known(c) => Known(c)')
                    /\ kind = "tcp" /\ Announced(c) => Announced(c)'
  BY DEF ConnTells
<1>1. /\ Alive(c)' => Alive(c) /\ (SlotKnown(c) => SlotKnown(c)')
      /\ kind = "tcp" /\ Announced(c) => Announced(c)'
  BY ReleaseTells
<1>2. given' = given
  BY DEF SocketRelease
<1>3. Msg("index", c)' = Msg("index", c) /\ Listed(sc)' = Listed(sc)
  BY <1>2 DEF Msg, Listed
<1> QED BY <1>1, <1>3 DEF Known

(* What a slot's receive buffer or its handshake is does not matter.       *)
LEMMA SlotUsedTells ==
    ASSUME ConnTyped, NEW s \in Slot, NEW b, NEW h,
           \/ sock' = [sock EXCEPT ![s].buf = b] \/ sock' = [sock EXCEPT ![s].shaken = h]
           \/ sock' = [sock EXCEPT ![s].index = TRUE]
    PROVE  \A x \in Slot : /\ sock'[x].conn = sock[x].conn
                           /\ sock[x].index => sock'[x].index
<1> DEFINE Rec == [conn : Conn \cup {0}, born : Nat, index : BOOLEAN, shaken : BOOLEAN,
                   buf : Seq(Pkg)]
<1>1. sock \in [Slot -> Rec]
  BY DEF ConnTyped
<1> SUFFICES ASSUME NEW x \in Slot
             PROVE  sock'[x].conn = sock[x].conn /\ (sock[x].index => sock'[x].index)
  OBVIOUS
<1>2. sock[s] \in Rec
  BY <1>1
<1>3. CASE sock' = [sock EXCEPT ![s].buf = b]
  BY <1>1, <1>2, <1>3
<1>4. CASE sock' = [sock EXCEPT ![s].shaken = h]
  BY <1>1, <1>2, <1>4
<1>5. CASE sock' = [sock EXCEPT ![s].index = TRUE]
  BY <1>1, <1>2, <1>5
<1> QED BY <1>3, <1>4, <1>5

LEMMA RecvTells ==
    ASSUME ConnInv, CsInv, NEW s \in Slot, sock[s].conn # 0, wire[sock[s].conn] # << >>,
           Recv(s), UNCHANGED <<kind, late, sc>>
    PROVE  ConnTells
<1> DEFINE c == sock[s].conn
           buf == Append(sock[s].buf, Head(wire[c]))
<1>1. ConnTyped /\ c \in Conn /\ Accepted(c)
  BY UsedKnown DEF ConnInv
<1>2. wire[c] \in Seq(Pkg) /\ Head(wire[c]) \in Pkg /\ sock[s].buf \in Seq(Pkg)
  BY <1>1, HeadTailProperties DEF ConnTyped
<1>3. buf \in Seq(Pkg)
  BY <1>2, AppendProperties
<1> DEFINE All(n) == cs \o [i \in 1 .. n |-> Msg(buf[i], c)]
<1>4. PICK n \in Passable(buf) :
        \/ SocketRelease(s, TRUE, All(n))
        \/ /\ cs' = All(n)
           /\ sock' = [sock EXCEPT ![s].buf = Kept(buf, n)]
           /\ UNCHANGED <<given, unheard>>
  BY DEF Recv
<1> HIDE DEF c, buf
<1>5. FromConn(All(n)) /\ Listed(cs) \subseteq Listed(All(n))
  BY <1>1, <1>3, PassedOn
<1> HIDE DEF All
<1>6. CASE SocketRelease(s, TRUE, All(n))
  BY <1>5, <1>6, ReleaseTellsAll
<1>7. CASE /\ cs' = All(n)
           /\ sock' = [sock EXCEPT ![s].buf = Kept(buf, n)]
           /\ UNCHANGED <<given, unheard>>
  <2>1. \A x \in Slot : /\ sock'[x].conn = sock[x].conn
                        /\ sock[x].index => sock'[x].index
    BY <1>1, <1>7, SlotUsedTells
  <2> QED BY <1>5, <1>7, <2>1, SlotsTell, GivenSame
<1> QED BY <1>4, <1>6, <1>7

LEMMA ReceiveTells == ASSUME IInv, NEW s \in Slot, Receive(s) PROVE ConnTells
<1>1. /\ ConnInv /\ CsInv /\ ConnTyped /\ FromConn(cs) /\ sock[s].conn # 0
      /\ UNCHANGED <<kind, late, sc>>
  BY DEF IInv, ConnInv, CsInv, Receive, logic
<1>2. CASE wire[sock[s].conn] # << >> /\ Recv(s)
  BY <1>1, <1>2, RecvTells
<1>3. CASE SocketRelease(s, TRUE, cs)
  BY <1>1, <1>3, ReleaseTellsAll
<1>4. CASE /\ sock' = [sock EXCEPT ![s].shaken = TRUE]
           /\ UNCHANGED <<link, cs, now, free, given, unheard>>
  <2>1. \A x \in Slot : /\ sock'[x].conn = sock[x].conn
                        /\ sock[x].index => sock'[x].index
    BY <1>1, <1>4, SlotUsedTells
  <2> QED BY <1>1, <1>4, <2>1, SlotsTell, GivenSame
<1> QED BY <1>2, <1>3, <1>4 DEF Receive, Handshake

LEMMA CutOffTells == ASSUME IInv, NEW s \in Slot, CutOff(s) PROVE ConnTells
<1>1. ConnInv /\ FromConn(cs) /\ sock[s].conn # 0 /\ UNCHANGED <<kind, late, sc>>
  BY DEF IInv, CsInv, CutOff, Idle, logic
<1>2. SocketRelease(s, sock[s].index, cs)
  BY DEF CutOff
<1> QED BY <1>1, <1>2, ReleaseTellsAll

LEMMA ConnectTells == ASSUME IInv, NEW c \in Conn, Connect(c) PROVE ConnTells
<1>1. ConnTyped /\ ConnKnown /\ SlotsKept /\ link[c] = "new"
      /\ UNCHANGED <<kind, late, sc, cs>>
  BY DEF IInv, ConnInv, Connect, logic
<1>2. given[c].born = 0
  BY <1>1 DEF ConnKnown
<1>3. Growing
  BY <1>1, <1>2 DEF Growing, Connect, ConnTyped, conns
<1>4. CASE free = << >>
  BY <1>1, <1>3, <1>4, SlotsTell DEF Connect, conns
<1>5. CASE free # << >>
  <2> DEFINE h == Head(free)
  <2>1. PICK t : sock' = [sock EXCEPT ![h] = Socket(c, t)]
    BY <1>5 DEF Connect
  <2>2. unheard' = unheard
    BY <1>5 DEF Connect
  <2>3. h \in Slot /\ sock[h].conn = 0
    BY <1>1, <1>5, TailOf DEF ConnTyped, SlotsKept
  <2> HIDE DEF h
  <2>4. \A x \in Slot : sock'[x] = IF x = h THEN Socket(c, t) ELSE sock[x]
    BY <1>1, <2>1 DEF ConnTyped
  <2>5. Socket(c, t).conn = c
    BY DEF Socket
  <2>6. ASSUME NEW d \in Conn, Accepted(d)
        PROVE  /\ Alive(d)' <=> Alive(d)
               /\ SlotKnown(d) => SlotKnown(d)'
               /\ given'[d] = given[d]
    <3>1. d # c /\ d # 0
      BY <1>2, <2>6, ConnAssumption DEF Accepted
    <3>2. \A x \in Slot : sock[x].conn = d => x # h
      BY <2>3, <3>1
    <3>3. \A x \in Slot : sock'[x].conn = d => x # h
      BY <2>4, <2>5, <3>1
    <3>4. Alive(d)' <=> Alive(d)
      BY <2>4, <3>2, <3>3 DEF Alive
    <3>5. SlotKnown(d) => SlotKnown(d)'
      BY <2>4, <3>2 DEF SlotKnown
    <3> QED BY <1>3, <2>6, <3>4, <3>5 DEF Growing, Accepted
  <2>7. Listed(cs)' = Listed(cs) /\ Listed(sc)' = Listed(sc)
    BY <1>1 DEF Listed
  <2>8. ASSUME NEW d \in Conn, Accepted(d) PROVE Known(d) => Known(d)'
    BY <2>6, <2>7, <2>8 DEF Known, Msg
  <2>9. ASSUME NEW d \in Conn, Accepted(d) PROVE Announced(d) => Announced(d)'
    BY <1>1, <2>2, <2>6, <2>7, <2>9 DEF Announced
  <2> QED BY <2>6, <2>8, <2>9 DEF ConnTells
<1> QED BY <1>4, <1>5

LEMMA ClientTells == ASSUME NEW c \in Conn, ClientSend(c) \/ ClientClose(c) PROVE ConnTells
  BY SlotsTell, GivenSame DEF ClientSend, ClientClose, conns, logic

(* An index comes to the slot of its connection, if that has one.          *)
LEMMA SendTells == ASSUME IInv, SendClientData PROVE ConnTells
<1> DEFINE m == Head(sc)
           s == m.head.pos
<1>1. ConnInv /\ ConnTyped /\ FromConn(cs) /\ ScInv /\ sc # << >> /\ sc' = Tail(sc)
      /\ UNCHANGED <<kind, late>>
  BY DEF IInv, ConnInv, CsInv, SendClientData, logic
<1>2. m \in Listed(sc) /\ Listed(sc) = {m} \cup Listed(Tail(sc)) /\ m \in Message
  BY <1>1, TailOf DEF ScInv, ToConn
<1>3. Accepted(m.conn) /\ m.head = given[m.conn]
  BY <1>1, <1>2 DEF ScInv, ToConn
<1>4. s \in Slot /\ given[m.conn].born # 0
  BY <1>1, <1>3 DEF Accepted, ConnInv, ConnKnown
<1>5. SameConn(m) => sock[s].conn # 0
  BY <1>1, <1>3, <1>4 DEF SameConn, ConnInv, ConnKnown
<1> HIDE DEF m, s
<1>6. Listed(sc)' = Listed(Tail(sc)) /\ Listed(cs)' = Listed(cs')
  BY <1>1 DEF Listed
<1>7. \/ UNCHANGED <<cs, conns>> /\ (SameConn(m) => m.k # "index")
      \/ /\ SameConn(m) /\ sock' = [sock EXCEPT ![s].index = TRUE]
         /\ UNCHANGED <<cs, given, unheard>>
      \/ SameConn(m) /\ m.k # "index" /\ SocketRelease(s, FALSE, cs)
      \/ SameConn(m) /\ m.k # "index" /\ SocketRelease(s, TRUE, cs)
  BY DEF SendClientData, m, s
<1>8. \A c \in Conn : given'[c] = given[c]
  BY <1>7 DEF conns, SocketRelease
<1> SUFFICES ASSUME NEW c \in Conn, Accepted(c)
             PROVE  /\ Alive(c)' => Alive(c) /\ (Known(c) => Known(c)')
                    /\ kind = "tcp" /\ Announced(c) => Announced(c)'
  BY DEF ConnTells
<1>9. Msg("index", c)' = Msg("index", c)
  BY <1>8 DEF Msg
<1>10. /\ Alive(c)' => Alive(c) /\ (SlotKnown(c) => SlotKnown(c)')
       /\ kind = "tcp" /\ Announced(c) => Announced(c)'
  <2>1. CASE UNCHANGED <<cs, conns>>
    BY <1>1, <2>1 DEF conns, Alive, SlotKnown, Announced, Listed
  <2>2. CASE sock' = [sock EXCEPT ![s].index = TRUE] /\ UNCHANGED <<cs, given, unheard>>
    <3>1. \A x \in Slot : /\ sock'[x].conn = sock[x].conn
                          /\ sock[x].index => sock'[x].index
      BY <1>1, <1>4, <2>2, SlotUsedTells DEF s
    <3> QED BY <1>1, <2>2, <3>1 DEF Alive, SlotKnown, Announced, Listed
  <2>3. CASE SameConn(m) /\ (SocketRelease(s, FALSE, cs) \/ SocketRelease(s, TRUE, cs))
    BY <1>1, <1>4, <1>5, <2>3, ReleaseTells DEF s
  <2> QED BY <1>7, <2>1, <2>2, <2>3
<1>11. ASSUME m = Msg("index", c), Alive(c) PROVE SlotKnown(c)'
  <2>1. m.k = "index" /\ m.conn = c
    BY <1>1, <1>11, MsgTyped
  <2>2. PICK x \in Slot : sock[x].conn = c
    BY <1>11 DEF Alive
  <2>3. c # 0
    BY ConnAssumption
  <2>4. given[c] = [pos |-> x, born |-> sock[x].born]
    BY <1>1, <2>2, <2>3, UsedKnown
  <2>5. s = x /\ SameConn(m)
    BY <1>3, <2>1, <2>4 DEF s, SameConn
  <2>6. sock' = [sock EXCEPT ![s].index = TRUE]
    BY <1>7, <2>1, <2>5 DEF conns
  <2>7. sock'[s].conn = c /\ sock'[s].index
    BY <1>1, <2>2, <2>5, <2>6 DEF ConnTyped
  <2> QED BY <2>5, <2>7 DEF SlotKnown
<1>12. ASSUME Alive(c)', Known(c) PROVE Known(c)'
  BY <1>2, <1>6, <1>9, <1>10, <1>11, <1>12 DEF Known
<1> QED BY <1>10, <1>12

LEMMA RestartConnectTells == ASSUME RestartConnect PROVE ConnTells
<1>1. /\ sock' = [s \in Slot |-> Unused] /\ unheard' = unheard \cup {c \in Conn : Alive(c)}
      /\ UNCHANGED <<kind, given, cs, late>>
  BY DEF RestartConnect, logic
<1> SUFFICES ASSUME NEW c \in Conn
             PROVE  ~ Alive(c)' /\ (Announced(c) => Announced(c)')
  BY DEF ConnTells
<1>2. ~ Alive(c)'
  <2>1. \A s \in Slot : sock'[s].conn = 0
    BY <1>1 DEF Unused, Socket
  <2> QED BY <2>1, ConnAssumption DEF Alive
<1>3. Announced(c) => Announced(c)'
  BY <1>1 DEF Announced, Listed
<1> QED BY <1>2, <1>3

LEMMA PutGrows ==
    ASSUME ConnTyped, NEW pipe, ToConn(pipe), NEW c, Accepted(c),
           NEW k \in {"index", "kick", "reply"}
    PROVE  /\ Listed(pipe) \subseteq Listed(Put(pipe, Msg(k, c)))
           /\ HasRoom(pipe) => Msg(k, c) \in Listed(Put(pipe, Msg(k, c)))
<1>1. Msg(k, c) \in Message
  BY MsgTyped
<1>2. Listed(Append(pipe, Msg(k, c))) = Listed(pipe) \cup {Msg(k, c)}
  BY <1>1, AppendTo DEF ToConn
<1> QED BY <1>2 DEF Put

(* An object that a step of the logic server leaves alone.                 *)
LEMMA StillServed ==
    ASSUME NEW u, Served(u), ConnOf(u)' = ConnOf(u),
           UNCHANGED <<kind, sock, given, unheard>>, late \subseteq late',
           Listed(sc) \subseteq Listed(sc'),
           \A m \in Listed(cs) : m.k = "gone" /\ m.conn = ConnOf(u) => m \in Listed(cs')
    PROVE  Served(u)'
<1>1. PICK c : c = ConnOf(u) /\ c = ConnOf(u)'
  OBVIOUS
<1>2. Owner[c] = u /\ (Alive(c) => Known(c)) /\ (kind = "tcp" => Announced(c))
  BY <1>1 DEF Served
<1>3. Listed(sc)' = Listed(sc') /\ Listed(cs)' = Listed(cs') /\ (Alive(c)' <=> Alive(c))
  BY DEF Listed, Alive
<1>4. Known(c) => Known(c)'
  BY <1>3 DEF Known, SlotKnown, Msg
<1>5. Announced(c) => Announced(c)'
  BY <1>1, <1>3 DEF Announced
<1> QED BY <1>1, <1>2, <1>3, <1>4, <1>5 DEF Served

(* A notice that is used up has logged its client out.                     *)
LEMMA FetchNotices == ASSUME IInv, NoticeInv, Fetch PROVE NoticeInv'
<1> DEFINE m == Head(cs)
           w == Owner[m.conn]
<1>1. CsInv /\ PoolInv /\ cs # << >> /\ cs' = Tail(cs)
      /\ UNCHANGED <<kind, sock, given, unheard, late, sc, object>>
  BY DEF IInv, Fetch, conns
<1>2. m \in Listed(cs) /\ Listed(cs) = {m} \cup Listed(Tail(cs))
  BY <1>1, TailOf DEF CsInv, FromConn
<1>3. \/ /\ pool' = pool
         /\ m.k = "gone" => ~SameHead(m)
      \/ SameHead(m) /\ pool' = Release(pool, w)
  BY DEF Fetch
<1> HIDE DEF m
<1>4. \A u \in Ids(pool') : u \in Ids(pool) /\ ConnOf(u)' = ConnOf(u)
  <2>1. CASE pool' = pool
    BY <1>1, <2>1 DEF ConnOf
  <2>2. CASE SameHead(m) /\ pool' = Release(pool, w)
    <3>1. Ids(pool') = Ids(pool) \ {w} /\ \A v \in Ids(pool') : pool'.index[v] = pool.index[v]
      BY <1>1, <2>2, LogoutKeeps DEF SameHead, Online
    <3> QED BY <1>1, <3>1 DEF ConnOf
  <2> QED BY <1>3, <2>1, <2>2
<1> SUFFICES ASSUME NEW u \in Ids(pool') PROVE Served(u)'
  BY DEF NoticeInv, Ids
<1>5. Served(u) /\ ConnOf(u)' = ConnOf(u) /\ u \in Ids(pool)
  BY <1>4 DEF NoticeInv
<1>6. CASE ~(m.k = "gone" /\ m.conn = ConnOf(u) /\ m.head = given[m.conn])
  <2>1. PICK c : c = ConnOf(u) /\ c = ConnOf(u)'
    BY <1>5
  <2>2. Owner[c] = u /\ (Alive(c) => Known(c)) /\ (kind = "tcp" => Announced(c))
    BY <1>5, <2>1 DEF Served
  <2>3. (Alive(c)' <=> Alive(c)) /\ (Known(c)' <=> Known(c))
    BY <1>1 DEF Alive, Known, SlotKnown, Msg, Listed
  <2>4. Listed(cs)' = Listed(Tail(cs))
    BY <1>1 DEF Listed
  <2>5. Announced(c) => Announced(c)'
    BY <1>1, <1>2, <1>6, <2>1, <2>3, <2>4 DEF Announced
  <2> QED BY <1>1, <2>1, <2>2, <2>3, <2>5 DEF Served
<1>7. CASE m.k = "gone" /\ m.conn = ConnOf(u) /\ m.head = given[m.conn]
  <2>1. w = u
    BY <1>5, <1>7 DEF Served, m
  <2>2. SameHead(m)
    BY <1>5, <1>7, <2>1 DEF SameHead, Online, m
  <2>3. pool' = Release(pool, u)
    BY <1>3, <1>7, <2>1, <2>2
  <2>4. u \notin Ids(pool')
    BY <2>3 DEF Release, Ids
  <2> QED BY <2>4
<1> QED BY <1>6, <1>7

(* A login's object is made when the connect server can be told of it.     *)
LEMMA LoginNotices ==
    ASSUME IInv, NoticeInv, NEW c, Accepted(c), Login(c),
           UNCHANGED <<kind, sock, given, unheard, cs>>
    PROVE  NoticeInv'
<1> DEFINE u   == Owner[c]
           sc1 == IF Online(u) THEN Put(sc, Msg("kick", ConnOf(u))) ELSE sc
           sc2 == Put(sc1, Msg("index", c))
           p   == LoggedOut(u)
<1>1. ConnTyped /\ PoolInv /\ ToConn(sc) /\ c \in Conn /\ u \in Uid
  BY ConnAssumption DEF IInv, ConnInv, ScInv, Accepted
<1>2. ToConn(sc1) /\ Listed(sc) \subseteq Listed(sc1)
  <2>1. CASE Online(u)
    <3>1. Accepted(ConnOf(u))
      BY <1>1, <2>1 DEF Online, PoolInv
    <3> QED BY <1>1, <2>1, <3>1, PutKeeps, PutGrows
  <2> QED BY <1>1, <2>1
<1> HIDE DEF sc1
<1>3. /\ ToConn(sc2) /\ Listed(sc1) \subseteq Listed(sc2)
      /\ HasRoom(sc1) => Msg("index", c) \in Listed(sc2)
  BY <1>1, <1>2, PutKeeps, PutGrows
<1> HIDE DEF sc2
<1>4. /\ Listed(sc2) \subseteq Listed(Put(sc2, Msg("kick", c)))
      /\ Listed(sc2) \subseteq Listed(Put(sc2, Msg("reply", c)))
      /\ Listed(sc) \subseteq Listed(Put(sc, Msg("reply", c)))
  BY <1>1, <1>3, PutGrows
<1>5. /\ Sound(p, ObjectNum) /\ p.free \in Seq(0 .. ObjectNum - 1)
      /\ Ids(p) = Ids(pool) \ {u}
      /\ \A v \in Ids(p) : p.index[v] = pool.index[v]
  <2>1. CASE Online(u)
    BY <1>1, <2>1, LogoutKeeps DEF LoggedOut, Online
  <2>2. CASE ~Online(u)
    BY <1>1, <2>2 DEF LoggedOut, Online, PoolInv, PoolKept
  <2> QED BY <2>1, <2>2
<1>6. /\ \/ sc' = Put(sc, Msg("reply", c)) /\ UNCHANGED <<pool, object>>
         \/ sc' \in {sc1, Put(sc2, Msg("kick", c))} /\ pool' = p /\ UNCHANGED object
         \/ /\ HasRoom(sc1) /\ ~IsFull(p) /\ pool' = Create(p, u)
            /\ object' = [object EXCEPT ![Head(p.free)] = c]
            /\ sc' = Put(sc2, Msg("reply", c))
      /\ late' = IF Alive(c) THEN late ELSE late \cup {c}
  BY DEF Login, CanNotify, sc1, sc2
<1> HIDE DEF p, u
<1>7. Listed(sc) \subseteq Listed(sc')
  BY <1>2, <1>3, <1>4, <1>6
<1>8. ASSUME NEW v \in Ids(pool), ConnOf(v)' = ConnOf(v) PROVE Served(v)'
  <2>1. Served(v) /\ late \subseteq late' /\ Listed(cs') = Listed(cs)
    BY <1>6 DEF NoticeInv
  <2> QED BY <1>7, <1>8, <2>1, StillServed
<1>9. Ids(pool)' = Ids(pool')
  BY DEF Ids
<1>10. CASE UNCHANGED <<pool, object>>
  BY <1>8, <1>9, <1>10 DEF NoticeInv, ConnOf
<1>11. CASE pool' = p /\ UNCHANGED object
  <2>1. \A v \in Ids(pool') : v \in Ids(pool) /\ ConnOf(v)' = ConnOf(v)
    BY <1>5, <1>11 DEF ConnOf
  <2> QED BY <1>8, <1>9, <2>1 DEF NoticeInv
<1>12. CASE /\ HasRoom(sc1) /\ ~IsFull(p) /\ pool' = Create(p, u)
            /\ object' = [object EXCEPT ![Head(p.free)] = c]
            /\ sc' = Put(sc2, Msg("reply", c))
  <2>1. /\ Head(p.free) \in 0 .. ObjectNum - 1
        /\ Ids(pool') = Ids(p) \cup {u}
        /\ pool'.index[u] = Head(p.free)
        /\ \A v \in Ids(p) : /\ pool'.index[v] = p.index[v]
                             /\ p.index[v] # Head(p.free)
    BY <1>5, <1>12, CreateSound, SizeAssumption
  <2>2. \A v \in Ids(p) : v \in Ids(pool) /\ ConnOf(v)' = ConnOf(v)
    <3>1. ASSUME NEW v \in Ids(p) PROVE pool.index[v] \in 0 .. ObjectNum - 1
      BY <1>1, <1>5 DEF PoolInv, PoolKept, Sound, Listed, Ids
    <3> QED BY <1>1, <1>5, <1>12, <2>1, <3>1 DEF ConnOf, PoolInv
  <2>3. ConnOf(u)' = c
    BY <1>1, <1>12, <2>1 DEF ConnOf, PoolInv
  <2>4. Known(c)'
    <3>1. Msg("index", c)' \in Listed(sc')
      BY <1>3, <1>4, <1>12 DEF Msg
    <3> QED BY <3>1 DEF Known, Listed
  <2>5. Announced(c)'
    BY <1>6 DEF Announced, Alive
  <2>6. Served(u)'
    BY <2>3, <2>4, <2>5 DEF Served, u
  <2> QED BY <1>8, <1>9, <2>1, <2>2, <2>6 DEF NoticeInv
<1> QED BY <1>6, <1>10, <1>11, <1>12

LEMMA DispatchNotices == ASSUME IInv, NoticeInv, Dispatch PROVE NoticeInv'
<1> DEFINE m == Head(queue)
<1>1. QueueInv /\ ScInv /\ ConnTyped /\ queue # << >>
      /\ UNCHANGED <<kind, sock, given, unheard, cs>>
  BY DEF IInv, ConnInv, Dispatch, conns
<1>2. Accepted(m.conn)
  BY <1>1, TailOf DEF QueueInv
<1>3. CASE Login(m.conn)
  BY <1>1, <1>2, <1>3, LoginNotices
<1>4. CASE Play(m.conn)
  <2>1. UNCHANGED <<pool, object, late>> /\ Listed(sc) \subseteq Listed(sc')
    BY <1>1, <1>2, <1>4, PutGrows DEF Play, ScInv
  <2> SUFFICES ASSUME NEW u \in Ids(pool) PROVE Served(u)'
    BY <2>1 DEF NoticeInv
  <2>2. Served(u) /\ ConnOf(u)' = ConnOf(u) /\ Listed(cs') = Listed(cs)
    BY <1>1, <2>1 DEF NoticeInv, ConnOf
  <2> QED BY <1>1, <2>1, <2>2, StillServed
<1> QED BY <1>3, <1>4 DEF Dispatch

LEMMA HeartBeatNotices == ASSUME IInv, NoticeInv, NEW u \in Uid, HeartBeat(u) PROVE NoticeInv'
<1>1. ConnTyped /\ PoolInv /\ ToConn(sc) /\ u \in Ids(pool) /\ pool' = Release(pool, u)
      /\ UNCHANGED <<kind, sock, given, unheard, cs, object, late>>
  BY DEF IInv, ConnInv, ScInv, HeartBeat, Online, conns
<1>2. Listed(sc) \subseteq Listed(sc')
  BY <1>1, PutGrows DEF HeartBeat, PoolInv
<1>3. Ids(pool') = Ids(pool) \ {u} /\ \A v \in Ids(pool') : pool'.index[v] = pool.index[v]
  BY <1>1, LogoutKeeps
<1> SUFFICES ASSUME NEW v \in Ids(pool') PROVE Served(v)'
  BY DEF NoticeInv, Ids
<1>4. Served(v) /\ ConnOf(v)' = ConnOf(v) /\ Listed(cs') = Listed(cs)
  BY <1>1, <1>3 DEF NoticeInv, ConnOf
<1> QED BY <1>1, <1>2, <1>4, StillServed

LEMMA RestartLogicNotices == ASSUME IInv, NoticeInv, RestartLogic PROVE NoticeInv'
<1>1. PoolInv /\ UNCHANGED <<kind, sock, given, unheard, cs, sc, late>>
  BY DEF IInv, RestartLogic, conns
<1>2. Ids(pool') = Ids(pool) /\ \A u \in Ids(pool) : ConnOf(u)' = ConnOf(u)
  BY <1>1, RestoredConns
<1> SUFFICES ASSUME NEW u \in Ids(pool) PROVE Served(u)'
  BY <1>2 DEF NoticeInv, Ids
<1>3. Served(u) /\ Listed(sc') = Listed(sc) /\ Listed(cs') = Listed(cs)
  BY <1>1 DEF NoticeInv
<1> QED BY <1>1, <1>2, <1>3, StillServed

LEMMA NextNotices == IInv /\ NoticeInv /\ [Next]_vars => NoticeInv'
<1> SUFFICES ASSUME IInv, NoticeInv, [Next]_vars PROVE NoticeInv'
  OBVIOUS
<1>1. PoolInv
  BY DEF IInv
<1>2. ASSUME NEW c \in Conn, Connect(c) PROVE NoticeInv'
  <2>1. UNCHANGED <<kind, pool, object>>
    BY <1>2 DEF Connect, logic
  <2> QED BY <1>1, <1>2, <2>1, ConnectTells, TellsServed
<1>3. ASSUME NEW c \in Conn, ClientSend(c) \/ ClientClose(c) PROVE NoticeInv'
  <2>1. UNCHANGED <<kind, pool, object>>
    BY <1>3 DEF ClientSend, ClientClose, logic
  <2> QED BY <1>1, <1>3, <2>1, ClientTells, TellsServed
<1>4. ASSUME NEW s \in Slot, Receive(s) PROVE NoticeInv'
  <2>1. UNCHANGED <<kind, pool, object>>
    BY <1>4 DEF Receive, logic
  <2> QED BY <1>1, <1>4, <2>1, ReceiveTells, TellsServed
<1>5. ASSUME NEW s \in Slot, CutOff(s) PROVE NoticeInv'
  <2>1. UNCHANGED <<kind, pool, object>>
    BY <1>5 DEF CutOff, logic
  <2> QED BY <1>1, <1>5, <2>1, CutOffTells, TellsServed
<1>6. CASE SendClientData
  <2>1. UNCHANGED <<kind, pool, object>>
    BY <1>6 DEF SendClientData, logic
  <2> QED BY <1>1, <1>6, <2>1, SendTells, TellsServed
<1>7. CASE RestartConnect
  <2>1. UNCHANGED <<kind, pool, object>>
    BY <1>7 DEF RestartConnect, logic
  <2> QED BY <1>1, <1>7, <2>1, RestartConnectTells, TellsServed
<1>8. CASE Fetch
  BY <1>8, FetchNotices
<1>9. CASE Dispatch
  BY <1>9, DispatchNotices
<1>10. ASSUME NEW u \in Uid, HeartBeat(u) PROVE NoticeInv'
  BY <1>10, HeartBeatNotices
<1>11. CASE RestartLogic
  BY <1>11, RestartLogicNotices
<1>12. CASE UNCHANGED vars
  BY <1>1, <1>12, GivenSame, SlotsTell, TellsServed DEF vars, client, conns, logic
<1> QED BY <1>2, <1>3, <1>4, <1>5, <1>6, <1>7, <1>8, <1>9, <1>10, <1>11, <1>12 DEF Next

(* What the two servers have of a connection, in their tables, the pipes   *)
(* and the queue, agrees at every moment.                                  *)
THEOREM Agreement == Spec => []IInv
<1> QED BY InitInv, NextInv, PTL DEF Spec

(* The tables have their types, pipes, queue and buffers keep their limits *)
(* and a slot's connection was given that slot (TypeOK).                   *)
THEOREM GatewayTyped == Spec => []TypeOK
<1>1. IInv => TypeOK
  <2> SUFFICES ASSUME IInv PROVE TypeOK
    OBVIOUS
  <2>1. ConnTyped /\ ConnKnown /\ BufKept /\ Bounds /\ CsInv /\ ScInv /\ QueueInv /\ PoolInv
    BY DEF IInv, ConnInv
  <2>2. ASSUME NEW c \in Conn PROVE given[c] \in [pos : Slot \cup {0}, born : Nat]
    <3>1. given[c] \in HeadSet /\ given[c].pos \in Slot \cup {0}
      BY <2>1 DEF ConnTyped, ConnKnown
    <3> QED BY <3>1 DEF HeadSet
  <2>3. given \in [Conn -> [pos : Slot \cup {0}, born : Nat]]
    BY <2>1, <2>2 DEF ConnTyped
  <2>4. ASSUME NEW s \in Slot
        PROVE  /\ sock[s].conn \in Conn \cup {0}
               /\ Len(sock[s].buf) <= BufSize
               /\ sock[s].conn # 0 => given[sock[s].conn] = [pos |-> s, born |-> sock[s].born]
    BY <2>1 DEF ConnTyped, ConnKnown, BufKept
  <2> QED BY <2>1, <2>3, <2>4
          DEF TypeOK, Bounds, ConnTyped, CsInv, ScInv, FromConn, ToConn, QueueInv, PoolInv
<1> QED BY <1>1, Agreement, PTL

(* However connections close and whichever server is started again, no     *)
(* slot of the connect server is lost or used twice (SocketCreate,         *)
(* SocketRelease).                                                         *)
THEOREM NoSlotLost == Spec => []SlotsKept
<1>1. IInv => SlotsKept
  BY DEF IInv, ConnInv
<1> QED BY <1>1, Agreement, PTL

(* No object of the pool is lost or shared by two clients, over logins,    *)
(* logouts, notices and restarts (Malloc, Free, Init).                     *)
THEOREM NoObjectLost == Spec => []PoolKept
<1>1. IInv => PoolKept
  BY DEF IInv, PoolInv
<1> QED BY <1>1, Agreement, PTL

(* What is for a connection has its effect on no other, unless both had    *)
(* one slot in one millisecond (SendClientData, OnClientOffline).          *)
THEOREM RightAddressee == Spec => []RightOne
<1>1. IInv => RightOne
  BY DEF IInv, AstrayInv, RightOne
<1> QED BY <1>1, Agreement, PTL

(* Every object is its connection's owner's, the connection knows of it or *)
(* will, and its end is announced.                                         *)
THEOREM Notices == Spec => [](IInv /\ NoticeInv)
<1>1. Init => IInv /\ NoticeInv
  BY InitInv, InitNotice
<1>2. IInv /\ NoticeInv /\ [Next]_vars => IInv' /\ NoticeInv'
  BY NextInv, NextNotices
<1> QED BY <1>1, <1>2, PTL DEF Spec

(* A connection that is there knows the id of its client's object, or the  *)
(* id is on its way: nobody's close goes unnoticed for want of an index    *)
(* (NotifyConnectLogicIndex before CreateMachine, CreatePlayer).           *)
THEOREM IndexKnown == Spec => []Indexed
<1>1. IInv /\ NoticeInv => Indexed
  <2> SUFFICES ASSUME IInv, NoticeInv, NEW u \in Ids(pool), Alive(ConnOf(u))
               PROVE  \/ \E s \in Slot : sock[s].conn = ConnOf(u) /\ sock[s].index
                      \/ Msg("index", ConnOf(u)) \in {sc[i] : i \in DOMAIN sc}
    BY DEF Indexed
  <2>1. Known(ConnOf(u))
    BY DEF NoticeInv, Served
  <2> QED BY <2>1 DEF Known, SlotKnown, Listed
<1> QED BY <1>1, Notices, PTL

(* By tcp, a client that is online on a connection that is gone is about   *)
(* to be logged out, but in the cases that Told excepts (SocketRelease,    *)
(* OnClientOffline).                                                       *)
THEOREM ToldByTcp == Spec => []ToldTcp
<1>1. IInv /\ NoticeInv => ToldTcp
  <2> SUFFICES ASSUME NoticeInv, kind = "tcp", NEW u \in Ids(pool)
               PROVE  LET c == ConnOf(u)
                      IN  \/ Alive(c) \/ c \in unheard \cup late
                          \/ \E i \in DOMAIN cs : cs[i].k = "gone" /\ cs[i].head = given[c]
    BY DEF ToldTcp, Told
  <2>1. Announced(ConnOf(u))
    BY DEF NoticeInv, Served
  <2> QED BY <2>1 DEF Announced, Listed
<1> QED BY <1>1, Notices, PTL
=============================================================================
