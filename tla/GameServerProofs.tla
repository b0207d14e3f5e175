-------------------------- MODULE GameServerProofs --------------------------
(***************************************************************************)
(* What the proofs about the two games on the game server share: the types *)
(* of its timers, messages, sessions and records, for any number of        *)
(* players, any gold and any bounds, and what GameServer's operations do   *)
(* to them, and what must be true of all that is on its way for a game to  *)
(* be charged, given back and paid once.  R are the messages of a game     *)
(* that begin a handler.                                                   *)
(***************************************************************************)
EXTENDS GameServer, FiniteSetTheorems, WellFoundedInduction, TLAPS

Base == [ver : Nat]
GoldInfo == [ver : Nat, gold : Nat, held : BOOLEAN, bet : Nat, spent : Nat, refunded : Seq(Nat)]
PrizeInfo == [ver : Nat, won : Seq({"win", "lottery", "buy"} \X Nat)]
Rec == [base : Base, gold : GoldInfo, prize : PrizeInfo]

(* What a handler saves: all of the records K of it.                       *)
Parts == [base : Base] \cup [gold : GoldInfo] \cup [gold : GoldInfo, prize : PrizeInfo]

Asked  == [id : Nat, op : {"query"}]
Change == [id : Nat, op : {"save"}, rec : Parts]
AnswerMsg == [k : {"answer"}, id : Nat, u : Uid, ok : BOOLEAN, rec : Rec]

(* A session whose handler goes on, and one that waits.                    *)
Ready(R) == [req : R, p : Uid, save : BOOLEAN, wait : SUBSET Uid,
             redo : 0 .. MaxRedo - 1, rec : Rec]
Waits(R) == {x \in Ready(R) : x.wait # {}}

TimersOK(R) == /\ IsFiniteSet(timers) /\ timers \subseteq [id : Nat, msg : R]
               /\ \A s, t \in timers : s.id = t.id => s = t
QueueOK(R) == queue \in Seq(R \cup AnswerMsg)
SessOK(R) == /\ IsFiniteSet(DOMAIN sess) /\ DOMAIN sess \subseteq Nat
             /\ sess \in [DOMAIN sess -> Waits(R)]
DbOK == dbq \in [Uid -> Seq(Asked \cup Change)] /\ db \in [Uid -> Rec]
CountsOK == games \in Nat /\ retries \in Nat /\ conn \in Nat
ServerOK(R) == TimersOK(R) /\ QueueOK(R) /\ SessOK(R) /\ DbOK /\ CountsOK

-----------------------------------------------------------------------------
(* Sequences.                                                              *)

LEMMA HeadTail ==
    ASSUME NEW S, NEW s \in Seq(S), s # << >>
    PROVE  /\ Head(s) \in S /\ Tail(s) \in Seq(S)
           /\ Len(Tail(s)) = Len(s) - 1 /\ Len(s) \in Nat \ {0}
           /\ \A i \in 1 .. Len(s) - 1 : Tail(s)[i] = s[i + 1]
           /\ Head(s) = s[1]
  OBVIOUS

LEMMA ConcatOf ==
    ASSUME NEW S, NEW s \in Seq(S), NEW t \in Seq(S)
    PROVE  s \o t \in Seq(S)
  OBVIOUS

LEMMA AppendOf ==
    ASSUME NEW S, NEW s \in Seq(S), NEW e \in S
    PROVE  Append(s, e) \in Seq(S)
  OBVIOUS

LEMMA OldEntry ==
    ASSUME NEW S, NEW s \in Seq(S), NEW e \in S, NEW t, t = Append(s, e)
    PROVE  \A k \in DOMAIN t : \/ k \in DOMAIN s /\ t[k] = s[k]
                               \/ k = Len(s) + 1 /\ t[k] = e
  OBVIOUS

LEMMA WidenSeq ==
    ASSUME NEW S, NEW T, S \subseteq T, NEW s \in Seq(S)
    PROVE  s \in Seq(T)
  OBVIOUS

(* What is in the queue, and stays in it but for the message taken.        *)
Items(q) == {q[i] : i \in DOMAIN q}

LEMMA SentKeeps ==
    ASSUME NEW S, queue \in Seq(S), queue # << >>, NEW ms \in Seq(S), Sends(ms)
    PROVE  \A e \in Items(queue) : e = Head(queue) \/ e \in Items(queue')
<1> SUFFICES ASSUME NEW i \in DOMAIN queue, queue[i] # Head(queue)
             PROVE  queue[i] \in Items(queue')
  BY DEF Items
<1>1. queue' = Tail(queue) \o ms
  BY DEF Sends, Post
<1>2. i \in 2 .. Len(queue) /\ Len(queue) \in Nat
  BY HeadTail
<1>3. i - 1 \in DOMAIN queue' /\ queue'[i - 1] = queue[i]
  BY <1>1, <1>2
<1> QED BY <1>3 DEF Items

LEMMA AppendedKeeps ==
    ASSUME NEW S, queue \in Seq(S), NEW ms \in Seq(S), queue' = queue \o ms
    PROVE  Items(queue) \subseteq Items(queue')
<1> SUFFICES ASSUME NEW i \in DOMAIN queue PROVE queue[i] \in Items(queue')
  BY DEF Items
<1>1. i \in DOMAIN queue' /\ queue'[i] = queue[i]
  OBVIOUS
<1> QED BY <1>1 DEF Items

-----------------------------------------------------------------------------
(* The ids that are looked for are there.                                  *)

LEMMA FreeId ==
    ASSUME NEW S, IsFiniteSet(S), NEW n \in Nat, Cardinality(S) < n
    PROVE  \E i \in 1 .. n : i \notin S
<1>1. IsFiniteSet(1 .. n) /\ Cardinality(1 .. n) = n
  BY FS_Interval
<1>2. Cardinality(S) \in Nat
  BY FS_CardinalityType
<1>3. ~(1 .. n \subseteq S)
  BY <1>1, <1>2, FS_Subset
<1> QED BY <1>3

LEMMA FiniteIds ==
    ASSUME NEW T, IsFiniteSet(T)
    PROVE  /\ IsFiniteSet({t.id : t \in T})
           /\ Cardinality({t.id : t \in T}) <= Cardinality(T)
<1> DEFINE f == [t \in T |-> t.id]
           D == {t.id : t \in T}
<1>1. f \in Surjection(T, D)
  BY DEF Surjection
<1> QED BY <1>1, FS_Surjection

(* A new timer's id is no live timer's and not the one remembered.         *)
LEMMA NewTimerFresh ==
    ASSUME NEW T, IsFiniteSet(T)
    PROVE  /\ NewTimer(T) \in Nat /\ NewTimer(T) # obj.timer
           /\ \A t \in T : t.id # NewTimer(T)
<1> DEFINE I == {t.id : t \in T}
           D == I \cup {obj.timer}
           n == Cardinality(T) + 2
<1>1. Cardinality(T) \in Nat
  BY FS_CardinalityType
<1>2. IsFiniteSet(I) /\ Cardinality(I) <= Cardinality(T)
  BY FiniteIds
<1>3. Cardinality(I) \in Nat
  BY <1>2, FS_CardinalityType
<1>4. IsFiniteSet(D) /\ Cardinality(D) <= Cardinality(I) + 1
  <2> HIDE DEF I
  <2> QED BY <1>2, <1>3, FS_AddElement
<1>5. PICK i \in 1 .. n : i \notin D
  <2> HIDE DEF I, D
  <2> QED BY <1>1, <1>2, <1>3, <1>4, FS_CardinalityType, FreeId
<1>6. i # obj.timer /\ \A t \in T : t.id # i
  BY <1>5
<1> QED BY <1>1, <1>6 DEF NewTimer

(* A new session's id is a number that no session and no request has.      *)
LEMMA NewIdFresh ==
    ASSUME NEW R, QueueOK(R), SessOK(R), DbOK
    PROVE  NewId \in Nat /\ NewId \notin InUse
<1> DEFINE Q == {queue[i].id : i \in {j \in DOMAIN queue : queue[j].k = "answer"}}
           D(u) == {dbq[u][i].id : i \in DOMAIN dbq[u]}
<1>1. IsFiniteSet(Q)
  <2> DEFINE N == {j \in DOMAIN queue : queue[j].k = "answer"}
             f == [i \in N |-> queue[i].id]
  <2>1. DOMAIN queue = 1 .. Len(queue) /\ Len(queue) \in Nat
    BY DEF QueueOK
  <2>2. IsFiniteSet(N)
    <3>1. IsFiniteSet(DOMAIN queue) /\ N \in SUBSET DOMAIN queue
      BY <2>1, FS_Interval
    <3> HIDE DEF N
    <3> QED BY <3>1, FS_Subset
  <2>3. f \in Surjection(N, Q)
    BY DEF Surjection
  <2> HIDE DEF N, f, Q
  <2> QED BY <2>2, <2>3, FS_Surjection
<1>2. ASSUME NEW u \in Uid PROVE IsFiniteSet(D(u))
  <2> DEFINE f == [i \in DOMAIN dbq[u] |-> dbq[u][i].id]
  <2>1. DOMAIN dbq[u] = 1 .. Len(dbq[u]) /\ Len(dbq[u]) \in Nat
    BY <1>2 DEF DbOK
  <2>2. IsFiniteSet(DOMAIN dbq[u])
    BY <2>1, FS_Interval
  <2>3. f \in Surjection(DOMAIN dbq[u], D(u))
    BY DEF Surjection
  <2> HIDE DEF f, D
  <2> QED BY <2>2, <2>3, FS_Surjection
<1>3. IsFiniteSet({D(u) : u \in Uid})
  <2> DEFINE f == [u \in Uid |-> D(u)]
             A == {D(u) : u \in Uid}
  <2>1. f \in Surjection(Uid, A)
    BY DEF Surjection
  <2>2. IsFiniteSet(Uid)
    <3>1. IsFiniteSet(Player \cup {NoOne})
      BY PlayerAssumption, FS_AddElement
    <3>2. IsFiniteSet((Player \cup {NoOne}) \cup {Other})
      BY <3>1, FS_AddElement
    <3> QED BY <3>2, Uid = (Player \cup {NoOne}) \cup {Other} DEF Uid
  <2> HIDE DEF f, A
  <2>3. IsFiniteSet(A)
    BY <2>1, <2>2, FS_Surjection
  <2> QED BY <2>3 DEF A
<1>4. IsFiniteSet(UNION {D(u) : u \in Uid})
  <2>1. \A d \in {D(u) : u \in Uid} : IsFiniteSet(d)
    BY <1>2
  <2> QED BY <1>3, <2>1, FS_UNION
<1>5. IsFiniteSet(InUse)
  <2>3. InUse = (DOMAIN sess \cup UNION {D(u) : u \in Uid}) \cup Q
    BY Zenon DEF InUse
  <2> HIDE DEF Q, D
  <2>1. IsFiniteSet(DOMAIN sess \cup UNION {D(u) : u \in Uid})
    BY <1>4, FS_Union DEF SessOK
  <2>2. IsFiniteSet((DOMAIN sess \cup UNION {D(u) : u \in Uid}) \cup Q)
    BY <2>1, <1>1, FS_Union
  <2> QED BY <2>2, <2>3
<1>6. Cardinality(InUse) \in Nat
  BY <1>5, FS_CardinalityType
<1>7. \E i \in 1 .. Cardinality(InUse) + 1 : i \notin InUse
  BY <1>5, <1>6, FreeId
<1> QED BY <1>6, <1>7 DEF NewId

-----------------------------------------------------------------------------
(* What the operations do to the timers and the queue.                     *)

LEMMA SentOK ==
    ASSUME NEW R, QueueOK(R), queue # << >>, NEW ms \in Seq(R), Sends(ms)
    PROVE  QueueOK(R)'
<1>1. Tail(queue) \in Seq(R \cup AnswerMsg) /\ ms \in Seq(R \cup AnswerMsg)
  BY HeadTail, WidenSeq DEF QueueOK
<1> QED BY <1>1, ConcatOf DEF QueueOK, Sends, Post

LEMMA QuietOK ==
    ASSUME NEW R, QueueOK(R), queue # << >>, Quiet
    PROVE  QueueOK(R)'
<1>1. << >> \in Seq(R)
  OBVIOUS
<1> QED BY <1>1, SentOK DEF Quiet

LEMMA PostedOK ==
    ASSUME NEW R, QueueOK(R), NEW m \in R \cup AnswerMsg, Post(Append(queue, m))
    PROVE  QueueOK(R)'
  BY AppendOf DEF QueueOK, Post

(* The timers T with one of a new id.                                      *)
TimersLike(T, R) == /\ IsFiniteSet(T) /\ T \subseteq [id : Nat, msg : R]
                    /\ \A s, t \in T : s.id = t.id => s = t

LEMMA OneMoreTimer ==
    ASSUME NEW R, NEW T, TimersLike(T, R), NEW m \in R
    PROVE  TimersLike(T \cup {[id |-> NewTimer(T), msg |-> m]}, R)
<1>1. NewTimer(T) \in Nat /\ \A t \in T : t.id # NewTimer(T)
  BY NewTimerFresh DEF TimersLike
<1> DEFINE n == [id |-> NewTimer(T), msg |-> m]
<1>2. n \in [id : Nat, msg : R] /\ \A t \in T : t.id # n.id
  BY <1>1
<1> HIDE DEF n
<1>3. IsFiniteSet(T \cup {n})
  BY FS_AddElement DEF TimersLike
<1>4. TimersLike(T \cup {n}, R)
  BY <1>2, <1>3 DEF TimersLike
<1> QED BY <1>4 DEF n

LEMMA ReleasedTimers ==
    ASSUME NEW R, NEW T, TimersLike(T, R)
    PROVE  TimersLike(Release(T), R)
<1>1. IsFiniteSet(Release(T)) /\ Release(T) \subseteq T
  BY FS_Subset DEF Release, TimersLike
<1> QED BY <1>1 DEF TimersLike

LEMMA SameTimers ==
    ASSUME NEW R
    PROVE  /\ TimersOK(R) <=> TimersLike(timers, R)
           /\ TimersOK(R)' <=> TimersLike(timers', R)
  BY DEF TimersOK, TimersLike

(* The timer's number and that of Enter.                                   *)
LEMMA EnteredOK ==
    ASSUME NEW R, NEW m, NEW T, TimersLike(T, R), NEW st, Timeout(st) \in R, Enter(m, T, st)
    PROVE  /\ TimersOK(R)'
           /\ NewTimer(T) \in Nat
           /\ obj' = [m EXCEPT !.state = st, !.timer = NewTimer(T)]
           /\ [id |-> NewTimer(T), msg |-> Timeout(st)] \in timers'
<1>1. timers' = T \cup {[id |-> NewTimer(T), msg |-> Timeout(st)]}
  BY DEF Enter
<1>2. TimersLike(timers', R)
  BY <1>1, OneMoreTimer
<1>3. NewTimer(T) \in Nat
  BY NewTimerFresh DEF TimersLike
<1> QED BY <1>1, <1>2, <1>3, SameTimers DEF Enter

-----------------------------------------------------------------------------
(* What the operations do to the sessions and the data servers' requests.  *)

LEMMA RecordOfNone == Account(0) \in Rec /\ Account(Gold) \in Rec
<1>1. << >> \in Seq(Nat) /\ << >> \in Seq({"win", "lottery", "buy"} \X Nat)
  OBVIOUS
<1> QED BY <1>1, BoundAssumption DEF Account, Rec, Base, GoldInfo, PrizeInfo

LEMMA QueriedOK ==
    ASSUME DbOK, NEW id \in Nat, NEW U, Query(id, U)
    PROVE  dbq' \in [Uid -> Seq(Asked \cup Change)]
<1> DEFINE r == [id |-> id, op |-> "query"]
<1>1. r \in Asked \cup Change
  BY DEF Asked
<1>2. \A u \in Uid : Append(dbq[u], r) \in Seq(Asked \cup Change) /\ dbq[u] \in Seq(Asked \cup Change)
  BY <1>1, AppendOf DEF DbOK
<1> QED BY <1>2 DEF Query

LEMMA AskedOK ==
    ASSUME NEW R, QueueOK(R), SessOK(R), DbOK, NEW m \in R, NEW p \in Uid,
           NEW U \in SUBSET Uid, U # {}, Ask(m, p, U)
    PROVE  SessOK(R)' /\ dbq' \in [Uid -> Seq(Asked \cup Change)]
<1>1. NewId \in Nat
  BY NewIdFresh
<1> DEFINE x == [req |-> m, p |-> p, save |-> FALSE, wait |-> U, redo |-> 0, rec |-> Account(0)]
<1>2. x \in Waits(R)
  <2>1. 0 \in 0 .. MaxRedo - 1
    BY BoundAssumption
  <2> QED BY <2>1, RecordOfNone DEF Ready, Waits
<1>3. sess' = [i \in DOMAIN sess \cup {NewId} |-> IF i # NewId THEN sess[i] ELSE x]
  BY DEF Ask
<1> HIDE DEF x
<1>4. IsFiniteSet(DOMAIN sess \cup {NewId})
  BY FS_AddElement DEF SessOK
<1>5. SessOK(R)'
  BY <1>1, <1>2, <1>3, <1>4 DEF SessOK
<1> QED BY <1>1, <1>5, QueriedOK DEF Ask

LEMMA EndedOK ==
    ASSUME NEW R, SessOK(R), NEW id, sess' = Without(sess, id)
    PROVE  SessOK(R)'
<1>1. IsFiniteSet(DOMAIN sess \ {id})
  BY FS_RemoveElement DEF SessOK
<1> QED BY <1>1 DEF SessOK, Without

LEMMA UpdatedOK ==
    ASSUME NEW R, SessOK(R), NEW id \in DOMAIN sess, NEW x \in Waits(R),
           sess' = [sess EXCEPT ![id] = x]
    PROVE  SessOK(R)'
  BY DEF SessOK

(* The records K are saved one version ahead.                              *)
LEMMA SavedParts ==
    ASSUME NEW new \in Rec, NEW K \in {{"gold"}, {"base"}, Won}
    PROVE  [k \in K |-> [new[k] EXCEPT !.ver = @ + 1]] \in Parts
<1> DEFINE rec == [k \in K |-> [new[k] EXCEPT !.ver = @ + 1]]
<1>1. /\ [new.base EXCEPT !.ver = @ + 1] \in Base
      /\ [new.gold EXCEPT !.ver = @ + 1] \in GoldInfo
      /\ [new.prize EXCEPT !.ver = @ + 1] \in PrizeInfo
  <2>1. new.base \in Base /\ new.gold \in GoldInfo /\ new.prize \in PrizeInfo
    BY DEF Rec
  <2>2. \A b \in Base : [b EXCEPT !.ver = @ + 1] \in Base
    BY DEF Base
  <2>3. \A b \in GoldInfo : [b EXCEPT !.ver = @ + 1] \in GoldInfo
    BY DEF GoldInfo
  <2>4. \A b \in PrizeInfo : [b EXCEPT !.ver = @ + 1] \in PrizeInfo
    BY DEF PrizeInfo
  <2> QED BY <2>1, <2>2, <2>3, <2>4
<1>2. rec \in Parts
  <2>1. CASE K = {"gold"}
    <3>1. rec = [gold |-> [new.gold EXCEPT !.ver = @ + 1]]
      BY <2>1
    <3> QED BY <1>1, <3>1 DEF Parts
  <2>2. CASE K = {"base"}
    <3>1. rec = [base |-> [new.base EXCEPT !.ver = @ + 1]]
      BY <2>2
    <3> QED BY <1>1, <3>1 DEF Parts
  <2>3. CASE K = Won
    <3>1. rec = [gold |-> [new.gold EXCEPT !.ver = @ + 1], prize |-> [new.prize EXCEPT !.ver = @ + 1]]
      BY <2>3 DEF Won
    <3> QED BY <1>1, <3>1 DEF Parts
  <2> QED BY <2>1, <2>2, <2>3
<1> QED BY <1>2

LEMMA SavedOK ==
    ASSUME NEW R, SessOK(R), DbOK, NEW id \in DOMAIN sess, NEW x \in Ready(R), NEW new \in Rec,
           NEW K \in {{"gold"}, {"base"}, Won}, Save(id, x, K, new)
    PROVE  SessOK(R)' /\ dbq' \in [Uid -> Seq(Asked \cup Change)]
<1> DEFINE y == [x EXCEPT !.save = TRUE, !.wait = {x.p}]
           rec == [k \in K |-> [new[k] EXCEPT !.ver = @ + 1]]
           r == [id |-> id, op |-> "save", rec |-> rec]
<1>1. x.p \in Uid /\ id \in Nat
  BY DEF Ready, SessOK
<1>2. y \in Waits(R)
  BY <1>1 DEF Ready, Waits
<1>4. rec \in Parts
  BY SavedParts
<1>5. dbq' = [dbq EXCEPT ![x.p] = Append(@, r)] /\ sess' = [sess EXCEPT ![id] = y]
  BY DEF Save
<1> HIDE DEF y, rec
<1>6. r \in Asked \cup Change
  BY <1>1, <1>4 DEF Change
<1>7. SessOK(R)'
  BY <1>2, <1>5, UpdatedOK
<1>8. Append(dbq[x.p], r) \in Seq(Asked \cup Change)
  BY <1>1, <1>6, AppendOf DEF DbOK
<1> QED BY <1>5, <1>7, <1>8 DEF DbOK

-----------------------------------------------------------------------------
(* Answers and the shared actions.                                         *)

(* A message of a data server finds its session, if there is one, and      *)
(* leaves it with the request it had.                                      *)
LEMMA ProcessOK ==
    ASSUME NEW R, SessOK(R), NEW m \in AnswerMsg, Process(m).next # "none"
    PROVE  LET a == Process(m)
           IN  /\ m.id \in DOMAIN sess /\ a.next \in {"wait", "query", "save", "end"}
               /\ a.x \in Ready(R) \/ a.next = "end"
               /\ a.next = "wait" => a.x \in Waits(R)
               /\ a.x.req = sess[m.id].req /\ a.x.p = sess[m.id].p
<1>1. m.id \in DOMAIN sess
  BY DEF Process
<1> DEFINE x == sess[m.id]
<1>2. x \in Waits(R) /\ x \in Ready(R)
  BY <1>1 DEF SessOK, Waits
<1>3. m.rec \in Rec /\ m.u \in Uid
  BY DEF AnswerMsg
<1> HIDE DEF x
<1>4. CASE x.save
  <2>1. Process(m) = SaveAnswer(m, x)
    BY <1>1, <1>4 DEF Process, x
  <2>2. CASE Succeeded(m)
    BY <1>1, <1>2, <2>1, <2>2 DEF SaveAnswer, x
  <2>3. CASE ~Succeeded(m)
    <3> DEFINE y == [x EXCEPT !.save = FALSE, !.redo = @ + 1, !.rec = m.rec]
    <3>1. y.req = x.req /\ y.p = x.p
      BY <1>2 DEF Ready
    <3>2. x.redo + 1 < MaxRedo => y \in Ready(R)
      <4> HAVE x.redo + 1 < MaxRedo
      <4>1. x.redo + 1 \in 0 .. MaxRedo - 1
        BY <1>2, BoundAssumption DEF Ready
      <4> QED BY <1>2, <1>3, <4>1 DEF Ready
    <3>3. /\ Process(m).next = IF x.redo + 1 < MaxRedo THEN "query" ELSE "end"
          /\ Process(m).x = y
      BY <2>1, <2>3 DEF SaveAnswer
    <3> HIDE DEF y
    <3> QED BY <1>1, <3>1, <3>2, <3>3 DEF x
  <2> QED BY <2>2, <2>3
<1>5. CASE ~x.save
  <2> DEFINE rest == x.wait \ {m.u}
             y == [x EXCEPT !.wait = rest, !.rec = IF m.u = x.p THEN m.rec ELSE @]
  <2>1. Process(m) = QueryAnswer(m, x)
    BY <1>1, <1>5 DEF Process, x
  <2>2. y \in Ready(R) /\ y.req = x.req /\ y.p = x.p /\ y.wait = rest
    <3>1. rest \in SUBSET Uid
      BY <1>2 DEF Ready
    <3> HIDE DEF rest
    <3> QED BY <1>2, <1>3, <3>1 DEF Ready
  <2>3. Process(m).next = (IF rest = {} THEN "query" ELSE "wait") /\ Process(m).x = y
    BY <2>1 DEF QueryAnswer
  <2> HIDE DEF y, rest
  <2> QED BY <1>1, <2>2, <2>3 DEF x, Waits
<1> QED BY <1>4, <1>5

LEMMA RestsOK ==
    ASSUME NEW R, ServerOK(R), NEW m \in AnswerMsg, Rests(m.id, Process(m))
    PROVE  SessOK(R)' /\ dbq' = dbq /\ obj' = obj /\ timers' = timers
<1>1. dbq' = dbq /\ obj' = obj /\ timers' = timers
  BY DEF Rests, Done, End, Stay
<1>2. CASE Process(m).next = "none" /\ Done
  BY <1>1, <1>2 DEF Done, ServerOK, SessOK
<1>3. CASE Process(m).next = "wait" /\ sess' = [sess EXCEPT ![m.id] = Process(m).x]
  <2>1. m.id \in DOMAIN sess /\ Process(m).x \in Waits(R)
    BY <1>3, ProcessOK DEF ServerOK
  <2> QED BY <1>1, <1>3, <2>1, UpdatedOK DEF ServerOK
<1>4. CASE End(m.id)
  BY <1>1, <1>4, EndedOK DEF ServerOK, End
<1> QED BY <1>1, <1>2, <1>3, <1>4 DEF Rests

LEMMA TickOK ==
    ASSUME NEW R, ServerOK(R), Tick
    PROVE  ServerOK(R)'
<1>1. PICK t \in timers : timers' = timers \ {t} /\ Post(Append(queue, t.msg))
  BY DEF Tick
<1>2. TimersOK(R)'
  BY <1>1, FS_RemoveElement DEF ServerOK, TimersOK
<1>3. t.msg \in R
  BY DEF ServerOK, TimersOK
<1>4. QueueOK(R)'
  BY <1>1, <1>3, PostedOK DEF ServerOK
<1> QED BY <1>2, <1>4 DEF ServerOK, SessOK, DbOK, CountsOK, Tick, counts

LEMMA TimeOutOK ==
    ASSUME NEW R, ServerOK(R), TimeOut
    PROVE  ServerOK(R)'
<1>1. SessOK(R)'
  BY EndedOK DEF ServerOK, TimeOut
<1> QED BY <1>1 DEF ServerOK, TimersOK, QueueOK, DbOK, CountsOK, TimeOut, counts

LEMMA TickedItems ==
    ASSUME NEW R, TimersOK(R), QueueOK(R), NEW t \in timers, queue' = Append(queue, t.msg)
    PROVE  Items(queue) \subseteq Items(queue') /\ t.msg \in Items(queue')
<1>1. t.msg \in R \cup AnswerMsg /\ queue \in Seq(R \cup AnswerMsg)
  BY DEF TimersOK, QueueOK
<1>2. queue' = queue \o <<t.msg>> /\ <<t.msg>> \in Seq(R \cup AnswerMsg)
  BY <1>1
<1>3. Len(queue) + 1 \in DOMAIN queue' /\ queue'[Len(queue) + 1] = t.msg
  BY <1>1
<1> QED BY <1>1, <1>2, <1>3, AppendedKeeps DEF Items

LEMMA ServedItems ==
    ASSUME NEW R, QueueOK(R), NEW u \in Uid, Serve(u)
    PROVE  Items(queue) \subseteq Items(queue')
<1>1. PICK m : queue' = Append(queue, m)
  BY DEF Serve, Post
<1>2. \A i \in DOMAIN queue : i \in DOMAIN queue' /\ queue'[i] = queue[i]
  BY <1>1 DEF QueueOK
<1> QED BY <1>2 DEF Items

(* What a data server takes, stores and tells.                             *)
LEMMA ServeIs ==
    ASSUME NEW R, ServerOK(R), NEW u \in Uid, Serve(u)
    PROVE  LET r == Head(dbq[u])
           IN  /\ dbq[u] # << >> /\ r \in Asked \cup Change
               /\ dbq' = [dbq EXCEPT ![u] = Tail(@)] /\ dbq' \in [Uid -> Seq(Asked \cup Change)]
               /\ \E m \in AnswerMsg : /\ queue' = Append(queue, m) /\ m.id = r.id /\ m.u = u
                                       /\ m.rec.gold \in {db[u].gold, Account(0).gold}
                                       /\ m.ok \/ db' = db
                                       /\ m.ok /\ r.op = "save" /\ "gold" \in DOMAIN r.rec =>
                                            /\ r.rec["gold"].ver = db[u].gold.ver + 1
                                            /\ db'[u].gold = r.rec["gold"]
               /\ db' \in [Uid -> Rec]
               /\ \A v \in Uid : v # u => db'[v] = db[v]
               /\ \/ db'[u].gold = db[u].gold
                  \/ /\ r.op = "save" /\ "gold" \in DOMAIN r.rec
                     /\ r.rec["gold"].ver = db[u].gold.ver + 1 /\ db'[u].gold = r.rec["gold"]
               /\ UNCHANGED <<obj, timers, sess, conn, games, retries>>
<1> DEFINE r == Head(dbq[u])
           ok == r.op = "save" => Fits(db[u], r.rec)
           new == [k \in DOMAIN db[u] |-> IF k \in DOMAIN r.rec THEN r.rec[k] ELSE db[u][k]]
           told == [k \in DOMAIN db[u] |-> IF r.op = "query" \/ k \in DOMAIN r.rec
                                           THEN db[u][k] ELSE Account(0)[k]]
           m == [k |-> "answer", id |-> r.id, u |-> u, ok |-> ok, rec |-> told]
<1>1. r \in Asked \cup Change /\ Tail(dbq[u]) \in Seq(Asked \cup Change) /\ db[u] \in Rec
      /\ dbq[u] # << >>
  BY HeadTail DEF Serve, ServerOK, DbOK
<1>2. DOMAIN db[u] = {"base", "gold", "prize"}
  BY <1>1 DEF Rec
<1>3. told \in Rec
  <2>1. \A a, b \in Rec : [k \in {"base", "gold", "prize"} |->
                             IF r.op = "query" \/ k \in DOMAIN r.rec THEN a[k] ELSE b[k]] \in Rec
    <3> TAKE a, b \in Rec
    <3> DEFINE c == [k \in {"base", "gold", "prize"} |->
                       IF r.op = "query" \/ k \in DOMAIN r.rec THEN a[k] ELSE b[k]]
    <3>1. c = [base |-> c["base"], gold |-> c["gold"], prize |-> c["prize"]]
      OBVIOUS
    <3>2. c["base"] \in Base /\ c["gold"] \in GoldInfo /\ c["prize"] \in PrizeInfo
      BY DEF Rec
    <3> HIDE DEF c
    <3>3. c \in Rec
      BY <3>1, <3>2 DEF Rec
    <3> QED BY <3>3 DEF c
  <2> QED BY <1>1, <1>2, <2>1, RecordOfNone
<1>4. told.gold \in {db[u].gold, Account(0).gold}
  BY <1>2
<1>5. r.op = "save" => new \in Rec
  <2> HAVE r.op = "save"
  <2>1. r.rec \in Parts
    BY <1>1 DEF Asked, Change
  <2>2. /\ "base" \in DOMAIN r.rec => r.rec["base"] \in Base
        /\ "gold" \in DOMAIN r.rec => r.rec["gold"] \in GoldInfo
        /\ "prize" \in DOMAIN r.rec => r.rec["prize"] \in PrizeInfo
    BY <2>1 DEF Parts
  <2>3. db[u]["base"] \in Base /\ db[u]["gold"] \in GoldInfo /\ db[u]["prize"] \in PrizeInfo
    BY <1>1 DEF Rec
  <2>4. new["base"] \in Base /\ new["gold"] \in GoldInfo /\ new["prize"] \in PrizeInfo
    BY <1>2, <2>2, <2>3
  <2>5. new = [base |-> new["base"], gold |-> new["gold"], prize |-> new["prize"]]
    BY <1>2
  <2> HIDE DEF new
  <2> QED BY <2>4, <2>5 DEF Rec
<1>6. new.gold = IF "gold" \in DOMAIN r.rec THEN r.rec["gold"] ELSE db[u].gold
  BY <1>2
<1>7. r.op = "save" /\ ok /\ "gold" \in DOMAIN r.rec => r.rec["gold"].ver = db[u].gold.ver + 1
  BY DEF Fits
<1>8. /\ dbq' = [dbq EXCEPT ![u] = Tail(@)]
      /\ db' = IF r.op = "save" /\ ok THEN [db EXCEPT ![u] = new] ELSE db
      /\ queue' = Append(queue, m)
      /\ UNCHANGED <<obj, timers, sess, conn, games, retries>>
  BY DEF Serve, Post, counts
<1>9. r.id \in Nat /\ ok \in BOOLEAN
  BY <1>1 DEF Asked, Change
<1> HIDE DEF r, new, told, ok
<1>10. m \in AnswerMsg /\ m.id = r.id /\ m.u = u /\ m.rec = told /\ (m.ok <=> ok)
  BY <1>3, <1>9 DEF AnswerMsg
<1> HIDE DEF m
<1>11. dbq' \in [Uid -> Seq(Asked \cup Change)]
  BY <1>1, <1>8 DEF ServerOK, DbOK
<1>12. CASE r.op = "save" /\ ok
  <2>1. db' = [db EXCEPT ![u] = new] /\ db \in [Uid -> Rec]
    BY <1>8, <1>12 DEF ServerOK, DbOK
  <2>2. db'[u].gold = new.gold /\ db' \in [Uid -> Rec] /\ \A v \in Uid : v # u => db'[v] = db[v]
    BY <1>5, <1>12, <2>1
  <2>3. "gold" \in DOMAIN r.rec =>
           r.rec["gold"].ver = db[u].gold.ver + 1 /\ db'[u].gold = r.rec["gold"]
    BY <1>6, <1>7, <1>12, <2>2
  <2>4. "gold" \notin DOMAIN r.rec => db'[u].gold = db[u].gold
    BY <1>6, <2>2
  <2>5. /\ m.id = r.id /\ m.u = u /\ m.rec.gold \in {db[u].gold, Account(0).gold}
        /\ m.ok \/ db' = db
    BY <1>4, <1>10, <1>12
  <2> QED BY <1>1, <1>8, <1>10, <1>11, <1>12, <2>2, <2>3, <2>4, <2>5 DEF r
<1>13. CASE ~(r.op = "save" /\ ok)
  BY <1>1, <1>4, <1>8, <1>10, <1>11, <1>13 DEF r, ServerOK, DbOK
<1> QED BY <1>12, <1>13

LEMMA ServeOK ==
    ASSUME NEW R, ServerOK(R), NEW u \in Uid, Serve(u)
    PROVE  ServerOK(R)'
<1>1. PICK m \in AnswerMsg : queue' = Append(queue, m)
  BY ServeIs
<1>2. QueueOK(R)'
  BY <1>1, PostedOK DEF ServerOK, Post
<1>3. /\ dbq' \in [Uid -> Seq(Asked \cup Change)] /\ db' \in [Uid -> Rec]
      /\ UNCHANGED <<timers, sess, conn, games, retries>>
  BY ServeIs
<1> QED BY <1>2, <1>3 DEF ServerOK, DbOK, TimersOK, SessOK, CountsOK

-----------------------------------------------------------------------------
(* The records a handler saves.                                            *)

(* Those with the games given back that r has and no less spent, those     *)
(* among them with no more at the machine, and with one game more.         *)
BankedGold(h) == {g \in GoldInfo : /\ g.ver = h.ver /\ g.refunded = h.refunded
                                   /\ g.spent >= h.spent}
AlikeGold(h) == {g \in BankedGold(h) : g.bet <= h.bet}
Banked(r) == {n \in Rec : n.gold \in BankedGold(r.gold)}
Alike(r) == {n \in Rec : n.gold \in AlikeGold(r.gold)}
Refunded(r, g) == {n \in Rec : /\ n.gold.ver = r.gold.ver
                               /\ n.gold.refunded = Append(r.gold.refunded, g)
                               /\ n.gold.spent + 1 >= r.gold.spent
                               /\ n.gold.bet <= r.gold.bet}

LEMMA LikeGold ==
    ASSUME NEW h \in GoldInfo, NEW g \in GoldInfo, g.ver = h.ver, g.refunded = h.refunded
    PROVE  /\ h.spent \in Nat /\ h.bet \in Nat /\ h.gold \in Nat
           /\ g.spent >= h.spent \/ g.spent = h.spent => g \in BankedGold(h)
           /\ g.spent >= h.spent \/ g.spent = h.spent =>
                (g.bet <= h.bet \/ g.bet = h.bet => g \in AlikeGold(h))
<1>1. h.spent \in Nat /\ h.bet \in Nat /\ h.gold \in Nat
  BY DEF GoldInfo
<1> QED BY <1>1 DEF BankedGold, AlikeGold

LEMMA GoldReplaced ==
    ASSUME NEW r \in Rec
    PROVE  /\ \A g \in GoldInfo : [r EXCEPT !.gold = g] \in Rec /\ [r EXCEPT !.gold = g].gold = g
           /\ \A g \in AlikeGold(r.gold) : [r EXCEPT !.gold = g] \in Alike(r)
           /\ \A g \in BankedGold(r.gold) : [r EXCEPT !.gold = g] \in Banked(r)
<1>1. \A g \in GoldInfo : [r EXCEPT !.gold = g] \in Rec /\ [r EXCEPT !.gold = g].gold = g
  BY DEF Rec
<1>2. AlikeGold(r.gold) \subseteq GoldInfo /\ BankedGold(r.gold) \subseteq GoldInfo
  BY DEF AlikeGold, BankedGold
<1> QED BY <1>1, <1>2 DEF Alike, Banked

LEMMA AccountRecords ==
    ASSUME NEW r \in Rec, NEW n \in Nat
    PROVE  /\ r.gold.gold \in Nat /\ r.gold.bet \in Nat
           /\ [r EXCEPT !.gold.gold = @ + n] \in Alike(r)
           /\ r.gold.bet >= n => [r EXCEPT !.gold.bet = @ - n, !.gold.spent = @ + n] \in Alike(r)
           /\ [r EXCEPT !.gold.gold = @ + r.gold.bet, !.gold.bet = 0, !.gold.held = FALSE] \in Alike(r)
           /\ r.gold.gold >= n => [r EXCEPT !.gold.gold = @ - n, !.gold.bet = @ + n,
                                            !.gold.held = TRUE] \in Banked(r)
<1>1. r.gold \in GoldInfo
  BY DEF Rec
<1>2. /\ \A g \in AlikeGold(r.gold) : [r EXCEPT !.gold = g] \in Alike(r)
      /\ \A g \in BankedGold(r.gold) : [r EXCEPT !.gold = g] \in Banked(r)
  BY GoldReplaced
<1> DEFINE g1 == [r.gold EXCEPT !.gold = @ + n]
           g2 == [r.gold EXCEPT !.bet = @ - n, !.spent = @ + n]
           g3 == [r.gold EXCEPT !.gold = @ + r.gold.bet, !.bet = 0, !.held = FALSE]
           g4 == [r.gold EXCEPT !.gold = @ - n, !.bet = @ + n, !.held = TRUE]
<1>3. \A a \in Nat : [r.gold EXCEPT !.gold = a] \in AlikeGold(r.gold)
  <2> TAKE a \in Nat
  <2> DEFINE h == [r.gold EXCEPT !.gold = a]
  <2>1. /\ h \in GoldInfo /\ h.ver = r.gold.ver /\ h.refunded = r.gold.refunded
        /\ h.spent = r.gold.spent /\ h.bet = r.gold.bet
    BY <1>1 DEF GoldInfo
  <2> HIDE DEF h
  <2>2. h \in AlikeGold(r.gold)
    BY <1>1, <2>1, LikeGold
  <2> QED BY <2>2 DEF h
<1>4. \A a, b \in Nat : a <= r.gold.bet /\ b >= r.gold.spent =>
         [r.gold EXCEPT !.bet = a, !.spent = b] \in AlikeGold(r.gold)
  <2> TAKE a, b \in Nat
  <2> DEFINE h == [r.gold EXCEPT !.bet = a, !.spent = b]
  <2>1. /\ h \in GoldInfo /\ h.ver = r.gold.ver /\ h.refunded = r.gold.refunded
        /\ h.spent = b /\ h.bet = a
    BY <1>1 DEF GoldInfo
  <2> HIDE DEF h
  <2>2. a <= r.gold.bet /\ b >= r.gold.spent => h \in AlikeGold(r.gold)
    BY <1>1, <2>1, LikeGold
  <2> QED BY <2>2 DEF h
<1>5. \A a, b \in Nat, h \in BOOLEAN :
         LET g == [r.gold EXCEPT !.gold = a, !.bet = b, !.held = h]
         IN  g \in BankedGold(r.gold) /\ (b <= r.gold.bet => g \in AlikeGold(r.gold))
  <2> TAKE a, b \in Nat, h \in BOOLEAN
  <2> DEFINE g == [r.gold EXCEPT !.gold = a, !.bet = b, !.held = h]
  <2>1. /\ g \in GoldInfo /\ g.ver = r.gold.ver /\ g.refunded = r.gold.refunded
        /\ g.spent = r.gold.spent /\ g.bet = b
    BY <1>1 DEF GoldInfo
  <2> HIDE DEF g
  <2>2. g \in BankedGold(r.gold) /\ (b <= r.gold.bet => g \in AlikeGold(r.gold))
    BY <1>1, <2>1, LikeGold
  <2> QED BY <2>2 DEF g
<1>6. r.gold.gold \in Nat /\ r.gold.bet \in Nat /\ r.gold.spent \in Nat
  BY <1>1 DEF GoldInfo
<1>7. /\ r.gold.gold + n \in Nat /\ r.gold.gold + r.gold.bet \in Nat
      /\ r.gold.bet + n \in Nat /\ r.gold.spent + n \in Nat
      /\ r.gold.bet >= n => r.gold.bet - n \in Nat
      /\ r.gold.gold >= n => r.gold.gold - n \in Nat
      /\ r.gold.bet - n <= r.gold.bet /\ r.gold.spent + n >= r.gold.spent /\ 0 <= r.gold.bet
  BY <1>6
<1>8. g1 \in AlikeGold(r.gold) /\ g3 \in AlikeGold(r.gold)
  BY <1>3, <1>5, <1>7
<1>9. r.gold.bet >= n => g2 \in AlikeGold(r.gold)
  BY <1>4, <1>7
<1>10. r.gold.gold >= n => g4 \in BankedGold(r.gold)
  BY <1>5, <1>7
<1>11. /\ [r EXCEPT !.gold.gold = @ + n] = [r EXCEPT !.gold = g1]
      /\ [r EXCEPT !.gold.bet = @ - n, !.gold.spent = @ + n] = [r EXCEPT !.gold = g2]
      /\ [r EXCEPT !.gold.gold = @ + r.gold.bet, !.gold.bet = 0, !.gold.held = FALSE]
           = [r EXCEPT !.gold = g3]
      /\ [r EXCEPT !.gold.gold = @ - n, !.gold.bet = @ + n, !.gold.held = TRUE]
           = [r EXCEPT !.gold = g4]
  BY <1>1 DEF Rec, GoldInfo
<1> HIDE DEF g1, g2, g3, g4
<1> QED BY <1>2, <1>8, <1>9, <1>10, <1>11, <1>6

(* A coin paid in gold.                                                    *)
LEMMA PaidRecord ==
    ASSUME NEW r \in Rec, NEW n \in Nat, r.gold.gold >= n
    PROVE  [r EXCEPT !.gold.gold = @ - n, !.gold.spent = @ + n] \in Alike(r)
<1>1. r.gold \in GoldInfo
  BY DEF Rec
<1>2. \A g \in AlikeGold(r.gold) : [r EXCEPT !.gold = g] \in Alike(r)
  BY GoldReplaced
<1>3. \A a, b \in Nat : b >= r.gold.spent =>
         [r.gold EXCEPT !.gold = a, !.spent = b] \in AlikeGold(r.gold)
  <2> TAKE a, b \in Nat
  <2> DEFINE h == [r.gold EXCEPT !.gold = a, !.spent = b]
  <2>1. /\ h \in GoldInfo /\ h.ver = r.gold.ver /\ h.refunded = r.gold.refunded
        /\ h.spent = b /\ h.bet = r.gold.bet
    BY <1>1 DEF GoldInfo
  <2> HIDE DEF h
  <2>2. b >= r.gold.spent => h \in AlikeGold(r.gold)
    BY <1>1, <2>1, LikeGold
  <2> QED BY <2>2 DEF h
<1> DEFINE a == r.gold.gold - n
           b == r.gold.spent + n
<1>4. a \in Nat /\ b \in Nat /\ b >= r.gold.spent
  BY <1>1 DEF GoldInfo
<1>5. [r EXCEPT !.gold.gold = @ - n, !.gold.spent = @ + n]
      = [r EXCEPT !.gold = [r.gold EXCEPT !.gold = a, !.spent = b]]
  BY <1>1 DEF Rec, GoldInfo
<1> HIDE DEF a, b
<1> QED BY <1>2, <1>3, <1>4, <1>5

(* A game given back, and a prize won.                                     *)
LEMMA RefundRecord ==
    ASSUME NEW r \in Rec, NEW g \in Nat
    PROVE  [r EXCEPT !.gold.gold = @ + 1, !.gold.spent = IF @ = 0 THEN 0 ELSE @ - 1,
                     !.gold.refunded = Append(@, g)] \in Refunded(r, g)
<1>1. r.gold \in GoldInfo
  BY DEF Rec
<1>2. \A h \in GoldInfo : /\ h.ver = r.gold.ver /\ h.refunded = Append(r.gold.refunded, g)
                          /\ h.spent + 1 >= r.gold.spent /\ h.bet <= r.gold.bet
                          => [r EXCEPT !.gold = h] \in Refunded(r, g)
  BY GoldReplaced DEF Refunded
<1> DEFINE H(a, b, q) == [r.gold EXCEPT !.gold = a, !.spent = b, !.refunded = q]
<1>3. \A a, b \in Nat, q \in Seq(Nat) :
         /\ H(a, b, q) \in GoldInfo /\ H(a, b, q).ver = r.gold.ver /\ H(a, b, q).refunded = q
         /\ H(a, b, q).spent = b /\ H(a, b, q).bet <= r.gold.bet
  <2> TAKE a, b \in Nat, q \in Seq(Nat)
  <2> DEFINE h == [r.gold EXCEPT !.gold = a, !.spent = b, !.refunded = q]
  <2>1. /\ h \in GoldInfo /\ h.ver = r.gold.ver /\ h.refunded = q
        /\ h.spent = b /\ h.bet = r.gold.bet /\ r.gold.bet \in Nat
    BY <1>1 DEF GoldInfo
  <2> HIDE DEF h
  <2>2. h.bet <= r.gold.bet
    BY <2>1
  <2> QED BY <2>1, <2>2 DEF h
<1> DEFINE a1 == r.gold.gold + 1
           b1 == IF r.gold.spent = 0 THEN 0 ELSE r.gold.spent - 1
           q1 == Append(r.gold.refunded, g)
<1>4. a1 \in Nat /\ b1 \in Nat /\ b1 + 1 >= r.gold.spent
  BY <1>1 DEF GoldInfo
<1>5. q1 \in Seq(Nat)
  BY <1>1, AppendOf DEF GoldInfo
<1>6. [r EXCEPT !.gold.gold = @ + 1, !.gold.spent = IF @ = 0 THEN 0 ELSE @ - 1,
                !.gold.refunded = Append(@, g)]
      = [r EXCEPT !.gold = H(a1, b1, q1)]
  BY <1>1 DEF Rec, GoldInfo
<1> HIDE DEF H
<1>7. /\ H(a1, b1, q1) \in GoldInfo /\ H(a1, b1, q1).ver = r.gold.ver /\ H(a1, b1, q1).refunded = q1
      /\ H(a1, b1, q1).spent = b1 /\ H(a1, b1, q1).bet <= r.gold.bet
  <2> HIDE DEF a1, b1, q1
  <2> QED BY <1>3, <1>4, <1>5
<1> HIDE DEF a1, b1
<1> QED BY <1>2, <1>4, <1>6, <1>7

LEMMA WinRecord ==
    ASSUME NEW r \in Rec, CountsOK, NEW w \in {"win", "lottery", "buy"}
    PROVE  Win(r, w) \in Alike(r)
<1>1. r.prize \in PrizeInfo
  BY DEF Rec
<1>2. \A h \in PrizeInfo : [r EXCEPT !.prize = h] \in Alike(r)
  <2> TAKE h \in PrizeInfo
  <2>1. [r EXCEPT !.prize = h] \in Rec /\ [r EXCEPT !.prize = h].gold = r.gold /\ r.gold \in GoldInfo
    BY DEF Rec
  <2> QED BY <2>1, LikeGold DEF Alike
<1>3. \A q \in Seq({"win", "lottery", "buy"} \X Nat) : [r.prize EXCEPT !.won = q] \in PrizeInfo
  BY <1>1 DEF PrizeInfo
<1> DEFINE q == Append(r.prize.won, <<w, games>>)
<1>4. <<w, games>> \in {"win", "lottery", "buy"} \X Nat
  BY DEF CountsOK
<1>5. q \in Seq({"win", "lottery", "buy"} \X Nat)
  BY <1>1, <1>4, AppendOf DEF PrizeInfo
<1>6. Win(r, w) = [r EXCEPT !.prize = [r.prize EXCEPT !.won = q]]
  BY <1>1 DEF Rec, PrizeInfo, Win
<1> HIDE DEF q
<1> QED BY <1>2, <1>3, <1>5, <1>6

(* What a coin paid adds to what is spent.                                 *)
LEMMA ChargeRecord ==
    ASSUME NEW r \in Rec
    PROVE  /\ [r EXCEPT !.gold.bet = @ - 1, !.gold.spent = @ + 1].gold.spent > r.gold.spent
           /\ [r EXCEPT !.gold.gold = @ - 1, !.gold.spent = @ + 1].gold.spent > r.gold.spent
<1>1. r.gold \in GoldInfo
  BY DEF Rec
<1>2. /\ [r EXCEPT !.gold.bet = @ - 1, !.gold.spent = @ + 1].gold.spent = r.gold.spent + 1
      /\ [r EXCEPT !.gold.gold = @ - 1, !.gold.spent = @ + 1].gold.spent = r.gold.spent + 1
      /\ r.gold.spent \in Nat
  BY <1>1 DEF Rec, GoldInfo
<1> QED BY <1>2

LEMMA AlikeRecords ==
    ASSUME NEW r
    PROVE  /\ r \in Rec => r \in Alike(r)
           /\ r \in Rec => \A a \in Alike(r) : a \in Rec /\ Alike(a) \subseteq Alike(r)
           /\ Alike(r) \subseteq Banked(r) /\ Banked(r) \subseteq Rec
           /\ \A g : Refunded(r, g) \subseteq Rec
  BY DEF Alike, AlikeGold, Banked, BankedGold, GoldInfo, Rec, Refunded

LEMMA StartsOK ==
    ASSUME NEW R, Starts
    PROVE  ServerOK(R)
<1>1. TimersOK(R)
  BY FS_EmptySet DEF Starts, TimersOK
<1>2. QueueOK(R)
  BY DEF Starts, QueueOK
<1>3. SessOK(R)
  <2>1. sess = << >> /\ DOMAIN sess = {}
    BY DEF Starts
  <2> QED BY <2>1, FS_EmptySet DEF SessOK
<1>4. DbOK
  <2>1. dbq = [u \in Uid |-> << >>] /\ db = [u \in Uid |-> Account(IF u \in Player THEN Gold ELSE 0)]
    BY DEF Starts
  <2>2. \A u \in Uid : Account(IF u \in Player THEN Gold ELSE 0) \in Rec
    BY RecordOfNone
  <2> QED BY <2>1, <2>2 DEF DbOK
<1>5. CountsOK
  BY DEF Starts, CountsOK
<1> QED BY <1>1, <1>2, <1>3, <1>4, <1>5 DEF ServerOK

LEMMA ServerTyped ==
    ASSUME NEW R, ServerOK(R), obj.on \in BOOLEAN
    PROVE  ServerTypeOK
<1>1. \A u \in Uid : db[u].gold.gold \in Nat /\ db[u].gold.bet \in Nat
  BY AccountRecords, 0 \in Nat DEF ServerOK, DbOK
<1>2. ASSUME NEW i \in DOMAIN sess PROVE sess[i].wait # {} /\ sess[i].redo < MaxRedo
  <2>1. sess[i] \in Waits(R)
    BY DEF ServerOK, SessOK
  <2>2. sess[i].redo \in 0 .. MaxRedo - 1 /\ sess[i].wait # {}
    BY <2>1 DEF Waits, Ready
  <2> QED BY <2>2, BoundAssumption
<1> QED BY <1>1, <1>2 DEF ServerOK, TimersOK, ServerTypeOK

-----------------------------------------------------------------------------
(* Requests and answers on their way.  q, s, d and b stand for the queue,  *)
(* the sessions, the data servers' requests and their records, before,     *)
(* after or in the midst of a step.                                        *)

(* A session waits for every answer that is on its way to it, and saves    *)
(* only when nothing else of it is.                                        *)
Asking(s, d) == \A u \in Uid : \A i \in DOMAIN d[u] : d[u][i].id \in DOMAIN s =>
                   /\ u \in s[d[u][i].id].wait
                   /\ d[u][i].op = "save" <=> s[d[u][i].id].save
Arriving(q, s) == \A j \in DOMAIN q : q[j].k = "answer" =>
                     /\ q[j] \in AnswerMsg
                     /\ q[j].id \in DOMAIN s => q[j].u \in s[q[j].id].wait
Saving(s) == \A id \in DOMAIN s : s[id].save => s[id].wait = {s[id].p}
Expected(q, s, d) == Asking(s, d) /\ Arriving(q, s) /\ Saving(s)

(* Of one session at most one request or answer about a user is on its     *)
(* way, and none about another with a save.                                *)
OneAsked(d) == \A u \in Uid : \A i, j \in DOMAIN d[u] : d[u][i].id = d[u][j].id => i = j
OneAnswer(q) == \A i, j \in DOMAIN q :
                   q[i].k = "answer" /\ q[j].k = "answer" /\ q[i].id = q[j].id /\ q[i].u = q[j].u
                   => i = j
AskedOrTold(q, d) == \A u \in Uid : \A i \in DOMAIN d[u] : \A j \in DOMAIN q :
                        ~(q[j].k = "answer" /\ q[j].u = u /\ q[j].id = d[u][i].id)
OneSave(d) == \A u, v \in Uid : \A i \in DOMAIN d[u] : \A j \in DOMAIN d[v] :
                 d[u][i].op = "save" /\ d[u][i].id = d[v][j].id => u = v
Single(q, d) == OneAsked(d) /\ OneAnswer(q) /\ AskedOrTold(q, d) /\ OneSave(d)

OnWay(q, d, id, u) == \/ \E i \in DOMAIN d[u] : d[u][i].id = id
                      \/ \E j \in DOMAIN q : q[j].k = "answer" /\ q[j].id = id /\ q[j].u = u

(* What is known of a user's gold is what it is or what it was; a save     *)
(* that can still be made leaves the games given back as they are, or adds *)
(* one.                                                                    *)
View(b, u, r) == /\ r.gold.ver <= b[u].gold.ver
                 /\ r.gold.ver = b[u].gold.ver => r.gold.refunded = b[u].gold.refunded
Adds(b, u, e, g) == /\ e.op = "save" /\ "gold" \in DOMAIN e.rec
                    /\ e.rec["gold"].ver = b[u].gold.ver + 1
                    /\ e.rec["gold"].refunded = Append(b[u].gold.refunded, g)
EntryView(b, u, e) == e.op = "save" /\ "gold" \in DOMAIN e.rec =>
                        /\ e.rec["gold"].ver <= b[u].gold.ver + 1
                        /\ e.rec["gold"].ver = b[u].gold.ver + 1 =>
                             \/ e.rec["gold"].refunded = b[u].gold.refunded
                             \/ \E g \in Nat : Adds(b, u, e, g)
Viewed(q, s, d, b) ==
    /\ \A u \in Uid : b[u].gold.ver = 0 => b[u].gold.refunded = << >>
    /\ \A id \in DOMAIN s : View(b, s[id].p, s[id].rec)
    /\ \A j \in DOMAIN q : q[j].k = "answer" => View(b, q[j].u, q[j].rec)
    /\ \A u \in Uid : \A i \in DOMAIN d[u] : EntryView(b, u, d[u][i])

FlightsOK(q, s, d, b) == Expected(q, s, d) /\ Single(q, d) /\ Viewed(q, s, d, b)

(* The oldest message is taken: if it is an answer, no other one is on its *)
(* way that its session expects about that user.                           *)
LEMMA TakenFlight ==
    ASSUME NEW S, NEW q \in Seq(S), q # << >>, NEW s, NEW d, NEW b, FlightsOK(q, s, d, b)
    PROVE  /\ FlightsOK(Tail(q), s, d, b)
           /\ \A id, u : OnWay(Tail(q), d, id, u) => OnWay(q, d, id, u)
           /\ Head(q).k = "answer" => ~OnWay(Tail(q), d, Head(q).id, Head(q).u)
<1>1. /\ DOMAIN q = 1 .. Len(q) /\ DOMAIN Tail(q) = 1 .. Len(q) - 1 /\ Len(q) \in Nat \ {0}
      /\ \A i \in DOMAIN Tail(q) : i + 1 \in DOMAIN q /\ Tail(q)[i] = q[i + 1] /\ i + 1 # 1
      /\ 1 \in DOMAIN q /\ Head(q) = q[1]
  OBVIOUS
<1>2. \A i, j \in DOMAIN Tail(q) : i + 1 = j + 1 => i = j
  BY <1>1
<1>3. Expected(Tail(q), s, d)
  BY <1>1 DEF FlightsOK, Expected, Arriving
<1>4. OneAnswer(Tail(q))
  BY <1>1, <1>2 DEF FlightsOK, Single, OneAnswer
<1>5. AskedOrTold(Tail(q), d)
  BY <1>1 DEF FlightsOK, Single, AskedOrTold
<1>6. Viewed(Tail(q), s, d, b)
  BY <1>1 DEF FlightsOK, Viewed
<1>7. \A id, u : OnWay(Tail(q), d, id, u) => OnWay(q, d, id, u)
  BY <1>1 DEF OnWay
<1>8. ASSUME Head(q).k = "answer" PROVE ~OnWay(Tail(q), d, Head(q).id, Head(q).u)
  <2>1. Head(q).u \in Uid
    BY <1>1, <1>8 DEF FlightsOK, Expected, Arriving, AnswerMsg
  <2>2. ~\E i \in DOMAIN d[Head(q).u] : d[Head(q).u][i].id = Head(q).id
    BY <1>1, <1>8, <2>1 DEF FlightsOK, Single, AskedOrTold
  <2>3. ~\E j \in DOMAIN Tail(q) : Tail(q)[j].k = "answer" /\ Tail(q)[j].id = Head(q).id
                                   /\ Tail(q)[j].u = Head(q).u
    BY <1>1, <1>8 DEF FlightsOK, Single, OneAnswer
  <2> QED BY <2>2, <2>3 DEF OnWay
<1> QED BY <1>3, <1>4, <1>5, <1>6, <1>7, <1>8 DEF FlightsOK, Single

(* Messages that are no answers come.                                      *)
LEMMA OldAnswers ==
    ASSUME NEW S, NEW q \in Seq(S), NEW ms \in Seq(S), \A i \in DOMAIN ms : ms[i].k # "answer"
    PROVE  \A i \in DOMAIN (q \o ms) : (q \o ms)[i].k = "answer" => i \in DOMAIN q /\ (q \o ms)[i] = q[i]
<1> SUFFICES ASSUME NEW i \in DOMAIN (q \o ms), (q \o ms)[i].k = "answer"
             PROVE  i \in DOMAIN q /\ (q \o ms)[i] = q[i]
  OBVIOUS
<1>1. CASE i <= Len(q)
  BY <1>1
<1>2. CASE i > Len(q)
  <2>1. i - Len(q) \in DOMAIN ms /\ (q \o ms)[i] = ms[i - Len(q)]
    BY <1>2
  <2> QED BY <2>1
<1>3. i \in Nat /\ Len(q) \in Nat
  OBVIOUS
<1> QED BY <1>1, <1>2, <1>3

LEMMA SentFlight ==
    ASSUME NEW S, NEW q \in Seq(S), NEW ms \in Seq(S), \A i \in DOMAIN ms : ms[i].k # "answer",
           NEW s, NEW d, NEW b, FlightsOK(q, s, d, b)
    PROVE  /\ FlightsOK(q \o ms, s, d, b)
           /\ \A id, u : OnWay(q \o ms, d, id, u) => OnWay(q, d, id, u)
<1> DEFINE r == q \o ms
<1>1. \A i \in DOMAIN r : r[i].k = "answer" => i \in DOMAIN q /\ r[i] = q[i]
  BY OldAnswers
<1> HIDE DEF r
<1>2. Expected(r, s, d)
  BY <1>1 DEF FlightsOK, Expected, Arriving
<1>3. OneAnswer(r)
  <2> SUFFICES ASSUME NEW i \in DOMAIN r, NEW j \in DOMAIN r, r[i].k = "answer", r[j].k = "answer",
                      r[i].id = r[j].id, r[i].u = r[j].u
               PROVE  i = j
    BY DEF OneAnswer
  <2>1. i \in DOMAIN q /\ r[i] = q[i] /\ j \in DOMAIN q /\ r[j] = q[j]
    BY <1>1
  <2> QED BY <2>1 DEF FlightsOK, Single, OneAnswer
<1>4. AskedOrTold(r, d)
  BY <1>1 DEF FlightsOK, Single, AskedOrTold
<1>5. Viewed(r, s, d, b)
  BY <1>1 DEF FlightsOK, Viewed
<1>6. \A id, u : OnWay(r, d, id, u) => OnWay(q, d, id, u)
  BY <1>1 DEF OnWay
<1> QED BY <1>2, <1>3, <1>4, <1>5, <1>6 DEF FlightsOK, Single, r

(* A session id that nothing is on its way to becomes x and sends e about  *)
(* the users it waits for.                                                 *)
Launches(s, s2, d, d2, id, x, e) ==
    /\ DOMAIN s2 = DOMAIN s \cup {id} /\ s2[id] = x /\ \A i \in DOMAIN s : i # id => s2[i] = s[i]
    /\ e.id = id /\ e.op \in {"query", "save"} /\ (e.op = "save" <=> x.save)
    /\ \A u \in Uid : d2[u] = IF u \in x.wait THEN Append(d[u], e) ELSE d[u]

LEMMA LaunchedFlight ==
    ASSUME NEW q, NEW s, NEW b, NEW d \in [Uid -> Seq(Asked \cup Change)], FlightsOK(q, s, d, b),
           NEW id, \A u \in Uid : ~OnWay(q, d, id, u),
           NEW x, View(b, x.p, x.rec), NEW e \in Asked \cup Change,
           ~x.save \/ (x.wait = {x.p} /\ EntryView(b, x.p, e)),
           NEW s2, NEW d2, Launches(s, s2, d, d2, id, x, e)
    PROVE  FlightsOK(q, s2, d2, b)
<1> DEFINE U == x.wait
<1>0. /\ DOMAIN s2 = DOMAIN s \cup {id} /\ s2[id] = x /\ \A i \in DOMAIN s : i # id => s2[i] = s[i]
      /\ e.id = id /\ (e.op = "save" <=> x.save)
      /\ \A u \in Uid : d2[u] = IF u \in U THEN Append(d[u], e) ELSE d[u]
      /\ x.wait = U /\ (x.save => U = {x.p} /\ EntryView(b, x.p, e))
  BY DEF Launches
<1> HIDE DEF U
<1> USE <1>0
<1>1. ASSUME NEW u \in Uid, NEW i \in DOMAIN d2[u]
      PROVE  \/ i \in DOMAIN d[u] /\ d2[u][i] = d[u][i]
             \/ u \in U /\ i = Len(d[u]) + 1 /\ d2[u][i] = e
  <2>1. d[u] \in Seq(Asked \cup Change)
    OBVIOUS
  <2>2. CASE u \in U
    <3>1. d2[u] = Append(d[u], e)
      BY <2>2
    <3> QED BY <2>1, <2>2, <3>1, <1>1
  <2>3. CASE u \notin U
    BY <2>3
  <2> QED BY <2>2, <2>3
<1>2. \A u \in Uid : \A i \in DOMAIN d[u] : d[u][i].id # id
  BY DEF OnWay
<1>3. \A j \in DOMAIN q : q[j].k = "answer" => q[j].id # id /\ q[j] \in AnswerMsg
  BY DEF OnWay, FlightsOK, Expected, Arriving, AnswerMsg
<1>4. Asking(s2, d2)
  <2> SUFFICES ASSUME NEW u \in Uid, NEW i \in DOMAIN d2[u], d2[u][i].id \in DOMAIN s2
               PROVE  /\ u \in s2[d2[u][i].id].wait
                      /\ d2[u][i].op = "save" <=> s2[d2[u][i].id].save
    BY DEF Asking
  <2>1. CASE i \in DOMAIN d[u] /\ d2[u][i] = d[u][i]
    <3>1. d[u][i].id # id /\ d[u][i].id \in DOMAIN s
      BY <1>2, <2>1
    <3>2. s2[d[u][i].id] = s[d[u][i].id]
      BY <3>1
    <3> QED BY <2>1, <3>1, <3>2 DEF FlightsOK, Expected, Asking
  <2>2. CASE u \in U /\ d2[u][i] = e
    BY <2>2
  <2> QED BY <1>1, <2>1, <2>2
<1>5. Arriving(q, s2)
  BY <1>3 DEF FlightsOK, Expected, Arriving
<1>6. Saving(s2)
  BY DEF FlightsOK, Expected, Saving
<1>7. OneAsked(d2)
  <2> SUFFICES ASSUME NEW u \in Uid, NEW i \in DOMAIN d2[u], NEW j \in DOMAIN d2[u],
                      d2[u][i].id = d2[u][j].id
               PROVE  i = j
    BY DEF OneAsked
  <2> QED BY <1>1, <1>2 DEF FlightsOK, Single, OneAsked
<1>8. AskedOrTold(q, d2)
  <2> SUFFICES ASSUME NEW u \in Uid, NEW i \in DOMAIN d2[u], NEW j \in DOMAIN q,
                      q[j].k = "answer", q[j].u = u, q[j].id = d2[u][i].id
               PROVE  FALSE
    BY DEF AskedOrTold
  <2> QED BY <1>1, <1>3 DEF FlightsOK, Single, AskedOrTold
<1>9. OneSave(d2)
  <2> SUFFICES ASSUME NEW u \in Uid, NEW v \in Uid, NEW i \in DOMAIN d2[u], NEW j \in DOMAIN d2[v],
                      d2[u][i].op = "save", d2[u][i].id = d2[v][j].id
               PROVE  u = v
    BY DEF OneSave
  <2>1. CASE d2[u][i] = e /\ u \in U
    <3>1. U = {x.p} /\ v \in U
      BY <1>1, <1>2, <2>1
    <3> QED BY <2>1, <3>1
  <2>2. CASE i \in DOMAIN d[u] /\ d2[u][i] = d[u][i]
    <3>1. j \in DOMAIN d[v] /\ d2[v][j] = d[v][j]
      BY <1>1, <1>2, <2>2
    <3> QED BY <2>2, <3>1 DEF FlightsOK, Single, OneSave
  <2> QED BY <1>1, <2>1, <2>2
<1>10. \A u \in Uid : \A i \in DOMAIN d2[u] : EntryView(b, u, d2[u][i])
  <2> SUFFICES ASSUME NEW u \in Uid, NEW i \in DOMAIN d2[u] PROVE EntryView(b, u, d2[u][i])
    OBVIOUS
  <2>1. CASE i \in DOMAIN d[u] /\ d2[u][i] = d[u][i]
    BY <2>1 DEF FlightsOK, Viewed
  <2>2. CASE u \in U /\ d2[u][i] = e
    <3>1. CASE x.save
      BY <2>2, <3>1
    <3>2. CASE ~x.save
      BY <2>2, <3>2 DEF EntryView
    <3> QED BY <3>1, <3>2
  <2> QED BY <1>1, <2>1, <2>2
<1>11. Viewed(q, s2, d2, b)
  BY <1>10 DEF FlightsOK, Viewed
<1> QED BY <1>4, <1>5, <1>6, <1>7, <1>8, <1>9, <1>11 DEF FlightsOK, Expected, Single

(* A session ends.                                                         *)
LEMMA EndedFlight ==
    ASSUME NEW q, NEW s, NEW d, NEW b, FlightsOK(q, s, d, b), NEW id
    PROVE  FlightsOK(q, Without(s, id), d, b)
<1> DEFINE s2 == Without(s, id)
<1>1. DOMAIN s2 \subseteq DOMAIN s /\ \A i \in DOMAIN s2 : s2[i] = s[i]
  BY DEF Without
<1> HIDE DEF s2
<1>2. Expected(q, s2, d)
  BY <1>1 DEF FlightsOK, Expected, Asking, Arriving, Saving
<1>3. Viewed(q, s2, d, b)
  BY <1>1 DEF FlightsOK, Viewed
<1> QED BY <1>2, <1>3 DEF FlightsOK, s2

(* A session has got an answer about u and waits for the others.           *)
LEMMA WaitedFlight ==
    ASSUME NEW q, NEW s, NEW d, NEW b, FlightsOK(q, s, d, b), NEW id \in DOMAIN s,
           NEW u \in Uid, ~OnWay(q, d, id, u), ~s[id].save,
           NEW x, ~x.save, x.wait = s[id].wait \ {u}, View(b, x.p, x.rec)
    PROVE  FlightsOK(q, [s EXCEPT ![id] = x], d, b)
<1> DEFINE s2 == [s EXCEPT ![id] = x]
<1>1. DOMAIN s2 = DOMAIN s /\ s2[id] = x /\ \A i \in DOMAIN s : i # id => s2[i] = s[i]
  OBVIOUS
<1> HIDE DEF s2
<1>2. Asking(s2, d)
  <2> SUFFICES ASSUME NEW v \in Uid, NEW i \in DOMAIN d[v], d[v][i].id \in DOMAIN s2
               PROVE  /\ v \in s2[d[v][i].id].wait
                      /\ d[v][i].op = "save" <=> s2[d[v][i].id].save
    BY DEF Asking
  <2>1. v \in s[d[v][i].id].wait /\ (d[v][i].op = "save" <=> s[d[v][i].id].save)
    BY <1>1 DEF FlightsOK, Expected, Asking
  <2>2. d[v][i].id = id => v # u
    BY DEF OnWay
  <2> QED BY <1>1, <2>1, <2>2
<1>3. Arriving(q, s2)
  <2> SUFFICES ASSUME NEW j \in DOMAIN q, q[j].k = "answer"
               PROVE  /\ q[j] \in AnswerMsg
                      /\ q[j].id \in DOMAIN s2 => q[j].u \in s2[q[j].id].wait
    BY DEF Arriving
  <2>1. q[j] \in AnswerMsg /\ (q[j].id \in DOMAIN s => q[j].u \in s[q[j].id].wait)
    BY DEF FlightsOK, Expected, Arriving
  <2>2. q[j].id = id => q[j].u # u
    BY DEF OnWay
  <2> QED BY <1>1, <2>1, <2>2
<1>4. Saving(s2)
  BY <1>1 DEF FlightsOK, Expected, Saving
<1>5. Viewed(q, s2, d, b)
  BY <1>1 DEF FlightsOK, Viewed
<1> QED BY <1>2, <1>3, <1>4, <1>5 DEF FlightsOK, Expected, s2

(* A data server takes the oldest request e about u and answers it.  If it *)
(* makes a save, u's gold is one version ahead.                            *)
Makes(b, b2, u, e) ==
    /\ \A v \in Uid : v # u => b2[v] = b[v]
    /\ \/ b2[u].gold = b[u].gold
       \/ /\ e.op = "save" /\ "gold" \in DOMAIN e.rec
          /\ e.rec["gold"].ver = b[u].gold.ver + 1 /\ b2[u].gold = e.rec["gold"]

LEMMA ServedFlight ==
    ASSUME NEW S, NEW q \in Seq(S), NEW s, NEW d \in [Uid -> Seq(Asked \cup Change)],
           NEW b \in [Uid -> Rec], FlightsOK(q, s, d, b),
           \A id \in DOMAIN s : s[id].p \in Uid /\ s[id].rec \in Rec,
           NEW u \in Uid, d[u] # << >>, NEW m \in AnswerMsg, m.id = Head(d[u]).id, m.u = u,
           View(b, u, m.rec),
           NEW b2, Makes(b, b2, u, Head(d[u]))
    PROVE  FlightsOK(Append(q, m), s, [d EXCEPT ![u] = Tail(@)], b2)
<1> DEFINE q2 == Append(q, m)
           d2 == [d EXCEPT ![u] = Tail(@)]
           r == Head(d[u])
<1>1. \A j \in DOMAIN q2 : (j \in DOMAIN q /\ q2[j] = q[j]) \/ (j = Len(q) + 1 /\ q2[j] = m)
  OBVIOUS
<1>2. /\ 1 \in DOMAIN d[u] /\ r = d[u][1]
      /\ \A i \in DOMAIN d2[u] : /\ i + 1 \in DOMAIN d[u] /\ i + 1 # 1 /\ i \in Nat
                                 /\ d2[u][i] = d[u][i + 1]
  <2>1. d2[u] = Tail(d[u]) /\ d[u] \in Seq(Asked \cup Change)
    OBVIOUS
  <2>2. /\ DOMAIN Tail(d[u]) = 1 .. Len(d[u]) - 1 /\ DOMAIN d[u] = 1 .. Len(d[u])
        /\ Len(d[u]) \in Nat \ {0}
    BY <2>1
  <2>3. \A i \in 1 .. Len(d[u]) - 1 : i + 1 \in 1 .. Len(d[u]) /\ i + 1 # 1 /\ i \in Nat
    BY <2>2
  <2> HIDE DEF d2
  <2> QED BY <2>1, <2>2, <2>3, HeadTail
<1>3. \A v \in Uid : v # u => d2[v] = d[v]
  OBVIOUS
<1>4. r \in Asked \cup Change
  BY HeadTail
<1>5. \A v \in Uid : /\ b[v].gold.ver \in Nat
                     /\ \A i \in DOMAIN d[v] : d[v][i] \in Asked \cup Change
  BY DEF Rec, GoldInfo
<1> HIDE DEF q2, d2, r
<1>0. ASSUME NEW v \in Uid, NEW i \in DOMAIN d2[v]
      PROVE  \E k \in DOMAIN d[v] : d2[v][i] = d[v][k] /\ (v = u => k # 1)
  <2>1. CASE v = u
    <3>1. i + 1 \in DOMAIN d[v] /\ d2[v][i] = d[v][i + 1] /\ i + 1 # 1
      BY <1>0, <1>2, <2>1
    <3> QED BY <3>1
  <2>2. CASE v # u
    <3>1. i \in DOMAIN d[v] /\ d2[v][i] = d[v][i]
      BY <1>0, <1>3, <2>2
    <3> QED BY <2>2, <3>1
  <2> QED BY <2>1, <2>2
<1>6. Asking(s, d2)
  <2> SUFFICES ASSUME NEW v \in Uid, NEW i \in DOMAIN d2[v], d2[v][i].id \in DOMAIN s
               PROVE  /\ v \in s[d2[v][i].id].wait
                      /\ d2[v][i].op = "save" <=> s[d2[v][i].id].save
    BY DEF Asking
  <2>1. \E k \in DOMAIN d[v] : d2[v][i] = d[v][k]
    BY <1>0
  <2> QED BY <2>1 DEF FlightsOK, Expected, Asking
<1>7. Arriving(q2, s)
  <2>1. m.id \in DOMAIN s => m.u \in s[m.id].wait
    BY <1>2 DEF FlightsOK, Expected, Asking, r
  <2> QED BY <1>1, <2>1 DEF FlightsOK, Expected, Arriving
<1>8. OneAsked(d2)
  <2> SUFFICES ASSUME NEW v \in Uid, NEW i \in DOMAIN d2[v], NEW j \in DOMAIN d2[v],
                      d2[v][i].id = d2[v][j].id
               PROVE  i = j
    BY DEF OneAsked
  <2>1. CASE v # u
    BY <1>3, <2>1 DEF FlightsOK, Single, OneAsked
  <2>2. CASE v = u
    <3>1. i + 1 = j + 1 /\ i \in Nat /\ j \in Nat
      BY <1>2, <2>2 DEF FlightsOK, Single, OneAsked
    <3> QED BY <3>1
  <2> QED BY <2>1, <2>2
<1>9. OneAnswer(q2)
  <2>1. \A j \in DOMAIN q : ~(q[j].k = "answer" /\ q[j].id = m.id /\ q[j].u = m.u)
    BY <1>2 DEF FlightsOK, Single, AskedOrTold, r
  <2> SUFFICES ASSUME NEW i \in DOMAIN q2, NEW j \in DOMAIN q2, q2[i].k = "answer", q2[j].k = "answer",
                      q2[i].id = q2[j].id, q2[i].u = q2[j].u
               PROVE  i = j
    BY DEF OneAnswer
  <2> QED BY <1>1, <2>1 DEF FlightsOK, Single, OneAnswer
<1>10. AskedOrTold(q2, d2)
  <2> SUFFICES ASSUME NEW v \in Uid, NEW i \in DOMAIN d2[v], NEW j \in DOMAIN q2,
                      q2[j].k = "answer", q2[j].u = v, q2[j].id = d2[v][i].id
               PROVE  FALSE
    BY DEF AskedOrTold
  <2>1. \E k \in DOMAIN d[v] : d2[v][i] = d[v][k] /\ (v = u => k # 1)
    BY <1>0
  <2>2. CASE q2[j] = m
    BY <1>2, <2>1, <2>2 DEF FlightsOK, Single, OneAsked, r
  <2>3. CASE j \in DOMAIN q /\ q2[j] = q[j]
    BY <2>1, <2>3 DEF FlightsOK, Single, AskedOrTold
  <2> QED BY <1>1, <2>2, <2>3
<1>11. OneSave(d2)
  <2> SUFFICES ASSUME NEW v \in Uid, NEW w \in Uid, NEW i \in DOMAIN d2[v], NEW j \in DOMAIN d2[w],
                      d2[v][i].op = "save", d2[v][i].id = d2[w][j].id
               PROVE  v = w
    BY DEF OneSave
  <2>1. (\E k \in DOMAIN d[v] : d2[v][i] = d[v][k]) /\ (\E k \in DOMAIN d[w] : d2[w][j] = d[w][k])
    BY <1>0
  <2> QED BY <2>1 DEF FlightsOK, Single, OneSave
<1>12. \/ b2[u].gold = b[u].gold
       \/ /\ r.rec["gold"].ver = b[u].gold.ver + 1 /\ b2[u].gold = r.rec["gold"]
  BY DEF r, Makes
<1>13. \A v \in Uid : b2[v].gold = b[v].gold \/ b2[v].gold.ver = b[v].gold.ver + 1
  BY <1>12 DEF Makes
<1>14. ASSUME NEW v \in Uid, NEW rec \in Rec, View(b, v, rec) PROVE View(b2, v, rec)
  <2>1. rec.gold.ver \in Nat
    BY DEF Rec, GoldInfo
  <2>2. CASE b2[v].gold = b[v].gold
    BY <1>14, <2>2 DEF View
  <2>3. CASE b2[v].gold.ver = b[v].gold.ver + 1
    BY <1>5, <1>14, <2>1, <2>3 DEF View
  <2> QED BY <1>13, <2>2, <2>3
<1>15. ASSUME NEW v \in Uid, NEW i \in DOMAIN d[v] PROVE EntryView(b2, v, d[v][i])
  <2>1. EntryView(b, v, d[v][i])
    BY DEF FlightsOK, Viewed
  <2>2. CASE b2[v].gold = b[v].gold
    BY <2>1, <2>2 DEF EntryView, Adds
  <2>3. CASE b2[v].gold.ver = b[v].gold.ver + 1
    <3>1. d[v][i].op = "save" /\ "gold" \in DOMAIN d[v][i].rec => d[v][i].rec["gold"].ver \in Nat
      BY <1>5 DEF Asked, Change, Parts, GoldInfo
    <3> SUFFICES ASSUME d[v][i].op = "save", "gold" \in DOMAIN d[v][i].rec
                 PROVE  /\ d[v][i].rec["gold"].ver <= b2[v].gold.ver + 1
                        /\ d[v][i].rec["gold"].ver # b2[v].gold.ver + 1
      BY DEF EntryView
    <3>2. d[v][i].rec["gold"].ver <= b[v].gold.ver + 1
      BY <2>1 DEF EntryView
    <3> QED BY <1>5, <2>3, <3>1, <3>2
  <2> QED BY <1>13, <2>2, <2>3
<1>16. ASSUME NEW v \in Uid, b2[v].gold.ver = 0 PROVE b2[v].gold.refunded = << >>
  <2>1. b[v].gold.ver + 1 # 0
    BY <1>5
  <2>2. b2[v].gold = b[v].gold
    BY <1>13, <1>16, <2>1
  <2> QED BY <1>16, <2>2 DEF FlightsOK, Viewed
<1>17. \A j \in DOMAIN q2 : q2[j].k = "answer" => View(b2, q2[j].u, q2[j].rec)
  <2> SUFFICES ASSUME NEW j \in DOMAIN q2, q2[j].k = "answer" PROVE View(b2, q2[j].u, q2[j].rec)
    OBVIOUS
  <2>1. q2[j] \in AnswerMsg /\ View(b, q2[j].u, q2[j].rec)
    BY <1>1 DEF FlightsOK, Expected, Arriving, Viewed
  <2>2. q2[j].u \in Uid /\ q2[j].rec \in Rec
    BY <2>1 DEF AnswerMsg
  <2> QED BY <1>14, <2>1, <2>2
<1>18. Viewed(q2, s, d2, b2)
  <2>1. \A id \in DOMAIN s : View(b2, s[id].p, s[id].rec)
    BY <1>14 DEF FlightsOK, Viewed
  <2>2. ASSUME NEW v \in Uid, NEW i \in DOMAIN d2[v] PROVE EntryView(b2, v, d2[v][i])
    <3>1. PICK k \in DOMAIN d[v] : d2[v][i] = d[v][k]
      BY <1>0
    <3> QED BY <1>15, <3>1
  <2> QED BY <1>16, <1>17, <2>1, <2>2 DEF Viewed
<1> QED BY <1>6, <1>7, <1>8, <1>9, <1>10, <1>11, <1>18 DEF FlightsOK, Expected, Single, q2, d2

-----------------------------------------------------------------------------
(* The way of a refund.  The refund of game g is with a timer, in the      *)
(* queue, in a session's hands, until it has the answer that it is made,   *)
(* or under way to be saved, or in the player's records.                   *)

IsRefund(m, g) == m.k = "game_refund" /\ m.game = g

Settled(q, s, id) == s[id].save /\ \E j \in DOMAIN q : q[j].k = "answer" /\ q[j].id = id /\ q[j].ok
Sits(q, s, id, g) == id \in DOMAIN s /\ IsRefund(s[id].req, g) /\ ~Settled(q, s, id)
Enters(d, b, id, g) == \E u \in Uid : \E i \in DOMAIN d[u] : d[u][i].id = id /\ Adds(b, u, d[u][i], g)

TimerPlaces(T, g) == {t \in T : IsRefund(t.msg, g)}
QueuePlaces(q, g) == {i \in DOMAIN q : IsRefund(q[i], g)}
HandPlaces(q, s, d, b, g) == {id \in Nat : Sits(q, s, id, g) \/ Enters(d, b, id, g)}
BookPlaces(b, g) == {p \in Uid \X Nat : /\ p[2] \in DOMAIN b[p[1]].gold.refunded
                                        /\ b[p[1]].gold.refunded[p[2]] = g}

(* There is one place at most.                                             *)
Only(X, Y, Z, W) == /\ \A x, y \in X : x = y
                    /\ \A x, y \in Y : x = y
                    /\ \A x, y \in Z : x = y
                    /\ \A x, y \in W : x = y
                    /\ X = {} \/ (Y = {} /\ Z = {} /\ W = {})
                    /\ Y = {} \/ (Z = {} /\ W = {})
                    /\ Z = {} \/ W = {}
Somewhere(X, Y, Z, W) == X # {} \/ Y # {} \/ Z # {} \/ W # {}

(* No game is on its way to be given back twice, and the one in progress   *)
(* is not at all.                                                          *)
RefundsOK ==
    /\ FlightsOK(queue, sess, dbq, db)
    /\ \A g \in Nat :
         LET X == TimerPlaces(timers, g)
             Y == QueuePlaces(queue, g)
             Z == HandPlaces(queue, sess, dbq, db, g)
             W == BookPlaces(db, g)
         IN  /\ Only(X, Y, Z, W)
             /\ Somewhere(X, Y, Z, W) => g <= games /\ (obj.state = "wait_end" => g # games)

(* What a step does to the game: it gives no game back, or the one in      *)
(* progress, which ends, by one timer or by one of the messages ms.        *)
Calm(ms) ==
    /\ \A t \in timers' : t.msg.k = "game_refund" => t \in timers
    /\ \A i \in DOMAIN ms : ms[i].k # "game_refund"
    /\ \/ games' = games /\ (obj'.state = "wait_end" => obj.state = "wait_end")
       \/ games' = games + 1
GivesBack(ms) ==
    /\ obj.state = "wait_end" /\ obj'.state # "wait_end" /\ games' = games
    /\ \/ /\ \E n : \A t \in timers' : t.msg.k = "game_refund" =>
                       t \in timers \/ (t = n /\ t.msg.game = games)
          /\ \A i \in DOMAIN ms : ms[i].k # "game_refund"
       \/ /\ \A t \in timers' : t.msg.k = "game_refund" => t \in timers
          /\ \E n : \A i \in DOMAIN ms : ms[i].k = "game_refund" => i = n /\ ms[i].game = games

LEMMA StayCalm == ASSUME Stay, games' = games PROVE Calm(<< >>)
  BY DEF Stay, Calm

LEMMA EnterCalm ==
    ASSUME NEW m, "state" \in DOMAIN m, NEW T, T \subseteq timers, NEW st, Enter(m, T, st),
           \/ games' = games /\ (st = "wait_end" => obj.state = "wait_end")
           \/ games' = games + 1
    PROVE  Calm(<< >>)
<1>1. obj' = [m EXCEPT !.state = st, !.timer = NewTimer(T)]
  BY DEF Enter
<1>2. obj'.state = st
  BY <1>1
<1>3. \A t \in timers' : t \in T \/ t.msg.k = "timeout"
  BY DEF Enter, Timeout
<1> QED BY <1>2, <1>3 DEF Calm

LEMMA SameFlights == FlightsOK(queue, sess, dbq, db)' <=> FlightsOK(queue', sess', dbq', db')
  BY DEF FlightsOK, Expected, Asking, Arriving, Saving, Single, OneAsked, OneAnswer, AskedOrTold,
         OneSave, Viewed, View, EntryView, Adds

(* The oldest message is taken (k = 1) or stays and messages ms are sent;  *)
(* session z has the refund that was taken.                                *)
Takes(k, ms) == /\ k \in {0, 1} /\ (k = 1 => queue # << >>)
                /\ queue' = IF k = 1 THEN Tail(queue) \o ms ELSE queue \o ms
Hands(k, z) == \A g \in Nat : \A j \in HandPlaces(queue', sess', dbq', db', g) :
                  \/ j \in HandPlaces(queue, sess, dbq, db, g)
                  \/ k = 1 /\ IsRefund(Head(queue), g) /\ j = z

(* A step of the game that changes no record.                              *)
LEMMA RefundsMove ==
    ASSUME NEW S, queue \in Seq(S), NEW ms \in Seq(S), games \in Nat, RefundsOK, NEW k,
           Takes(k, ms),
           Calm(ms) \/ GivesBack(ms), db' = db,
           FlightsOK(queue', sess', dbq', db'), NEW z, Hands(k, z)
    PROVE  RefundsOK'
<1>0. /\ k \in {0, 1} /\ (k = 1 => queue # << >>)
      /\ queue' = IF k = 1 THEN Tail(queue) \o ms ELSE queue \o ms
  BY DEF Takes
<1> USE <1>0
<1>1. \A i \in DOMAIN queue' :
         \/ i + k \in DOMAIN queue /\ queue'[i] = queue[i + k]
         \/ i + k - Len(queue) \in DOMAIN ms /\ queue'[i] = ms[i + k - Len(queue)]
  <2>1. CASE k = 1
    <3>1. queue' = Tail(queue) \o ms /\ Tail(queue) \in Seq(S) /\ Len(Tail(queue)) = Len(queue) - 1
          /\ \A i \in 1 .. Len(queue) - 1 : Tail(queue)[i] = queue[i + 1]
      BY <2>1, HeadTail
    <3> QED BY <2>1, <3>1
  <2>2. CASE k = 0
    BY <2>2
  <2> QED BY <2>1, <2>2
<1>2. /\ queue' \in Seq(S) /\ DOMAIN queue' \subseteq Nat \ {0} /\ Len(queue) \in Nat
      /\ k = 1 => 1 \in DOMAIN queue /\ Head(queue) = queue[1]
  <2>1. Tail(queue) \in Seq(S) \/ k = 0
    BY HeadTail
  <2>2. queue' \in Seq(S)
    BY <2>1, ConcatOf
  <2> QED BY <2>2
<1>3. ASSUME NEW g \in Nat
      PROVE  LET X == TimerPlaces(timers', g)
                 Y == QueuePlaces(queue', g)
                 Z == HandPlaces(queue', sess', dbq', db', g)
                 W == BookPlaces(db', g)
             IN  /\ Only(X, Y, Z, W)
                 /\ Somewhere(X, Y, Z, W) => g <= games' /\ (obj'.state = "wait_end" => g # games')
  <2> DEFINE X == TimerPlaces(timers, g)
             Y == QueuePlaces(queue, g)
             Z == HandPlaces(queue, sess, dbq, db, g)
             W == BookPlaces(db, g)
             X2 == TimerPlaces(timers', g)
             Y2 == QueuePlaces(queue', g)
             Z2 == HandPlaces(queue', sess', dbq', db', g)
             W2 == BookPlaces(db', g)
             XN == X2 \ X
             YN == {i \in Y2 : i + k \notin Y}
             ZN == IF k = 1 /\ IsRefund(Head(queue), g) THEN {z} ELSE {}
  <2>1. /\ Only(X, Y, Z, W)
        /\ Somewhere(X, Y, Z, W) => g <= games /\ (obj.state = "wait_end" => g # games)
    BY DEF RefundsOK
  <2>2. W2 \subseteq W
    OBVIOUS
  <2>3. Z2 \subseteq Z \cup ZN
    BY DEF Hands
  <2>4. ZN # {} => k = 1 /\ 1 \in Y
    BY <1>2 DEF QueuePlaces
  <2>5. Y2 \in SUBSET (Nat \ {0})
    BY <1>2 DEF QueuePlaces
  <2>6. \A i \in YN : i + k - Len(queue) \in DOMAIN ms /\ IsRefund(ms[i + k - Len(queue)], g)
    BY <1>1 DEF QueuePlaces
  <2>7. \A t \in XN : t \in timers' /\ t \notin timers /\ IsRefund(t.msg, g)
    BY DEF TimerPlaces
  <2>8. Calm(ms) => XN = {} /\ YN = {}
    BY <2>6, <2>7 DEF Calm, IsRefund
  <2>9. ASSUME GivesBack(ms)
        PROVE  /\ XN = {} \/ YN = {}
               /\ \A x, y \in XN : x = y
               /\ \A x, y \in YN : x = y
               /\ XN # {} \/ YN # {} => g = games
    <3>1. CASE /\ \E n : \A t \in timers' : t.msg.k = "game_refund" =>
                            t \in timers \/ (t = n /\ t.msg.game = games)
               /\ \A i \in DOMAIN ms : ms[i].k # "game_refund"
      <4>1. YN = {}
        BY <2>6, <3>1 DEF IsRefund
      <4>2. PICK n : \A t \in timers' : t.msg.k = "game_refund" =>
                        t \in timers \/ (t = n /\ t.msg.game = games)
        BY <3>1
      <4>3. \A t \in XN : t = n /\ g = games
        BY <2>7, <4>2 DEF IsRefund
      <4> HIDE DEF XN, YN
      <4> QED BY <4>1, <4>3
    <3>2. CASE /\ \A t \in timers' : t.msg.k = "game_refund" => t \in timers
               /\ \E n : \A i \in DOMAIN ms : ms[i].k = "game_refund" => i = n /\ ms[i].game = games
      <4>1. XN = {}
        BY <2>7, <3>2 DEF IsRefund
      <4>2. PICK n : \A i \in DOMAIN ms : ms[i].k = "game_refund" => i = n /\ ms[i].game = games
        BY <3>2
      <4>3. \A i \in YN : i + k - Len(queue) = n /\ g = games
        BY <2>6, <4>2 DEF IsRefund
      <4>4. \A i \in YN : i \in Nat
        BY <2>5
      <4> HIDE DEF XN, YN
      <4>5. \A i, j \in YN : i = j
        BY <1>2, <4>3, <4>4
      <4> QED BY <4>1, <4>3, <4>5
    <3> QED BY <2>9, <3>1, <3>2 DEF GivesBack
  <2>10. /\ XN = {} \/ YN = {}
         /\ \A x, y \in XN : x = y
         /\ \A x, y \in YN : x = y
         /\ XN # {} \/ YN # {} => ~Somewhere(X, Y, Z, W)
    BY <2>1, <2>8, <2>9, Zenon DEF GivesBack
  <2>11. X2 \subseteq X \cup XN
    OBVIOUS
  <2>15. \A i \in Y2 : i + k \in Y \/ i \in YN
    OBVIOUS
  <2>12. \A x, y \in ZN : x = y
    OBVIOUS
  <2> HIDE DEF X, Y, Z, W, X2, Y2, Z2, W2, XN, YN, ZN
  <2>13. /\ Only(X2, Y2, Z2, W2)
         /\ Somewhere(X2, Y2, Z2, W2) => Somewhere(X, Y, Z, W) \/ XN # {} \/ YN # {}
    <3>1. CASE XN # {} \/ YN # {}
      <4>1. X = {} /\ Y = {} /\ Z = {} /\ W = {} /\ ZN = {}
        BY <2>4, <2>10, <3>1 DEF Somewhere
      <4>2. X2 \subseteq XN /\ Y2 \subseteq YN /\ Z2 = {} /\ W2 = {}
        BY <2>2, <2>3, <2>11, <2>15, <4>1
      <4> QED BY <2>10, <3>1, <4>2 DEF Only
    <3>2. CASE XN = {} /\ YN = {}
      <4>1. X2 \subseteq X /\ \A i \in Y2 : i + k \in Y
        BY <2>11, <2>15, <3>2
      <4>2. \A i, j \in Y2 : i = j
        <5>1. \A i, j \in Y2 : i + k = j + k
          BY <2>1, <4>1 DEF Only
        <5> QED BY <2>5, <5>1
      <4>3. CASE ZN = {}
        BY <2>1, <2>2, <2>3, <4>1, <4>2, <4>3 DEF Only, Somewhere
      <4>4. CASE ZN # {}
        <5>1. k = 1 /\ 1 \in Y /\ X = {} /\ Z = {} /\ W = {}
          BY <2>1, <2>4, <4>4 DEF Only
        <5>2. Y2 = {}
          <6>1. \A i \in Y2 : i + 1 = 1
            BY <2>1, <4>1, <5>1 DEF Only
          <6> QED BY <2>5, <6>1
        <5> QED BY <2>2, <2>3, <2>12, <4>1, <5>1, <5>2 DEF Only, Somewhere
      <4> QED BY <4>3, <4>4
    <3> QED BY <3>1, <3>2
  <2>14. ASSUME Somewhere(X2, Y2, Z2, W2) PROVE g <= games' /\ (obj'.state = "wait_end" => g # games')
    <3>1. CASE Calm(ms)
      <4>1. g <= games /\ (obj.state = "wait_end" => g # games)
        BY <2>1, <2>8, <2>13, <2>14, <3>1
      <4> QED BY <3>1, <4>1 DEF Calm
    <3>2. CASE GivesBack(ms)
      <4>1. g <= games
        BY <2>1, <2>9, <2>13, <2>14, <3>2
      <4> QED BY <3>2, <4>1 DEF GivesBack
    <3> QED BY <3>1, <3>2
  <2> QED BY <2>13, <2>14 DEF X2, Y2, Z2, W2
<1>4. FlightsOK(queue, sess, dbq, db)'
  BY SameFlights
<1> QED BY <1>3, <1>4 DEF RefundsOK

LEMMA RefundsStay ==
    ASSUME NEW S, queue \in Seq(S), NEW ms \in Seq(S), games \in Nat, RefundsOK,
           queue' = queue \o ms, Calm(ms) \/ GivesBack(ms), db' = db,
           FlightsOK(queue', sess', dbq', db'),
           \A g : HandPlaces(queue', sess', dbq', db', g) \subseteq HandPlaces(queue, sess, dbq, db, g)
    PROVE  RefundsOK'
<1> DEFINE k == 0
<1>1. Takes(k, ms)
  BY DEF Takes
<1>2. Hands(k, 0)
  BY DEF Hands
<1> HIDE DEF k
<1> QED BY <1>1, <1>2, RefundsMove

(* A session that is there before and after a step stays settled.          *)
LEMMA SettledStays ==
    ASSUME NEW q, NEW q2, NEW s, NEW s2, NEW i, s2[i] = s[i],
           \A j \in DOMAIN q : q[j].k = "answer" /\ q[j].id = i => \E n \in DOMAIN q2 : q2[n] = q[j],
           Settled(q, s, i)
    PROVE  Settled(q2, s2, i)
  BY DEF Settled

LEMMA HandStays ==
    ASSUME NEW q, NEW q2, NEW s, NEW s2, NEW d, NEW b,
           \A i \in DOMAIN s2 : i \in DOMAIN s /\ s2[i] = s[i],
           \A i \in DOMAIN s2 : \A j \in DOMAIN q : q[j].k = "answer" /\ q[j].id = i =>
              \E n \in DOMAIN q2 : q2[n] = q[j]
    PROVE  \A g : HandPlaces(q2, s2, d, b, g) \subseteq HandPlaces(q, s, d, b, g)
<1>1. \A i \in DOMAIN s2 : Settled(q, s, i) => Settled(q2, s2, i)
  BY SettledStays
<1>2. \A id, g : Sits(q2, s2, id, g) => Sits(q, s, id, g)
  BY <1>1 DEF Sits
<1> QED BY <1>2 DEF HandPlaces

(* The messages of a game that begin a handler are no answers, and its     *)
(* refunds name a game.                                                    *)
Begins(R) == \A m \in R : m.k # "answer" /\ (m.k = "game_refund" => m.game \in Nat)

LEMMA StartRefunds == ASSUME NEW R, Starts PROVE RefundsOK
<1>1. /\ timers = {} /\ DOMAIN queue = {} /\ DOMAIN sess = {}
      /\ \A u \in Uid : DOMAIN dbq[u] = {}
      /\ \A u \in Uid : db[u].gold.refunded = << >>
  BY DEF Starts, Account
<1>2. FlightsOK(queue, sess, dbq, db)
  BY <1>1 DEF FlightsOK, Expected, Asking, Arriving, Saving, Single, OneAsked, OneAnswer,
              AskedOrTold, OneSave, Viewed
<1>3. ASSUME NEW g \in Nat
      PROVE  /\ TimerPlaces(timers, g) = {} /\ QueuePlaces(queue, g) = {}
             /\ HandPlaces(queue, sess, dbq, db, g) = {} /\ BookPlaces(db, g) = {}
  <2>1. BookPlaces(db, g) = {}
    BY <1>1 DEF BookPlaces
  <2>2. HandPlaces(queue, sess, dbq, db, g) = {}
    BY <1>1 DEF HandPlaces, Sits, Enters
  <2> QED BY <1>1, <2>1, <2>2 DEF TimerPlaces, QueuePlaces
<1> QED BY <1>2, <1>3 DEF RefundsOK, Only, Somewhere

(* A request comes, or the game is stopped from outside.                   *)
LEMMA SentRefunds ==
    ASSUME NEW R, Begins(R), ServerOK(R), RefundsOK, NEW ms \in Seq(R), queue' = queue \o ms,
           Calm(ms) \/ GivesBack(ms), UNCHANGED <<sess, dbq, db>>
    PROVE  RefundsOK'
<1>1. queue \in Seq(R \cup AnswerMsg) /\ ms \in Seq(R \cup AnswerMsg) /\ games \in Nat
  BY WidenSeq DEF ServerOK, QueueOK, CountsOK
<1>2. \A i \in DOMAIN ms : ms[i].k # "answer"
  BY DEF Begins
<1>3. FlightsOK(queue', sess', dbq', db')
  BY <1>1, <1>2, SentFlight DEF RefundsOK
<1>4. \A j \in DOMAIN queue : j \in DOMAIN queue' /\ queue'[j] = queue[j]
  BY <1>1
<1>5. \A g : HandPlaces(queue', sess', dbq', db', g) \subseteq HandPlaces(queue, sess, dbq, db, g)
  BY <1>4, HandStays
<1> QED BY <1>1, <1>3, <1>5, RefundsStay

LEMMA TimeOutRefunds ==
    ASSUME NEW R, ServerOK(R), RefundsOK, TimeOut
    PROVE  RefundsOK'
<1>1. PICK id \in DOMAIN sess : sess' = Without(sess, id)
  BY DEF TimeOut
<1>2. UNCHANGED <<obj, timers, queue, dbq, db, games>>
  BY DEF TimeOut, counts
<1>3. << >> \in Seq(R \cup AnswerMsg) /\ queue \in Seq(R \cup AnswerMsg) /\ games \in Nat
      /\ queue' = queue \o << >>
  BY <1>2 DEF ServerOK, QueueOK, CountsOK
<1>4. Calm(<< >>)
  BY <1>2 DEF Calm
<1>5. FlightsOK(queue', sess', dbq', db')
  BY <1>1, <1>2, EndedFlight DEF RefundsOK
<1>6. \A i \in DOMAIN sess' : i \in DOMAIN sess /\ sess'[i] = sess[i]
  BY <1>1 DEF Without
<1>7. \A g : HandPlaces(queue', sess', dbq', db', g) \subseteq HandPlaces(queue, sess, dbq, db, g)
  BY <1>2, <1>6, HandStays
<1> QED BY <1>2, <1>3, <1>4, <1>5, <1>7, RefundsStay

(* A timer's refund gets into the queue.                                   *)
LEMMA TickRefunds ==
    ASSUME NEW R, Begins(R), ServerOK(R), RefundsOK, Tick
    PROVE  RefundsOK'
<1>1. PICK t \in timers : timers' = timers \ {t} /\ queue' = Append(queue, t.msg)
  BY DEF Tick, Post
<1>2. UNCHANGED <<obj, sess, dbq, db, games>>
  BY DEF Tick, counts
<1>3. /\ t.msg \in R /\ <<t.msg>> \in Seq(R \cup AnswerMsg) /\ queue \in Seq(R \cup AnswerMsg)
      /\ queue' = queue \o <<t.msg>>
  BY <1>1 DEF ServerOK, QueueOK, TimersOK
<1>4. \A i \in DOMAIN <<t.msg>> : <<t.msg>>[i].k # "answer"
  BY <1>3 DEF Begins
<1>5. FlightsOK(queue', sess', dbq', db')
  BY <1>2, <1>3, <1>4, SentFlight DEF RefundsOK
<1>6. /\ \A j \in DOMAIN queue : j \in DOMAIN queue' /\ queue'[j] = queue[j]
      /\ \A j \in DOMAIN queue' : \/ j \in DOMAIN queue /\ queue'[j] = queue[j]
                                  \/ j = Len(queue) + 1 /\ queue'[j] = t.msg
  BY <1>1, <1>3
<1>7. \A g : HandPlaces(queue', sess', dbq', db', g) \subseteq HandPlaces(queue, sess, dbq, db, g)
  BY <1>2, <1>6, HandStays
<1>8. ASSUME NEW g \in Nat
      PROVE  LET X == TimerPlaces(timers', g)
                 Y == QueuePlaces(queue', g)
                 Z == HandPlaces(queue', sess', dbq', db', g)
                 W == BookPlaces(db', g)
             IN  /\ Only(X, Y, Z, W)
                 /\ Somewhere(X, Y, Z, W) => g <= games' /\ (obj'.state = "wait_end" => g # games')
  <2> DEFINE X == TimerPlaces(timers, g)
             Y == QueuePlaces(queue, g)
             Z == HandPlaces(queue, sess, dbq, db, g)
             W == BookPlaces(db, g)
             X2 == TimerPlaces(timers', g)
             Y2 == QueuePlaces(queue', g)
             Z2 == HandPlaces(queue', sess', dbq', db', g)
             W2 == BookPlaces(db', g)
  <2>1. /\ Only(X, Y, Z, W)
        /\ Somewhere(X, Y, Z, W) => g <= games /\ (obj.state = "wait_end" => g # games)
    BY DEF RefundsOK
  <2>2. X2 = X \ {t} /\ W2 = W /\ Z2 \subseteq Z
    BY <1>1, <1>2, <1>7 DEF TimerPlaces
  <2>3. \A i \in Y2 : i \in Y \/ (i = Len(queue) + 1 /\ t \in X)
    BY <1>6 DEF QueuePlaces, TimerPlaces
  <2> HIDE DEF X, Y, Z, W, X2, Y2, Z2, W2
  <2>4. CASE t \in X
    <3>1. X2 = {} /\ Y = {} /\ Z2 = {} /\ W2 = {}
      BY <2>1, <2>2, <2>4 DEF Only
    <3>2. \A i, j \in Y2 : i = j
      BY <2>3, <3>1
    <3> QED BY <1>2, <2>1, <2>4, <3>1, <3>2 DEF Only, Somewhere, X2, Y2, Z2, W2
  <2>5. CASE t \notin X
    <3>1. X2 \subseteq X /\ Y2 \subseteq Y
      BY <2>2, <2>3, <2>5
    <3>2. Only(X2, Y2, Z2, W2) /\ (Somewhere(X2, Y2, Z2, W2) => Somewhere(X, Y, Z, W))
      BY <2>1, <2>2, <3>1 DEF Only, Somewhere
    <3> QED BY <1>2, <2>1, <3>2 DEF X2, Y2, Z2, W2
  <2> QED BY <2>4, <2>5
<1>9. FlightsOK(queue, sess, dbq, db)'
  BY <1>5, SameFlights
<1> QED BY <1>8, <1>9 DEF RefundsOK

(* A data server makes the save of a refund, or refuses it, or it serves   *)
(* something else.                                                         *)
LEMMA ServeRefunds ==
    ASSUME NEW R, Begins(R), ServerOK(R), RefundsOK, NEW u \in Uid, Serve(u)
    PROVE  RefundsOK'
<1> DEFINE r == Head(dbq[u])
<1>1. /\ dbq[u] # << >> /\ r \in Asked \cup Change
      /\ dbq' = [dbq EXCEPT ![u] = Tail(@)]
      /\ db' \in [Uid -> Rec] /\ db \in [Uid -> Rec] /\ dbq \in [Uid -> Seq(Asked \cup Change)]
      /\ \A v \in Uid : v # u => db'[v] = db[v]
      /\ UNCHANGED <<obj, timers, sess, games>>
  BY ServeIs DEF ServerOK, DbOK
<1>2. \/ db'[u].gold = db[u].gold
      \/ /\ r.op = "save" /\ "gold" \in DOMAIN r.rec
         /\ r.rec["gold"].ver = db[u].gold.ver + 1 /\ db'[u].gold = r.rec["gold"]
  BY ServeIs
<1>3. PICK m \in AnswerMsg : /\ queue' = Append(queue, m) /\ m.id = r.id /\ m.u = u
                             /\ m.rec.gold \in {db[u].gold, Account(0).gold}
                             /\ m.ok \/ db' = db
  BY ServeIs
<1>4. View(db, u, m.rec)
  <2>1. db[u].gold.ver \in Nat /\ (db[u].gold.ver = 0 => db[u].gold.refunded = << >>)
    BY <1>1 DEF Rec, GoldInfo, RefundsOK, FlightsOK, Viewed
  <2>2. Account(0).gold.ver = 0 /\ Account(0).gold.refunded = << >>
    BY DEF Account
  <2> QED BY <1>3, <2>1, <2>2 DEF View
<1>5. /\ queue \in Seq(R \cup AnswerMsg) /\ Len(queue) \in Nat
      /\ \A j \in DOMAIN queue : j \in DOMAIN queue' /\ queue'[j] = queue[j]
      /\ \A j \in DOMAIN queue' : \/ j \in DOMAIN queue /\ queue'[j] = queue[j]
                                  \/ j = Len(queue) + 1 /\ queue'[j] = m
      /\ Len(queue) + 1 \in DOMAIN queue' /\ queue'[Len(queue) + 1] = m /\ m.k = "answer"
  BY <1>3 DEF ServerOK, QueueOK, AnswerMsg
<1> HIDE DEF r
<1>6. FlightsOK(queue', sess', dbq', db')
  <2>1. \A id \in DOMAIN sess : sess[id].p \in Uid /\ sess[id].rec \in Rec
    BY DEF ServerOK, SessOK, Waits, Ready
  <2>2. Makes(db, db', u, Head(dbq[u]))
    BY <1>1, <1>2 DEF r, Makes
  <2>3. FlightsOK(queue, sess, dbq, db)
    BY DEF RefundsOK
  <2>5. queue \in Seq(R \cup AnswerMsg) /\ m.id = Head(dbq[u]).id /\ m.u = u
    BY <1>3, <1>5 DEF r
  <2>6. dbq \in [Uid -> Seq(Asked \cup Change)] /\ db \in [Uid -> Rec] /\ dbq[u] # << >>
    BY <1>1
  <2>4. FlightsOK(Append(queue, m), sess, [dbq EXCEPT ![u] = Tail(@)], db')
    BY <1>4, <2>1, <2>2, <2>3, <2>5, <2>6, ServedFlight
  <2> QED BY <1>1, <1>3, <2>4
<1>7. /\ 1 \in DOMAIN dbq[u] /\ r = dbq[u][1]
      /\ \A i \in DOMAIN dbq'[u] : i + 1 \in DOMAIN dbq[u] /\ i + 1 # 1 /\ dbq'[u][i] = dbq[u][i + 1]
      /\ \A v \in Uid : v # u => dbq'[v] = dbq[v]
  <2>1. dbq'[u] = Tail(dbq[u]) /\ dbq[u] \in Seq(Asked \cup Change) /\ dbq[u] # << >>
    BY <1>1
  <2>2. /\ DOMAIN Tail(dbq[u]) = 1 .. Len(dbq[u]) - 1 /\ DOMAIN dbq[u] = 1 .. Len(dbq[u])
        /\ Len(dbq[u]) \in Nat \ {0}
    BY <2>1
  <2>3. \A i \in 1 .. Len(dbq[u]) - 1 : i + 1 \in 1 .. Len(dbq[u]) /\ i + 1 # 1
    BY <2>2
  <2>4. \A v \in Uid : v # u => dbq'[v] = dbq[v]
    BY <1>1
  <2> QED BY <2>1, <2>2, <2>3, <2>4, HeadTail DEF r
<1>8. \A v \in Uid : /\ db[v].gold.ver \in Nat /\ db[v].gold.refunded \in Seq(Nat)
                     /\ \A i \in DOMAIN dbq[v] : dbq[v][i] \in Asked \cup Change
  <2> SUFFICES ASSUME NEW v \in Uid
               PROVE  /\ db[v].gold.ver \in Nat /\ db[v].gold.refunded \in Seq(Nat)
                      /\ \A i \in DOMAIN dbq[v] : dbq[v][i] \in Asked \cup Change
    OBVIOUS
  <2>1. db[v].gold \in GoldInfo
    BY <1>1 DEF Rec
  <2>2. dbq[v] \in Seq(Asked \cup Change)
    BY <1>1
  <2> QED BY <2>1, <2>2 DEF GoldInfo
<1>9. \A v \in Uid : db'[v].gold = db[v].gold \/ (v = u /\ db'[v].gold.ver = db[v].gold.ver + 1)
  BY <1>1, <1>2
<1>10. \A v \in Uid : \A i \in DOMAIN dbq[v] : EntryView(db, v, dbq[v][i])
  BY DEF RefundsOK, FlightsOK, Viewed
<1>11. ASSUME NEW g, NEW v \in Uid, NEW i \in DOMAIN dbq'[v], Adds(db', v, dbq'[v][i], g)
       PROVE  \E k \in DOMAIN dbq[v] : /\ dbq'[v][i] = dbq[v][k] /\ Adds(db, v, dbq[v][k], g)
                                       /\ db'[v].gold = db[v].gold /\ (v = u => k # 1)
  <2>1. PICK k \in DOMAIN dbq[v] : dbq'[v][i] = dbq[v][k] /\ (v = u => k # 1)
    <3>1. CASE v = u
      BY <1>7, <1>11, <3>1
    <3>2. CASE v # u
      BY <1>7, <1>11, <3>2
    <3> QED BY <3>1, <3>2
  <2>2. db'[v].gold = db[v].gold
    <3> SUFFICES ASSUME db'[v].gold.ver = db[v].gold.ver + 1 PROVE FALSE
      BY <1>9
    <3>1. dbq[v][k].op = "save" /\ "gold" \in DOMAIN dbq[v][k].rec
          /\ dbq[v][k].rec["gold"].ver = db'[v].gold.ver + 1
      BY <1>11, <2>1 DEF Adds
    <3>2. dbq[v][k].rec["gold"].ver <= db[v].gold.ver + 1
      BY <1>10, <3>1 DEF EntryView
    <3> QED BY <1>8, <3>1, <3>2
  <2> QED BY <1>11, <2>1, <2>2 DEF Adds
<1>12. \A id, g : Sits(queue', sess', id, g) => Sits(queue, sess, id, g)
  <2>1. \A id \in DOMAIN sess : Settled(queue, sess, id) => Settled(queue', sess', id)
    BY <1>1, <1>5, SettledStays
  <2> QED BY <1>1, <2>1 DEF Sits
<1>13. \A id, g : Enters(dbq', db', id, g) => Enters(dbq, db, id, g)
  BY <1>11 DEF Enters
<1>14. ASSUME NEW g \in Nat
      PROVE  LET X == TimerPlaces(timers', g)
                 Y == QueuePlaces(queue', g)
                 Z == HandPlaces(queue', sess', dbq', db', g)
                 W == BookPlaces(db', g)
             IN  /\ Only(X, Y, Z, W)
                 /\ Somewhere(X, Y, Z, W) => g <= games' /\ (obj'.state = "wait_end" => g # games')
  <2> DEFINE X == TimerPlaces(timers, g)
             Y == QueuePlaces(queue, g)
             Z == HandPlaces(queue, sess, dbq, db, g)
             W == BookPlaces(db, g)
             X2 == TimerPlaces(timers', g)
             Y2 == QueuePlaces(queue', g)
             Z2 == HandPlaces(queue', sess', dbq', db', g)
             W2 == BookPlaces(db', g)
             n == Len(db[u].gold.refunded) + 1
  <2>1. /\ Only(X, Y, Z, W)
        /\ Somewhere(X, Y, Z, W) => g <= games /\ (obj.state = "wait_end" => g # games)
    BY DEF RefundsOK
  <2>2. X2 = X /\ Y2 \subseteq Y /\ Z2 \subseteq Z
    <3>1. X2 = X
      BY <1>1
    <3>2. Y2 \subseteq Y
      BY <1>5 DEF QueuePlaces, IsRefund
    <3>3. Z2 \subseteq Z
      BY <1>12, <1>13 DEF HandPlaces
    <3> QED BY <3>1, <3>2, <3>3
  <2>3. CASE W2 \subseteq W
    <3> HIDE DEF X, Y, Z, W, X2, Y2, Z2, W2
    <3>1. Only(X2, Y2, Z2, W2) /\ (Somewhere(X2, Y2, Z2, W2) => Somewhere(X, Y, Z, W))
      BY <2>1, <2>2, <2>3 DEF Only, Somewhere
    <3> QED BY <1>1, <2>1, <3>1 DEF X2, Y2, Z2, W2
  <2>4. CASE Adds(db, u, r, g) /\ db'[u].gold = r.rec["gold"]
    <3>1. db'[u].gold.refunded = Append(db[u].gold.refunded, g) /\ db'[u].gold # db[u].gold
      BY <1>8, <2>4 DEF Adds
    <3>2. W2 \subseteq W \cup {<<u, n>>}
      <4> SUFFICES ASSUME NEW p \in W2, p # <<u, n>> PROVE p \in W
        OBVIOUS
      <4>1. p = <<p[1], p[2]>> /\ p[1] \in Uid /\ p[2] \in Nat
            /\ p[2] \in DOMAIN db'[p[1]].gold.refunded /\ db'[p[1]].gold.refunded[p[2]] = g
        BY DEF BookPlaces
      <4>2. CASE p[1] = u
        <5>1. p[2] # n
          BY <4>1, <4>2
        <5> DEFINE t == db'[u].gold.refunded
        <5>3. p[2] \in DOMAIN t /\ t[p[2]] = g
          BY <4>1, <4>2
        <5>4. db[u].gold.refunded \in Seq(Nat) /\ t = Append(db[u].gold.refunded, g)
          BY <1>8, <3>1
        <5> HIDE DEF t
        <5>5. \A k \in DOMAIN t : \/ k \in DOMAIN db[u].gold.refunded /\ t[k] = db[u].gold.refunded[k]
                                  \/ k = Len(db[u].gold.refunded) + 1 /\ t[k] = g
          BY <5>4, OldEntry
        <5>2. p[2] \in DOMAIN db[u].gold.refunded /\ db[u].gold.refunded[p[2]] = g
          BY <5>1, <5>3, <5>5
        <5> QED BY <4>1, <4>2, <5>2 DEF BookPlaces
      <4>3. CASE p[1] # u
        BY <1>1, <4>1, <4>3 DEF BookPlaces
      <4> QED BY <4>2, <4>3
    <3>3. r.id \in Z
      <4>1. r.id \in Nat /\ Enters(dbq, db, r.id, g)
        BY <1>1, <1>7, <2>4 DEF Enters, Asked, Change
      <4> QED BY <4>1 DEF HandPlaces
    <3>4. r.id \notin Z2
      <4>1. ~Sits(queue', sess', r.id, g)
        <5> SUFFICES ASSUME r.id \in DOMAIN sess PROVE Settled(queue', sess', r.id)
          BY <1>1 DEF Sits
        <5>1. sess[r.id].save
          BY <1>7, <2>4 DEF Adds, RefundsOK, FlightsOK, Expected, Asking
        <5>2. m.ok
          BY <1>3, <3>1
        <5>3. \E j \in DOMAIN queue' : queue'[j] = m
          BY <1>5
        <5>4. \E j \in DOMAIN queue' : queue'[j].k = "answer" /\ queue'[j].id = r.id /\ queue'[j].ok
          BY <1>3, <1>5, <5>2, <5>3
        <5> QED BY <1>1, <5>1, <5>4 DEF Settled
      <4>2. ~Enters(dbq', db', r.id, g)
        <5> SUFFICES ASSUME NEW v \in Uid, NEW i \in DOMAIN dbq'[v], dbq'[v][i].id = r.id,
                            Adds(db', v, dbq'[v][i], g)
                     PROVE  FALSE
          BY DEF Enters
        <5>3. \E k \in DOMAIN dbq[v] : /\ dbq'[v][i] = dbq[v][k] /\ Adds(db, v, dbq[v][k], g)
                                       /\ db'[v].gold = db[v].gold /\ (v = u => k # 1)
          BY <1>11
        <5>1. PICK k \in DOMAIN dbq[v] : dbq[v][k].id = r.id /\ db'[v].gold = db[v].gold
          BY <5>3
        <5>2. v = u
          BY <1>7, <2>4, <5>1 DEF Adds, RefundsOK, FlightsOK, Single, OneSave
        <5> QED BY <3>1, <5>1, <5>2
      <4> QED BY <4>1, <4>2 DEF HandPlaces
    <3> HIDE DEF X, Y, Z, W, X2, Y2, Z2, W2, n
    <3>5. X2 = {} /\ Y2 = {} /\ W = {} /\ Z2 = {}
      BY <2>1, <2>2, <3>3, <3>4 DEF Only
    <3>6. Only(X2, Y2, Z2, W2) /\ Somewhere(X, Y, Z, W)
      BY <3>2, <3>3, <3>5 DEF Only, Somewhere
    <3> QED BY <1>1, <2>1, <3>6 DEF X2, Y2, Z2, W2
  <2>5. W2 \subseteq W \/ (Adds(db, u, r, g) /\ db'[u].gold = r.rec["gold"])
    <3>1. CASE db'[u].gold = db[u].gold
      <4>1. \A v \in Uid : db'[v].gold = db[v].gold
        BY <1>1, <3>1
      <4> QED BY <4>1 DEF BookPlaces
    <3>2. CASE /\ r.op = "save" /\ "gold" \in DOMAIN r.rec
               /\ r.rec["gold"].ver = db[u].gold.ver + 1 /\ db'[u].gold = r.rec["gold"]
      <4>1. \/ r.rec["gold"].refunded = db[u].gold.refunded
            \/ \E h \in Nat : Adds(db, u, r, h)
        BY <1>7, <1>10, <3>2 DEF EntryView
      <4>2. CASE r.rec["gold"].refunded = db[u].gold.refunded
        <5>1. \A v \in Uid : db'[v].gold.refunded = db[v].gold.refunded
          BY <1>1, <3>2, <4>2
        <5> QED BY <5>1 DEF BookPlaces
      <4>3. ASSUME NEW h \in Nat, Adds(db, u, r, h), h # g PROVE W2 \subseteq W
        <5>1. db'[u].gold.refunded = Append(db[u].gold.refunded, h)
          BY <3>2, <4>3 DEF Adds
        <5> SUFFICES ASSUME NEW p \in W2 PROVE p \in W
          OBVIOUS
        <5>2. p[1] \in Uid /\ p[2] \in Nat /\ p \in Uid \X Nat
              /\ p[2] \in DOMAIN db'[p[1]].gold.refunded /\ db'[p[1]].gold.refunded[p[2]] = g
          BY DEF BookPlaces
        <5>3. CASE p[1] = u
          <6> DEFINE t == db'[u].gold.refunded
          <6>2. p[2] \in DOMAIN t /\ t[p[2]] = g
            BY <5>2, <5>3
          <6>3. db[u].gold.refunded \in Seq(Nat) /\ t = Append(db[u].gold.refunded, h)
            BY <1>8, <5>1
          <6> HIDE DEF t
          <6>4. \A k \in DOMAIN t : \/ k \in DOMAIN db[u].gold.refunded /\ t[k] = db[u].gold.refunded[k]
                                    \/ k = Len(db[u].gold.refunded) + 1 /\ t[k] = h
            BY <6>3, OldEntry
          <6>1. p[2] \in DOMAIN db[u].gold.refunded /\ db[u].gold.refunded[p[2]] = g
            BY <4>3, <6>2, <6>4
          <6> QED BY <5>2, <5>3, <6>1 DEF BookPlaces
        <5>4. CASE p[1] # u
          BY <1>1, <5>2, <5>4 DEF BookPlaces
        <5> QED BY <5>3, <5>4
      <4> QED BY <3>2, <4>1, <4>2, <4>3
    <3> QED BY <1>2, <3>1, <3>2
  <2> QED BY <2>3, <2>4, <2>5
<1>15. FlightsOK(queue, sess, dbq, db)'
  BY <1>6, SameFlights
<1> QED BY <1>14, <1>15 DEF RefundsOK

-----------------------------------------------------------------------------
(* A session goes on with an answer that it waited for.                    *)

(* Nothing else of the session is on its way when its handler goes on, and *)
(* what it has of its player is a view of what there is.                   *)
LEMMA ProcessView ==
    ASSUME NEW R, ServerOK(R), FlightsOK(queue, sess, dbq, db), queue # << >>,
           Head(queue).k = "answer", Process(Head(queue)).next \in {"query", "wait"}
    PROVE  LET m == Head(queue)
               a == Process(m)
           IN  /\ m \in AnswerMsg /\ m.id \in DOMAIN sess
               /\ ~a.x.save /\ View(db, a.x.p, a.x.rec)
               /\ ~Settled(queue, sess, m.id)
               /\ a.next = "query" => \A u \in Uid : ~OnWay(Tail(queue), dbq, m.id, u)
               /\ a.next = "wait" => ~sess[m.id].save /\ a.x.wait = sess[m.id].wait \ {m.u}
<1> DEFINE m == Head(queue)
           a == Process(m)
           x == sess[m.id]
<1>1. queue \in Seq(R \cup AnswerMsg) /\ 1 \in DOMAIN queue /\ m = queue[1]
  BY HeadTail DEF ServerOK, QueueOK
<1>2. m \in AnswerMsg /\ m.id \in DOMAIN sess /\ m.u \in x.wait /\ View(db, m.u, m.rec)
  <2>1. m.id \in DOMAIN sess
    BY DEF Process
  <2> QED BY <1>1, <2>1 DEF FlightsOK, Expected, Arriving, Viewed
<1>3. x \in Ready(R) /\ x \in Waits(R) /\ View(db, x.p, x.rec) /\ m.u \in Uid
  BY <1>2 DEF ServerOK, SessOK, Waits, FlightsOK, Viewed, AnswerMsg
<1>4. /\ FlightsOK(Tail(queue), sess, dbq, db) /\ ~OnWay(Tail(queue), dbq, m.id, m.u)
  BY <1>1, TakenFlight
<1>5. \A u \in Uid : OnWay(Tail(queue), dbq, m.id, u) => u \in x.wait
  <2> SUFFICES ASSUME NEW u \in Uid, OnWay(Tail(queue), dbq, m.id, u) PROVE u \in x.wait
    OBVIOUS
  <2> DEFINE q == Tail(queue)
  <2>1. FlightsOK(q, sess, dbq, db) /\ OnWay(q, dbq, m.id, u)
    BY <1>4
  <2> HIDE DEF q, m
  <2> QED BY <1>2, <2>1 DEF OnWay, FlightsOK, Expected, Asking, Arriving
<1> HIDE DEF m, x
<1>6. CASE x.save
  <2>1. a = SaveAnswer(m, x)
    BY <1>2, <1>6 DEF Process, x
  <2>2. ~m.ok
    BY <2>1 DEF SaveAnswer, Succeeded, m
  <2>3. /\ a.next = "query"
        /\ a.x = [x EXCEPT !.save = FALSE, !.redo = @ + 1, !.rec = m.rec]
    BY <2>1, <2>2 DEF SaveAnswer, Succeeded, m
  <2>4. x.wait = {x.p} /\ m.u = x.p
    BY <1>2, <1>6 DEF FlightsOK, Expected, Saving, x
  <2>5. ~a.x.save /\ a.x.p = x.p /\ a.x.rec = m.rec
    BY <1>3, <2>3 DEF Ready
  <2>6. ~Settled(queue, sess, m.id)
    <3> SUFFICES ASSUME NEW j \in DOMAIN queue, queue[j].k = "answer", queue[j].id = m.id, queue[j].ok
                 PROVE  FALSE
      BY DEF Settled
    <3>1. queue[j].u = m.u
      BY <1>2, <2>4 DEF FlightsOK, Expected, Arriving, x
    <3>2. j = 1
      BY <1>1, <3>1 DEF FlightsOK, Single, OneAnswer, m
    <3> QED BY <1>1, <2>2, <3>2
  <2> QED BY <1>2, <1>4, <1>5, <2>3, <2>4, <2>5, <2>6 DEF m
<1>7. CASE ~x.save
  <2> DEFINE rest == x.wait \ {m.u}
  <2>1. a = QueryAnswer(m, x)
    BY <1>2, <1>7 DEF Process, x
  <2>2. /\ a.next = IF rest = {} THEN "query" ELSE "wait"
        /\ a.x = [x EXCEPT !.wait = rest, !.rec = IF m.u = x.p THEN m.rec ELSE @]
    BY <2>1 DEF QueryAnswer
  <2>3. ~a.x.save /\ a.x.p = x.p /\ a.x.wait = rest /\ a.x.rec = IF m.u = x.p THEN m.rec ELSE x.rec
    <3> HIDE DEF rest
    <3> QED BY <1>3, <1>7, <2>2 DEF Ready
  <2>4. ~Settled(queue, sess, m.id)
    BY <1>7 DEF Settled, x
  <2>5. a.next = "query" => \A u \in Uid : ~OnWay(Tail(queue), dbq, m.id, u)
    BY <1>4, <1>5, <2>2 DEF m
  <2> QED BY <1>2, <1>3, <1>7, <2>3, <2>4, <2>5 DEF m, x
<1> QED BY <1>6, <1>7

(* The handlers that charge a coin, and the saves that do.                 *)
Charges == {"start", "retry"}
Charged(x, K, new) == /\ x.p \in Player \/ x.rec.gold.bet > 0
                      /\ "gold" \in K /\ new.gold.spent > x.rec.gold.spent

(* What a handler saves: it leaves the games given back as it has them, or *)
(* it is a refund's and adds its game; nobody but a player has a buy-in.   *)
Saves(id, x) == \E K \in {{"gold"}, {"base"}, Won}, new \in Rec :
                   /\ \/ new \in Banked(x.rec)
                      \/ x.req.k = "game_refund" /\ new \in Refunded(x.rec, x.req.game)
                   /\ x.p \in Player \/ new.gold.bet <= x.rec.gold.bet
                   /\ x.req.k \in Charges => Charged(x, K, new)
                   /\ Save(id, x, K, new)
AsksAgain(id, x) == \E req : \E U \in SUBSET Uid :
                       /\ req.k \notin {"game_refund"} \cup Charges
                       /\ sess' = [sess EXCEPT ![id] = [x EXCEPT !.req = req, !.wait = U]]
                       /\ Query(id, U)

(* What becomes of the session that an answer m is for.                    *)
AnswerTaken(m) ==
    LET a == Process(m)
    IN  \/ Done /\ (m.id \in DOMAIN sess => sess[m.id].req.k # "game_refund")
        \/ End(m.id)
        \/ a.next = "wait" /\ sess' = [sess EXCEPT ![m.id] = a.x] /\ dbq' = dbq
        \/ a.next = "query" /\ (Saves(m.id, a.x) \/ AsksAgain(m.id, a.x))

(* The refunds that sessions have after a step: those they had, or one     *)
(* that session z has now.                                                 *)
LEMMA HandMoves ==
    ASSUME NEW q, NEW s, NEW d, NEW b, NEW q2, NEW s2, NEW d2, NEW z,
           \A i \in DOMAIN s2 : i # z => i \in DOMAIN s /\ s2[i] = s[i],
           \A i \in DOMAIN s2 : i # z => \A j \in DOMAIN q : q[j].k = "answer" /\ q[j].id = i =>
              \E n \in DOMAIN q2 : q2[n] = q[j],
           \A u \in Uid : \A i \in DOMAIN d2[u] : d2[u][i].id # z => \E n \in DOMAIN d[u] : d2[u][i] = d[u][n],
           NEW g
    PROVE  \A j \in HandPlaces(q2, s2, d2, b, g) :
              j \in HandPlaces(q, s, d, b, g) \/ (j = z /\ (Sits(q2, s2, z, g) \/ Enters(d2, b, z, g)))
<1> SUFFICES ASSUME NEW j \in HandPlaces(q2, s2, d2, b, g), j # z PROVE j \in HandPlaces(q, s, d, b, g)
  BY DEF HandPlaces
<1>1. CASE Sits(q2, s2, j, g)
  <2>1. j \in DOMAIN s2 /\ j \in DOMAIN s /\ s2[j] = s[j]
    BY <1>1 DEF Sits
  <2>2. Settled(q, s, j) => Settled(q2, s2, j)
    BY <2>1, SettledStays
  <2> QED BY <1>1, <2>1, <2>2 DEF Sits, HandPlaces
<1>2. CASE Enters(d2, b, j, g)
  <2>1. Enters(d, b, j, g)
    BY <1>2 DEF Enters
  <2> QED BY <2>1 DEF HandPlaces
<1> QED BY <1>1, <1>2 DEF HandPlaces

(* A save of records that keep the games given back adds no refund, and    *)
(* that of a refund adds its own.                                          *)
LEMMA SavedEntry ==
    ASSUME NEW b \in [Uid -> Rec], NEW x, x.p \in Uid, x.rec \in Rec, View(b, x.p, x.rec), NEW new \in Rec,
           NEW R, Begins(R), x.req \in R,
           \/ new \in Banked(x.rec)
           \/ x.req.k = "game_refund" /\ new \in Refunded(x.rec, x.req.game),
           NEW K \in {{"gold"}, {"base"}, Won}, NEW id \in Nat
    PROVE  LET e == [id |-> id, op |-> "save", rec |-> [k \in K |-> [new[k] EXCEPT !.ver = @ + 1]]]
           IN  /\ e \in Change /\ EntryView(b, x.p, e)
               /\ \A g : Adds(b, x.p, e, g) => IsRefund(x.req, g)
<1> DEFINE rec == [k \in K |-> [new[k] EXCEPT !.ver = @ + 1]]
           e == [id |-> id, op |-> "save", rec |-> rec]
           old == b[x.p].gold
<1>1. e \in Change
  BY SavedParts DEF Change
<1>2. new.gold \in GoldInfo /\ x.rec.gold \in GoldInfo /\ old \in GoldInfo
  BY DEF Rec
<1>3. "gold" \in K => rec["gold"].ver = new.gold.ver + 1 /\ rec["gold"].refunded = new.gold.refunded
  BY <1>2 DEF GoldInfo
<1>4. old.ver \in Nat /\ x.rec.gold.ver \in Nat /\ old.refunded \in Seq(Nat) /\ new.gold.refunded \in Seq(Nat)
  BY <1>2 DEF GoldInfo
<1>5. /\ x.rec.gold.ver <= old.ver /\ new.gold.ver = x.rec.gold.ver
      /\ x.rec.gold.ver = old.ver => x.rec.gold.refunded = old.refunded
  BY DEF View, Banked, BankedGold, Refunded
<1>6. /\ e.op = "save" /\ e.rec = rec /\ DOMAIN rec = K
      /\ "gold" \in K => /\ rec["gold"].ver <= old.ver + 1
                         /\ rec["gold"].ver = old.ver + 1 => x.rec.gold.refunded = old.refunded
  BY <1>3, <1>4, <1>5
<1>7. \A g : old.refunded # Append(old.refunded, g)
  <2> TAKE g
  <2>1. Len(Append(old.refunded, g)) = Len(old.refunded) + 1 /\ Len(old.refunded) \in Nat
    BY <1>4
  <2> QED BY <2>1
<1>8. CASE new \in Banked(x.rec)
  <2>1. "gold" \in K /\ rec["gold"].ver = old.ver + 1 => rec["gold"].refunded = old.refunded
    BY <1>3, <1>6, <1>8 DEF Banked, BankedGold
  <2> HIDE DEF e, rec, old
  <2>2. EntryView(b, x.p, e)
    BY <1>6, <2>1 DEF EntryView, old
  <2>3. \A g : ~Adds(b, x.p, e, g)
    BY <1>6, <1>7, <2>1 DEF Adds, old
  <2> QED BY <1>1, <2>2, <2>3 DEF e, rec
<1>9. CASE x.req.k = "game_refund" /\ new \in Refunded(x.rec, x.req.game)
  <2>1. x.req.game \in Nat /\ x.req.k = "game_refund"
    BY <1>9 DEF Begins
  <2>2. "gold" \in K /\ rec["gold"].ver = old.ver + 1
        => rec["gold"].refunded = Append(old.refunded, x.req.game)
    BY <1>3, <1>6, <1>9 DEF Refunded
  <2>3. ASSUME NEW g, Append(old.refunded, g) = Append(old.refunded, x.req.game) PROVE g = x.req.game
    <3>1. old.refunded \in Seq(Nat)
      BY <1>4
    <3> HIDE DEF e, rec, old
    <3>2. /\ Append(old.refunded, g)[Len(old.refunded) + 1] = g
          /\ Append(old.refunded, x.req.game)[Len(old.refunded) + 1] = x.req.game
      BY <3>1
    <3> QED BY <2>3, <3>2
  <2> HIDE DEF e, rec, old
  <2>4. "gold" \in K /\ rec["gold"].ver = old.ver + 1 => Adds(b, x.p, e, x.req.game)
    BY <1>6, <2>2 DEF Adds, old
  <2>5. EntryView(b, x.p, e)
    BY <1>6, <2>1, <2>4 DEF EntryView, old
  <2>6. \A g : Adds(b, x.p, e, g) => IsRefund(x.req, g)
    BY <1>6, <2>1, <2>2, <2>3 DEF Adds, IsRefund, old
  <2> QED BY <1>1, <2>5, <2>6 DEF e, rec
<1> QED BY <1>8, <1>9

LEMMA AnswerRefunds ==
    ASSUME NEW R, Begins(R), ServerOK(R), RefundsOK, queue # << >>, Head(queue).k = "answer",
           queue' = Tail(queue), db' = db, Calm(<< >>), AnswerTaken(Head(queue))
    PROVE  RefundsOK'
<1> DEFINE m == Head(queue)
           a == Process(m)
           x == a.x
           q == Tail(queue)
<1>1. /\ queue \in Seq(R \cup AnswerMsg) /\ q \in Seq(R \cup AnswerMsg) /\ << >> \in Seq(R \cup AnswerMsg)
      /\ 1 \in DOMAIN queue /\ m = queue[1] /\ games \in Nat /\ queue' = q \o << >>
  BY HeadTail DEF ServerOK, QueueOK, CountsOK
<1>2. FlightsOK(queue, sess, dbq, db) /\ FlightsOK(q, sess, dbq, db)
  BY <1>1, TakenFlight DEF RefundsOK
<1>3. m \in AnswerMsg
  BY <1>1, <1>2 DEF FlightsOK, Expected, Arriving
<1>4. \A j \in DOMAIN queue : j # 1 => \E n \in DOMAIN q : q[n] = queue[j]
  <2> SUFFICES ASSUME NEW j \in DOMAIN queue, j # 1 PROVE \E n \in DOMAIN q : q[n] = queue[j]
    OBVIOUS
  <2>1. j - 1 \in 1 .. Len(queue) - 1 /\ DOMAIN q = 1 .. Len(queue) - 1 /\ (j - 1) + 1 = j
    BY <1>1, HeadTail
  <2>2. q[j - 1] = queue[j]
    BY <1>1, <2>1, HeadTail
  <2> QED BY <2>1, <2>2
<1>5. dbq \in [Uid -> Seq(Asked \cup Change)] /\ db \in [Uid -> Rec] /\ DOMAIN sess \subseteq Nat
  BY DEF ServerOK, DbOK, SessOK
<1> HIDE DEF m, a, q
(* What is left to see: what is on its way, and what m's session has.      *)
<1> DEFINE Moved == /\ FlightsOK(q, sess', dbq', db)
                    /\ \A i \in DOMAIN sess' : i # m.id => i \in DOMAIN sess /\ sess'[i] = sess[i]
                    /\ \A u \in Uid : \A i \in DOMAIN dbq'[u] : dbq'[u][i].id # m.id =>
                          \E n \in DOMAIN dbq[u] : dbq'[u][i] = dbq[u][n]
                    /\ \A g : Sits(q, sess', m.id, g) \/ Enters(dbq', db, m.id, g) =>
                          Sits(queue, sess, m.id, g) \/ Enters(dbq, db, m.id, g)
<1>6. Moved
  <2>1. CASE Done /\ (m.id \in DOMAIN sess => sess[m.id].req.k # "game_refund")
    <3>1. sess' = sess /\ dbq' = dbq
      BY <2>1 DEF Done
    <3>2. \A g : ~Sits(q, sess', m.id, g)
      BY <2>1, <3>1 DEF Sits, IsRefund
    <3> QED BY <1>2, <3>1, <3>2
  <2>2. CASE End(m.id)
    <3>1. sess' = Without(sess, m.id) /\ dbq' = dbq
      BY <2>2 DEF End
    <3>2. FlightsOK(q, sess', dbq', db)
      BY <1>2, <3>1, EndedFlight
    <3>3. DOMAIN sess' = DOMAIN sess \ {m.id} /\ \A i \in DOMAIN sess' : sess'[i] = sess[i]
      BY <3>1 DEF Without
    <3>4. \A g : ~Sits(q, sess', m.id, g)
      BY <3>3 DEF Sits
    <3> QED BY <3>1, <3>2, <3>3, <3>4
  <2>3. CASE a.next = "wait" /\ sess' = [sess EXCEPT ![m.id] = x] /\ dbq' = dbq
    <3>1. /\ m.id \in DOMAIN sess /\ ~x.save /\ View(db, x.p, x.rec) /\ ~Settled(queue, sess, m.id)
          /\ ~sess[m.id].save /\ x.wait = sess[m.id].wait \ {m.u}
      BY <1>1, <1>2, <2>3, ProcessView DEF m, a
    <3>2. ~OnWay(q, dbq, m.id, m.u) /\ m.u \in Uid
      BY <1>1, <1>2, <1>3, TakenFlight DEF m, q, AnswerMsg
    <3>3. x.req = sess[m.id].req
      BY <1>3, <2>3, ProcessOK DEF a, ServerOK
    <3> HIDE DEF x
    <3>4. FlightsOK(q, sess', dbq', db)
      BY <1>2, <2>3, <3>1, <3>2, WaitedFlight
    <3>5. \A g : Sits(q, sess', m.id, g) => Sits(queue, sess, m.id, g)
      BY <2>3, <3>1, <3>3 DEF Sits
    <3> QED BY <2>3, <3>4, <3>5
  <2>4. ASSUME a.next = "query"
        PROVE  /\ m.id \in DOMAIN sess /\ m.id \in Nat /\ ~x.save /\ View(db, x.p, x.rec)
               /\ ~Settled(queue, sess, m.id) /\ x.req = sess[m.id].req /\ x \in Ready(R)
               /\ \A u \in Uid : ~OnWay(q, dbq, m.id, u)
    <3>1. /\ m.id \in DOMAIN sess /\ ~x.save /\ View(db, x.p, x.rec) /\ ~Settled(queue, sess, m.id)
          /\ \A u \in Uid : ~OnWay(q, dbq, m.id, u)
      BY <1>1, <1>2, <2>4, ProcessView DEF m, a, q
    <3>2. x.req = sess[m.id].req /\ x \in Ready(R)
      BY <1>3, <2>4, ProcessOK DEF a, ServerOK
    <3> QED BY <1>5, <3>1, <3>2
  <2>5. ASSUME a.next = "query", NEW K \in {{"gold"}, {"base"}, Won}, NEW new \in Rec,
               \/ new \in Banked(x.rec)
               \/ x.req.k = "game_refund" /\ new \in Refunded(x.rec, x.req.game),
               Save(m.id, x, K, new)
        PROVE  Moved
    <3> DEFINE e == [id |-> m.id, op |-> "save", rec |-> [k \in K |-> [new[k] EXCEPT !.ver = @ + 1]]]
               y == [x EXCEPT !.save = TRUE, !.wait = {x.p}]
    <3>1. /\ m.id \in DOMAIN sess /\ m.id \in Nat /\ View(db, x.p, x.rec)
          /\ ~Settled(queue, sess, m.id) /\ x.req = sess[m.id].req /\ x \in Ready(R)
          /\ \A u \in Uid : ~OnWay(q, dbq, m.id, u)
      BY <2>4, <2>5
    <3> HIDE DEF x
    <3>2. x.p \in Uid /\ x.rec \in Rec /\ x.req \in R
      BY <3>1 DEF Ready
    <3>3. e \in Change /\ EntryView(db, x.p, e) /\ \A g : Adds(db, x.p, e, g) => IsRefund(x.req, g)
      BY <1>5, <2>5, <3>1, <3>2, SavedEntry
    <3>4. y.wait = {x.p} /\ y.save = TRUE /\ y.p = x.p /\ y.rec = x.rec /\ y.req = x.req
      BY <3>1 DEF Ready
    <3>5. dbq' = [dbq EXCEPT ![x.p] = Append(@, e)] /\ sess' = [sess EXCEPT ![m.id] = y]
      BY <2>5 DEF Save
    <3>6. e.id = m.id /\ e.op = "save"
      OBVIOUS
    <3> HIDE DEF e, y
    <3>7. /\ DOMAIN sess' = DOMAIN sess \cup {m.id} /\ sess'[m.id] = y
          /\ \A i \in DOMAIN sess : i # m.id => sess'[i] = sess[i]
          /\ \A u \in Uid : dbq'[u] = IF u \in {x.p} THEN Append(dbq[u], e) ELSE dbq[u]
      BY <1>5, <3>1, <3>2, <3>5
    <3>8. FlightsOK(q, sess', dbq', db)
      <4>1. View(db, y.p, y.rec) /\ y.wait = {y.p} /\ EntryView(db, y.p, e)
        BY <3>1, <3>3, <3>4
      <4>2. e \in Asked \cup Change
        BY <3>3
      <4>3. Launches(sess, sess', dbq, dbq', m.id, y, e)
        BY <3>4, <3>6, <3>7 DEF Launches
      <4>4. \A u \in Uid : ~OnWay(q, dbq, m.id, u)
        BY <3>1
      <4> QED BY <1>2, <1>5, <4>1, <4>2, <4>3, <4>4, LaunchedFlight
    <3>9. ASSUME NEW u \in Uid, NEW i \in DOMAIN dbq'[u]
          PROVE  \/ i \in DOMAIN dbq[u] /\ dbq'[u][i] = dbq[u][i]
                 \/ u = x.p /\ dbq'[u][i] = e
      <4>1. dbq[u] \in Seq(Asked \cup Change) /\ e \in Asked \cup Change
        BY <1>5, <3>3
      <4>2. CASE u = x.p
        <5>1. dbq'[u] = Append(dbq[u], e)
          BY <3>7, <4>2
        <5> QED BY <4>1, <4>2, <5>1, OldEntry
      <4>3. CASE u # x.p
        BY <3>7, <4>3
      <4> QED BY <4>2, <4>3
    <3>10. ASSUME NEW g, Sits(q, sess', m.id, g) \/ Enters(dbq', db, m.id, g)
           PROVE  Sits(queue, sess, m.id, g) \/ Enters(dbq, db, m.id, g)
      <4>1. IsRefund(x.req, g) => Sits(queue, sess, m.id, g)
        BY <3>1 DEF Sits
      <4>2. CASE Sits(q, sess', m.id, g)
        BY <3>4, <3>7, <4>1, <4>2 DEF Sits
      <4>3. CASE Enters(dbq', db, m.id, g)
        <5>4. PICK u \in Uid : \E i \in DOMAIN dbq'[u] : dbq'[u][i].id = m.id /\ Adds(db, u, dbq'[u][i], g)
          BY <4>3 DEF Enters
        <5>1. PICK i \in DOMAIN dbq'[u] : dbq'[u][i].id = m.id /\ Adds(db, u, dbq'[u][i], g)
          BY <5>4
        <5>2. CASE i \in DOMAIN dbq[u] /\ dbq'[u][i] = dbq[u][i]
          BY <5>1, <5>2 DEF Enters
        <5>3. CASE u = x.p /\ dbq'[u][i] = e
          BY <3>3, <4>1, <5>1, <5>3
        <5> QED BY <3>9, <5>2, <5>3
      <4> QED BY <3>10, <4>2, <4>3
    <3> QED BY <3>1, <3>6, <3>7, <3>8, <3>9, <3>10
  <2>6. ASSUME a.next = "query", NEW req, NEW U \in SUBSET Uid, req.k # "game_refund",
               sess' = [sess EXCEPT ![m.id] = [x EXCEPT !.req = req, !.wait = U]], Query(m.id, U)
        PROVE  Moved
    <3> DEFINE e == [id |-> m.id, op |-> "query"]
               y == [x EXCEPT !.req = req, !.wait = U]
    <3>1. /\ m.id \in DOMAIN sess /\ m.id \in Nat /\ View(db, x.p, x.rec) /\ ~x.save
          /\ x \in Ready(R)
          /\ \A u \in Uid : ~OnWay(q, dbq, m.id, u)
      BY <2>4, <2>6
    <3> HIDE DEF x
    <3>2. e \in Asked \cup Change /\ e.id = m.id /\ e.op = "query"
      BY <3>1 DEF Asked
    <3>3. y.wait = U /\ ~y.save /\ y.p = x.p /\ y.rec = x.rec /\ y.req = req
      BY <3>1 DEF Ready
    <3>4. dbq' = [u \in Uid |-> IF u \in U THEN Append(dbq[u], e) ELSE dbq[u]]
      BY <2>6 DEF Query
    <3> HIDE DEF e
    <3>5. /\ DOMAIN sess' = DOMAIN sess \cup {m.id} /\ sess'[m.id] = y
          /\ \A i \in DOMAIN sess : i # m.id => sess'[i] = sess[i]
          /\ \A u \in Uid : dbq'[u] = IF u \in U THEN Append(dbq[u], e) ELSE dbq[u]
      BY <2>6, <3>1, <3>4
    <3> HIDE DEF y
    <3>6. FlightsOK(q, sess', dbq', db)
      <4>1. View(db, y.p, y.rec) /\ ~y.save /\ e \in Asked \cup Change
        BY <3>1, <3>2, <3>3
      <4>2. Launches(sess, sess', dbq, dbq', m.id, y, e)
        BY <3>2, <3>3, <3>5 DEF Launches
      <4>3. \A u \in Uid : ~OnWay(q, dbq, m.id, u)
        BY <3>1
      <4> QED BY <1>2, <1>5, <4>1, <4>2, <4>3, LaunchedFlight
    <3>7. ASSUME NEW u \in Uid, NEW i \in DOMAIN dbq'[u]
          PROVE  (i \in DOMAIN dbq[u] /\ dbq'[u][i] = dbq[u][i]) \/ dbq'[u][i] = e
      <4>1. dbq[u] \in Seq(Asked \cup Change)
        BY <1>5
      <4>2. CASE u \in U
        <5>1. dbq'[u] = Append(dbq[u], e)
          BY <3>5, <4>2
        <5> QED BY <3>2, <4>1, <5>1, OldEntry
      <4>3. CASE u \notin U
        BY <3>5, <4>3
      <4> QED BY <4>2, <4>3
    <3>8. \A g : ~Sits(q, sess', m.id, g)
      BY <2>6, <3>3, <3>5 DEF Sits, IsRefund
    <3>9. \A g : Enters(dbq', db, m.id, g) => Enters(dbq, db, m.id, g)
      BY <3>2, <3>7 DEF Enters, Adds
    <3> QED BY <3>2, <3>5, <3>6, <3>7, <3>8, <3>9
  <2> HIDE DEF Moved
  <2> QED BY <2>1, <2>2, <2>3, <2>5, <2>6 DEF AnswerTaken, Saves, AsksAgain, m, a
<1>7. \A i \in DOMAIN sess' : i # m.id => \A j \in DOMAIN queue : queue[j].k = "answer" /\ queue[j].id = i =>
         \E n \in DOMAIN q : q[n] = queue[j]
  BY <1>1, <1>4
<1>8. Hands(1, m.id)
  <2> SUFFICES ASSUME NEW g \in Nat, NEW j \in HandPlaces(q, sess', dbq', db, g)
               PROVE  j \in HandPlaces(queue, sess, dbq, db, g)
    BY DEF q, Hands
  <2>1. \/ j \in HandPlaces(queue, sess, dbq, db, g)
        \/ j = m.id /\ (Sits(q, sess', m.id, g) \/ Enters(dbq', db, m.id, g))
    BY <1>6, <1>7, HandMoves
  <2>2. j \in Nat
    BY DEF HandPlaces
  <2> QED BY <1>6, <2>1, <2>2 DEF HandPlaces
<1>9. FlightsOK(queue', sess', dbq', db')
  BY <1>6 DEF q
<1>10. Takes(1, << >>)
  BY <1>1 DEF Takes, q
<1>11. Calm(<< >>) \/ GivesBack(<< >>)
  OBVIOUS
<1> QED BY <1>1, <1>8, <1>9, <1>10, <1>11, RefundsMove

(* A message that begins a handler is taken: the handler is done, or it    *)
(* asks for records.                                                       *)
Asks(R, m) == \E n \in R, p \in Uid, U \in SUBSET Uid :
                 /\ n.k = "game_refund" => n = m
                 /\ Ask(n, p, U)

RequestTaken(R) == /\ \E ms \in Seq(R) : Sends(ms) /\ (Calm(ms) \/ GivesBack(ms))
                   /\ Done \/ Asks(R, Head(queue))

LEMMA RequestRefunds ==
    ASSUME NEW R, Begins(R), ServerOK(R), RefundsOK, queue # << >>, Head(queue).k # "answer",
           db' = db, RequestTaken(R)
    PROVE  RefundsOK'
<1> PICK ms \in Seq(R) : Sends(ms) /\ (Calm(ms) \/ GivesBack(ms))
  BY DEF RequestTaken
<1> DEFINE m == Head(queue)
           q == Tail(queue)
           r == q \o ms
<1>1. /\ queue \in Seq(R \cup AnswerMsg) /\ q \in Seq(R \cup AnswerMsg) /\ ms \in Seq(R \cup AnswerMsg)
      /\ 1 \in DOMAIN queue /\ m = queue[1] /\ games \in Nat /\ queue' = r
      /\ \A i \in DOMAIN ms : ms[i].k # "answer"
  BY HeadTail, WidenSeq DEF ServerOK, QueueOK, CountsOK, Sends, Post, Begins
<1>2. /\ FlightsOK(r, sess, dbq, db)
      /\ \A id, u : OnWay(r, dbq, id, u) => OnWay(queue, dbq, id, u)
  <2>1. FlightsOK(q, sess, dbq, db) /\ \A id, u : OnWay(q, dbq, id, u) => OnWay(queue, dbq, id, u)
    BY <1>1, TakenFlight DEF RefundsOK
  <2> HIDE DEF q
  <2>2. FlightsOK(r, sess, dbq, db) /\ \A id, u : OnWay(r, dbq, id, u) => OnWay(q, dbq, id, u)
    BY <1>1, <2>1, SentFlight
  <2> QED BY <2>1, <2>2
<1>3. \A j \in DOMAIN queue : queue[j].k = "answer" => \E n \in DOMAIN r : r[n] = queue[j]
  <2> SUFFICES ASSUME NEW j \in DOMAIN queue, queue[j].k = "answer" PROVE \E n \in DOMAIN r : r[n] = queue[j]
    OBVIOUS
  <2>1. /\ j - 1 \in 1 .. Len(queue) - 1 /\ DOMAIN q = 1 .. Len(queue) - 1 /\ (j - 1) + 1 = j
        /\ Len(q) = Len(queue) - 1
    BY <1>1, HeadTail
  <2>2. q[j - 1] = queue[j]
    BY <1>1, <2>1, HeadTail
  <2> HIDE DEF q
  <2>3. j - 1 \in DOMAIN r /\ r[j - 1] = q[j - 1]
    BY <1>1, <2>1
  <2> QED BY <2>2, <2>3
<1>4. dbq \in [Uid -> Seq(Asked \cup Change)] /\ db \in [Uid -> Rec] /\ DOMAIN sess \subseteq Nat
  BY DEF ServerOK, DbOK, SessOK
<1>5. Takes(1, ms)
  BY <1>1 DEF Takes
<1> HIDE DEF r, q
<1>6. CASE Done
  <2>1. sess' = sess /\ dbq' = dbq
    BY <1>6 DEF Done
  <2>2. FlightsOK(queue', sess', dbq', db')
    BY <1>1, <1>2, <2>1
  <2>3. Hands(1, 0)
    <3>1. \A g : HandPlaces(queue', sess', dbq', db', g) \subseteq HandPlaces(queue, sess, dbq, db, g)
      BY <1>1, <1>3, <2>1, HandStays
    <3> QED BY <3>1 DEF Hands
  <2> QED BY <1>1, <1>5, <2>2, <2>3, RefundsMove
<1>7. ASSUME NEW n \in R, NEW p \in Uid, NEW U \in SUBSET Uid, n.k = "game_refund" => n = m, Ask(n, p, U)
      PROVE  RefundsOK'
  <2> DEFINE id == NewId
             e == [id |-> id, op |-> "query"]
             x == [req |-> n, p |-> p, save |-> FALSE, wait |-> U, redo |-> 0, rec |-> Account(0)]
  <2>1. id \in Nat /\ id \notin InUse
    BY NewIdFresh DEF ServerOK
  <2>2. id \notin DOMAIN sess /\ \A u \in Uid : ~OnWay(queue, dbq, id, u)
    <3> HIDE DEF id
    <3> QED BY <2>1 DEF InUse, OnWay
  <2>3. /\ sess' = [i \in DOMAIN sess \cup {id} |-> IF i # id THEN sess[i] ELSE x]
        /\ dbq' = [u \in Uid |-> IF u \in U THEN Append(dbq[u], e) ELSE dbq[u]]
    BY <1>7 DEF Ask, Query
  <2> HIDE DEF id
  <2>4. e \in Asked \cup Change /\ e.id = id /\ e.op = "query"
    BY <2>1 DEF Asked
  <2>5. x.req = n /\ x.p = p /\ x.rec = Account(0) /\ x.wait = U /\ x.save = FALSE
    OBVIOUS
  <2> HIDE DEF e, x
  <2>6. Launches(sess, sess', dbq, dbq', id, x, e)
    BY <2>3, <2>4, <2>5 DEF Launches
  <2>7. View(db, x.p, x.rec)
    <3>1. db[p].gold.ver \in Nat /\ (db[p].gold.ver = 0 => db[p].gold.refunded = << >>)
      <4>1. db[p].gold \in GoldInfo
        BY <1>4 DEF Rec
      <4> QED BY <4>1 DEF GoldInfo, RefundsOK, FlightsOK, Viewed
    <3>2. Account(0).gold.ver = 0 /\ Account(0).gold.refunded = << >>
      BY DEF Account
    <3> QED BY <2>5, <3>1, <3>2 DEF View
  <2>8. FlightsOK(r, sess', dbq', db)
    <3>1. \A u \in Uid : ~OnWay(r, dbq, id, u)
      BY <1>2, <2>2
    <3> QED BY <1>2, <1>4, <2>4, <2>5, <2>6, <2>7, <3>1, LaunchedFlight
  <2>9. /\ \A i \in DOMAIN sess' : i # id => i \in DOMAIN sess /\ sess'[i] = sess[i]
        /\ \A i \in DOMAIN sess' : i # id => \A j \in DOMAIN queue :
              queue[j].k = "answer" /\ queue[j].id = i => \E k \in DOMAIN r : r[k] = queue[j]
    BY <1>3, <2>3
  <2>10. ASSUME NEW u \in Uid, NEW i \in DOMAIN dbq'[u]
         PROVE  (i \in DOMAIN dbq[u] /\ dbq'[u][i] = dbq[u][i]) \/ dbq'[u][i] = e
    <3>1. dbq[u] \in Seq(Asked \cup Change)
      BY <1>4
    <3>2. CASE u \in U
      <4>1. dbq'[u] = Append(dbq[u], e)
        BY <2>3, <3>2
      <4> QED BY <2>4, <3>1, <4>1, OldEntry
    <3>3. CASE u \notin U
      BY <2>3, <3>3
    <3> QED BY <3>2, <3>3
  <2>11. \A u \in Uid : \A i \in DOMAIN dbq'[u] : dbq'[u][i].id # id => \E k \in DOMAIN dbq[u] : dbq'[u][i] = dbq[u][k]
    BY <2>4, <2>10
  <2>12. \A g : Enters(dbq', db, id, g) => Enters(dbq, db, id, g)
    BY <2>4, <2>10 DEF Enters, Adds
  <2>13. \A g : Sits(r, sess', id, g) => IsRefund(m, g)
    BY <1>7, <2>3, <2>5 DEF Sits, IsRefund
  <2>14. Hands(1, id)
    <3> SUFFICES ASSUME NEW g \in Nat, NEW j \in HandPlaces(r, sess', dbq', db, g)
                 PROVE  j \in HandPlaces(queue, sess, dbq, db, g) \/ (IsRefund(m, g) /\ j = id)
      BY <1>1 DEF Hands
    <3>1. \/ j \in HandPlaces(queue, sess, dbq, db, g)
          \/ j = id /\ (Sits(r, sess', id, g) \/ Enters(dbq', db, id, g))
      BY <2>9, <2>11, HandMoves
    <3> QED BY <2>1, <2>12, <2>13, <3>1 DEF HandPlaces
  <2>15. FlightsOK(queue', sess', dbq', db')
    BY <1>1, <2>8
  <2> QED BY <1>1, <1>5, <2>14, <2>15, RefundsMove
<1> QED BY <1>6, <1>7 DEF RequestTaken, Asks

(* No game given back twice.                                               *)
LEMMA RefundsOnce ==
    ASSUME NEW R, ServerOK(R), RefundsOK
    PROVE  OneRefund
<1>1. \A u \in Uid : db[u].gold.refunded \in Seq(Nat)
  <2> TAKE u \in Uid
  <2>1. db[u].gold \in GoldInfo
    BY DEF ServerOK, DbOK, Rec
  <2> QED BY <2>1 DEF GoldInfo
<1> SUFFICES ASSUME NEW a \in Refunds, NEW b \in Refunds,
                    db[a[1]].gold.refunded[a[2]] = db[b[1]].gold.refunded[b[2]]
             PROVE  a = b
  BY DEF OneRefund
<1>2. \A c \in Refunds : /\ c = <<c[1], c[2]>> /\ c[1] \in Uid /\ c[2] \in Nat
                         /\ c[2] \in DOMAIN db[c[1]].gold.refunded
                         /\ db[c[1]].gold.refunded[c[2]] \in Nat
  <2> SUFFICES ASSUME NEW p \in Player, NEW i \in DOMAIN db[p].gold.refunded
               PROVE  p \in Uid /\ i \in Nat /\ db[p].gold.refunded[i] \in Nat
    BY DEF Refunds
  <2> QED BY <1>1 DEF Uid
<1> DEFINE g == db[a[1]].gold.refunded[a[2]]
<1>3. \A c \in Refunds : db[c[1]].gold.refunded[c[2]] = g => c \in BookPlaces(db, g)
  <2> TAKE c \in Refunds
  <2>1. c = <<c[1], c[2]>> /\ c[1] \in Uid /\ c[2] \in Nat /\ c[2] \in DOMAIN db[c[1]].gold.refunded
    BY <1>2
  <2>2. c \in Uid \X Nat
    BY <2>1
  <2> HIDE DEF g
  <2> QED BY <2>1, <2>2 DEF BookPlaces
<1>4. g \in Nat
  BY <1>2
<1>5. a \in BookPlaces(db, g) /\ b \in BookPlaces(db, g)
  BY <1>3
<1> HIDE DEF g
<1> QED BY <1>4, <1>5 DEF RefundsOK, Only

LEMMA RefundsStutter ==
    ASSUME NEW R, Begins(R), ServerOK(R), RefundsOK, UNCHANGED vars
    PROVE  RefundsOK'
<1>1. UNCHANGED <<obj, timers, queue, sess, dbq, db, games>>
  BY DEF vars, counts
<1>2. << >> \in Seq(R) /\ queue' = queue \o << >>
  BY <1>1 DEF ServerOK, QueueOK
<1>3. Calm(<< >>)
  BY <1>1 DEF Calm
<1> QED BY <1>1, <1>2, <1>3, SentRefunds

-----------------------------------------------------------------------------
(* Sums.                                                                   *)

(* The sum of a family of numbers, as the library adds it up.              *)
Pick(s) == CHOOSE x \in s : TRUE
IsSum(h, F, S) ==
    h = [s \in SUBSET S |-> IF s = {} THEN 0 ELSE F[Pick(s)] + h[s \ {Pick(s)}]]

(* Induction over the natural numbers, of a set.                           *)
LEMMA NumbersOf ==
    ASSUME NEW T \in SUBSET Nat, 0 \in T, \A n \in T : n + 1 \in T
    PROVE  T = Nat
<1> DEFINE Below == OpToRel(<, Nat)
<1>1. IsWellFoundedOn(Below, Nat)
  BY NatLessThanWellFounded
<1>2. \A x, y \in Nat : <<x, y>> \in Below <=> x < y
  BY DEF OpToRel
<1> HIDE DEF Below
<1>3. ASSUME Nat \ T # {} PROVE FALSE
  <2>1. PICK x \in Nat \ T : \A y \in Nat \ T : ~ (<<y, x>> \in Below)
    BY <1>1, <1>3, WFMin
  <2>2. x # 0
    BY <2>1
  <2>3. x - 1 \in Nat /\ x - 1 < x /\ (x - 1) + 1 = x
    BY <2>1, <2>2
  <2>4. x - 1 \in T
    BY <1>2, <2>1, <2>3
  <2>5. (x - 1) + 1 \in T
    BY <2>4
  <2> QED BY <2>1, <2>3, <2>5
<1> QED BY <1>3

(* The subsets of at most n elements.                                      *)
UpTo(S, n) == {s \in SUBSET S : Cardinality(s) <= n}

LEMMA SmallSets ==
    ASSUME NEW S, IsFiniteSet(S)
    PROVE  /\ \A s \in UpTo(S, 0) : s = {}
           /\ \A n \in Nat : UpTo(S, n) \subseteq UpTo(S, n + 1)
           /\ \A n \in Nat : \A s \in UpTo(S, n + 1) :
                 s # {} => Pick(s) \in s /\ s \ {Pick(s)} \in UpTo(S, n)
           /\ Cardinality(S) \in Nat /\ UpTo(S, Cardinality(S)) = SUBSET S
<1>1. \A s \in SUBSET S : IsFiniteSet(s) /\ Cardinality(s) \in Nat /\ Cardinality(s) <= Cardinality(S)
  BY FS_Subset, FS_CardinalityType
<1>2. \A s \in SUBSET S : Cardinality(s) = 0 => s = {}
  BY <1>1, FS_EmptySet
<1>3. ASSUME NEW s \in SUBSET S, s # {}
      PROVE  Pick(s) \in s /\ Cardinality(s \ {Pick(s)}) = Cardinality(s) - 1
  <2>1. Pick(s) \in s
    BY <1>3 DEF Pick
  <2> QED BY <1>1, <2>1, FS_RemoveElement
<1>4. Cardinality(S) \in Nat
  BY FS_CardinalityType
<1>5. \A s \in UpTo(S, 0) : s = {}
  BY <1>1, <1>2 DEF UpTo
<1>6. \A n \in Nat : \A s \in UpTo(S, n + 1) :
         s # {} => Pick(s) \in s /\ s \ {Pick(s)} \in UpTo(S, n)
  <2> SUFFICES ASSUME NEW n \in Nat, NEW s \in UpTo(S, n + 1), s # {}
               PROVE  Pick(s) \in s /\ s \ {Pick(s)} \in UpTo(S, n)
    OBVIOUS
  <2>1. s \in SUBSET S /\ Cardinality(s) <= n + 1
    BY DEF UpTo
  <2>2. Cardinality(s \ {Pick(s)}) <= n
    BY <1>1, <1>3, <2>1
  <2> QED BY <1>3, <2>1, <2>2 DEF UpTo
<1>7. \A n \in Nat : UpTo(S, n) \subseteq UpTo(S, n + 1)
  BY <1>1 DEF UpTo
<1>8. UpTo(S, Cardinality(S)) = SUBSET S
  BY <1>1 DEF UpTo
<1> QED BY <1>4, <1>5, <1>6, <1>7, <1>8

LEMMA SumExists ==
    ASSUME NEW S, IsFiniteSet(S), NEW F
    PROVE  \E h : IsSum(h, F, S)
<1> DEFINE Up(h, s) == IF s = {} THEN 0 ELSE F[Pick(s)] + h[s \ {Pick(s)}]
           Sums(h, D) == h = [s \in D |-> Up(h, s)]
           T == {n \in Nat : \E h : Sums(h, UpTo(S, n))}
<1>1. 0 \in T
  <2> DEFINE h == [s \in UpTo(S, 0) |-> 0]
  <2>1. Sums(h, UpTo(S, 0))
    BY SmallSets
  <2> QED BY <2>1
<1>2. ASSUME NEW n \in T PROVE n + 1 \in T
  <2> DEFINE A == UpTo(S, n)
             B == UpTo(S, n + 1)
  <2>1. n \in Nat /\ A \subseteq B
    BY SmallSets
  <2>2. \A s \in B : s # {} => s \ {Pick(s)} \in A
    BY <2>1, SmallSets
  <2>3. PICK h : h = [s \in A |-> Up(h, s)]
    BY <1>2
  <2>4. PICK h2 : h2 = [s \in B |-> Up(h, s)]
    OBVIOUS
  <2> HIDE DEF A, B
  <2>5. \A s \in A : h2[s] = h[s]
    BY <2>1, <2>3, <2>4
  <2>6. \A s \in B : Up(h2, s) = Up(h, s)
    BY <2>2, <2>5
  <2> HIDE DEF Up
  <2>7. h2 = [s \in B |-> Up(h2, s)]
    BY <2>4, <2>6
  <2>8. Sums(h2, UpTo(S, n + 1))
    BY <2>7 DEF B
  <2> HIDE DEF Sums
  <2> QED BY <2>1, <2>8
<1>3. T = Nat
  <2> HIDE DEF T
  <2>1. T \in SUBSET Nat
    BY DEF T
  <2> QED BY <1>1, <1>2, <2>1, NumbersOf
<1>4. PICK h : h = [s \in UpTo(S, Cardinality(S)) |-> Up(h, s)]
  BY <1>3, SmallSets
<1> QED BY <1>4, SmallSets DEF IsSum

(* A sum is a number, it grows with what is added up, and strictly so      *)
(* where one of them does.                                                 *)
LEMMA SumGrows ==
    ASSUME NEW S, IsFiniteSet(S), NEW F \in [S -> Nat], NEW G \in [S -> Nat],
           \A x \in S : F[x] <= G[x], NEW h, IsSum(h, F, S), NEW h2, IsSum(h2, G, S), NEW p
    PROVE  h[S] \in Nat /\ h2[S] \in Nat /\ h[S] <= h2[S] /\ (p \in S /\ F[p] < G[p] => h[S] < h2[S])
<1> DEFINE Good(s) == /\ h[s] \in Nat /\ h2[s] \in Nat /\ h[s] <= h2[s]
                      /\ p \in s /\ F[p] < G[p] => h[s] < h2[s]
           T == {n \in Nat : \A s \in UpTo(S, n) : Good(s)}
<1>1. \A s \in SUBSET S : /\ h[s] = IF s = {} THEN 0 ELSE F[Pick(s)] + h[s \ {Pick(s)}]
                          /\ h2[s] = IF s = {} THEN 0 ELSE G[Pick(s)] + h2[s \ {Pick(s)}]
  BY DEF IsSum
<1>2. Good({})
  <2>1. h[{}] = 0 /\ h2[{}] = 0
    BY <1>1
  <2> QED BY <2>1
<1>3. 0 \in T
  BY <1>2, SmallSets
<1>4. ASSUME NEW n \in T PROVE n + 1 \in T
  <2>1. n \in Nat /\ n + 1 \in Nat
    OBVIOUS
  <2>2. ASSUME NEW s \in UpTo(S, n + 1), s # {} PROVE Good(s)
    <3> DEFINE x == Pick(s)
               r == s \ {x}
    <3>1. x \in s /\ r \in UpTo(S, n) /\ s \in SUBSET S
      BY <2>1, <2>2, SmallSets DEF UpTo
    <3>2. Good(r)
      BY <3>1
    <3>3. h[s] = F[x] + h[r] /\ h2[s] = G[x] + h2[r]
      BY <1>1, <2>2, <3>1
    <3>4. p \in s => p = x \/ p \in r
      OBVIOUS
    <3>5. x \in S
      BY <3>1
    <3>6. F[x] \in Nat /\ G[x] \in Nat /\ F[x] <= G[x]
      BY <3>5
    <3>7. p \in s => F[p] \in Nat /\ G[p] \in Nat
      BY <3>1
    <3> HIDE DEF x, r
    <3> QED BY <3>2, <3>3, <3>4, <3>6, <3>7
  <2> HIDE DEF Good
  <2>3. \A s \in UpTo(S, n + 1) : Good(s)
    BY <1>2, <2>2
  <2> QED BY <2>1, <2>3
<1>5. T = Nat
  <2> HIDE DEF T
  <2>1. T \in SUBSET Nat
    BY DEF T
  <2> QED BY <1>3, <1>4, <2>1, NumbersOf
<1>6. S \in UpTo(S, Cardinality(S)) /\ Cardinality(S) \in T
  BY <1>5, SmallSets
<1> QED BY <1>6

-----------------------------------------------------------------------------
(* What the players paid.                                                  *)

Paid(g) == g.spent + Len(g.refunded)
Total(b) == MapThenSumSet(LAMBDA p : Paid(b[p].gold), Player)

LEMMA PaidTyped == ASSUME NEW r \in Rec PROVE Paid(r.gold) \in Nat
<1>1. r.gold.spent \in Nat /\ r.gold.refunded \in Seq(Nat)
  BY DEF Rec, GoldInfo
<1> QED BY <1>1 DEF Paid

LEMMA TotalIs ==
    ASSUME NEW b
    PROVE  \E h : IsSum(h, [p \in Player |-> Paid(b[p].gold)], Player) /\ Total(b) = h[Player]
<1> DEFINE F == [p \in Player |-> Paid(b[p].gold)]
           Sums(h) == h = [s \in SUBSET Player |->
                             IF s = {} THEN 0
                             ELSE LET x == CHOOSE x \in s : TRUE
                                  IN  Paid(b[x].gold) + h[s \ {x}]]
           sum == CHOOSE h : Sums(h)
<1>1. Total(b) = sum[Player]
  BY DEF Total, MapThenSumSet, MapThenFoldSet
<1>2. PICK g : IsSum(g, F, Player)
  BY SumExists, PlayerAssumption
<1>3. \A s \in SUBSET Player : s # {} => Pick(s) \in Player
  BY DEF Pick
<1>4. \A h : Sums(h) <=> IsSum(h, F, Player)
  <2> TAKE h
  <2>1. \A s \in SUBSET Player : s # {} => F[Pick(s)] = Paid(b[Pick(s)].gold)
    BY <1>3
  <2> HIDE DEF F
  <2> QED BY <2>1 DEF IsSum, Pick
<1> HIDE DEF Sums, F
<1>5. Sums(g)
  BY <1>2, <1>4
<1>6. Sums(sum)
  BY <1>5
<1> HIDE DEF sum
<1> QED BY <1>1, <1>4, <1>6 DEF F

LEMMA TotalGrows ==
    ASSUME NEW b \in [Uid -> Rec], NEW c \in [Uid -> Rec],
           \A p \in Player : Paid(b[p].gold) <= Paid(c[p].gold), NEW u
    PROVE  /\ Total(b) \in Nat /\ Total(c) \in Nat /\ Total(b) <= Total(c)
           /\ u \in Player /\ Paid(b[u].gold) < Paid(c[u].gold) => Total(b) < Total(c)
<1> DEFINE F == [p \in Player |-> Paid(b[p].gold)]
           G == [p \in Player |-> Paid(c[p].gold)]
<1>1. \A r \in Rec : Paid(r.gold) \in Nat
  BY PaidTyped
<1>2. F \in [Player -> Nat] /\ G \in [Player -> Nat] /\ \A p \in Player : F[p] <= G[p]
  BY <1>1 DEF Uid
<1>3. PICK h : IsSum(h, F, Player) /\ Total(b) = h[Player]
  BY TotalIs
<1>4. PICK h2 : IsSum(h2, G, Player) /\ Total(c) = h2[Player]
  BY TotalIs
<1>5. u \in Player => F[u] = Paid(b[u].gold) /\ G[u] = Paid(c[u].gold)
  OBVIOUS
<1> HIDE DEF F, G
<1>6. /\ h[Player] \in Nat /\ h2[Player] \in Nat /\ h[Player] <= h2[Player]
      /\ u \in Player /\ F[u] < G[u] => h[Player] < h2[Player]
  BY <1>2, <1>3, <1>4, SumGrows, PlayerAssumption
<1> QED BY <1>3, <1>4, <1>5, <1>6

-----------------------------------------------------------------------------
(* The way of a coin.  Who has not heard that a charge is made has not     *)
(* counted its game.                                                       *)

(* What is known of a user's gold has what he paid, unless it is older     *)
(* than what there is, and nobody but a player has a buy-in.  No save that *)
(* can still be made takes from what he paid, and a charge's adds to it.   *)
Known(b, u, r) == /\ r.gold.ver = b[u].gold.ver => Paid(r.gold) = Paid(b[u].gold)
                  /\ u \in Player \/ r.gold.bet = 0
Pays(s, b, u, e) ==
    e.op = "save" =>
      /\ "gold" \in DOMAIN e.rec =>
           /\ u \in Player \/ e.rec["gold"].bet = 0
           /\ e.rec["gold"].ver = b[u].gold.ver + 1 => Paid(b[u].gold) <= Paid(e.rec["gold"])
      /\ e.id \in DOMAIN s /\ s[e.id].req.k \in Charges =>
           /\ u \in Player /\ "gold" \in DOMAIN e.rec
           /\ e.rec["gold"].ver = b[u].gold.ver + 1 => Paid(b[u].gold) < Paid(e.rec["gold"])
Book(b, u) == /\ b[u].gold.ver = 0 => Paid(b[u].gold) = 0
              /\ u \in Player \/ b[u].gold.bet = 0
CoinsOK(q, s, d, b) ==
    /\ \A u \in Uid : Book(b, u)
    /\ \A id \in DOMAIN s : Known(b, s[id].p, s[id].rec)
    /\ \A j \in DOMAIN q : q[j].k = "answer" => Known(b, q[j].u, q[j].rec)
    /\ \A u \in Uid : \A i \in DOMAIN d[u] : Pays(s, b, u, d[u][i])

(* The charges that are made and whose games or lives are not counted yet. *)
Charging(q, s) == {id \in DOMAIN s : s[id].req.k \in Charges /\ Settled(q, s, id)}

(* What is counted and what is about to be was paid.                       *)
PaidOK == /\ CoinsOK(queue, sess, dbq, db)
          /\ games + retries + Cardinality(Charging(queue, sess)) <= Total(db)

LEMMA SameCoins ==
    /\ CoinsOK(queue, sess, dbq, db)' <=> CoinsOK(queue', sess', dbq', db')
    /\ Charging(queue, sess)' = Charging(queue', sess')
    /\ Total(db)' = Total(db')
<1>1. CoinsOK(queue, sess, dbq, db)' <=> CoinsOK(queue', sess', dbq', db')
  BY DEF CoinsOK, Book, Known, Pays, Paid
<1>2. Charging(queue, sess)' = Charging(queue', sess')
  BY DEF Charging, Settled
<1>3. Total(db)' = Total(db')
  OBVIOUS
<1> QED BY <1>1, <1>2, <1>3

LEMMA ChargingFinite ==
    ASSUME NEW R, SessOK(R), NEW q, NEW X, X \subseteq Charging(q, sess)
    PROVE  /\ IsFiniteSet(X) /\ Cardinality(X) \in Nat
           /\ IsFiniteSet(Charging(q, sess)) /\ Cardinality(Charging(q, sess)) \in Nat
           /\ Cardinality(X) <= Cardinality(Charging(q, sess))
           /\ \A z \in Charging(q, sess) : z \notin X => Cardinality(X) + 1 <= Cardinality(Charging(q, sess))
<1> DEFINE C == Charging(q, sess)
<1>1. C \subseteq DOMAIN sess
  BY DEF Charging
<1> HIDE DEF C
<1>2. IsFiniteSet(C)
  BY <1>1, FS_Subset DEF SessOK
<1>3. X \subseteq C
  BY DEF C
<1>4. IsFiniteSet(X) /\ Cardinality(X) <= Cardinality(C)
  BY <1>2, <1>3, FS_Subset
<1>5. Cardinality(X) \in Nat /\ Cardinality(C) \in Nat
  BY <1>2, <1>4, FS_CardinalityType
<1>6. ASSUME NEW z \in C, z \notin X PROVE Cardinality(X) + 1 <= Cardinality(C)
  <2>1. X \cup {z} \subseteq C
    BY <1>3, <1>6
  <2>2. Cardinality(X \cup {z}) <= Cardinality(C)
    BY <1>2, <2>1, FS_Subset
  <2>3. Cardinality(X \cup {z}) = Cardinality(X) + 1
    BY <1>4, <1>6, FS_AddElement
  <2> QED BY <2>2, <2>3
<1> QED BY <1>2, <1>4, <1>5, <1>6 DEF C

(* A step that makes no save counts at most one game, of a charge that is  *)
(* made.                                                                   *)
LEMMA PaidMoves ==
    ASSUME NEW R, ServerOK(R), CountsOK', PaidOK, db' = db, CoinsOK(queue', sess', dbq', db),
           Charging(queue', sess') \subseteq Charging(queue, sess),
           \/ games' = games /\ retries' = retries
           \/ /\ games' + retries' = games + retries + 1
              /\ \E z \in Charging(queue, sess) : z \notin Charging(queue', sess')
    PROVE  PaidOK'
<1> DEFINE C == Charging(queue, sess)
           X == Charging(queue', sess')
<1>1. /\ Cardinality(X) \in Nat /\ Cardinality(C) \in Nat /\ Cardinality(X) <= Cardinality(C)
      /\ \A z \in C : z \notin X => Cardinality(X) + 1 <= Cardinality(C)
  BY ChargingFinite DEF ServerOK
<1>2. games + retries + Cardinality(C) <= Total(db)
  BY DEF PaidOK
<1>3. /\ games \in Nat /\ retries \in Nat /\ games' \in Nat /\ retries' \in Nat
      /\ Total(db) \in Nat
  <2>1. \A p \in Player : Paid(db[p].gold) <= Paid(db[p].gold)
    <3> TAKE p \in Player
    <3>1. Paid(db[p].gold) \in Nat
      BY PaidTyped DEF ServerOK, DbOK, Uid
    <3> QED BY <3>1
  <2>2. Total(db) \in Nat
    BY <2>1, TotalGrows DEF ServerOK, DbOK
  <2> QED BY <2>2 DEF ServerOK, CountsOK
<1> HIDE DEF C, X
<1>4. games' + retries' + Cardinality(X) <= Total(db)
  <2>1. CASE games' = games /\ retries' = retries
    BY <1>1, <1>2, <1>3, <2>1
  <2>2. CASE games' + retries' = games + retries + 1 /\ \E z \in C : z \notin X
    <3>1. Cardinality(X) + 1 <= Cardinality(C)
      BY <1>1, <2>2
    <3> DEFINE x == Cardinality(X)
               c == Cardinality(C)
               n == games' + retries'
               o == games + retries
    <3>2. /\ x \in Nat /\ c \in Nat /\ n \in Nat /\ o \in Nat /\ Total(db) \in Nat
          /\ n = o + 1 /\ x + 1 <= c /\ o + c <= Total(db)
      <4>1. x \in Nat /\ c \in Nat
        BY <1>1
      <4>2. \A i, j \in Nat : i + j \in Nat
        OBVIOUS
      <4>6. n \in Nat /\ o \in Nat /\ Total(db) \in Nat
        BY ONLY <1>3, <4>2
      <4>3. n = o + 1
        BY <2>2
      <4>4. x + 1 <= c
        BY <3>1
      <4>5. o + c <= Total(db)
        BY <1>2
      <4> QED BY <4>1, <4>3, <4>4, <4>5, <4>6
    <3> HIDE DEF x, c, n, o
    <3>3. n + x <= Total(db)
      BY <3>2
    <3> QED BY <3>3 DEF n, x
  <2> QED BY <2>1, <2>2 DEF C, X
<1>5. (Cardinality(Charging(queue, sess)))' = Cardinality(X)
  BY SameCoins DEF X
<1> QED BY <1>4, <1>5, SameCoins DEF PaidOK

(* No answer comes, only session z changes or comes, and what is asked of  *)
(* the base is what was asked or pays.                                     *)
Onward(q, q2) == \A j \in DOMAIN q2 : q2[j].k = "answer" => \E n \in DOMAIN q : q[n] = q2[j]
OnlyOne(s, s2, z) == \A i \in DOMAIN s2 : i # z => i \in DOMAIN s /\ s2[i] = s[i]
Asking2(s2, b, d, d2) == \A u \in Uid : \A i \in DOMAIN d2[u] :
                          Pays(s2, b, u, d2[u][i]) \/ \E n \in DOMAIN d[u] : d[u][n] = d2[u][i]
Unasked(d, z) == \A u \in Uid : \A i \in DOMAIN d[u] : d[u][i].id # z

(* Session z changes or comes, and its request is sent.                    *)
LEMMA CoinsMove ==
    ASSUME NEW q, NEW s, NEW d, NEW b, NEW q2, NEW s2, NEW d2, NEW z, CoinsOK(q, s, d, b),
           Onward(q, q2), OnlyOne(s, s2, z), Asking2(s2, b, d, d2),
           z \in DOMAIN s2 => Known(b, s2[z].p, s2[z].rec),
           \/ z \in DOMAIN s2 /\ s2[z].req.k \in Charges => z \in DOMAIN s /\ s[z].req.k \in Charges
           \/ Unasked(d, z)
    PROVE  CoinsOK(q2, s2, d2, b)
<1> USE DEF Onward, OnlyOne, Asking2, Unasked
<1>1. \A id \in DOMAIN s2 : Known(b, s2[id].p, s2[id].rec)
  BY DEF CoinsOK
<1>2. \A j \in DOMAIN q2 : q2[j].k = "answer" => Known(b, q2[j].u, q2[j].rec)
  BY DEF CoinsOK
<1>3. ASSUME NEW u \in Uid, NEW i \in DOMAIN d[u] PROVE Pays(s2, b, u, d[u][i])
  <2> DEFINE e == d[u][i]
  <2>1. Pays(s, b, u, e)
    BY <1>3 DEF CoinsOK
  <2>2. e.id \in DOMAIN s2 /\ s2[e.id].req.k \in Charges =>
           e.id \in DOMAIN s /\ s[e.id].req.k \in Charges
    BY <1>3
  <2> HIDE DEF e
  <2>3. Pays(s2, b, u, e)
    BY <2>1, <2>2 DEF Pays
  <2> QED BY <2>3 DEF e
<1>4. \A u \in Uid : \A i \in DOMAIN d2[u] : Pays(s2, b, u, d2[u][i])
  BY <1>3
<1> QED BY <1>1, <1>2, <1>4 DEF CoinsOK

LEMMA ChargingMoves ==
    ASSUME NEW q, NEW s, NEW q2, NEW s2, NEW z,
           \A j \in DOMAIN q2 : q2[j].k = "answer" => \E n \in DOMAIN q : q[n] = q2[j],
           \A i \in DOMAIN s2 : i # z => i \in DOMAIN s /\ s2[i] = s[i],
           z \in DOMAIN s2 => ~Settled(q2, s2, z)
    PROVE  Charging(q2, s2) \subseteq Charging(q, s)
<1> SUFFICES ASSUME NEW i \in Charging(q2, s2) PROVE i \in Charging(q, s)
  OBVIOUS
<1>1. i \in DOMAIN s2 /\ s2[i].req.k \in Charges /\ Settled(q2, s2, i)
  BY DEF Charging
<1>2. i # z
  BY <1>1
<1>3. i \in DOMAIN s /\ s2[i] = s[i]
  BY <1>1, <1>2
<1>4. Settled(q, s, i)
  BY <1>1, <1>3 DEF Settled
<1> QED BY <1>1, <1>3, <1>4 DEF Charging

(* Sessions end or stay as they are, and no answer comes.                  *)
LEMMA CoinsStay ==
    ASSUME NEW q, NEW s, NEW d, NEW b, NEW q2, NEW s2, CoinsOK(q, s, d, b),
           \A j \in DOMAIN q2 : q2[j].k = "answer" => \E n \in DOMAIN q : q[n] = q2[j],
           \A i \in DOMAIN s2 : i \in DOMAIN s /\ s2[i] = s[i]
    PROVE  CoinsOK(q2, s2, d, b) /\ Charging(q2, s2) \subseteq Charging(q, s)
<1>1. \A id \in DOMAIN s2 : Known(b, s2[id].p, s2[id].rec)
  BY DEF CoinsOK
<1>2. \A j \in DOMAIN q2 : q2[j].k = "answer" => Known(b, q2[j].u, q2[j].rec)
  BY DEF CoinsOK
<1>3. ASSUME NEW u \in Uid, NEW i \in DOMAIN d[u] PROVE Pays(s2, b, u, d[u][i])
  <2> DEFINE e == d[u][i]
  <2>1. Pays(s, b, u, e)
    BY <1>3 DEF CoinsOK
  <2> HIDE DEF e
  <2>2. Pays(s2, b, u, e)
    BY <2>1 DEF Pays
  <2> QED BY <2>2 DEF e
<1>4. CoinsOK(q2, s2, d, b)
  BY <1>1, <1>2, <1>3 DEF CoinsOK
<1>5. Charging(q2, s2) \subseteq Charging(q, s)
  BY DEF Charging, Settled
<1> QED BY <1>4, <1>5

LEMMA StartPaid == ASSUME NEW R, Starts PROVE PaidOK
<1>1. /\ DOMAIN queue = {} /\ DOMAIN sess = {} /\ games = 0 /\ retries = 0
      /\ \A u \in Uid : DOMAIN dbq[u] = {}
  BY DEF Starts
<1>2. \A u \in Uid : db[u].gold.spent = 0 /\ db[u].gold.refunded = << >> /\ db[u].gold.bet = 0
  BY DEF Starts, Account
<1>3. \A u \in Uid : Book(db, u)
  <2> TAKE u \in Uid
  <2>1. Paid(db[u].gold) = 0
    BY <1>2 DEF Paid
  <2> QED BY <1>2, <2>1 DEF Book
<1>4. CoinsOK(queue, sess, dbq, db)
  BY <1>1, <1>3 DEF CoinsOK
<1>5. Charging(queue, sess) = {}
  BY <1>1 DEF Charging
<1>6. Total(db) \in Nat
  <2>1. db \in [Uid -> Rec]
    BY StartsOK DEF ServerOK, DbOK
  <2>2. \A p \in Player : Paid(db[p].gold) <= Paid(db[p].gold)
    <3> TAKE p \in Player
    <3>1. Paid(db[p].gold) \in Nat
      BY <2>1, PaidTyped DEF Uid
    <3> QED BY <3>1
  <2> QED BY <2>1, <2>2, TotalGrows
<1>7. Cardinality(Charging(queue, sess)) = 0
  BY <1>5, FS_EmptySet
<1> QED BY <1>1, <1>4, <1>6, <1>7 DEF PaidOK

(* The sessions end or stay, and what comes is no answer.                  *)
LEMMA RestPaid ==
    ASSUME NEW R, ServerOK(R), PaidOK, UNCHANGED <<dbq, db, conn, counts>>,
           \A j \in DOMAIN queue' : queue'[j].k = "answer" => \E n \in DOMAIN queue : queue[n] = queue'[j],
           \A i \in DOMAIN sess' : i \in DOMAIN sess /\ sess'[i] = sess[i]
    PROVE  PaidOK'
<1>1. CoinsOK(queue', sess', dbq', db) /\ Charging(queue', sess') \subseteq Charging(queue, sess)
  BY CoinsStay DEF PaidOK
<1>2. games' = games /\ retries' = retries /\ CountsOK' /\ db' = db
  BY DEF ServerOK, CountsOK, counts
<1> QED BY <1>1, <1>2, PaidMoves

LEMMA SentPaid ==
    ASSUME NEW R, Begins(R), ServerOK(R), PaidOK, NEW ms \in Seq(R), queue' = queue \o ms,
           UNCHANGED <<sess, dbq, db, counts>>, CountsOK'
    PROVE  PaidOK'
<1>1. queue \in Seq(R \cup AnswerMsg) /\ ms \in Seq(R \cup AnswerMsg)
  BY WidenSeq DEF ServerOK, QueueOK
<1>2. \A i \in DOMAIN ms : ms[i].k # "answer"
  BY DEF Begins
<1>3. \A j \in DOMAIN queue' : queue'[j].k = "answer" => \E n \in DOMAIN queue : queue[n] = queue'[j]
  BY <1>1, <1>2, OldAnswers
<1>4. CoinsOK(queue', sess', dbq', db) /\ Charging(queue', sess') \subseteq Charging(queue, sess)
  BY <1>3, CoinsStay DEF PaidOK
<1>5. games' = games /\ retries' = retries /\ db' = db
  BY DEF counts
<1> QED BY <1>4, <1>5, PaidMoves

LEMMA TimeOutPaid ==
    ASSUME NEW R, ServerOK(R), PaidOK, TimeOut
    PROVE  PaidOK'
<1>1. PICK id \in DOMAIN sess : sess' = Without(sess, id)
  BY DEF TimeOut
<1>2. \A i \in DOMAIN sess' : i \in DOMAIN sess /\ sess'[i] = sess[i]
  BY <1>1 DEF Without
<1> QED BY <1>2, RestPaid DEF TimeOut

LEMMA TickPaid ==
    ASSUME NEW R, Begins(R), ServerOK(R), PaidOK, Tick
    PROVE  PaidOK'
<1>1. PICK t \in timers : queue' = Append(queue, t.msg)
  BY DEF Tick, Post
<1>2. t.msg \in R /\ queue \in Seq(R \cup AnswerMsg)
  BY DEF ServerOK, QueueOK, TimersOK
<1>3. <<t.msg>> \in Seq(R) /\ queue' = queue \o <<t.msg>>
  BY <1>1, <1>2
<1>4. UNCHANGED <<sess, dbq, db, counts>> /\ CountsOK'
  BY DEF Tick, ServerOK, CountsOK, counts
<1> QED BY <1>3, <1>4, SentPaid

LEMMA PaidStutter ==
    ASSUME NEW R, ServerOK(R), PaidOK, UNCHANGED vars
    PROVE  PaidOK'
  BY RestPaid DEF vars

(* The answer that a charge is made lets its game be counted; the player   *)
(* has paid for it by then.                                                *)
LEMMA ServePaid ==
    ASSUME NEW R, ServerOK(R), RefundsOK, PaidOK, NEW u \in Uid, Serve(u)
    PROVE  PaidOK'
<1> DEFINE r == Head(dbq[u])
           old == db[u].gold
           made == db'[u].gold
<1>1. /\ dbq[u] # << >> /\ r \in Asked \cup Change
      /\ dbq' = [dbq EXCEPT ![u] = Tail(@)]
      /\ db' \in [Uid -> Rec] /\ db \in [Uid -> Rec] /\ dbq \in [Uid -> Seq(Asked \cup Change)]
      /\ \A v \in Uid : v # u => db'[v] = db[v]
      /\ UNCHANGED <<sess, games, retries>>
  BY ServeIs DEF ServerOK, DbOK
<1>2. \/ made = old
      \/ /\ r.op = "save" /\ "gold" \in DOMAIN r.rec
         /\ r.rec["gold"].ver = old.ver + 1 /\ made = r.rec["gold"]
  BY ServeIs
<1>3. PICK m \in AnswerMsg : /\ queue' = Append(queue, m) /\ m.id = r.id /\ m.u = u
                             /\ m.rec.gold \in {db[u].gold, Account(0).gold}
                             /\ m.ok /\ r.op = "save" /\ "gold" \in DOMAIN r.rec =>
                                  /\ r.rec["gold"].ver = db[u].gold.ver + 1
                                  /\ db'[u].gold = r.rec["gold"]
  BY ServeIs
<1>4. /\ FlightsOK(queue, sess, dbq, db) /\ CoinsOK(queue, sess, dbq, db)
      /\ queue \in Seq(R \cup AnswerMsg) /\ Len(queue) \in Nat
  BY DEF RefundsOK, PaidOK, ServerOK, QueueOK
<1>5. /\ \A v \in Uid : \A i \in DOMAIN dbq'[v] : \E n \in DOMAIN dbq[v] : dbq'[v][i] = dbq[v][n]
      /\ \E n \in DOMAIN dbq[u] : r = dbq[u][n]
  <2>1. /\ DOMAIN Tail(dbq[u]) = 1 .. Len(dbq[u]) - 1 /\ DOMAIN dbq[u] = 1 .. Len(dbq[u])
        /\ \A i \in 1 .. Len(dbq[u]) - 1 : Tail(dbq[u])[i] = dbq[u][i + 1] /\ i + 1 \in 1 .. Len(dbq[u])
        /\ 1 \in DOMAIN dbq[u] /\ r = dbq[u][1]
    <3>1. dbq[u] \in Seq(Asked \cup Change)
      BY <1>1
    <3> QED BY <1>1, <3>1, HeadTail
  <2> HIDE DEF r
  <2>2. \A v \in Uid : dbq'[v] = IF v = u THEN Tail(dbq[u]) ELSE dbq[v]
    BY <1>1
  <2> QED BY <2>1, <2>2
<1>6. Pays(sess, db, u, r) /\ EntryView(db, u, r)
  BY <1>4, <1>5 DEF CoinsOK, FlightsOK, Viewed
<1>7. old.ver \in Nat /\ Paid(old) \in Nat /\ Paid(made) \in Nat
  <2>1. old \in GoldInfo
    BY <1>1 DEF Rec
  <2> QED BY <1>1, <2>1, PaidTyped DEF GoldInfo
<1>8. \A v \in Uid : db'[v].gold = IF v = u THEN made ELSE db[v].gold
  BY <1>1
<1>9. /\ made = old \/ made.ver = old.ver + 1
      /\ Paid(old) <= Paid(made)
      /\ u \in Player \/ made.bet = 0
  <2>1. u \in Player \/ old.bet = 0
    BY <1>4 DEF CoinsOK, Book
  <2>2. Paid(old) <= Paid(old)
    BY <1>7
  <2>3. CASE made = old
    BY <2>1, <2>2, <2>3
  <2>4. CASE /\ r.op = "save" /\ "gold" \in DOMAIN r.rec
             /\ r.rec["gold"].ver = old.ver + 1 /\ made = r.rec["gold"]
    BY <1>6, <2>4 DEF Pays
  <2> QED BY <1>2, <2>3, <2>4
<1> HIDE DEF r, old, made
<1>10. \A v \in Uid : Book(db', v)
  <2>1. old.ver + 1 # 0
    BY <1>7
  <2>2. \A v \in Uid : Book(db, v)
    BY <1>4 DEF CoinsOK
  <2> QED BY <1>8, <1>9, <2>1, <2>2 DEF Book, old
<1>11. ASSUME NEW p \in Uid, NEW x, Known(db, p, x), View(db, p, x)
       PROVE  Known(db', p, x)
  <2>1. CASE p # u \/ made = old
    BY <1>8, <1>11, <2>1 DEF Known, old
  <2>2. CASE p = u /\ made.ver = old.ver + 1
    <3>1. x.gold.ver <= old.ver
      BY <1>11, <2>2 DEF View, old
    <3>2. x.gold.ver # old.ver + 1
      BY <1>7, <3>1
    <3> QED BY <1>8, <1>11, <2>2, <3>2 DEF Known
  <2> QED BY <1>9, <2>1, <2>2
<1>12. \A id \in DOMAIN sess' : Known(db', sess'[id].p, sess'[id].rec)
  <2> TAKE id \in DOMAIN sess'
  <2>1. sess'[id] = sess[id] /\ id \in DOMAIN sess
    BY <1>1
  <2>2. sess[id].p \in Uid
    BY <2>1 DEF ServerOK, SessOK, Waits, Ready
  <2>3. Known(db, sess[id].p, sess[id].rec) /\ View(db, sess[id].p, sess[id].rec)
    BY <1>4, <2>1 DEF CoinsOK, FlightsOK, Viewed
  <2> QED BY <1>11, <2>1, <2>2, <2>3
<1>13. Known(db, u, m.rec) /\ View(db, u, m.rec)
  <2>1. /\ Account(0).gold.ver = 0 /\ Account(0).gold.refunded = << >> /\ Account(0).gold.bet = 0
        /\ Account(0).gold.spent = 0
    BY DEF Account
  <2>2. Paid(Account(0).gold) = 0
    BY <2>1 DEF Paid
  <2>3. Book(db, u) /\ (old.ver = 0 => old.refunded = << >>)
    BY <1>4 DEF CoinsOK, FlightsOK, Viewed, old
  <2>4. m.rec.gold = old \/ m.rec.gold = Account(0).gold
    BY <1>3 DEF old
  <2>5. Known(db, u, m.rec)
    BY <2>1, <2>2, <2>3, <2>4 DEF Known, Book, old
  <2>6. View(db, u, m.rec)
    BY <1>7, <2>1, <2>3, <2>4 DEF View, old
  <2> QED BY <2>5, <2>6
<1>14. \A j \in DOMAIN queue' : (j \in DOMAIN queue /\ queue'[j] = queue[j]) \/ queue'[j] = m
  BY <1>3, <1>4
<1>15. \A j \in DOMAIN queue' : queue'[j].k = "answer" => Known(db', queue'[j].u, queue'[j].rec)
  <2> SUFFICES ASSUME NEW j \in DOMAIN queue', queue'[j].k = "answer"
               PROVE  Known(db', queue'[j].u, queue'[j].rec)
    OBVIOUS
  <2>1. CASE queue'[j] = m
    BY <1>3, <1>11, <1>13, <2>1
  <2>2. CASE j \in DOMAIN queue /\ queue'[j] = queue[j]
    <3>1. queue[j].u \in Uid
      BY <1>4, <2>2 DEF FlightsOK, Expected, Arriving, AnswerMsg
    <3>2. Known(db, queue[j].u, queue[j].rec) /\ View(db, queue[j].u, queue[j].rec)
      BY <1>4, <2>2 DEF CoinsOK, FlightsOK, Viewed
    <3> QED BY <1>11, <2>2, <3>1, <3>2
  <2> QED BY <1>14, <2>1, <2>2
<1>16. ASSUME NEW v \in Uid, NEW e, Pays(sess, db, v, e), EntryView(db, v, e)
       PROVE  Pays(sess', db', v, e)
  <2>1. CASE v # u \/ made = old
    BY <1>1, <1>8, <1>16, <2>1 DEF Pays, old
  <2>2. CASE v = u /\ made.ver = old.ver + 1
    <3>1. e.op = "save" /\ "gold" \in DOMAIN e.rec => e.rec["gold"].ver # made.ver + 1
      <4> SUFFICES ASSUME e.op = "save", "gold" \in DOMAIN e.rec PROVE e.rec["gold"].ver # made.ver + 1
        OBVIOUS
      <4>1. e.rec["gold"].ver <= old.ver + 1
        BY <1>16, <2>2 DEF EntryView, old
      <4> QED BY <1>7, <2>2, <4>1
    <3> QED BY <1>1, <1>8, <1>16, <2>2, <3>1 DEF Pays
  <2> QED BY <1>9, <2>1, <2>2
<1>17. \A v \in Uid : \A i \in DOMAIN dbq'[v] : Pays(sess', db', v, dbq'[v][i])
  <2> TAKE v \in Uid
  <2> TAKE i \in DOMAIN dbq'[v]
  <2>1. PICK n \in DOMAIN dbq[v] : dbq'[v][i] = dbq[v][n]
    BY <1>5
  <2>2. Pays(sess, db, v, dbq[v][n]) /\ EntryView(db, v, dbq[v][n])
    BY <1>4, <2>1 DEF CoinsOK, FlightsOK, Viewed
  <2> QED BY <1>16, <2>1, <2>2
<1>18. CoinsOK(queue', sess', dbq', db')
  BY <1>10, <1>12, <1>15, <1>17 DEF CoinsOK
<1> DEFINE C == Charging(queue, sess)
           C2 == Charging(queue', sess')
<1>19. C2 \subseteq C \cup {r.id}
  <2> SUFFICES ASSUME NEW i \in C2, i # r.id PROVE i \in C
    OBVIOUS
  <2>1. i \in DOMAIN sess /\ sess[i].req.k \in Charges /\ Settled(queue', sess, i)
    BY <1>1 DEF Charging, Settled
  <2>2. Settled(queue, sess, i)
    BY <1>3, <1>14, <2>1 DEF Settled
  <2> QED BY <2>1, <2>2 DEF Charging
<1>20. ASSUME r.id \in C2, r.id \notin C
       PROVE  u \in Player /\ Paid(old) < Paid(made)
  <2>1. r.id \in DOMAIN sess /\ sess[r.id].req.k \in Charges /\ sess[r.id].save
        /\ ~Settled(queue, sess, r.id)
    BY <1>1, <1>20 DEF Charging, Settled
  <2>2. m.ok
    <3>1. PICK j \in DOMAIN queue' : queue'[j].k = "answer" /\ queue'[j].id = r.id /\ queue'[j].ok
      BY <1>20 DEF Charging, Settled
    <3> QED BY <1>14, <2>1, <3>1 DEF Settled
  <2>3. r.op = "save"
    BY <1>4, <1>5, <2>1 DEF FlightsOK, Expected, Asking
  <2>4. u \in Player /\ "gold" \in DOMAIN r.rec
    BY <1>6, <2>1, <2>3 DEF Pays
  <2>5. r.rec["gold"].ver = old.ver + 1 /\ made = r.rec["gold"]
    BY <1>3, <2>2, <2>3, <2>4 DEF old, made
  <2> QED BY <1>6, <2>1, <2>3, <2>4, <2>5 DEF Pays, old
<1>21. /\ Total(db) \in Nat /\ Total(db') \in Nat /\ Total(db) <= Total(db')
       /\ u \in Player /\ Paid(old) < Paid(made) => Total(db) < Total(db')
  <2>1. \A p \in Player : Paid(db[p].gold) <= Paid(db'[p].gold)
    <3> TAKE p \in Player
    <3>1. p \in Uid /\ Paid(db[p].gold) \in Nat
      BY <1>1, PaidTyped DEF Uid
    <3>2. Paid(db[p].gold) <= Paid(db[p].gold)
      BY <3>1
    <3> QED BY <1>8, <1>9, <3>1, <3>2 DEF old
  <2> QED BY <1>1, <2>1, TotalGrows DEF old, made
<1>22. games + retries + Cardinality(C2) <= Total(db')
  <2>1. /\ IsFiniteSet(C) /\ Cardinality(C) \in Nat
        /\ \A X : X \subseteq C => Cardinality(X) <= Cardinality(C) /\ Cardinality(X) \in Nat
    <3>1. IsFiniteSet(C) /\ Cardinality(C) \in Nat
      BY ChargingFinite DEF ServerOK
    <3> HIDE DEF C
    <3> QED BY <3>1, FS_Subset, FS_CardinalityType
  <2>2. games + retries + Cardinality(C) <= Total(db) /\ games \in Nat /\ retries \in Nat
    BY DEF PaidOK, ServerOK, CountsOK
  <2> HIDE DEF C, C2
  <2>3. CASE C2 \subseteq C
    <3>1. Cardinality(C2) <= Cardinality(C) /\ Cardinality(C2) \in Nat
      BY <2>1, <2>3
    <3> QED BY <1>21, <2>1, <2>2, <3>1
  <2>4. CASE r.id \in C2 /\ r.id \notin C
    <3>1. Total(db) < Total(db')
      BY <1>20, <1>21, <2>4
    <3>2. Cardinality(C2) <= Cardinality(C) + 1 /\ Cardinality(C2) \in Nat
      <4>1. Cardinality(C \cup {r.id}) = Cardinality(C) + 1 /\ IsFiniteSet(C \cup {r.id})
        BY <2>1, <2>4, FS_AddElement
      <4>2. Cardinality(C2) <= Cardinality(C \cup {r.id}) /\ IsFiniteSet(C2)
        BY <1>19, <4>1, FS_Subset
      <4> QED BY <4>1, <4>2, FS_CardinalityType
    <3> QED BY <1>21, <2>1, <2>2, <3>1, <3>2
  <2> QED BY <1>19, <2>3, <2>4
<1>23. (Cardinality(Charging(queue, sess)))' = Cardinality(C2)
  BY SameCoins
<1> HIDE DEF C, C2
<1> QED BY <1>1, <1>18, <1>22, <1>23, SameCoins DEF PaidOK

(* What a session has of its player when its handler goes on is known.     *)
LEMMA ProcessKnown ==
    ASSUME NEW R, ServerOK(R), FlightsOK(queue, sess, dbq, db), CoinsOK(queue, sess, dbq, db),
           queue # << >>, Head(queue).k = "answer", Process(Head(queue)).next \in {"query", "wait"}
    PROVE  LET a == Process(Head(queue)) IN Known(db, a.x.p, a.x.rec)
<1> DEFINE m == Head(queue)
           a == Process(m)
           x == sess[m.id]
<1>1. queue \in Seq(R \cup AnswerMsg) /\ 1 \in DOMAIN queue /\ m = queue[1]
  BY HeadTail DEF ServerOK, QueueOK
<1>2. m.id \in DOMAIN sess
  BY DEF Process
<1>3. Known(db, m.u, m.rec) /\ Known(db, x.p, x.rec) /\ m.u \in x.wait
  BY <1>1, <1>2 DEF CoinsOK, FlightsOK, Expected, Arriving
<1>4. x \in Ready(R)
  BY <1>2 DEF ServerOK, SessOK, Waits
<1> HIDE DEF m, x
<1>5. CASE x.save
  <2>1. a = SaveAnswer(m, x)
    BY <1>2, <1>5 DEF Process, x
  <2>2. a.x = [x EXCEPT !.save = FALSE, !.redo = @ + 1, !.rec = m.rec]
    BY <2>1 DEF SaveAnswer, Succeeded, m
  <2>3. m.u = x.p
    BY <1>2, <1>3, <1>5 DEF FlightsOK, Expected, Saving, x
  <2>4. a.x.p = x.p /\ a.x.rec = m.rec
    BY <1>4, <2>2 DEF Ready
  <2> QED BY <1>3, <2>3, <2>4 DEF m
<1>6. CASE ~x.save
  <2>1. a = QueryAnswer(m, x)
    BY <1>2, <1>6 DEF Process, x
  <2>2. a.x = [x EXCEPT !.wait = x.wait \ {m.u}, !.rec = IF m.u = x.p THEN m.rec ELSE @]
    BY <2>1 DEF QueryAnswer
  <2>3. a.x.p = x.p /\ a.x.rec = IF m.u = x.p THEN m.rec ELSE x.rec
    BY <1>4, <2>2 DEF Ready
  <2> QED BY <1>3, <2>3 DEF m
<1> QED BY <1>5, <1>6

(* No save of a handler takes from what the player paid, and a charge's    *)
(* adds to it.                                                             *)
LEMMA SavedPays ==
    ASSUME NEW b \in [Uid -> Rec], NEW x, x.p \in Uid, x.rec \in Rec, View(b, x.p, x.rec),
           Known(b, x.p, x.rec), NEW new \in Rec,
           \/ new \in Banked(x.rec)
           \/ x.req.k = "game_refund" /\ new \in Refunded(x.rec, x.req.game),
           x.p \in Player \/ new.gold.bet <= x.rec.gold.bet,
           NEW K \in {{"gold"}, {"base"}, Won}, x.req.k \in Charges => Charged(x, K, new),
           NEW id \in Nat, NEW s, id \in DOMAIN s => s[id].req = x.req
    PROVE  Pays(s, b, x.p, [id |-> id, op |-> "save", rec |-> [k \in K |-> [new[k] EXCEPT !.ver = @ + 1]]])
<1> DEFINE rec == [k \in K |-> [new[k] EXCEPT !.ver = @ + 1]]
           e == [id |-> id, op |-> "save", rec |-> rec]
           old == b[x.p].gold
           g == x.rec.gold
           h == new.gold
<1>1. h \in GoldInfo /\ g \in GoldInfo /\ old \in GoldInfo
  BY DEF Rec
<1>2. "gold" \in K => /\ rec["gold"].ver = h.ver + 1 /\ rec["gold"].refunded = h.refunded
                      /\ rec["gold"].spent = h.spent /\ rec["gold"].bet = h.bet
  BY <1>1 DEF GoldInfo
<1>3. /\ old.ver \in Nat /\ g.ver \in Nat /\ g.spent \in Nat /\ h.spent \in Nat /\ h.ver = g.ver
      /\ g.refunded \in Seq(Nat) /\ h.refunded \in Seq(Nat) /\ h.bet \in Nat /\ g.bet \in Nat
  BY <1>1 DEF GoldInfo, Banked, BankedGold, Refunded
<1>4. /\ e.id = id /\ e.op = "save" /\ e.rec = rec /\ DOMAIN rec = K
      /\ "gold" \in K => Paid(rec["gold"]) = Paid(h)
  BY <1>2 DEF Paid
<1>5. Paid(h) >= Paid(g) /\ (x.req.k \in Charges => Paid(h) > Paid(g))
  <2>1. CASE new \in Banked(x.rec)
    <3>1. h.refunded = g.refunded /\ h.spent >= g.spent
      BY <2>1 DEF Banked, BankedGold
    <3>2. x.req.k \in Charges => h.spent > g.spent
      BY DEF Charged
    <3>3. Len(g.refunded) \in Nat
      BY <1>3
    <3> HIDE DEF g, h
    <3> QED BY <1>3, <3>1, <3>2, <3>3 DEF Paid
  <2>2. CASE x.req.k = "game_refund" /\ new \in Refunded(x.rec, x.req.game)
    <3>1. h.refunded = Append(g.refunded, x.req.game) /\ h.spent + 1 >= g.spent
      BY <2>2 DEF Refunded
    <3>2. Len(h.refunded) = Len(g.refunded) + 1 /\ Len(g.refunded) \in Nat
      BY <1>3, <3>1
    <3>3. x.req.k \notin Charges
      BY <2>2 DEF Charges
    <3> HIDE DEF g, h
    <3> QED BY <1>3, <3>1, <3>2, <3>3 DEF Paid
  <2> QED BY <2>1, <2>2
<1>6. g.ver = old.ver => Paid(g) = Paid(old)
  BY DEF Known
<1>7. x.p \in Player \/ g.bet = 0
  BY DEF Known
<1>8. x.p \in Player \/ h.bet <= g.bet
  OBVIOUS
<1>9. x.req.k \in Charges => "gold" \in K /\ (x.p \in Player \/ g.bet > 0)
  BY DEF Charged
<1>10. Paid(h) \in Nat /\ Paid(g) \in Nat
  BY PaidTyped
<1> HIDE DEF e, rec, old, g, h
<1>11. x.p \in Player \/ h.bet = 0
  BY <1>3, <1>7, <1>8
<1>12. "gold" \in K /\ rec["gold"].ver = old.ver + 1 => g.ver = old.ver
  <2> HAVE "gold" \in K /\ rec["gold"].ver = old.ver + 1
  <2>1. g.ver + 1 = old.ver + 1
    BY ONLY <1>2, <1>3, "gold" \in K /\ rec["gold"].ver = old.ver + 1
  <2> QED BY ONLY <1>3, <2>1
<1>13. x.req.k \in Charges => x.p \in Player
  BY <1>3, <1>7, <1>9
<1>14. "gold" \in DOMAIN e.rec =>
         /\ x.p \in Player \/ e.rec["gold"].bet = 0
         /\ e.rec["gold"].ver = old.ver + 1 =>
              Paid(old) <= Paid(e.rec["gold"]) /\ (x.req.k \in Charges => Paid(old) < Paid(e.rec["gold"]))
  BY <1>2, <1>4, <1>5, <1>6, <1>10, <1>11, <1>12
<1>15. e.id \in DOMAIN s /\ s[e.id].req.k \in Charges => x.req.k \in Charges
  BY <1>4
<1>16. Pays(s, b, x.p, e)
  BY <1>4, <1>9, <1>13, <1>14, <1>15 DEF Pays, old
<1> QED BY <1>16 DEF e, rec

(* An answer is taken: what is counted is a charge that the answer says is *)
(* made.                                                                   *)
Counted(m) == \/ UNCHANGED counts
              \/ /\ games' + retries' = games + retries + 1
                 /\ Process(m).next = "save" /\ sess[m.id].req.k \in Charges /\ End(m.id)

LEMMA AnswerPaid ==
    ASSUME NEW R, Begins(R), ServerOK(R), RefundsOK, PaidOK, queue # << >>, Head(queue).k = "answer",
           queue' = Tail(queue), db' = db, CountsOK', AnswerTaken(Head(queue)), Counted(Head(queue))
    PROVE  PaidOK'
<1> DEFINE m == Head(queue)
           a == Process(m)
           x == a.x
           q == Tail(queue)
<1>1. /\ queue \in Seq(R \cup AnswerMsg) /\ 1 \in DOMAIN queue /\ m = queue[1]
      /\ \A j \in DOMAIN q : j + 1 \in DOMAIN queue /\ q[j] = queue[j + 1]
  BY HeadTail DEF ServerOK, QueueOK
<1>2. /\ FlightsOK(queue, sess, dbq, db) /\ FlightsOK(q, sess, dbq, db)
      /\ CoinsOK(queue, sess, dbq, db)
  BY <1>1, TakenFlight DEF RefundsOK, PaidOK
<1>3. m \in AnswerMsg
  BY <1>1, <1>2 DEF FlightsOK, Expected, Arriving
<1>4. \A j \in DOMAIN q : q[j].k = "answer" => \E n \in DOMAIN queue : queue[n] = q[j]
  BY <1>1
<1>5. dbq \in [Uid -> Seq(Asked \cup Change)] /\ db \in [Uid -> Rec] /\ DOMAIN sess \subseteq Nat
  BY DEF ServerOK, DbOK, SessOK
<1>6. \A j \in DOMAIN q : q[j].k = "answer" => q[j].u \in Uid
  BY <1>2 DEF FlightsOK, Expected, Arriving, AnswerMsg
<1> HIDE DEF m, a, q
<1> DEFINE Moved == CoinsOK(q, sess', dbq', db) /\ Charging(q, sess') \subseteq Charging(queue, sess)
<1>7. ASSUME Done PROVE Moved
  <2>1. sess' = sess /\ dbq' = dbq
    BY <1>7 DEF Done
  <2> QED BY <1>2, <1>4, <2>1, CoinsStay
<1>8. ASSUME End(m.id) PROVE Moved
  <2>1. dbq' = dbq /\ \A i \in DOMAIN sess' : i \in DOMAIN sess /\ sess'[i] = sess[i]
    BY <1>8 DEF End, Without
  <2> QED BY <1>2, <1>4, <2>1, CoinsStay
<1>9. ASSUME a.next = "wait", sess' = [sess EXCEPT ![m.id] = x], dbq' = dbq PROVE Moved
  <2>1. m.id \in DOMAIN sess /\ ~x.save
    BY <1>1, <1>2, <1>9, ProcessView DEF m, a
  <2>2. x.req = sess[m.id].req
    BY <1>3, <1>9, ProcessOK DEF a, ServerOK
  <2>3. Known(db, x.p, x.rec)
    BY <1>1, <1>2, <1>9, ProcessKnown DEF m, a
  <2> HIDE DEF x
  <2>4. /\ \A i \in DOMAIN sess' : i # m.id => i \in DOMAIN sess /\ sess'[i] = sess[i]
        /\ sess'[m.id] = x
    BY <1>9, <2>1
  <2>5. ~Settled(q, sess', m.id)
    BY <2>1, <2>4 DEF Settled
  <2>6. Charging(q, sess') \subseteq Charging(queue, sess)
    BY <1>4, <2>4, <2>5, ChargingMoves
  <2>7. CoinsOK(q, sess', dbq', db)
    <3>1. Known(db, sess'[m.id].p, sess'[m.id].rec)
      BY <2>3, <2>4
    <3>2. m.id \in DOMAIN sess' /\ sess'[m.id].req.k \in Charges =>
             m.id \in DOMAIN sess /\ sess[m.id].req.k \in Charges
      BY <2>1, <2>2, <2>4
    <3>3. Asking2(sess', db, dbq, dbq')
      BY <1>9 DEF Asking2
    <3>4. OnlyOne(sess, sess', m.id) /\ Onward(queue, q)
      BY <1>4, <2>4 DEF OnlyOne, Onward
    <3> QED BY <1>2, <3>1, <3>2, <3>3, <3>4, CoinsMove
  <2> QED BY <2>6, <2>7
<1>10. ASSUME a.next = "query"
       PROVE  /\ m.id \in DOMAIN sess /\ m.id \in Nat /\ ~x.save /\ View(db, x.p, x.rec)
              /\ Known(db, x.p, x.rec) /\ x.req = sess[m.id].req /\ x \in Ready(R)
              /\ \A u \in Uid : ~OnWay(q, dbq, m.id, u)
  <2>1. /\ m.id \in DOMAIN sess /\ ~x.save /\ View(db, x.p, x.rec)
        /\ \A u \in Uid : ~OnWay(q, dbq, m.id, u)
    BY <1>1, <1>2, <1>10, ProcessView DEF m, a, q
  <2>2. x.req = sess[m.id].req /\ x \in Ready(R)
    BY <1>3, <1>10, ProcessOK DEF a, ServerOK
  <2>3. Known(db, x.p, x.rec)
    BY <1>1, <1>2, <1>10, ProcessKnown DEF m, a
  <2> QED BY <1>5, <2>1, <2>2, <2>3
(* Session m.id goes on as y and sends e about the users U.                *)
<1>11. ASSUME a.next = "query", NEW y, NEW U \in SUBSET Uid, NEW e, e \in Asked \cup Change, e.id = m.id,
              sess' = [sess EXCEPT ![m.id] = y], y.p = x.p, y.rec = x.rec,
              \A u \in Uid : dbq'[u] = IF u \in U THEN Append(dbq[u], e) ELSE dbq[u],
              \A u \in U : Pays(sess', db, u, e)
       PROVE  Moved
  <2>1. /\ m.id \in DOMAIN sess /\ Known(db, x.p, x.rec) /\ \A u \in Uid : ~OnWay(q, dbq, m.id, u)
    BY <1>10, <1>11
  <2> HIDE DEF x
  <2>2. /\ \A i \in DOMAIN sess' : i # m.id => i \in DOMAIN sess /\ sess'[i] = sess[i]
        /\ sess'[m.id] = y
    BY <1>11, <2>1
  <2>3. ~Settled(q, sess', m.id)
    BY <1>6, <2>1 DEF Settled, OnWay
  <2>4. Charging(q, sess') \subseteq Charging(queue, sess)
    BY <1>4, <2>2, <2>3, ChargingMoves
  <2>5. \A u \in Uid : \A i \in DOMAIN dbq[u] : dbq[u][i].id # m.id
    BY <2>1 DEF OnWay
  <2>6. ASSUME NEW u \in Uid, NEW i \in DOMAIN dbq'[u]
        PROVE  Pays(sess', db, u, dbq'[u][i]) \/ \E n \in DOMAIN dbq[u] : dbq[u][n] = dbq'[u][i]
    <3>1. dbq[u] \in Seq(Asked \cup Change)
      BY <1>5
    <3>2. CASE u \in U
      <4>1. dbq'[u] = Append(dbq[u], e)
        BY <1>11, <3>2
      <4>2. (i \in DOMAIN dbq[u] /\ dbq'[u][i] = dbq[u][i]) \/ dbq'[u][i] = e
        BY <1>11, <3>1, <4>1, OldEntry
      <4> QED BY <1>11, <3>2, <4>2
    <3>3. CASE u \notin U
      BY <1>11, <3>3
    <3> QED BY <3>2, <3>3
  <2>7. Known(db, sess'[m.id].p, sess'[m.id].rec)
    BY <1>11, <2>1, <2>2
  <2>8. CoinsOK(q, sess', dbq', db)
    <3>1. OnlyOne(sess, sess', m.id) /\ Onward(queue, q)
      BY <1>4, <2>2 DEF OnlyOne, Onward
    <3>2. Asking2(sess', db, dbq, dbq') /\ Unasked(dbq, m.id)
      BY <2>5, <2>6 DEF Asking2, Unasked
    <3> QED BY <1>2, <2>7, <3>1, <3>2, CoinsMove
  <2> QED BY <2>4, <2>8
<1>12. ASSUME a.next = "query", Saves(m.id, x) PROVE Moved
  <2>1. /\ m.id \in DOMAIN sess /\ m.id \in Nat /\ ~x.save /\ View(db, x.p, x.rec)
        /\ Known(db, x.p, x.rec) /\ x.req = sess[m.id].req /\ x \in Ready(R)
    BY <1>10, <1>12
  <2> HIDE DEF x, Moved
  <2>2. PICK K \in {{"gold"}, {"base"}, Won}, new \in Rec :
             /\ \/ new \in Banked(x.rec)
                \/ x.req.k = "game_refund" /\ new \in Refunded(x.rec, x.req.game)
             /\ x.p \in Player \/ new.gold.bet <= x.rec.gold.bet
             /\ x.req.k \in Charges => Charged(x, K, new)
             /\ Save(m.id, x, K, new)
    BY <1>12 DEF Saves
  <2> DEFINE e == [id |-> m.id, op |-> "save", rec |-> [k \in K |-> [new[k] EXCEPT !.ver = @ + 1]]]
             y == [x EXCEPT !.save = TRUE, !.wait = {x.p}]
  <2>3. x.p \in Uid /\ x.rec \in Rec /\ y.p = x.p /\ y.rec = x.rec /\ y.req = x.req
    BY <2>1 DEF Ready
  <2>4. e \in Change /\ e.id = m.id
    BY <2>1, SavedParts DEF Change
  <2>5. sess' = [sess EXCEPT ![m.id] = y] /\ dbq' = [dbq EXCEPT ![x.p] = Append(@, e)]
    BY <2>2 DEF Save
  <2> HIDE DEF y
  <2>6. sess'[m.id].req = x.req
    BY <2>1, <2>3, <2>5
  <2>7. Pays(sess', db, x.p, e)
    BY <1>5, <2>1, <2>2, <2>3, <2>6, SavedPays, ZenonT(30)
  <2> HIDE DEF e
  <2>8. \A u \in Uid : dbq'[u] = IF u \in {x.p} THEN Append(dbq[u], e) ELSE dbq[u]
    BY <1>5, <2>3, <2>5
  <2>9. {x.p} \in SUBSET Uid /\ e \in Asked \cup Change /\ \A u \in {x.p} : Pays(sess', db, u, e)
    BY <2>3, <2>4, <2>7
  <2> QED BY <1>11, <1>12, <2>3, <2>4, <2>5, <2>8, <2>9 DEF x
<1>13. ASSUME a.next = "query", AsksAgain(m.id, x) PROVE Moved
  <2>1. m.id \in DOMAIN sess /\ m.id \in Nat /\ x \in Ready(R)
    BY <1>10, <1>13
  <2> HIDE DEF x, Moved
  <2>2. PICK req, U : /\ U \in SUBSET Uid /\ req.k \notin {"game_refund"} \cup Charges
                                     /\ sess' = [sess EXCEPT ![m.id] = [x EXCEPT !.req = req, !.wait = U]]
                                     /\ Query(m.id, U)
    BY <1>13 DEF AsksAgain
  <2> DEFINE e == [id |-> m.id, op |-> "query"]
             y == [x EXCEPT !.req = req, !.wait = U]
  <2>3. y.p = x.p /\ y.rec = x.rec
    BY <2>1 DEF Ready
  <2>4. e \in Asked \cup Change /\ e.id = m.id /\ e.op = "query"
    BY <2>1 DEF Asked
  <2>5. \A u \in Uid : dbq'[u] = IF u \in U THEN Append(dbq[u], e) ELSE dbq[u]
    BY <2>2 DEF Query
  <2>6. sess' = [sess EXCEPT ![m.id] = y]
    BY <2>2
  <2> HIDE DEF e, y
  <2>7. \A u \in U : Pays(sess', db, u, e)
    BY <2>4 DEF Pays
  <2>8. U \in SUBSET Uid /\ e \in Asked \cup Change
    BY <2>2, <2>4
  <2> QED BY <1>11, <1>13, <2>3, <2>4, <2>5, <2>6, <2>7, <2>8 DEF x
<1>14. Moved
  <2> HIDE DEF Moved
  <2> QED BY <1>7, <1>8, <1>9, <1>12, <1>13 DEF AnswerTaken, m, a
<1>15. CoinsOK(queue', sess', dbq', db) /\ Charging(queue', sess') \subseteq Charging(queue, sess)
  BY <1>14 DEF q
<1>16. CASE UNCHANGED counts
  BY <1>15, <1>16, PaidMoves DEF counts
<1>17. CASE /\ games' + retries' = games + retries + 1
            /\ a.next = "save" /\ sess[m.id].req.k \in Charges /\ End(m.id)
  <2>1. m.id \in DOMAIN sess
    BY <1>17 DEF Process, a
  <2>2. sess[m.id].save /\ m.ok
    BY <1>17, <2>1 DEF Process, SaveAnswer, QueryAnswer, Succeeded, a
  <2>3. m.id \in Charging(queue, sess)
    BY <1>1, <1>3, <1>17, <2>1, <2>2 DEF Charging, Settled, AnswerMsg
  <2>4. m.id \notin DOMAIN sess'
    BY <1>17 DEF End, Without
  <2>5. m.id \notin Charging(queue', sess')
    BY <2>4 DEF Charging
  <2> QED BY <1>15, <1>17, <2>3, <2>5, PaidMoves
<1> QED BY <1>16, <1>17 DEF Counted, m, a

LEMMA NewKnown ==
    ASSUME NEW q, NEW s, NEW d, NEW b, CoinsOK(q, s, d, b), NEW p \in Uid
    PROVE  Known(b, p, Account(0))
<1>1. Account(0).gold.ver = 0 /\ Account(0).gold.bet = 0 /\ Paid(Account(0).gold) = 0
  BY DEF Account, Paid
<1>2. Book(b, p)
  BY DEF CoinsOK
<1> QED BY <1>1, <1>2 DEF Known, Book

(* A request begins with what the server has of nobody's gold.             *)
LEMMA RequestPaid ==
    ASSUME NEW R, Begins(R), ServerOK(R), PaidOK, queue # << >>, Head(queue).k # "answer",
           db' = db, UNCHANGED counts, CountsOK', RequestTaken(R)
    PROVE  PaidOK'
<1> PICK ms \in Seq(R) : Sends(ms)
  BY DEF RequestTaken
<1> DEFINE q == Tail(queue)
           Moved == CoinsOK(queue', sess', dbq', db) /\ Charging(queue', sess') \subseteq Charging(queue, sess)
<1>1. /\ q \in Seq(R \cup AnswerMsg) /\ ms \in Seq(R \cup AnswerMsg) /\ queue' = q \o ms
      /\ \A i \in DOMAIN ms : ms[i].k # "answer"
      /\ \A j \in DOMAIN q : j + 1 \in DOMAIN queue /\ q[j] = queue[j + 1]
  BY HeadTail, WidenSeq DEF ServerOK, QueueOK, Sends, Post, Begins
<1> HIDE DEF q
<1>2. \A j \in DOMAIN queue' : queue'[j].k = "answer" => \E n \in DOMAIN q : q[n] = queue'[j]
  BY <1>1, OldAnswers
<1>3. \A j \in DOMAIN queue' : queue'[j].k = "answer" => \E n \in DOMAIN queue : queue[n] = queue'[j]
  BY <1>1, <1>2
<1>4. dbq \in [Uid -> Seq(Asked \cup Change)] /\ CoinsOK(queue, sess, dbq, db)
  BY DEF ServerOK, DbOK, PaidOK
<1>5. ASSUME Done PROVE Moved
  <2>1. sess' = sess /\ dbq' = dbq
    BY <1>5 DEF Done
  <2> QED BY <1>3, <1>4, <2>1, CoinsStay
<1>6. ASSUME NEW n \in R, NEW p \in Uid, NEW U \in SUBSET Uid, Ask(n, p, U)
      PROVE  Moved
  <2> DEFINE id == NewId
             e == [id |-> id, op |-> "query"]
             x == [req |-> n, p |-> p, save |-> FALSE, wait |-> U, redo |-> 0, rec |-> Account(0)]
  <2>1. id \in Nat /\ id \notin InUse
    BY NewIdFresh DEF ServerOK
  <2>2. /\ \A u \in Uid : \A i \in DOMAIN dbq[u] : dbq[u][i].id # id
        /\ \A j \in DOMAIN queue : queue[j].k = "answer" => queue[j].id # id
    <3> HIDE DEF id
    <3> QED BY <2>1 DEF InUse
  <2>3. /\ sess' = [i \in DOMAIN sess \cup {id} |-> IF i # id THEN sess[i] ELSE x]
        /\ dbq' = [u \in Uid |-> IF u \in U THEN Append(dbq[u], e) ELSE dbq[u]]
    BY <1>6 DEF Ask, Query
  <2> HIDE DEF id
  <2>4. e \in Asked /\ e.op = "query"
    BY <2>1 DEF Asked
  <2>5. x.p = p /\ x.rec = Account(0) /\ ~x.save
    OBVIOUS
  <2> HIDE DEF e, x
  <2>6. /\ \A i \in DOMAIN sess' : i # id => i \in DOMAIN sess /\ sess'[i] = sess[i]
        /\ id \in DOMAIN sess' /\ sess'[id] = x
    BY <2>3
  <2>7. ~Settled(queue', sess', id)
    BY <1>3, <2>2, <2>5, <2>6 DEF Settled
  <2>8. Charging(queue', sess') \subseteq Charging(queue, sess)
    BY <1>3, <2>6, <2>7, ChargingMoves
  <2>9. Pays(sess', db, p, e) /\ \A u \in Uid : Pays(sess', db, u, e)
    BY <2>4 DEF Pays
  <2>10. ASSUME NEW u \in Uid, NEW i \in DOMAIN dbq'[u]
         PROVE  Pays(sess', db, u, dbq'[u][i]) \/ \E k \in DOMAIN dbq[u] : dbq[u][k] = dbq'[u][i]
    <3>1. dbq[u] \in Seq(Asked \cup Change)
      BY <1>4
    <3>2. CASE u \in U
      <4>1. dbq'[u] = Append(dbq[u], e) /\ e \in Asked \cup Change
        BY <2>3, <2>4, <3>2
      <4>2. (i \in DOMAIN dbq[u] /\ dbq'[u][i] = dbq[u][i]) \/ dbq'[u][i] = e
        BY <3>1, <4>1, OldEntry
      <4> QED BY <2>9, <4>2
    <3>3. CASE u \notin U
      BY <2>3, <3>3
    <3> QED BY <3>2, <3>3
  <2>11. CoinsOK(queue', sess', dbq', db)
    <3>1. OnlyOne(sess, sess', id) /\ Onward(queue, queue')
      BY <1>3, <2>6 DEF OnlyOne, Onward
    <3>2. Asking2(sess', db, dbq, dbq') /\ Unasked(dbq, id)
      BY <2>2, <2>10 DEF Asking2, Unasked
    <3>3. Known(db, sess'[id].p, sess'[id].rec)
      BY <1>4, <2>5, <2>6, NewKnown
    <3> QED BY <1>4, <3>1, <3>2, <3>3, CoinsMove
  <2> QED BY <2>8, <2>11
<1>7. Moved
  <2> HIDE DEF Moved
  <2> QED BY <1>5, <1>6 DEF RequestTaken, Asks
<1> QED BY <1>7, PaidMoves DEF counts

(* What is counted and about to be counted was paid, so what is counted    *)
(* was.                                                                    *)
LEMMA PaidIsFor ==
    ASSUME NEW R, ServerOK(R), PaidOK
    PROVE  PaidFor
<1>1. Cardinality(Charging(queue, sess)) \in Nat
  BY ChargingFinite DEF ServerOK
<1>2. games \in Nat /\ retries \in Nat /\ Total(db) \in Nat
  <2>1. \A p \in Player : Paid(db[p].gold) <= Paid(db[p].gold)
    <3> TAKE p \in Player
    <3>1. Paid(db[p].gold) \in Nat
      BY PaidTyped DEF ServerOK, DbOK, Uid
    <3> QED BY <3>1
  <2>2. Total(db) \in Nat
    BY <2>1, TotalGrows DEF ServerOK, DbOK
  <2> QED BY <2>2 DEF ServerOK, CountsOK
<1>3. games + retries <= Total(db)
  BY <1>1, <1>2 DEF PaidOK
<1> QED BY <1>3 DEF PaidFor, Total, Paid

-----------------------------------------------------------------------------
(* The way of a prize.  A game goes through the states in which it can win *)
(* one in this order, and never back.                                      *)
Stage(st) == CASE st = "wait_end"     -> 0
               [] st = "wait_lottery" -> 1
               [] st = "lottery_end"  -> 2
               [] st = "lottery_ani"  -> 3
               [] st = "wait_buy"     -> 4
               [] OTHER               -> 5

(* The stage at which a game wins its prize in way w, and the request.     *)
Ways == {"win", "lottery", "buy"}
WonAt(w) == CASE w = "win" -> 0 [] w = "lottery" -> 1 [] OTHER -> 4
WonBy(w) == IF w = "win" THEN "end" ELSE w

(* With n games begun and the game in state st, the prize e = <<way, game>> *)
(* may have been won, and cannot be won any more.                          *)
Reached(n, st, e) == e[2] < n \/ (e[2] = n /\ WonAt(e[1]) <= Stage(st))
Past(n, st, e)    == e[2] < n \/ (e[2] = n /\ WonAt(e[1]) < Stage(st))
Forward(n, st, n2, st2) == n < n2 \/ (n = n2 /\ Stage(st) <= Stage(st2))

(* Message i of the queue tells the session that won e that it is saved.   *)
Tells(q, s, e, i) == /\ q[i].k = "answer" /\ q[i].ok /\ q[i].id \in DOMAIN s
                     /\ s[q[i].id].save /\ s[q[i].id].req.k = WonBy(e[1])

(* Who hears of e after j has heard that it cannot be won any more.        *)
Noted(q, s, n, st, e, j) ==
    \/ Past(n, st, e)
    \/ Reached(n, st, e) /\ \E i \in DOMAIN q : i < j /\ Tells(q, s, e, i)

Distinct(f) == \A i, j \in DOMAIN f : f[i] = f[j] => i = j
Booked(q, s, n, st, f, j) == Distinct(f) /\ \A i \in DOMAIN f : Noted(q, s, n, st, f[i], j)
Over(n, st, f) == Distinct(f) /\ \A i \in DOMAIN f : Past(n, st, f[i])

(* Of the prizes f that a session id is about to save, it waits to hear    *)
(* that the new one is saved.                                              *)
Holding(s, id, w) == id \in DOMAIN s /\ s[id].save /\ s[id].req.k = WonBy(w)
Awaited(s, n, st, f, id) ==
    /\ Distinct(f)
    /\ \A i \in DOMAIN f : Past(n, st, f[i]) \/ (Reached(n, st, f[i]) /\ Holding(s, id, f[i][1]))
Entering(s, n, st, e) ==
    e.op = "save" /\ "prize" \in DOMAIN e.rec => Awaited(s, n, st, e.rec["prize"].won, e.id)

(* No record, on its way or not, has a prize twice, and who knows that a   *)
(* prize was won comes when it cannot be won again.                        *)
PrizesIn(q, s, d, b, n, st) ==
    /\ \A u \in Uid : Booked(q, s, n, st, b[u].prize.won, Len(q) + 1)
    /\ \A id \in DOMAIN s : Over(n, st, s[id].rec.prize.won)
    /\ \A j \in DOMAIN q : q[j].k = "answer" => Booked(q, s, n, st, q[j].rec.prize.won, j)
    /\ \A u \in Uid : \A i \in DOMAIN d[u] : Entering(s, n, st, d[u][i])
PrizesOK == PrizesIn(queue, sess, dbq, db, games, obj.state)

LEMMA StagesAre ==
    /\ Stage("wait_end") = 0 /\ Stage("wait_lottery") = 1 /\ Stage("lottery_end") = 2
    /\ Stage("lottery_ani") = 3 /\ Stage("wait_buy") = 4
    /\ \A st \in {"wait_player", "wait_start", "buy_ani"} : Stage(st) = 5
    /\ \A st : /\ Stage(st) = 0 => st = "wait_end"
               /\ Stage(st) = 1 => st = "wait_lottery"
               /\ Stage(st) = 4 => st = "wait_buy"
  BY DEF Stage

LEMMA StageIs ==
    /\ \A st : Stage(st) \in 0 .. 5
    /\ \A w \in Ways : WonAt(w) \in 0 .. 4
  BY DEF Stage, WonAt, Ways

LEMMA GoneForward ==
    ASSUME NEW n \in Nat, NEW st, NEW n2 \in Nat, NEW st2, Forward(n, st, n2, st2), NEW e \in Ways \X Nat
    PROVE  /\ Past(n, st, e) => Past(n2, st2, e)
           /\ Reached(n, st, e) => Reached(n2, st2, e)
           /\ Past(n, st, e) => Reached(n, st, e)
<1> DEFINE a == Stage(st)
           b == Stage(st2)
           c == WonAt(e[1])
           g == e[2]
<1>1. a \in Nat /\ b \in Nat /\ c \in Nat /\ g \in Nat
  BY StageIs
<1>2. n < n2 \/ (n = n2 /\ a <= b)
  BY DEF Forward
<1> HIDE DEF a, b, c, g
<1>3. /\ g < n \/ (g = n /\ c < a) => g < n2 \/ (g = n2 /\ c < b)
      /\ g < n \/ (g = n /\ c <= a) => g < n2 \/ (g = n2 /\ c <= b)
      /\ g < n \/ (g = n /\ c < a) => g < n \/ (g = n /\ c <= a)
  BY <1>1, <1>2
<1> QED BY <1>3 DEF Past, Reached, a, b, c, g

(* The queue q2 is q, without its first message if k = 1, and with others  *)
(* that are no answers.                                                    *)
Shifts(q, q2, k) ==
    /\ k \in {0, 1} /\ Len(q) <= Len(q2) + k
    /\ \A i \in DOMAIN q : q[i].k = "answer" /\ i > k => i - k \in DOMAIN q2 /\ q2[i - k] = q[i]
    /\ \A j \in DOMAIN q2 : q2[j].k = "answer" => j + k \in DOMAIN q /\ q2[j] = q[j + k]

(* The sessions that wait for an answer to a save still do, but for the    *)
(* one that has it.                                                        *)
Holds(s, s2, id) == id \in DOMAIN s /\ s[id].save =>
                      id \in DOMAIN s2 /\ s2[id].save /\ s2[id].req.k = s[id].req.k
HoldsAll(q, d, s, s2, k) ==
    /\ \A i \in DOMAIN q : q[i].k = "answer" /\ i > k => Holds(s, s2, q[i].id)
    /\ \A u \in Uid : \A i \in DOMAIN d[u] : Holds(s, s2, d[u][i].id)

(* Who hears that his prize is saved goes on.                              *)
Hears(q, s, n, st, n2, st2, k) ==
    k = 1 => \A e \in Ways \X Nat : Tells(q, s, e, 1) /\ Reached(n, st, e) => Past(n2, st2, e)

Moved(q, s, d, n, st, q2, s2, n2, st2, k) ==
    /\ Forward(n, st, n2, st2) /\ Shifts(q, q2, k) /\ HoldsAll(q, d, s, s2, k)
    /\ Hears(q, s, n, st, n2, st2, k)

LEMMA NotedMoves ==
    ASSUME NEW S, NEW q \in Seq(S), NEW S2, NEW q2 \in Seq(S2), NEW s, NEW d, NEW s2,
           NEW n \in Nat, NEW n2 \in Nat, NEW st, NEW st2, NEW k,
           Moved(q, s, d, n, st, q2, s2, n2, st2, k),
           NEW e \in Ways \X Nat, NEW j \in Nat, NEW j2 \in Nat, j <= j2 + k,
           Noted(q, s, n, st, e, j)
    PROVE  Noted(q2, s2, n2, st2, e, j2)
<1>1. CASE Past(n, st, e)
  <2>1. Past(n2, st2, e)
    BY <1>1, GoneForward DEF Moved
  <2> QED BY <2>1 DEF Noted
<1>2. ASSUME Reached(n, st, e), NEW i \in DOMAIN q, i < j, Tells(q, s, e, i)
      PROVE  Noted(q2, s2, n2, st2, e, j2)
  <2>1. Reached(n2, st2, e)
    BY <1>2, GoneForward DEF Moved
  <2>2. k \in {0, 1} /\ i \in Nat \ {0}
    BY DEF Moved, Shifts
  <2>3. CASE i > k
    <3>1. i - k \in DOMAIN q2 /\ q2[i - k] = q[i] /\ Holds(s, s2, q[i].id)
      BY <1>2, <2>3 DEF Moved, Shifts, HoldsAll, Tells
    <3>2. Tells(q2, s2, e, i - k)
      BY <1>2, <3>1 DEF Tells, Holds
    <3>3. i - k < j2
      BY <1>2, <2>2, <2>3
    <3> QED BY <2>1, <3>1, <3>2, <3>3 DEF Noted
  <2>4. CASE ~(i > k)
    <3>1. k = 1 /\ i = 1
      BY <2>2, <2>4
    <3>2. Past(n2, st2, e)
      BY <1>2, <3>1 DEF Moved, Hears
    <3> QED BY <3>2 DEF Noted
  <2> QED BY <2>3, <2>4
<1> QED BY <1>1, <1>2 DEF Noted

Wins == Seq(Ways \X Nat)

LEMMA BookedMoves ==
    ASSUME NEW S, NEW q \in Seq(S), NEW S2, NEW q2 \in Seq(S2), NEW s, NEW d, NEW s2,
           NEW n \in Nat, NEW n2 \in Nat, NEW st, NEW st2, NEW k,
           Moved(q, s, d, n, st, q2, s2, n2, st2, k),
           NEW f \in Wins, NEW j \in Nat, NEW j2 \in Nat, j <= j2 + k, Booked(q, s, n, st, f, j)
    PROVE  Booked(q2, s2, n2, st2, f, j2)
<1>1. ASSUME NEW i \in DOMAIN f PROVE Noted(q2, s2, n2, st2, f[i], j2)
  <2>1. f[i] \in Ways \X Nat
    BY DEF Wins
  <2>2. Noted(q, s, n, st, f[i], j)
    BY DEF Booked
  <2> QED BY <2>1, <2>2, NotedMoves
<1> QED BY <1>1 DEF Booked

LEMMA OverMoves ==
    ASSUME NEW n \in Nat, NEW n2 \in Nat, NEW st, NEW st2, Forward(n, st, n2, st2),
           NEW f \in Wins, Over(n, st, f)
    PROVE  Over(n2, st2, f)
<1>1. ASSUME NEW i \in DOMAIN f PROVE Past(n2, st2, f[i])
  <2>1. f[i] \in Ways \X Nat
    BY DEF Wins
  <2>2. Past(n, st, f[i])
    BY DEF Over
  <2> QED BY <2>1, <2>2, GoneForward
<1> QED BY <1>1 DEF Over

LEMMA AwaitedMoves ==
    ASSUME NEW n \in Nat, NEW n2 \in Nat, NEW st, NEW st2, Forward(n, st, n2, st2),
           NEW s, NEW s2, NEW id, Holds(s, s2, id), NEW f \in Wins, Awaited(s, n, st, f, id)
    PROVE  Awaited(s2, n2, st2, f, id)
<1>1. ASSUME NEW i \in DOMAIN f
      PROVE  Past(n2, st2, f[i]) \/ (Reached(n2, st2, f[i]) /\ Holding(s2, id, f[i][1]))
  <2>1. f[i] \in Ways \X Nat
    BY DEF Wins
  <2>2. Past(n, st, f[i]) \/ (Reached(n, st, f[i]) /\ Holding(s, id, f[i][1]))
    BY DEF Awaited
  <2>3. Holding(s, id, f[i][1]) => Holding(s2, id, f[i][1])
    BY DEF Holds, Holding
  <2> QED BY <2>1, <2>2, <2>3, GoneForward
<1> QED BY <1>1 DEF Awaited

(* What is won is a sequence wherever it is.                               *)
WinsTyped(q, s, d, b) ==
    /\ \A u \in Uid : b[u].prize.won \in Wins
    /\ \A id \in DOMAIN s : s[id].rec.prize.won \in Wins
    /\ \A j \in DOMAIN q : q[j].k = "answer" => q[j].rec.prize.won \in Wins
    /\ \A u \in Uid : \A i \in DOMAIN d[u] : d[u][i].op = "save" /\ "prize" \in DOMAIN d[u][i].rec =>
          d[u][i].rec["prize"].won \in Wins

LEMMA ServerWins ==
    ASSUME NEW R, ServerOK(R), FlightsOK(queue, sess, dbq, db)
    PROVE  WinsTyped(queue, sess, dbq, db)
<1>1. \A r \in Rec : r.prize.won \in Wins
  BY DEF Rec, PrizeInfo, Wins, Ways
<1>2. \A u \in Uid : db[u].prize.won \in Wins
  BY <1>1 DEF ServerOK, DbOK
<1>3. \A id \in DOMAIN sess : sess[id].rec.prize.won \in Wins
  BY <1>1 DEF ServerOK, SessOK, Waits, Ready
<1>4. \A j \in DOMAIN queue : queue[j].k = "answer" => queue[j].rec.prize.won \in Wins
  BY <1>1 DEF FlightsOK, Expected, Arriving, AnswerMsg
<1>5. ASSUME NEW u \in Uid, NEW i \in DOMAIN dbq[u], dbq[u][i].op = "save",
             "prize" \in DOMAIN dbq[u][i].rec
      PROVE  dbq[u][i].rec["prize"].won \in Wins
  <2>1. dbq[u][i] \in Asked \cup Change
    BY <1>5 DEF ServerOK, DbOK
  <2>2. dbq[u][i].rec \in Parts
    BY <1>5, <2>1 DEF Asked, Change
  <2>3. dbq[u][i].rec["prize"] \in PrizeInfo
    BY <1>5, <2>2 DEF Parts
  <2> QED BY <2>3 DEF PrizeInfo, Wins, Ways
<1> QED BY <1>2, <1>3, <1>4, <1>5 DEF WinsTyped

(* A step that makes no save.                                              *)
Enters2(s2, n2, st2, d, d2) ==
    \A u \in Uid : \A i \in DOMAIN d2[u] :
       Entering(s2, n2, st2, d2[u][i]) \/ \E h \in DOMAIN d[u] : d[u][h] = d2[u][i]

LEMMA PrizesMove ==
    ASSUME NEW S, NEW q \in Seq(S), NEW S2, NEW q2 \in Seq(S2), NEW s, NEW d, NEW s2, NEW d2, NEW b,
           NEW n \in Nat, NEW n2 \in Nat, NEW st, NEW st2, NEW k,
           WinsTyped(q, s, d, b), PrizesIn(q, s, d, b, n, st),
           Moved(q, s, d, n, st, q2, s2, n2, st2, k),
           NEW z, OnlyOne(s, s2, z), z \in DOMAIN s2 => Over(n2, st2, s2[z].rec.prize.won),
           Enters2(s2, n2, st2, d, d2)
    PROVE  PrizesIn(q2, s2, d2, b, n2, st2)
<1>1. k \in {0, 1} /\ Len(q) \in Nat /\ Len(q2) \in Nat /\ Len(q) <= Len(q2) + k /\ Forward(n, st, n2, st2)
  BY DEF Moved, Shifts
<1>2. ASSUME NEW u \in Uid PROVE Booked(q2, s2, n2, st2, b[u].prize.won, Len(q2) + 1)
  <2>1. b[u].prize.won \in Wins /\ Booked(q, s, n, st, b[u].prize.won, Len(q) + 1)
    BY <1>2 DEF WinsTyped, PrizesIn
  <2>2. Len(q) + 1 \in Nat /\ Len(q2) + 1 \in Nat /\ Len(q) + 1 <= (Len(q2) + 1) + k
    BY <1>1
  <2> QED BY <2>1, <2>2, BookedMoves
<1>3. ASSUME NEW id \in DOMAIN s2 PROVE Over(n2, st2, s2[id].rec.prize.won)
  <2>1. CASE id # z
    <3>1. id \in DOMAIN s /\ s2[id] = s[id]
      BY <1>3, <2>1 DEF OnlyOne
    <3>2. s[id].rec.prize.won \in Wins /\ Over(n, st, s[id].rec.prize.won)
      BY <3>1 DEF WinsTyped, PrizesIn
    <3> QED BY <1>1, <3>1, <3>2, OverMoves
  <2> QED BY <1>3, <2>1
<1>4. ASSUME NEW j \in DOMAIN q2, q2[j].k = "answer"
      PROVE  Booked(q2, s2, n2, st2, q2[j].rec.prize.won, j)
  <2>1. j + k \in DOMAIN q /\ q2[j] = q[j + k]
    BY <1>4 DEF Moved, Shifts
  <2>2. q2[j].rec.prize.won \in Wins /\ Booked(q, s, n, st, q2[j].rec.prize.won, j + k)
    BY <1>4, <2>1 DEF WinsTyped, PrizesIn
  <2>3. j \in Nat /\ j + k \in Nat /\ j + k <= j + k
    BY <1>1
  <2> QED BY <2>2, <2>3, BookedMoves
<1>5. ASSUME NEW u \in Uid, NEW i \in DOMAIN d[u] PROVE Entering(s2, n2, st2, d[u][i])
  <2> DEFINE e == d[u][i]
  <2>1. Entering(s, n, st, e) /\ Holds(s, s2, e.id)
    BY <1>5 DEF PrizesIn, Moved, HoldsAll
  <2>2. e.op = "save" /\ "prize" \in DOMAIN e.rec => e.rec["prize"].won \in Wins
    BY <1>5 DEF WinsTyped
  <2> HIDE DEF e
  <2>3. Entering(s2, n2, st2, e)
    <3> SUFFICES ASSUME e.op = "save", "prize" \in DOMAIN e.rec
                 PROVE  Awaited(s2, n2, st2, e.rec["prize"].won, e.id)
      BY DEF Entering
    <3>1. Awaited(s, n, st, e.rec["prize"].won, e.id)
      BY <2>1 DEF Entering
    <3> QED BY <1>1, <2>1, <2>2, <3>1, AwaitedMoves
  <2> QED BY <2>3 DEF e
<1>6. \A u \in Uid : \A i \in DOMAIN d2[u] : Entering(s2, n2, st2, d2[u][i])
  <2> TAKE u \in Uid
  <2> TAKE i \in DOMAIN d2[u]
  <2>1. CASE \E h \in DOMAIN d[u] : d[u][h] = d2[u][i]
    <3>1. PICK h \in DOMAIN d[u] : d[u][h] = d2[u][i]
      BY <2>1
    <3>2. Entering(s2, n2, st2, d[u][h])
      BY <1>5
    <3> QED BY <3>1, <3>2
  <2> QED BY <2>1 DEF Enters2
<1> QED BY <1>2, <1>3, <1>4, <1>6 DEF PrizesIn

LEMMA SamePrizes == PrizesOK' <=> PrizesIn(queue', sess', dbq', db', games', obj'.state)
  BY DEF PrizesOK, PrizesIn, Booked, Noted, Reached, Past, Tells, Over, Entering, Awaited, Holding,
         Distinct, Stage, WonAt, WonBy

LEMMA ShiftedBy ==
    ASSUME NEW S, NEW q \in Seq(S), NEW ms \in Seq(S), \A i \in DOMAIN ms : ms[i].k # "answer"
    PROVE  /\ Shifts(q, q \o ms, 0)
           /\ q # << >> => Shifts(q, Tail(q) \o ms, 1)
<1>1. Shifts(q, q \o ms, 0)
  <2> DEFINE r == q \o ms
  <2>1. \A j \in DOMAIN r : r[j].k = "answer" => j \in DOMAIN q /\ r[j] = q[j]
    BY OldAnswers
  <2>2. /\ \A i \in DOMAIN q : i \in DOMAIN r /\ r[i] = q[i] /\ i - 0 = i
        /\ Len(q) <= Len(r) + 0 /\ \A j \in DOMAIN r : j + 0 = j
    OBVIOUS
  <2> HIDE DEF r
  <2>3. Shifts(q, r, 0)
    BY <2>1, <2>2 DEF Shifts
  <2> QED BY <2>3 DEF r
<1>2. ASSUME q # << >> PROVE Shifts(q, Tail(q) \o ms, 1)
  <2> DEFINE t == Tail(q)
             r == t \o ms
  <2>1. /\ t \in Seq(S) /\ DOMAIN q = 1 .. Len(q) /\ Len(q) \in Nat /\ Len(t) = Len(q) - 1
        /\ DOMAIN t = 1 .. Len(q) - 1
        /\ \A i \in 1 .. Len(q) - 1 : t[i] = q[i + 1]
    BY <1>2, HeadTail
  <2> HIDE DEF t
  <2>2. \A j \in DOMAIN r : r[j].k = "answer" => j \in DOMAIN t /\ r[j] = t[j]
    BY <2>1, OldAnswers
  <2>3. Len(r) = Len(t) + Len(ms) /\ Len(ms) \in Nat /\ \A i \in DOMAIN t : i \in DOMAIN r /\ r[i] = t[i]
    <3>1. t \in Seq(S)
      BY <2>1
    <3> QED BY ONLY <3>1, ms \in Seq(S)
  <2> HIDE DEF r
  <2>4. Len(q) <= Len(r) + 1
    BY <2>1, <2>3
  <2>5. ASSUME NEW i \in DOMAIN q, i > 1 PROVE i - 1 \in DOMAIN r /\ r[i - 1] = q[i]
    <3>1. i - 1 \in 1 .. Len(q) - 1 /\ (i - 1) + 1 = i
      BY <2>1, <2>5
    <3> QED BY <2>1, <2>3, <3>1
  <2>6. ASSUME NEW j \in DOMAIN r, r[j].k = "answer" PROVE j + 1 \in DOMAIN q /\ r[j] = q[j + 1]
    <3>1. j \in 1 .. Len(q) - 1 /\ r[j] = t[j]
      BY <2>1, <2>2, <2>6
    <3>2. j + 1 \in 1 .. Len(q)
      BY <2>1, <3>1
    <3> QED BY <2>1, <3>1, <3>2
  <2>7. Shifts(q, r, 1)
    BY <2>4, <2>5, <2>6 DEF Shifts
  <2> QED BY <2>7 DEF r, t
<1> QED BY <1>1, <1>2

(* A game that does not go on in a step, or goes forward.                  *)
Advances == Forward(games, obj.state, games', obj'.state)

LEMMA StayAdvances ==
    ASSUME NEW R, ServerOK(R), Stay, games' = games
    PROVE  Advances
<1>1. games \in Nat /\ Stage(obj.state) \in Nat
  BY StageIs DEF ServerOK, CountsOK
<1>2. Stage(obj.state) <= Stage(obj.state)
  BY <1>1
<1> QED BY <1>2 DEF Stay, Advances, Forward

LEMMA EnterAdvances ==
    ASSUME NEW R, ServerOK(R), NEW m, "state" \in DOMAIN m, NEW T, NEW st, Enter(m, T, st),
           \/ games' = games /\ Stage(obj.state) <= Stage(st)
           \/ games' = games + 1
    PROVE  Advances
<1>1. obj' = [m EXCEPT !.state = st, !.timer = NewTimer(T)]
  BY DEF Enter
<1>2. obj'.state = st
  BY <1>1
<1>3. games \in Nat
  BY DEF ServerOK, CountsOK
<1> QED BY <1>2, <1>3 DEF Advances, Forward

LEMMA StartPrizes == ASSUME NEW R, Starts PROVE PrizesOK
<1>1. DOMAIN queue = {} /\ DOMAIN sess = {} /\ \A u \in Uid : DOMAIN dbq[u] = {}
  BY DEF Starts
<1>2. \A u \in Uid : db[u].prize.won = << >>
  BY DEF Starts, Account
<1>3. \A u \in Uid : DOMAIN db[u].prize.won = {}
  BY <1>2
<1>4. \A u \in Uid : Booked(queue, sess, games, obj.state, db[u].prize.won, Len(queue) + 1)
  BY <1>3 DEF Booked, Distinct
<1> QED BY <1>1, <1>4 DEF PrizesOK, PrizesIn

(* What comes is no answer.                                                *)
LEMMA SentPrizes ==
    ASSUME NEW R, Begins(R), ServerOK(R), RefundsOK, PrizesOK, CountsOK', Advances,
           NEW ms \in Seq(R), queue' = queue \o ms, UNCHANGED <<sess, dbq, db>>
    PROVE  PrizesOK'
<1>1. /\ queue \in Seq(R \cup AnswerMsg) /\ ms \in Seq(R \cup AnswerMsg)
      /\ \A i \in DOMAIN ms : ms[i].k # "answer"
  BY WidenSeq DEF ServerOK, QueueOK, Begins
<1>2. Shifts(queue, queue', 0)
  BY <1>1, ShiftedBy
<1>3. WinsTyped(queue, sess, dbq, db)
  BY ServerWins DEF RefundsOK
<1>4. HoldsAll(queue, dbq, sess, sess', 0)
  BY DEF HoldsAll, Holds
<1>5. Hears(queue, sess, games, obj.state, games', obj'.state, 0)
  BY DEF Hears
<1>6. Moved(queue, sess, dbq, games, obj.state, queue', sess', games', obj'.state, 0)
  BY <1>2, <1>4, <1>5 DEF Moved, Advances
<1>7. games \in Nat /\ games' \in Nat
  BY DEF ServerOK, CountsOK
<1>8. queue' \in Seq(R \cup AnswerMsg)
  BY <1>1, ConcatOf
<1>9. OnlyOne(sess, sess', -1) /\ Enters2(sess', games', obj'.state, dbq, dbq')
  BY DEF OnlyOne, Enters2
<1>10. -1 \notin DOMAIN sess'
  BY DEF ServerOK, SessOK
<1>11. PrizesIn(queue', sess', dbq', db, games', obj'.state)
  BY <1>1, <1>3, <1>6, <1>7, <1>8, <1>9, <1>10, PrizesMove DEF PrizesOK
<1> QED BY <1>11, SamePrizes

(* What a data server stores and tells of the prizes.                      *)
LEMMA ServedPrize ==
    ASSUME NEW R, ServerOK(R), NEW u \in Uid, Serve(u)
    PROVE  LET r == Head(dbq[u])
           IN  \E m \in AnswerMsg :
                 /\ queue' = Append(queue, m) /\ m.id = r.id
                 /\ m.rec.prize \in {db[u].prize, Account(0).prize}
                 /\ \/ db'[u].prize = db[u].prize
                    \/ m.ok /\ r.op = "save" /\ "prize" \in DOMAIN r.rec /\ db'[u].prize = r.rec["prize"]
<1> DEFINE r == Head(dbq[u])
           ok == r.op = "save" => Fits(db[u], r.rec)
           new == [k \in DOMAIN db[u] |-> IF k \in DOMAIN r.rec THEN r.rec[k] ELSE db[u][k]]
           told == [k \in DOMAIN db[u] |-> IF r.op = "query" \/ k \in DOMAIN r.rec
                                           THEN db[u][k] ELSE Account(0)[k]]
           m == [k |-> "answer", id |-> r.id, u |-> u, ok |-> ok, rec |-> told]
<1>1. PICK m2 \in AnswerMsg : queue' = Append(queue, m2)
  BY ServeIs
<1>2. queue' = Append(queue, m) /\ db' = IF r.op = "save" /\ ok THEN [db EXCEPT ![u] = new] ELSE db
  BY DEF Serve, Post
<1>3. db \in [Uid -> Rec] /\ DOMAIN db[u] = {"base", "gold", "prize"} /\ queue \in Seq(R \cup AnswerMsg)
  BY DEF ServerOK, DbOK, Rec, QueueOK
<1>4. told.prize \in {db[u].prize, Account(0).prize}
  BY <1>3
<1>5. new.prize = IF "prize" \in DOMAIN r.rec THEN r.rec["prize"] ELSE db[u].prize
  BY <1>3
<1>6. m.id = r.id /\ m.rec = told /\ m.ok = ok
  OBVIOUS
<1> HIDE DEF r, ok, new, told, m
<1>7. m = m2
  <2>1. Append(queue, m)[Len(queue) + 1] = m /\ Append(queue, m2)[Len(queue) + 1] = m2
    BY <1>3
  <2> QED BY <1>1, <1>2, <2>1
<1>8. \/ db'[u].prize = db[u].prize
      \/ ok /\ r.op = "save" /\ "prize" \in DOMAIN r.rec /\ db'[u].prize = r.rec["prize"]
  <2>1. CASE r.op = "save" /\ ok
    <3>1. db'[u] = new
      BY <1>2, <1>3, <2>1
    <3> QED BY <1>5, <2>1, <3>1
  <2>2. CASE ~(r.op = "save" /\ ok)
    BY <1>2, <2>2
  <2> QED BY <2>1, <2>2
<1> QED BY <1>2, <1>1, <1>4, <1>6, <1>7, <1>8 DEF r

LEMMA BookedLater ==
    ASSUME NEW S, NEW q \in Seq(S), NEW m, NEW s, NEW n, NEW st, NEW f, NEW j \in Nat, NEW j2 \in Nat,
           j <= j2, Booked(q, s, n, st, f, j)
    PROVE  Booked(Append(q, m), s, n, st, f, j2)
<1> DEFINE r == Append(q, m)
<1>1. \A i \in DOMAIN q : i \in DOMAIN r /\ r[i] = q[i] /\ i \in Nat
  OBVIOUS
<1> HIDE DEF r
<1>2. ASSUME NEW h \in DOMAIN f PROVE Noted(r, s, n, st, f[h], j2)
  <2> DEFINE e == f[h]
  <2>1. Noted(q, s, n, st, e, j)
    BY DEF Booked
  <2> HIDE DEF e
  <2>2. ASSUME Past(n, st, e) PROVE Noted(r, s, n, st, e, j2)
    BY <2>2 DEF Noted
  <2>3. ASSUME Reached(n, st, e), NEW i \in DOMAIN q, i < j, Tells(q, s, e, i) PROVE Noted(r, s, n, st, e, j2)
    <3>1. i \in DOMAIN r /\ r[i] = q[i] /\ i < j2
      BY <1>1, <2>3
    <3>2. Tells(r, s, e, i)
      BY <2>3, <3>1 DEF Tells
    <3> QED BY <2>3, <3>1, <3>2 DEF Noted
  <2>4. Noted(r, s, n, st, e, j2)
    BY <2>1, <2>2, <2>3 DEF Noted
  <2> QED BY <2>4 DEF e
<1>3. Booked(r, s, n, st, f, j2)
  BY <1>2 DEF Booked
<1> QED BY <1>3 DEF r

(* When a prize is stored, the answer that tells so is on its way, and who *)
(* asks for it afterwards is answered after that.                          *)
LEMMA ServePrizes ==
    ASSUME NEW R, ServerOK(R), RefundsOK, PrizesOK, NEW u \in Uid, Serve(u)
    PROVE  PrizesOK'
<1> DEFINE r == Head(dbq[u])
           N == Len(queue)
           n == games
           st == obj.state
<1>1. /\ dbq[u] # << >> /\ dbq' = [dbq EXCEPT ![u] = Tail(@)] /\ dbq \in [Uid -> Seq(Asked \cup Change)]
      /\ \A v \in Uid : v # u => db'[v] = db[v]
      /\ UNCHANGED <<obj, sess, games>>
  BY ServeIs DEF ServerOK, DbOK
<1>2. PICK m \in AnswerMsg :
                 /\ queue' = Append(queue, m) /\ m.id = r.id
                 /\ m.rec.prize \in {db[u].prize, Account(0).prize}
                 /\ \/ db'[u].prize = db[u].prize
                    \/ m.ok /\ r.op = "save" /\ "prize" \in DOMAIN r.rec /\ db'[u].prize = r.rec["prize"]
  BY ServedPrize
<1>3. /\ \A v \in Uid : \A i \in DOMAIN dbq'[v] : \E h \in DOMAIN dbq[v] : dbq'[v][i] = dbq[v][h]
      /\ \E h \in DOMAIN dbq[u] : r = dbq[u][h]
  <2>1. /\ DOMAIN Tail(dbq[u]) = 1 .. Len(dbq[u]) - 1 /\ DOMAIN dbq[u] = 1 .. Len(dbq[u])
        /\ \A i \in 1 .. Len(dbq[u]) - 1 : Tail(dbq[u])[i] = dbq[u][i + 1] /\ i + 1 \in 1 .. Len(dbq[u])
        /\ 1 \in DOMAIN dbq[u] /\ r = dbq[u][1]
    <3>1. dbq[u] \in Seq(Asked \cup Change)
      BY <1>1
    <3> QED BY <1>1, <3>1, HeadTail
  <2> HIDE DEF r
  <2>2. \A v \in Uid : dbq'[v] = IF v = u THEN Tail(dbq[u]) ELSE dbq[v]
    BY <1>1
  <2> QED BY <2>1, <2>2
<1>4. /\ queue \in Seq(R \cup AnswerMsg) /\ PrizesIn(queue, sess, dbq, db, n, st)
      /\ N \in Nat /\ N + 1 \in Nat /\ (N + 1) + 1 \in Nat /\ Len(queue') = N + 1
      /\ N + 1 <= (N + 1) + 1 /\ N + 1 <= N + 1
      /\ \A j \in DOMAIN queue : j <= j /\ j \in Nat
      /\ \A j \in DOMAIN queue' : (j \in DOMAIN queue /\ queue'[j] = queue[j]) \/ (j = N + 1 /\ queue'[j] = m)
      /\ N + 1 \in DOMAIN queue' /\ queue'[N + 1] = m
  BY <1>2 DEF ServerOK, QueueOK, PrizesOK
<1> HIDE DEF N, r
<1>5. ASSUME NEW v \in Uid PROVE Booked(queue', sess, n, st, db'[v].prize.won, (N + 1) + 1)
  <2>1. CASE db'[v].prize = db[v].prize
    <3>1. Booked(queue, sess, n, st, db[v].prize.won, N + 1)
      BY <1>4, <1>5 DEF PrizesIn, N
    <3>2. Booked(Append(queue, m), sess, n, st, db[v].prize.won, (N + 1) + 1)
      BY <1>4, <3>1, BookedLater
    <3> QED BY <1>2, <2>1, <3>2
  <2>2. CASE v = u /\ m.ok /\ r.op = "save" /\ "prize" \in DOMAIN r.rec /\ db'[u].prize = r.rec["prize"]
    <3> DEFINE f == r.rec["prize"].won
    <3>1. Awaited(sess, n, st, f, r.id)
      BY <1>3, <1>4, <2>2 DEF PrizesIn, Entering
    <3> HIDE DEF f
    <3>2. ASSUME NEW i \in DOMAIN f PROVE Noted(queue', sess, n, st, f[i], (N + 1) + 1)
      <4>1. Past(n, st, f[i]) \/ (Reached(n, st, f[i]) /\ Holding(sess, r.id, f[i][1]))
        BY <3>1 DEF Awaited
      <4>2. Holding(sess, r.id, f[i][1]) => Tells(queue', sess, f[i], N + 1)
        BY <1>2, <1>4, <2>2 DEF Holding, Tells, AnswerMsg
      <4>3. N + 1 < (N + 1) + 1
        BY <1>4
      <4> QED BY <1>4, <4>1, <4>2, <4>3 DEF Noted
    <3>3. Booked(queue', sess, n, st, f, (N + 1) + 1)
      BY <3>1, <3>2 DEF Booked, Awaited
    <3> QED BY <2>2, <3>3 DEF f
  <2> QED BY <1>1, <1>2, <2>1, <2>2
<1>6. \A id \in DOMAIN sess : Over(n, st, sess[id].rec.prize.won)
  BY <1>4 DEF PrizesIn
<1>7. ASSUME NEW j \in DOMAIN queue', queue'[j].k = "answer"
      PROVE  Booked(queue', sess, n, st, queue'[j].rec.prize.won, j)
  <2>1. CASE j \in DOMAIN queue /\ queue'[j] = queue[j]
    <3>1. Booked(queue, sess, n, st, queue[j].rec.prize.won, j)
      BY <1>4, <1>7, <2>1 DEF PrizesIn
    <3>2. Booked(Append(queue, m), sess, n, st, queue[j].rec.prize.won, j)
      BY <1>4, <2>1, <3>1, BookedLater
    <3> QED BY <1>2, <2>1, <3>2
  <2>2. CASE j = N + 1 /\ queue'[j] = m
    <3>1. CASE m.rec.prize = db[u].prize
      <4>1. Booked(queue, sess, n, st, db[u].prize.won, N + 1)
        BY <1>4 DEF PrizesIn, N
      <4>2. Booked(Append(queue, m), sess, n, st, db[u].prize.won, N + 1)
        BY <1>4, <4>1, BookedLater
      <4> QED BY <1>2, <2>2, <3>1, <4>2
    <3>2. CASE m.rec.prize = Account(0).prize
      <4>1. m.rec.prize.won = << >>
        BY <3>2 DEF Account
      <4>2. Booked(queue', sess, n, st, << >>, j)
        BY DEF Booked, Distinct
      <4> QED BY <2>2, <4>1, <4>2
    <3> QED BY <1>2, <3>1, <3>2
  <2> QED BY <1>4, <2>1, <2>2
<1>8. ASSUME NEW v \in Uid, NEW i \in DOMAIN dbq'[v] PROVE Entering(sess, n, st, dbq'[v][i])
  <2>1. PICK h \in DOMAIN dbq[v] : dbq'[v][i] = dbq[v][h]
    BY <1>3
  <2>2. Entering(sess, n, st, dbq[v][h])
    BY <1>4 DEF PrizesIn
  <2> QED BY <2>1, <2>2
<1>9. PrizesIn(queue', sess, dbq', db', n, st)
  <2>1. \A v \in Uid : Booked(queue', sess, n, st, db'[v].prize.won, Len(queue') + 1)
    BY <1>4, <1>5
  <2> QED BY <1>6, <1>7, <1>8, <2>1 DEF PrizesIn
<1> QED BY <1>1, <1>9, SamePrizes

(* The session that an answer to a save is for has nothing else on its     *)
(* way, so what the others wait for comes.                                 *)
LEMMA OthersHold ==
    ASSUME NEW R, ServerOK(R), FlightsOK(queue, sess, dbq, db), queue # << >>, Head(queue).k = "answer",
           \A i \in DOMAIN sess : i # Head(queue).id => i \in DOMAIN sess' /\ sess'[i] = sess[i]
    PROVE  HoldsAll(queue, dbq, sess, sess', 1)
<1> DEFINE m == Head(queue)
           q == Tail(queue)
<1>1. /\ queue \in Seq(R \cup AnswerMsg) /\ 1 \in DOMAIN queue /\ m = queue[1]
      /\ DOMAIN queue = 1 .. Len(queue) /\ DOMAIN q = 1 .. Len(queue) - 1 /\ Len(queue) \in Nat
      /\ \A i \in 1 .. Len(queue) - 1 : q[i] = queue[i + 1]
  BY HeadTail DEF ServerOK, QueueOK
<1>2. FlightsOK(queue, sess, dbq, db) /\ ~OnWay(q, dbq, m.id, m.u)
  BY <1>1, TakenFlight
<1>3. ASSUME NEW i \in DOMAIN queue, i > 1 PROVE i - 1 \in DOMAIN q /\ q[i - 1] = queue[i]
  <2>1. i - 1 \in 1 .. Len(queue) - 1 /\ (i - 1) + 1 = i
    BY <1>1, <1>3
  <2> QED BY <1>1, <2>1
<1>4. m \in AnswerMsg /\ (m.id \in DOMAIN sess => m.u \in sess[m.id].wait)
  BY <1>1, <1>2 DEF FlightsOK, Expected, Arriving
<1>5. m.id \in DOMAIN sess /\ sess[m.id].save => sess[m.id].wait = {m.u}
  BY <1>2, <1>4 DEF FlightsOK, Expected, Saving
<1> HIDE DEF m, q
<1>6. ASSUME NEW i \in DOMAIN queue, queue[i].k = "answer", i > 1 PROVE Holds(sess, sess', queue[i].id)
  <2>1. CASE queue[i].id = m.id /\ m.id \in DOMAIN sess /\ sess[m.id].save
    <3>1. queue[i].u = m.u
      BY <1>2, <1>5, <1>6, <2>1 DEF FlightsOK, Expected, Arriving
    <3>2. OnWay(q, dbq, m.id, m.u)
      BY <1>3, <1>6, <2>1, <3>1 DEF OnWay
    <3> QED BY <1>2, <3>2
  <2>2. CASE queue[i].id # m.id
    BY <2>2 DEF Holds, m
  <2> QED BY <2>1, <2>2 DEF Holds
<1>7. ASSUME NEW u \in Uid, NEW i \in DOMAIN dbq[u] PROVE Holds(sess, sess', dbq[u][i].id)
  <2>1. CASE dbq[u][i].id = m.id /\ m.id \in DOMAIN sess /\ sess[m.id].save
    <3>1. u = m.u
      BY <1>2, <1>5, <1>7, <2>1 DEF FlightsOK, Expected, Asking
    <3>2. OnWay(q, dbq, m.id, m.u)
      BY <1>7, <2>1, <3>1 DEF OnWay
    <3> QED BY <1>2, <3>2
  <2>2. CASE dbq[u][i].id # m.id
    BY <2>2 DEF Holds, m
  <2> QED BY <2>1, <2>2 DEF Holds
<1> QED BY <1>6, <1>7 DEF HoldsAll

(* What a session has when its handler goes on cannot be won any more.     *)
LEMMA ProcessOver ==
    ASSUME NEW R, ServerOK(R), FlightsOK(queue, sess, dbq, db), PrizesOK,
           queue # << >>, Head(queue).k = "answer", Process(Head(queue)).next \in {"query", "wait"}
    PROVE  LET w == Process(Head(queue)).x.rec.prize.won IN w \in Wins /\ Over(games, obj.state, w)
<1> DEFINE m == Head(queue)
           a == Process(m)
           x == sess[m.id]
<1>1. queue \in Seq(R \cup AnswerMsg) /\ 1 \in DOMAIN queue /\ m = queue[1]
      /\ \A i \in DOMAIN queue : ~(i < 1)
  BY HeadTail DEF ServerOK, QueueOK
<1>2. m.id \in DOMAIN sess
  BY DEF Process
<1>3. /\ x.rec.prize.won \in Wins /\ m.rec.prize.won \in Wins
  BY <1>1, <1>2, ServerWins DEF WinsTyped
<1>4. Over(games, obj.state, x.rec.prize.won)
  BY <1>2 DEF PrizesOK, PrizesIn
<1>5. Over(games, obj.state, m.rec.prize.won)
  <2>1. Booked(queue, sess, games, obj.state, m.rec.prize.won, 1)
    BY <1>1 DEF PrizesOK, PrizesIn
  <2> QED BY <1>1, <2>1 DEF Booked, Noted, Over
<1>6. x \in Ready(R)
  BY <1>2 DEF ServerOK, SessOK, Waits
<1> HIDE DEF m, x
<1>7. a.x.rec \in {x.rec, m.rec}
  <2>1. CASE x.save
    <3>1. a = SaveAnswer(m, x)
      BY <1>2, <2>1 DEF Process, x
    <3>2. a.x = [x EXCEPT !.save = FALSE, !.redo = @ + 1, !.rec = m.rec]
      BY <3>1 DEF SaveAnswer, Succeeded, m
    <3> QED BY <1>6, <3>2 DEF Ready
  <2>2. CASE ~x.save
    <3>1. a = QueryAnswer(m, x)
      BY <1>2, <2>2 DEF Process, x
    <3>2. a.x = [x EXCEPT !.wait = x.wait \ {m.u}, !.rec = IF m.u = x.p THEN m.rec ELSE @]
      BY <3>1 DEF QueryAnswer
    <3> QED BY <1>6, <3>2 DEF Ready
  <2> QED BY <2>1, <2>2
<1> HIDE DEF a
<1>8. a.x.rec.prize.won \in Wins /\ Over(games, obj.state, a.x.rec.prize.won)
  BY <1>3, <1>4, <1>5, <1>7
<1> QED BY <1>8 DEF a, m

(* A prize won now is a new one.                                           *)
LEMMA NewPrize ==
    ASSUME NEW n \in Nat, NEW st, NEW f \in Wins, Over(n, st, f), NEW w \in Ways, WonAt(w) = Stage(st),
           NEW s, NEW id, Holding(s, id, w), NEW g, g = Append(f, <<w, n>>)
    PROVE  Awaited(s, n, st, g, id)
<1> DEFINE e == <<w, n>>
<1>1. e[1] = w /\ e[2] = n /\ Stage(st) \in Nat
  BY StageIs
<1> HIDE DEF e
<1>2. \A i \in DOMAIN g : (i \in DOMAIN f /\ g[i] = f[i]) \/ (i = Len(f) + 1 /\ g[i] = e)
  BY OldEntry, e \in Ways \X Nat DEF Wins, e
<1>3. Stage(st) <= Stage(st) /\ ~(Stage(st) < Stage(st)) /\ ~(n < n)
  BY <1>1
<1>4. Reached(n, st, e) /\ ~Past(n, st, e)
  BY <1>1, <1>3 DEF Reached, Past
<1>5. \A i \in DOMAIN f : f[i] # e /\ Past(n, st, f[i])
  BY <1>4 DEF Over
<1>6. Distinct(g)
  BY <1>2, <1>5 DEF Over, Distinct
<1>7. \A i \in DOMAIN g : Past(n, st, g[i]) \/ (Reached(n, st, g[i]) /\ Holding(s, id, g[i][1]))
  BY <1>1, <1>2, <1>4, <1>5
<1> QED BY <1>6, <1>7 DEF Awaited
(* A handler saves; when it is a prize, then the one of the game's stage.  *)
SavesPrize(id, x) ==
    \E K, new :
       /\ Save(id, x, K, new)
       /\ "prize" \in K => /\ Stay /\ games' = games /\ new.prize \in PrizeInfo
                           /\ \E w \in Ways : /\ new.prize.won = Append(x.rec.prize.won, <<w, games>>)
                                              /\ x.req.k = WonBy(w) /\ WonAt(w) = Stage(obj.state)

PrizeTaken(m) ==
    LET a == Process(m)
    IN  \/ Done
        \/ End(m.id)
        \/ a.next = "wait" /\ sess' = [sess EXCEPT ![m.id] = a.x] /\ dbq' = dbq
        \/ a.next = "query" /\ (SavesPrize(m.id, a.x) \/ AsksAgain(m.id, a.x))

(* Who hears that his prize is saved goes on to where it cannot be won.    *)
HeardOn(m) ==
    m.ok /\ m.id \in DOMAIN sess /\ sess[m.id].save =>
       \A e \in Ways \X Nat : sess[m.id].req.k = WonBy(e[1]) /\ Reached(games, obj.state, e)
                              => Past(games', obj'.state, e)

(* The session of an answer goes on, sending e about the users U.          *)
LEMMA AnswerMoves ==
    ASSUME NEW R, ServerOK(R), RefundsOK, PrizesOK, queue # << >>, Head(queue).k = "answer",
           queue' = Tail(queue), db' = db, CountsOK', Advances, HeardOn(Head(queue)),
           NEW z, OnlyOne(sess, sess', z),
           \A i \in DOMAIN sess : i # Head(queue).id => i \in DOMAIN sess' /\ sess'[i] = sess[i],
           z \in DOMAIN sess' => Over(games', obj'.state, sess'[z].rec.prize.won),
           Enters2(sess', games', obj'.state, dbq, dbq')
    PROVE  PrizesOK'
<1> DEFINE m == Head(queue)
<1>1. /\ queue \in Seq(R \cup AnswerMsg) /\ 1 \in DOMAIN queue /\ m = queue[1]
      /\ Tail(queue) \in Seq(R \cup AnswerMsg) /\ Tail(queue) \o << >> = Tail(queue)
      /\ << >> \in Seq(R \cup AnswerMsg)
  BY HeadTail DEF ServerOK, QueueOK
<1>2. Shifts(queue, queue', 1)
  <2> DEFINE ms == << >>
  <2>1. /\ ms \in Seq(R \cup AnswerMsg) /\ \A i \in DOMAIN ms : ms[i].k # "answer"
        /\ queue' = Tail(queue) \o ms
    BY <1>1
  <2> HIDE DEF ms
  <2> QED BY <1>1, <2>1, ShiftedBy
<1>3. WinsTyped(queue, sess, dbq, db) /\ FlightsOK(queue, sess, dbq, db)
  BY ServerWins DEF RefundsOK
<1>4. HoldsAll(queue, dbq, sess, sess', 1)
  BY <1>3, OthersHold
<1>5. Hears(queue, sess, games, obj.state, games', obj'.state, 1)
  <2> SUFFICES ASSUME NEW e \in Ways \X Nat, Tells(queue, sess, e, 1), Reached(games, obj.state, e)
               PROVE  Past(games', obj'.state, e)
    BY DEF Hears
  <2>1. m.ok /\ m.id \in DOMAIN sess /\ sess[m.id].save /\ sess[m.id].req.k = WonBy(e[1])
    BY <1>1 DEF Tells
  <2> QED BY <2>1 DEF HeardOn
<1>6. Moved(queue, sess, dbq, games, obj.state, queue', sess', games', obj'.state, 1)
  BY <1>2, <1>4, <1>5 DEF Moved, Advances
<1>7. games \in Nat /\ games' \in Nat
  BY DEF ServerOK, CountsOK
<1>8. queue' \in Seq(R \cup AnswerMsg)
  BY <1>1
<1>9. PrizesIn(queue', sess', dbq', db, games', obj'.state)
  BY <1>1, <1>3, <1>6, <1>7, <1>8, PrizesMove DEF PrizesOK
<1> QED BY <1>9, SamePrizes

LEMMA AnswerPrizes ==
    ASSUME NEW R, Begins(R), ServerOK(R), RefundsOK, PrizesOK, queue # << >>, Head(queue).k = "answer",
           queue' = Tail(queue), db' = db, CountsOK', Advances, HeardOn(Head(queue)), PrizeTaken(Head(queue))
    PROVE  PrizesOK'
<1> DEFINE m == Head(queue)
           a == Process(m)
           x == a.x
<1>1. /\ queue \in Seq(R \cup AnswerMsg) /\ 1 \in DOMAIN queue /\ m = queue[1]
      /\ FlightsOK(queue, sess, dbq, db)
  BY HeadTail DEF ServerOK, QueueOK, RefundsOK
<1>2. m \in AnswerMsg /\ games \in Nat /\ games' \in Nat
  BY <1>1 DEF FlightsOK, Expected, Arriving, ServerOK, CountsOK
<1>3. dbq \in [Uid -> Seq(Asked \cup Change)] /\ DOMAIN sess \subseteq Nat
  BY DEF ServerOK, DbOK, SessOK
<1>4. ASSUME dbq' = dbq PROVE Enters2(sess', games', obj'.state, dbq, dbq')
  BY <1>4 DEF Enters2
<1> HIDE DEF m, a
<1>5. ASSUME Done PROVE PrizesOK'
  <2>1. sess' = sess /\ dbq' = dbq /\ -1 \notin DOMAIN sess'
    BY <1>3, <1>5 DEF Done
  <2>2. OnlyOne(sess, sess', -1) /\ Enters2(sess', games', obj'.state, dbq, dbq')
    BY <1>4, <2>1 DEF OnlyOne
  <2> QED BY <2>1, <2>2, AnswerMoves
<1>6. ASSUME End(m.id) PROVE PrizesOK'
  <2>1. /\ dbq' = dbq /\ DOMAIN sess' = DOMAIN sess \ {m.id} /\ \A i \in DOMAIN sess' : sess'[i] = sess[i]
    BY <1>6 DEF End, Without
  <2>2. OnlyOne(sess, sess', -1) /\ Enters2(sess', games', obj'.state, dbq, dbq')
    BY <1>4, <2>1 DEF OnlyOne
  <2>3. -1 \notin DOMAIN sess' /\ \A i \in DOMAIN sess : i # m.id => i \in DOMAIN sess' /\ sess'[i] = sess[i]
    BY <1>3, <2>1
  <2> QED BY <2>2, <2>3, AnswerMoves DEF m
(* The session goes on with what it knows.                                 *)
<1>7. ASSUME a.next \in {"query", "wait"}
      PROVE  /\ m.id \in DOMAIN sess /\ x \in Ready(R) /\ m.id \in Nat
             /\ x.rec.prize.won \in Wins /\ Over(games, obj.state, x.rec.prize.won)
             /\ Over(games', obj'.state, x.rec.prize.won)
  <2>1. m.id \in DOMAIN sess
    BY <1>1, <1>7, ProcessView DEF m, a
  <2>2. x \in Ready(R)
    BY <1>2, <1>7, ProcessOK DEF a, ServerOK
  <2>3. x.rec.prize.won \in Wins /\ Over(games, obj.state, x.rec.prize.won)
    BY <1>1, <1>7, ProcessOver DEF m, a
  <2>4. Over(games', obj'.state, x.rec.prize.won)
    BY <1>2, <2>3, OverMoves DEF Advances
  <2> QED BY <1>3, <2>1, <2>2, <2>3, <2>4
<1>8. ASSUME a.next \in {"query", "wait"}, NEW y, sess' = [sess EXCEPT ![m.id] = y], y.rec = x.rec,
             Enters2(sess', games', obj'.state, dbq, dbq')
      PROVE  PrizesOK'
  <2>1. m.id \in DOMAIN sess /\ Over(games', obj'.state, x.rec.prize.won)
    BY <1>7, <1>8
  <2> HIDE DEF x
  <2>2. sess'[m.id] = y /\ \A i \in DOMAIN sess : i # m.id => i \in DOMAIN sess' /\ sess'[i] = sess[i]
    BY <1>8, <2>1
  <2>3. OnlyOne(sess, sess', m.id)
    BY <1>8 DEF OnlyOne
  <2> QED BY <1>8, <2>1, <2>2, <2>3, AnswerMoves DEF m
<1>9. ASSUME a.next = "wait", sess' = [sess EXCEPT ![m.id] = x], dbq' = dbq PROVE PrizesOK'
  BY <1>4, <1>8, <1>9
<1>10. ASSUME NEW e, NEW U \in SUBSET Uid, Entering(sess', games', obj'.state, e),
              \A u \in Uid : dbq'[u] = IF u \in U THEN Append(dbq[u], e) ELSE dbq[u]
       PROVE  Enters2(sess', games', obj'.state, dbq, dbq')
  <2> SUFFICES ASSUME NEW u \in Uid, NEW i \in DOMAIN dbq'[u]
               PROVE  \/ Entering(sess', games', obj'.state, dbq'[u][i])
                      \/ \E h \in DOMAIN dbq[u] : dbq[u][h] = dbq'[u][i]
    BY DEF Enters2
  <2>1. dbq[u] \in Seq(Asked \cup Change \cup {e})
    BY <1>3, WidenSeq
  <2>2. CASE u \in U
    <3>1. dbq'[u] = Append(dbq[u], e)
      BY <1>10, <2>2
    <3>2. (i \in DOMAIN dbq[u] /\ dbq'[u][i] = dbq[u][i]) \/ dbq'[u][i] = e
      BY <2>1, <3>1, OldEntry
    <3> QED BY <1>10, <3>2
  <2>3. CASE u \notin U
    BY <1>10, <2>3
  <2> QED BY <2>2, <2>3
<1>11. ASSUME a.next = "query", SavesPrize(m.id, x) PROVE PrizesOK'
  <2>1. /\ m.id \in DOMAIN sess /\ m.id \in Nat /\ x \in Ready(R)
        /\ x.rec.prize.won \in Wins /\ Over(games, obj.state, x.rec.prize.won)
    BY <1>7, <1>11
  <2> HIDE DEF x
  <2>2. PICK K, new :
             /\ Save(m.id, x, K, new)
             /\ "prize" \in K => /\ Stay /\ games' = games /\ new.prize \in PrizeInfo
                                 /\ \E w \in Ways : /\ new.prize.won = Append(x.rec.prize.won, <<w, games>>)
                                                    /\ x.req.k = WonBy(w) /\ WonAt(w) = Stage(obj.state)
    BY <1>11 DEF SavesPrize
  <2> DEFINE rec == [k \in K |-> [new[k] EXCEPT !.ver = @ + 1]]
             e == [id |-> m.id, op |-> "save", rec |-> rec]
             y == [x EXCEPT !.save = TRUE, !.wait = {x.p}]
  <2>3. x.p \in Uid /\ y.rec = x.rec /\ y.req = x.req /\ y.save
    BY <2>1 DEF Ready
  <2>4. e.id = m.id /\ e.op = "save" /\ e.rec = rec /\ DOMAIN rec = K
    OBVIOUS
  <2>5. "prize" \in K => rec["prize"].won = new.prize.won
    BY <2>2 DEF PrizeInfo
  <2>6. sess' = [sess EXCEPT ![m.id] = y] /\ dbq' = [dbq EXCEPT ![x.p] = Append(@, e)]
    BY <2>2 DEF Save
  <2> HIDE DEF y, e, rec
  <2>7. \A u \in Uid : dbq'[u] = IF u \in {x.p} THEN Append(dbq[u], e) ELSE dbq[u]
    BY <1>3, <2>3, <2>6
  <2>8. sess'[m.id] = y /\ m.id \in DOMAIN sess'
    BY <2>1, <2>6
  <2>9. Entering(sess', games', obj'.state, e)
    <3> SUFFICES ASSUME "prize" \in K PROVE Awaited(sess', games', obj'.state, rec["prize"].won, m.id)
      BY <2>4 DEF Entering
    <3>1. PICK w \in Ways : /\ new.prize.won = Append(x.rec.prize.won, <<w, games>>)
                            /\ x.req.k = WonBy(w) /\ WonAt(w) = Stage(obj.state)
      BY <2>2
    <3>2. Holding(sess', m.id, w)
      BY <2>3, <2>8, <3>1 DEF Holding
    <3>3. Awaited(sess', games, obj.state, rec["prize"].won, m.id)
      BY <1>2, <2>1, <2>5, <3>1, <3>2, NewPrize
    <3>4. games' = games /\ obj' = obj
      BY <2>2 DEF Stay
    <3> QED BY <3>3, <3>4
  <2>10. {x.p} \in SUBSET Uid
    BY <2>3
  <2>11. Enters2(sess', games', obj'.state, dbq, dbq')
    BY <1>10, <2>7, <2>9, <2>10
  <2> QED BY <1>8, <1>11, <2>3, <2>6, <2>11 DEF x
<1>12. ASSUME a.next = "query", AsksAgain(m.id, x) PROVE PrizesOK'
  <2>1. m.id \in DOMAIN sess /\ m.id \in Nat /\ x \in Ready(R)
    BY <1>7, <1>12
  <2> HIDE DEF x
  <2>2. PICK req, U : /\ U \in SUBSET Uid
                      /\ sess' = [sess EXCEPT ![m.id] = [x EXCEPT !.req = req, !.wait = U]]
                      /\ Query(m.id, U)
    BY <1>12 DEF AsksAgain
  <2> DEFINE e == [id |-> m.id, op |-> "query"]
             y == [x EXCEPT !.req = req, !.wait = U]
  <2>3. y.rec = x.rec
    BY <2>1 DEF Ready
  <2>4. e.op = "query"
    OBVIOUS
  <2>5. \A u \in Uid : dbq'[u] = IF u \in U THEN Append(dbq[u], e) ELSE dbq[u]
    BY <2>2 DEF Query
  <2>6. sess' = [sess EXCEPT ![m.id] = y]
    BY <2>2
  <2> HIDE DEF e, y
  <2>7. Entering(sess', games', obj'.state, e)
    BY <2>4 DEF Entering
  <2>8. Enters2(sess', games', obj'.state, dbq, dbq')
    BY <1>10, <2>2, <2>4, <2>5, <2>7
  <2> QED BY <1>8, <1>12, <2>3, <2>6, <2>8 DEF x
<1> QED BY <1>5, <1>6, <1>9, <1>11, <1>12 DEF PrizeTaken, m, a

(* A request begins with what the server has of nobody's prizes.           *)
LEMMA RequestPrizes ==
    ASSUME NEW R, Begins(R), ServerOK(R), RefundsOK, PrizesOK, queue # << >>, Head(queue).k # "answer",
           db' = db, CountsOK', Advances, RequestTaken(R)
    PROVE  PrizesOK'
<1> PICK ms \in Seq(R) : Sends(ms)
  BY DEF RequestTaken
<1>1. /\ queue \in Seq(R \cup AnswerMsg) /\ Tail(queue) \in Seq(R \cup AnswerMsg) /\ ms \in Seq(R \cup AnswerMsg)
      /\ queue' = Tail(queue) \o ms /\ 1 \in DOMAIN queue /\ Head(queue) = queue[1]
      /\ \A i \in DOMAIN ms : ms[i].k # "answer"
  BY HeadTail, WidenSeq DEF ServerOK, QueueOK, Sends, Post, Begins
<1>2. Shifts(queue, queue', 1)
  BY <1>1, ShiftedBy
<1>3. WinsTyped(queue, sess, dbq, db) /\ FlightsOK(queue, sess, dbq, db)
  BY ServerWins DEF RefundsOK
<1>4. Hears(queue, sess, games, obj.state, games', obj'.state, 1)
  BY <1>1 DEF Hears, Tells
<1>5. games \in Nat /\ games' \in Nat /\ queue' \in Seq(R \cup AnswerMsg)
  BY <1>1, ConcatOf DEF ServerOK, CountsOK
<1>6. /\ dbq \in [Uid -> Seq(Asked \cup Change)] /\ DOMAIN sess \subseteq Nat
      /\ PrizesIn(queue, sess, dbq, db, games, obj.state)
  BY DEF ServerOK, DbOK, SessOK, PrizesOK
<1>7. ASSUME HoldsAll(queue, dbq, sess, sess', 1), NEW z, OnlyOne(sess, sess', z),
             z \in DOMAIN sess' => Over(games', obj'.state, sess'[z].rec.prize.won),
             Enters2(sess', games', obj'.state, dbq, dbq')
      PROVE  PrizesOK'
  <2>1. Moved(queue, sess, dbq, games, obj.state, queue', sess', games', obj'.state, 1)
    BY <1>2, <1>4, <1>7 DEF Moved, Advances
  <2>2. PrizesIn(queue', sess', dbq', db, games', obj'.state)
    BY <1>1, <1>3, <1>5, <1>6, <1>7, <2>1, PrizesMove
  <2> QED BY <2>2, SamePrizes
<1>8. ASSUME Done PROVE PrizesOK'
  <2>1. sess' = sess /\ dbq' = dbq /\ -1 \notin DOMAIN sess'
    BY <1>6, <1>8 DEF Done
  <2>2. /\ HoldsAll(queue, dbq, sess, sess', 1) /\ OnlyOne(sess, sess', -1)
        /\ Enters2(sess', games', obj'.state, dbq, dbq')
    BY <2>1 DEF HoldsAll, Holds, OnlyOne, Enters2
  <2> QED BY <1>7, <2>1, <2>2
<1>9. ASSUME NEW n \in R, NEW p \in Uid, NEW U \in SUBSET Uid, Ask(n, p, U)
      PROVE  PrizesOK'
  <2> DEFINE id == NewId
             e == [id |-> id, op |-> "query"]
             x == [req |-> n, p |-> p, save |-> FALSE, wait |-> U, redo |-> 0, rec |-> Account(0)]
  <2>1. id \in Nat /\ id \notin InUse
    BY NewIdFresh DEF ServerOK
  <2>2. id \notin DOMAIN sess
    <3> HIDE DEF id
    <3> QED BY <2>1 DEF InUse
  <2>3. /\ sess' = [i \in DOMAIN sess \cup {id} |-> IF i # id THEN sess[i] ELSE x]
        /\ dbq' = [u \in Uid |-> IF u \in U THEN Append(dbq[u], e) ELSE dbq[u]]
    BY <1>9 DEF Ask, Query
  <2> HIDE DEF id
  <2>4. e \in Asked \cup Change /\ e.op = "query"
    BY <2>1 DEF Asked
  <2>5. Over(games', obj'.state, x.rec.prize.won)
    BY DEF Account, Over, Distinct
  <2> HIDE DEF e, x
  <2>6. /\ sess'[id] = x /\ OnlyOne(sess, sess', id)
        /\ \A i \in DOMAIN sess : i \in DOMAIN sess' /\ sess'[i] = sess[i]
    BY <2>2, <2>3 DEF OnlyOne
  <2>7. HoldsAll(queue, dbq, sess, sess', 1)
    BY <2>6 DEF HoldsAll, Holds
  <2>8. Enters2(sess', games', obj'.state, dbq, dbq')
    <3> SUFFICES ASSUME NEW u \in Uid, NEW i \in DOMAIN dbq'[u]
                 PROVE  \/ Entering(sess', games', obj'.state, dbq'[u][i])
                        \/ \E h \in DOMAIN dbq[u] : dbq[u][h] = dbq'[u][i]
      BY DEF Enters2
    <3>1. dbq[u] \in Seq(Asked \cup Change)
      BY <1>6
    <3>2. CASE u \in U
      <4>1. dbq'[u] = Append(dbq[u], e)
        BY <2>3, <3>2
      <4>2. (i \in DOMAIN dbq[u] /\ dbq'[u][i] = dbq[u][i]) \/ dbq'[u][i] = e
        BY <2>4, <3>1, <4>1, OldEntry
      <4>3. Entering(sess', games', obj'.state, e)
        BY <2>4 DEF Entering
      <4> QED BY <4>2, <4>3
    <3>3. CASE u \notin U
      BY <2>3, <3>3
    <3> QED BY <3>2, <3>3
  <2> QED BY <1>7, <2>5, <2>6, <2>7, <2>8
<1> QED BY <1>8, <1>9 DEF RequestTaken, Asks

LEMMA PrizesStutter ==
    ASSUME PrizesOK, UNCHANGED vars
    PROVE  PrizesOK'
<1>1. /\ queue' = queue /\ sess' = sess /\ dbq' = dbq /\ db' = db /\ games' = games /\ obj' = obj
  BY DEF vars, counts
<1> QED BY <1>1, SamePrizes DEF PrizesOK

(* No session is given up for being late.                                  *)
Punctual == "late" \notin DOMAIN left
LEMMA NobodyLate == Punctual => ~TimeOut
  BY DEF Punctual, TimeOut, Spend

(* The game goes on.                                                       *)
LEMMA OnAdvances ==
    ASSUME games' = games, Stage(obj.state) <= Stage(obj'.state) \/ Stage(obj'.state) = 5
    PROVE  Advances
<1>1. Stage(obj.state) <= Stage(obj'.state)
  BY StageIs
<1> QED BY <1>1 DEF Advances, Forward

LEMMA EntersState ==
    ASSUME NEW m, "state" \in DOMAIN m, NEW T, NEW st, Enter(m, T, st)
    PROVE  obj'.state = st
<1>1. obj' = [m EXCEPT !.state = st, !.timer = NewTimer(T)]
  BY DEF Enter
<1> QED BY <1>1

LEMMA HeardBeyond ==
    ASSUME NEW R, ServerOK(R), NEW m,
           m.id \in DOMAIN sess /\ sess[m.id].save =>
              \A w \in Ways : sess[m.id].req.k = WonBy(w) /\ WonAt(w) <= Stage(obj.state) =>
                 games' = games /\ WonAt(w) < Stage(obj'.state),
           sess[m.id].req.k \in {"end", "lottery", "buy"} => games' = games
    PROVE  HeardOn(m)
<1> SUFFICES ASSUME m.id \in DOMAIN sess, sess[m.id].save, NEW e \in Ways \X Nat,
                    sess[m.id].req.k = WonBy(e[1]), Reached(games, obj.state, e)
             PROVE  Past(games', obj'.state, e)
  BY DEF HeardOn
<1>1. e[1] \in Ways /\ games' = games
  BY DEF Ways, WonBy
<1> QED BY <1>1 DEF Reached, Past

(* A prize is won in the state for it, and nothing else saves one.         *)
LEMMA WinSaves ==
    ASSUME CountsOK, games' = games, Stay, NEW id, NEW x, NEW r, "prize" \in DOMAIN r,
           r.prize \in PrizeInfo, r.prize = x.rec.prize, NEW w \in Ways, Save(id, x, Won, Win(r, w)),
           x.req.k = WonBy(w), WonAt(w) = Stage(obj.state)
    PROVE  SavesPrize(id, x)
<1> DEFINE f == Append(r.prize.won, <<w, games>>)
<1>1. f \in Seq({"win", "lottery", "buy"} \X Nat)
  <2>1. <<w, games>> \in {"win", "lottery", "buy"} \X Nat
    BY DEF Ways, CountsOK
  <2> QED BY <2>1, AppendOf DEF PrizeInfo
<1>2. Win(r, w).prize = [r.prize EXCEPT !.won = f]
  BY DEF Win, PrizeInfo
<1> HIDE DEF f
<1>3. Win(r, w).prize \in PrizeInfo /\ Win(r, w).prize.won = f
  BY <1>1, <1>2 DEF PrizeInfo
<1> QED BY <1>3 DEF SavesPrize, f

LEMMA OtherSaves ==
    ASSUME NEW id, NEW x, NEW K, "prize" \notin K, NEW new, Save(id, x, K, new)
    PROVE  SavesPrize(id, x)
  BY DEF SavesPrize

LEMMA TwiceByNobody == ASSUME PrizesOK PROVE NobodyTwice
  BY DEF PrizesOK, PrizesIn, Booked, Uid, NobodyTwice, Distinct

(* Where only one player wins, there is one prize of each kind.            *)
LEMMA OneWinner ==
    ASSUME NobodyTwice, NEW o, \A p \in Player : p # o => DOMAIN db[p].prize.won = {}
    PROVE  OnePrize
<1> SUFFICES ASSUME NEW a \in Prizes, NEW b \in Prizes,
                    db[a[1]].prize.won[a[2]] = db[b[1]].prize.won[b[2]]
             PROVE  a = b
  BY DEF OnePrize
<1>1. PICK p, i : p \in Player /\ i \in DOMAIN db[p].prize.won /\ a = <<p, i>>
  BY DEF Prizes
<1>2. PICK q, j : q \in Player /\ j \in DOMAIN db[q].prize.won /\ b = <<q, j>>
  BY DEF Prizes
<1>3. p = o /\ q = o
  BY <1>1, <1>2
<1>4. i = j
  BY <1>1, <1>2, <1>3 DEF NobodyTwice
<1> QED BY <1>1, <1>2, <1>3, <1>4
=============================================================================
