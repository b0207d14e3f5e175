--------------------------- MODULE DbSessionSteady ---------------------------
(***************************************************************************)
(* What sessions and data server keep to while no logic server was killed  *)
(* or stopped, no call of LevelDB failed and the data server was not       *)
(* started again: for any losses and delays of messages and any time-outs. *)
(* The last part is about what a handler is told while they may.           *)
(***************************************************************************)
EXTENDS DbSessionProofs

(* No logic server was killed or stopped, no call of LevelDB failed and    *)
(* the data server was not started again.                                  *)
Steady == Undisturbed /\ faults["restart"] = 0

Once(q) == \A i, j \in DOMAIN q : q[i].id = q[j].id => i = j
Free(q, r, id) == (\A m \in Msgs(q) : m.id # id) /\ (\A m \in Msgs(r) : m.id # id)
Later(x) == {x.plan[j].uid : j \in {i \in DOMAIN x.plan : i > x.index}}

(* c is a version of record d that was stored once; c is what handler op   *)
(* makes of one.                                                           *)
Past(c, d) == c.ver <= d.ver /\ c.val = SubSeq(d.val, 1, c.ver)
Makes(c, d, op) == /\ c.ver > 0 /\ c.ver - 1 <= d.ver
                   /\ c.val = Append(SubSeq(d.val, 1, c.ver - 1), op)
Copy(u, d) == \A k \in DOMAIN d : k \in DOMAIN vmap[u] /\ Past(d[k], db[u][k])
Untold(op, u) == <<op, u>> \notin applied /\ <<op, u>> \notin refused

(* Every record has as many values as its version says, each written once  *)
(* and by a handler whose update was taken; what is cached of it is true.  *)
RecordOk(u, k) ==
    /\ db[u][k].ver = Len(db[u][k].val)
    /\ \A i, j \in 1 .. Len(db[u][k].val) : db[u][k].val[i] = db[u][k].val[j] => i = j
    /\ \A i \in 1 .. Len(db[u][k].val) : <<db[u][k].val[i], u>> \in applied
    /\ k \in DOMAIN vmap[u] => vmap[u][k].ver = db[u][k].ver /\ vmap[u][k].stamped
StoreInv == \A u \in Uid, k \in Key : RecordOk(u, k)

(* A session has at most one message about a user on its way.              *)
LaneOk(q, r, n) == /\ Once(q) /\ Once(r)
                   /\ \A m \in Msgs(q) : m.id <= n
                   /\ \A m \in Msgs(r) : m.id <= n
                   /\ \A m \in Msgs(q), a \in Msgs(r) : m.id # a.id
PathInv == \A s \in Svr, u \in Uid : LaneOk(req[s][u], rsp[s][u], curId[s])

(* A save on its way is the change of one handler, made from a copy that   *)
(* was stored once, and has neither been applied nor refused.              *)
SaveOk(f, s, u, m) ==
    /\ DOMAIN m.datas # {} /\ \A k \in DOMAIN m.datas : k \in DOMAIN vmap[u]
    /\ \E op \in 1 .. nop : /\ f[op] = <<s, m.id>> /\ Untold(op, u)
                            /\ \A k \in DOMAIN m.datas : Makes(m.datas[k], db[u][k], op)
SaveInv(f) == \A s \in Svr, u \in Uid : \A m \in Msgs(req[s][u]) :
                 m.kind = "save" => SaveOk(f, s, u, m)

AnswerOk(u, m) == /\ m.result \in {"success", "diff"} /\ Copy(u, m.datas)
                  /\ m.result = "diff" => m.uid = u
                  /\ m.kind = "query" => m.uid = u /\ m.result = "success"
AnswerInv == \A s \in Svr, u \in Uid : \A m \in Msgs(rsp[s][u]) : AnswerOk(u, m)

(* What a session knows of user u and what is on its way about him.        *)
Ready(u, x) == /\ u \in DOMAIN x.data /\ DOMAIN x.data[u] = KeysOf(x.plan, u)
               /\ Copy(u, x.data[u]) /\ Untold(x.op, u)
Asked(q, r, id, K) ==
    /\ \A m \in Msgs(q) : m.id = id => m.kind = "query" /\ m.keys = K
    /\ \A m \in Msgs(r) : m.id = id => m.kind = "query" /\ DOMAIN m.datas = K
Saving(q, r, id, pair) ==
    /\ \A m \in Msgs(q) : m.id = id => m.kind = "save"
    /\ \A m \in Msgs(r) : m.id = id => m.kind = "save" /\ (m.result = "success" <=> pair \in applied)
    /\ pair \notin refused
Querying(s, id, x, v) ==
    IF v \notin Uids(x) \/ v \in DOMAIN x.data
    THEN Free(req[s][v], rsp[s][v], id) /\ (v \in Uids(x) => Ready(v, x))
    ELSE Asked(req[s][v], rsp[s][v], id, KeysOf(x.plan, v)) /\ Untold(x.op, v)
Updating(s, id, x, v) ==
    IF v = Cur(x) THEN Saving(req[s][v], rsp[s][v], id, <<x.op, v>>)
    ELSE Free(req[s][v], rsp[s][v], id) /\ (v \in Later(x) => Ready(v, x))
SessOk(f, s, id, x) ==
    /\ id <= curId[s] /\ f[x.op] = <<s, id>>
    /\ x.state = "query" => /\ x.redo = 0 /\ DOMAIN x.data \subseteq Uids(x)
                            /\ \A v \in Uid : Querying(s, id, x, v)
    /\ x.state = "save" => \A v \in Uid : Updating(s, id, x, v)
SessInv(f) == \A s \in Svr : \A id \in DOMAIN sess[s] : SessOk(f, s, id, sess[s][id])

TalkInv == saved \subseteq applied /\ \A a \in refused : a \notin applied

(* f is the session in which each handler execution runs or ran.           *)
Owners(f) == /\ f \in [1 .. nop -> Svr \X Nat]
             /\ \A o, p \in 1 .. nop : f[o] = f[p] => o = p
             /\ \A o \in 1 .. nop : f[o][2] <= curId[f[o][1]]
Good(f) == /\ StoreInv /\ PathInv /\ AnswerInv /\ TalkInv
           /\ Owners(f) /\ SaveInv(f) /\ SessInv(f)
SteadyInv == Steady => \E f \in [1 .. nop -> Svr \X Nat] : Good(f)

-----------------------------------------------------------------------------
(* Records that grow.                                                      *)

Grown(c, d) == /\ c.ver <= d.ver
               /\ \A n \in 0 .. c.ver : SubSeq(d.val, 1, n) = SubSeq(c.val, 1, n)
Grows(u) == /\ \A k \in DOMAIN vmap[u] : k \in DOMAIN vmap'[u]
            /\ \A k \in Key : Grown(db[u][k], db'[u][k])

LEMMA GrownSame == ASSUME NEW c \in Rec PROVE Grown(c, c)
  BY DEF Grown, Rec

LEMMA PastGrown ==
    ASSUME NEW c \in Rec, NEW d \in Rec, NEW e \in Rec, Past(c, d), Grown(d, e) PROVE Past(c, e)
  BY DEF Past, Grown, Rec

LEMMA MakesGrown ==
    ASSUME NEW c \in Rec, NEW d \in Rec, NEW e \in Rec, NEW op, Makes(c, d, op), Grown(d, e)
    PROVE  Makes(c, e, op)
<1>1. c.ver - 1 \in 0 .. d.ver /\ c.ver - 1 <= e.ver
  BY DEF Makes, Grown, Rec
<1>2. SubSeq(e.val, 1, c.ver - 1) = SubSeq(d.val, 1, c.ver - 1)
  BY <1>1 DEF Grown
<1> QED BY <1>1, <1>2 DEF Makes

LEMMA DatasIs ==
    ASSUME NEW d \in Datas
    PROVE  \A k \in DOMAIN d : k \in Key /\ d[k] \in Rec
  BY PFunOut DEF Datas

LEMMA CopyGrows ==
    ASSUME StoreTyped, StoreTyped', NEW u \in Uid, NEW d \in Datas, Copy(u, d), Grows(u)
    PROVE  Copy(u, d)'
<1> SUFFICES ASSUME NEW k \in DOMAIN d PROVE k \in DOMAIN vmap'[u] /\ Past(d[k], db'[u][k])
  BY DEF Copy
<1>1. k \in Key /\ d[k] \in Rec
  BY DatasIs
<1>2. db[u][k] \in Rec /\ db'[u][k] \in Rec
  BY <1>1 DEF StoreTyped
<1>3. Past(d[k], db[u][k]) /\ Grown(db[u][k], db'[u][k])
  BY <1>1 DEF Copy, Grows
<1>4. Past(d[k], db'[u][k])
  BY <1>1, <1>2, <1>3, PastGrown
<1> QED BY <1>4 DEF Copy, Grows

LEMMA PastSelf == ASSUME NEW d \in Rec, d.ver = Len(d.val) PROVE Past(d, d)
<1>1. d.val \in Seq(Op) /\ d.ver \in Nat
  BY DEF Rec
<1>2. SubSeq(d.val, 1, Len(d.val)) = d.val
  BY <1>1, SubSeqFull
<1> QED BY <1>1, <1>2 DEF Past

LEMMA OnceTail ==
    ASSUME NEW S, NEW q \in Seq(S), q # << >>, Once(q)
    PROVE  Once(Tail(q)) /\ \A n \in Msgs(Tail(q)) : n.id # Head(q).id
<1>1. /\ Len(q) \in Nat /\ Len(q) > 0 /\ DOMAIN q = 1 .. Len(q) /\ Head(q) = q[1]
      /\ DOMAIN Tail(q) = 1 .. Len(q) - 1
      /\ \A i \in 1 .. Len(q) - 1 : Tail(q)[i] = q[i + 1]
  BY HeadTailProperties, LenProperties, EmptySeq
<1>2. ASSUME NEW i \in DOMAIN Tail(q), NEW j \in DOMAIN Tail(q), Tail(q)[i].id = Tail(q)[j].id
      PROVE  i = j
  <2>1. i + 1 \in DOMAIN q /\ j + 1 \in DOMAIN q /\ q[i + 1].id = q[j + 1].id
    BY <1>1, <1>2
  <2>2. i + 1 = j + 1
    BY <2>1 DEF Once
  <2> QED BY <1>1, <2>2
<1>3. ASSUME NEW i \in DOMAIN Tail(q) PROVE Tail(q)[i].id # Head(q).id
  <2>1. i + 1 \in DOMAIN q /\ 1 \in DOMAIN q /\ i + 1 # 1 /\ Tail(q)[i] = q[i + 1]
    BY <1>1
  <2> QED BY <1>1, <2>1 DEF Once
<1> QED BY <1>2, <1>3 DEF Once, Msgs

LEMMA OnceAppend ==
    ASSUME NEW S, NEW q \in Seq(S), NEW m \in S, Once(q), \A n \in Msgs(q) : n.id # m.id
    PROVE  Once(Append(q, m))
<1>1. /\ Len(q) \in Nat /\ DOMAIN q = 1 .. Len(q)
      /\ DOMAIN Append(q, m) = 1 .. Len(q) + 1 /\ Append(q, m)[Len(q) + 1] = m
      /\ \A i \in 1 .. Len(q) : Append(q, m)[i] = q[i]
  BY AppendProperties, LenProperties
<1>2. \A i \in DOMAIN q : q[i].id # m.id
  BY DEF Msgs
<1> SUFFICES ASSUME NEW i \in 1 .. Len(q) + 1, NEW j \in 1 .. Len(q) + 1,
                    Append(q, m)[i].id = Append(q, m)[j].id
             PROVE  i = j
  BY <1>1 DEF Once
<1>3. CASE i \in DOMAIN q /\ j \in DOMAIN q
  BY <1>1, <1>3 DEF Once
<1>4. CASE i \notin DOMAIN q \/ j \notin DOMAIN q
  BY <1>1, <1>2, <1>4
<1> QED BY <1>3, <1>4

LEMMA ConcatOne ==
    ASSUME NEW S, NEW q \in Seq(S), NEW a \in S PROVE q \o <<a>> = Append(q, a)
  BY AppendIsConcat

-----------------------------------------------------------------------------
(* What a step that does not concern a session or message leaves true.     *)

Same(s, id, x, v) ==
    /\ \A m \in Msgs(req'[s][v]) : m.id = id => m \in Msgs(req[s][v])
    /\ \A m \in Msgs(rsp'[s][v]) : m.id = id => m \in Msgs(rsp[s][v])
    /\ v \in Uids(x) => /\ Grows(v)
                        /\ <<x.op, v>> \in applied' <=> <<x.op, v>> \in applied
                        /\ <<x.op, v>> \in refused' <=> <<x.op, v>> \in refused

LEMMA FreeKept ==
    ASSUME NEW q, NEW r, NEW p, NEW o, NEW id, Free(q, r, id),
           \A m \in Msgs(p) : m.id = id => m \in Msgs(q),
           \A m \in Msgs(o) : m.id = id => m \in Msgs(r)
    PROVE  Free(p, o, id)
  BY DEF Free

LEMMA ReadyKept ==
    ASSUME StoreTyped, StoreTyped', NEW u \in Uid, NEW x, Usable(x), Ready(u, x), Grows(u),
           <<x.op, u>> \in applied' <=> <<x.op, u>> \in applied,
           <<x.op, u>> \in refused' <=> <<x.op, u>> \in refused
    PROVE  Ready(u, x)'
<1>1. x.data[u] \in Datas
  BY UsableIs, PFunOut DEF Ready
<1>2. Copy(u, x.data[u])'
  BY <1>1, CopyGrows DEF Ready
<1> QED BY <1>2 DEF Ready, Untold

LEMMA QueryingKept ==
    ASSUME StoreTyped, StoreTyped', NEW s \in Svr, NEW id, NEW x, Usable(x), NEW v \in Uid,
           Querying(s, id, x, v), Same(s, id, x, v)
    PROVE  Querying(s, id, x, v)'
<1>1. CASE v \notin Uids(x) \/ v \in DOMAIN x.data
  <2>1. Free(req[s][v], rsp[s][v], id) /\ (v \in Uids(x) => Ready(v, x))
    BY <1>1 DEF Querying
  <2>2. Free(req'[s][v], rsp'[s][v], id)
    BY <2>1, FreeKept DEF Same
  <2>3. v \in Uids(x) => Ready(v, x)'
    BY <2>1, ReadyKept DEF Same
  <2> QED BY <1>1, <2>2, <2>3 DEF Querying, Uids
<1>2. CASE ~ (v \notin Uids(x) \/ v \in DOMAIN x.data)
  <2>1. Asked(req[s][v], rsp[s][v], id, KeysOf(x.plan, v)) /\ Untold(x.op, v)
    BY <1>2 DEF Querying
  <2>2. Asked(req'[s][v], rsp'[s][v], id, KeysOf(x.plan, v))
    BY <2>1 DEF Asked, Same
  <2>3. Untold(x.op, v)'
    BY <1>2, <2>1 DEF Untold, Same
  <2> QED BY <1>2, <2>2, <2>3 DEF Querying, Uids
<1> QED BY <1>1, <1>2

LEMMA LaterIs ==
    ASSUME NEW x, Usable(x)
    PROVE  /\ \A v \in Later(x) : v \in Uids(x) /\ v \in Uid /\ v # Cur(x)
           /\ Cur(x) \in Uids(x) /\ Cur(x) \in Uid
           /\ KeysOf(x.plan, Cur(x)) = x.plan[x.index].keys
<1>1. x.plan \in Plans /\ x.index \in DOMAIN x.plan
  BY UsableIs DEF Usable
<1>2. /\ DOMAIN x.plan = 1 .. Len(x.plan) /\ Len(x.plan) \in Nat
      /\ \A i \in DOMAIN x.plan : x.plan[i].uid \in Uid
      /\ \A i, j \in DOMAIN x.plan : x.plan[i].uid = x.plan[j].uid => i = j
  BY <1>1, PlanIs
<1>3. \A v \in Later(x) : v \in Uids(x) /\ v \in Uid /\ v # Cur(x)
  BY <1>1, <1>2 DEF Later, Uids, Cur
<1>4. {j \in DOMAIN x.plan : x.plan[j].uid = Cur(x)} = {x.index}
  BY <1>1, <1>2 DEF Cur
<1>5. KeysOf(x.plan, Cur(x)) = x.plan[x.index].keys
  BY <1>4 DEF KeysOf
<1> QED BY <1>1, <1>2, <1>3, <1>5 DEF Uids, Cur

LEMMA UpdatingKept ==
    ASSUME StoreTyped, StoreTyped', NEW s \in Svr, NEW id, NEW x, Usable(x), NEW v \in Uid,
           Updating(s, id, x, v), Same(s, id, x, v)
    PROVE  Updating(s, id, x, v)'
<1>1. CASE v = Cur(x)
  <2>1. Saving(req[s][v], rsp[s][v], id, <<x.op, v>>) /\ v \in Uids(x)
    BY <1>1, LaterIs DEF Updating
  <2>2. Saving(req[s][v], rsp[s][v], id, <<x.op, v>>)'
    BY <2>1 DEF Saving, Same
  <2> QED BY <1>1, <2>2 DEF Updating, Cur
<1>2. CASE v # Cur(x)
  <2>1. Free(req[s][v], rsp[s][v], id) /\ (v \in Later(x) => Ready(v, x))
    BY <1>2 DEF Updating
  <2>2. Free(req'[s][v], rsp'[s][v], id)
    BY <2>1, FreeKept DEF Same
  <2>3. v \in Later(x) => Ready(v, x)'
    BY <2>1, ReadyKept, LaterIs DEF Same
  <2> QED BY <1>2, <2>2, <2>3 DEF Updating, Cur, Later
<1> QED BY <1>1, <1>2

LEMMA SessKept ==
    ASSUME StoreTyped, StoreTyped', NEW s \in Svr, NEW id, NEW x, Usable(x),
           NEW f, NEW g, SessOk(f, s, id, x), g[x.op] = f[x.op], id <= curId'[s],
           \A v \in Uid : Same(s, id, x, v)
    PROVE  SessOk(g, s, id, x)'
<1>1. x.state = "query" => \A v \in Uid : Querying(s, id, x, v)'
  BY QueryingKept DEF SessOk
<1>2. x.state = "save" => \A v \in Uid : Updating(s, id, x, v)'
  BY UpdatingKept DEF SessOk
<1> QED BY <1>1, <1>2 DEF SessOk, Uids

SaveSame(f, g, s, u, id) ==
    /\ nop \in Nat /\ nop' \in Nat /\ nop <= nop'
    /\ \A op \in 1 .. nop : g[op] = f[op]
    /\ \A op \in 1 .. nop : f[op] = <<s, id>> /\ Untold(op, u) => Untold(op, u)'

LEMMA SaveKept ==
    ASSUME StoreTyped, StoreTyped', NEW s \in Svr, NEW u \in Uid, NEW m \in Save,
           NEW f, NEW g, SaveOk(f, s, u, m), Grows(u), SaveSame(f, g, s, u, m.id)
    PROVE  SaveOk(g, s, u, m)'
<1>1. PICK op \in 1 .. nop : /\ f[op] = <<s, m.id>> /\ Untold(op, u)
                             /\ \A k \in DOMAIN m.datas : Makes(m.datas[k], db[u][k], op)
  BY DEF SaveOk
<1>2. op \in 1 .. nop' /\ g[op] = <<s, m.id>> /\ Untold(op, u)'
  BY <1>1 DEF SaveSame
<1>3. ASSUME NEW k \in DOMAIN m.datas
      PROVE  k \in DOMAIN vmap'[u] /\ Makes(m.datas[k], db'[u][k], op)
  <2>1. k \in Key /\ m.datas[k] \in Rec
    BY DatasIs DEF Save
  <2>2. db[u][k] \in Rec /\ db'[u][k] \in Rec
    BY <2>1 DEF StoreTyped
  <2>3. Makes(m.datas[k], db[u][k], op) /\ Grown(db[u][k], db'[u][k])
    BY <1>1, <2>1 DEF Grows
  <2> QED BY <2>1, <2>2, <2>3, MakesGrown DEF SaveOk, Grows
<1> QED BY <1>2, <1>3 DEF SaveOk

LEMMA AnswerKept ==
    ASSUME StoreTyped, StoreTyped', NEW u \in Uid, NEW m \in Response, AnswerOk(u, m), Grows(u)
    PROVE  AnswerOk(u, m)'
<1>1. m.datas \in Datas
  BY DEF Response
<1> QED BY <1>1, CopyGrows DEF AnswerOk

-----------------------------------------------------------------------------
(* The steps of the network, the clock and the day.                        *)

LEMMA LaneTaken ==
    ASSUME NEW q \in Seq(Requests), NEW r, NEW n, q # << >>, LaneOk(q, r, n)
    PROVE  LaneOk(Tail(q), r, n)
<1>1. Once(Tail(q)) /\ \A m \in Msgs(Tail(q)) : m \in Msgs(q)
  BY OnceTail, TailIs DEF LaneOk
<1> QED BY <1>1 DEF LaneOk

LEMMA LaneRead ==
    ASSUME NEW q, NEW r \in Seq(Response), NEW n, r # << >>, LaneOk(q, r, n)
    PROVE  LaneOk(q, Tail(r), n)
<1>1. Once(Tail(r)) /\ \A m \in Msgs(Tail(r)) : m \in Msgs(r)
  BY OnceTail, TailIs DEF LaneOk
<1> QED BY <1>1 DEF LaneOk

(* Fewer messages and sessions are in order if those there were are.       *)
Fewer == /\ \A t \in Svr, v \in Uid : /\ \A m \in Msgs(req'[t][v]) : m \in Msgs(req[t][v])
                                      /\ \A m \in Msgs(rsp'[t][v]) : m \in Msgs(rsp[t][v])
         /\ \A t \in Svr : \A j \in DOMAIN sess'[t] :
               j \in DOMAIN sess[t] /\ sess'[t][j] = sess[t][j]

LEMMA MsgsTyped ==
    ASSUME PathTyped, NEW s \in Svr, NEW u \in Uid
    PROVE  /\ \A m \in Msgs(req[s][u]) : m \in Requests /\ (m.kind = "save" => m \in Save)
           /\ \A m \in Msgs(rsp[s][u]) : m \in Response
<1>1. PICK q \in Seq(Requests) : q = req[s][u]
  BY PathSplit DEF ReqTyped
<1>2. PICK r \in Seq(Response) : r = rsp[s][u]
  BY PathSplit DEF RspTyped
<1>3. \A m \in Msgs(q) : m \in Requests
  BY <1>1, ElementOfSeq, LenProperties DEF Msgs
<1>4. \A m \in Msgs(r) : m \in Response
  BY <1>2, ElementOfSeq, LenProperties DEF Msgs
<1>5. \A m \in Requests : m.kind = "save" => m \in Save
  BY DEF Requests, Query
<1> QED BY <1>1, <1>2, <1>3, <1>4, <1>5

LEMMA StoreKept ==
    ASSUME StoreInv, UNCHANGED <<db, vmap, applied>> PROVE StoreInv'
  BY DEF StoreInv, RecordOk

LEMMA GrowsSame ==
    ASSUME StoreTyped, NEW u \in Uid, UNCHANGED <<db, vmap>> PROVE Grows(u)
  BY GrownSame DEF Grows, StoreTyped

LEMMA FewerGood ==
    ASSUME TInv, TInv', NEW f, Good(f), Fewer, PathInv',
           UNCHANGED <<db, vmap, curId, nop, applied, saved, refused>>
    PROVE  Good(f)'
<1>1. StoreTyped /\ StoreTyped' /\ PathTyped /\ PathTyped' /\ SessTyped
  BY DEF TInv
<1>2. \A u \in Uid : Grows(u)
  BY <1>1, GrowsSame
<1>3. StoreInv' /\ TalkInv' /\ Owners(f)'
  BY StoreKept DEF Good, TalkInv, Owners
<1>4. AnswerInv'
  <2> SUFFICES ASSUME NEW s \in Svr, NEW u \in Uid, NEW m \in Msgs(rsp'[s][u])
               PROVE  AnswerOk(u, m)'
    BY DEF AnswerInv, Msgs
  <2>1. m \in Msgs(rsp[s][u]) /\ m \in Response
    BY <1>1, MsgsTyped DEF Fewer
  <2>2. AnswerOk(u, m)
    BY <2>1 DEF Good, AnswerInv
  <2> QED BY <1>1, <1>2, <2>1, <2>2, AnswerKept
<1>5. SaveInv(f)'
  <2> SUFFICES ASSUME NEW s \in Svr, NEW u \in Uid, NEW m \in Msgs(req'[s][u]), m.kind = "save"
               PROVE  SaveOk(f, s, u, m)'
    BY DEF SaveInv, Msgs
  <2>1. m \in Msgs(req[s][u]) /\ m \in Save
    BY <1>1, MsgsTyped DEF Fewer
  <2>2. SaveOk(f, s, u, m)
    BY <2>1 DEF Good, SaveInv
  <2>3. SaveSame(f, f, s, u, m.id)
    BY DEF TInv, Counted, Untold, SaveSame
  <2> QED BY <1>1, <1>2, <2>1, <2>2, <2>3, SaveKept
<1>6. SessInv(f)'
  <2> SUFFICES ASSUME NEW s \in Svr, NEW id \in DOMAIN sess'[s]
               PROVE  SessOk(f, s, id, sess[s][id])'
    BY DEF SessInv
  <2>1. PICK x : x = sess'[s][id]
    OBVIOUS
  <2>2. id \in DOMAIN sess[s] /\ x = sess[s][id]
    BY <2>1 DEF Fewer
  <2>3. Usable(x) /\ SessOk(f, s, id, x)
    BY <1>1, <2>2 DEF Good, SessInv, SessTyped
  <2>4. \A v \in Uid : Same(s, id, x, v)
    BY <1>2 DEF Same, Fewer
  <2>5. id <= curId'[s]
    BY <2>3 DEF SessOk
  <2>6. SessOk(f, s, id, x)'
    BY <1>1, <2>3, <2>4, <2>5, SessKept
  <2> QED BY <2>1, <2>6
<1> QED BY <1>3, <1>4, <1>5, <1>6 DEF Good

LEMMA LoseGood ==
    ASSUME TInv, TInv', NEW f, Good(f), NEW s \in Svr, NEW u \in Uid, Lose(s, u)
    PROVE  Good(f)'
<1>1. ReqTyped /\ RspTyped
  BY PathSplit DEF TInv
<1>2. /\ UNCHANGED <<db, vmap, sess, curId, nop, applied, saved, refused>>
      /\ (Taken(s, u) /\ rsp' = rsp) \/ (Read(s, u) /\ req' = req)
  BY DEF Lose, Taken, Read, ends
<1>3. ASSUME NEW t \in Svr, NEW v \in Uid
      PROVE  /\ \A m \in Msgs(req'[t][v]) : m \in Msgs(req[t][v])
             /\ \A m \in Msgs(rsp'[t][v]) : m \in Msgs(rsp[t][v])
             /\ LaneOk(req'[t][v], rsp'[t][v], curId'[t])
  <2>1. PICK q \in Seq(Requests) : q = req[t][v]
    BY <1>1 DEF ReqTyped
  <2>2. PICK r \in Seq(Response) : r = rsp[t][v]
    BY <1>1 DEF RspTyped
  <2>3. LaneOk(q, r, curId[t])
    BY <2>1, <2>2 DEF Good, PathInv
  <2>4. \/ req'[t][v] = q /\ rsp'[t][v] = r
        \/ req'[t][v] = Tail(q) /\ rsp'[t][v] = r /\ q # << >>
        \/ req'[t][v] = q /\ rsp'[t][v] = Tail(r) /\ r # << >>
    <3>1. CASE Taken(s, u) /\ rsp' = rsp
      BY <1>1, <2>1, <2>2, <3>1, TakenIs DEF Taken
    <3>2. CASE Read(s, u) /\ req' = req
      BY <1>1, <2>1, <2>2, <3>2, ReadIs DEF Read
    <3> QED BY <1>2, <3>1, <3>2
  <2>5. q # << >> => LaneOk(Tail(q), r, curId[t]) /\ \A m \in Msgs(Tail(q)) : m \in Msgs(q)
    BY <2>3, LaneTaken, TailIs
  <2>6. r # << >> => LaneOk(q, Tail(r), curId[t]) /\ \A m \in Msgs(Tail(r)) : m \in Msgs(r)
    BY <2>3, LaneRead, TailIs
  <2>7. curId'[t] = curId[t]
    BY <1>2
  <2> QED BY <2>1, <2>2, <2>3, <2>4, <2>5, <2>6, <2>7
<1>4. Fewer /\ PathInv'
  BY <1>2, <1>3 DEF Fewer, PathInv
<1> QED BY <1>2, <1>4, FewerGood

LEMMA TimeOutGood ==
    ASSUME TInv, TInv', NEW f, Good(f), NEW s \in Svr, TimeOut(s) PROVE Good(f)'
<1>1. PICK id \in DOMAIN sess[s] : Release(s, id)
  BY DEF TimeOut
<1>2. UNCHANGED <<db, vmap, curId, req, rsp, nop, applied, saved, refused>>
  BY <1>1 DEF TimeOut, Release, ends
<1>3. \A t \in Svr : \A j \in DOMAIN sess'[t] : j \in DOMAIN sess[t] /\ sess'[t][j] = sess[t][j]
  BY <1>1, SessGone DEF TInv, SessTyped
<1>4. Fewer /\ PathInv'
  BY <1>2, <1>3 DEF Fewer, PathInv, Good
<1> QED BY <1>2, <1>4, FewerGood

LEMMA VersionExpireGood ==
    ASSUME TInv, TInv', NEW f, Good(f), VersionExpire PROVE Good(f)'
<1>1. StoreTyped /\ StoreTyped' /\ PathTyped /\ SessTyped
  BY DEF TInv
<1>2. UNCHANGED <<db, sess, curId, req, rsp, nop, applied, saved, refused>>
  BY DEF VersionExpire, ends
<1>3. PICK u \in Uid : \E gone \in SUBSET DOMAIN vmap[u] :
              /\ \A k \in gone : vmap[u][k].stamped => ~ InUse(u)
              /\ vmap' \in [Uid -> PFun(Key, Cached)]
              /\ \A v \in Uid : v # u => vmap'[v] = vmap[v]
              /\ \A k : k \in DOMAIN vmap'[u] <=> k \in DOMAIN vmap[u] /\ k \notin gone
              /\ \A k \in DOMAIN vmap'[u] : vmap'[u][k] = vmap[u][k]
  BY <1>1, ExpireIs
<1>4. PICK gone \in SUBSET DOMAIN vmap[u] :
              /\ \A k \in gone : vmap[u][k].stamped => ~ InUse(u)
              /\ \A v \in Uid : v # u => vmap'[v] = vmap[v]
              /\ \A k : k \in DOMAIN vmap'[u] <=> k \in DOMAIN vmap[u] /\ k \notin gone
              /\ \A k \in DOMAIN vmap'[u] : vmap'[u][k] = vmap[u][k]
  BY <1>3
<1>5. ASSUME NEW v \in Uid, InUse(v) PROVE Grows(v)
  <2>1. \A k \in Key : Grown(db[v][k], db'[v][k])
    BY <1>1, <1>2, GrownSame DEF StoreTyped
  <2>2. ASSUME NEW k \in DOMAIN vmap[v] PROVE k \in DOMAIN vmap'[v]
    <3>1. CASE v # u
      BY <1>4, <3>1
    <3>2. CASE v = u
      <4>1. k \in Key
        BY <1>1, PFunOut DEF StoreTyped
      <4>2. vmap[u][k].stamped
        BY <2>2, <3>2, <4>1 DEF Good, StoreInv, RecordOk
      <4> QED BY <1>4, <1>5, <2>2, <3>2, <4>2
    <3> QED BY <3>1, <3>2
  <2> QED BY <2>1, <2>2 DEF Grows
<1>6. StoreInv'
  <2> SUFFICES ASSUME NEW v \in Uid, NEW k \in Key PROVE RecordOk(v, k)'
    BY DEF StoreInv
  <2>1. RecordOk(v, k)
    BY DEF Good, StoreInv
  <2>2. k \in DOMAIN vmap'[v] => k \in DOMAIN vmap[v] /\ vmap'[v][k] = vmap[v][k]
    BY <1>4
  <2> QED BY <1>2, <2>1, <2>2 DEF RecordOk
<1>7. PathInv' /\ TalkInv' /\ Owners(f)'
  BY <1>2 DEF Good, PathInv, TalkInv, Owners
<1>8. ASSUME NEW s \in Svr, NEW v \in Uid
      PROVE  /\ \A m \in Msgs(req[s][v]) : InUse(v)
             /\ \A m \in Msgs(rsp[s][v]) : InUse(v)
  BY EmptySeq DEF InUse, Msgs
<1>9. AnswerInv'
  <2> SUFFICES ASSUME NEW s \in Svr, NEW v \in Uid, NEW m \in Msgs(rsp[s][v])
               PROVE  AnswerOk(v, m)'
    BY <1>2 DEF AnswerInv
  <2>1. m \in Response /\ AnswerOk(v, m)
    BY <1>1, MsgsTyped DEF Good, AnswerInv
  <2> QED BY <1>1, <1>5, <1>8, <2>1, AnswerKept
<1>10. SaveInv(f)'
  <2> SUFFICES ASSUME NEW s \in Svr, NEW v \in Uid, NEW m \in Msgs(req[s][v]), m.kind = "save"
               PROVE  SaveOk(f, s, v, m)'
    BY <1>2 DEF SaveInv
  <2>1. m \in Save /\ SaveOk(f, s, v, m)
    BY <1>1, MsgsTyped DEF Good, SaveInv
  <2>2. SaveSame(f, f, s, v, m.id)
    BY <1>2 DEF TInv, Counted, Untold, SaveSame
  <2> QED BY <1>1, <1>5, <1>8, <2>1, <2>2, SaveKept
<1>11. SessInv(f)'
  <2> SUFFICES ASSUME NEW s \in Svr, NEW id \in DOMAIN sess[s]
               PROVE  SessOk(f, s, id, sess[s][id])'
    BY <1>2 DEF SessInv
  <2>1. PICK x : x = sess[s][id]
    OBVIOUS
  <2>2. Usable(x) /\ SessOk(f, s, id, x)
    BY <1>1, <2>1 DEF Good, SessInv, SessTyped
  <2>3. \A v \in Uids(x) : InUse(v)
    BY <2>1 DEF InUse
  <2>4. \A v \in Uid : Same(s, id, x, v)
    BY <1>2, <1>5, <2>3 DEF Same
  <2>5. id <= curId'[s]
    BY <1>2, <2>2 DEF SessOk
  <2>6. SessOk(f, s, id, x)'
    BY <1>1, <2>2, <2>4, <2>5, SessKept
  <2> QED BY <1>2, <2>1, <2>6
<1> QED BY <1>6, <1>7, <1>9, <1>10, <1>11 DEF Good

(* A new session: its number is new and so is its handler execution.       *)
LEMMA QueryAllGood ==
    ASSUME TInv, TInv', NEW f, Good(f), NEW s \in Svr, QueryAllData(s)
    PROVE  \E g \in [1 .. nop' -> Svr \X Nat] : Good(g)'
<1>1. PICK plan \in mix.plans :
              /\ plan \in Plans /\ nop < mix.op /\ nop' = nop + 1
              /\ curId' = [curId EXCEPT ![s] = curId[s] + 1]
              /\ Opens(s, curId[s] + 1, Fresh(nop + 1, plan))
              /\ AskAll(s, curId[s] + 1, plan)
              /\ UNCHANGED <<db, vmap, rsp, applied, saved, refused, mix, faults>>
  BY QueryAllIs
<1>2. PICK id : id = curId[s] + 1
  OBVIOUS
<1>3. PICK op : op = nop + 1
  OBVIOUS
<1>4. PICK z : z = Fresh(op, plan)
  OBVIOUS
<1>5. /\ StoreTyped /\ StoreTyped' /\ PathTyped /\ PathTyped' /\ SessTyped /\ ReqTyped /\ RspTyped
      /\ EndsTyped
  BY PathSplit DEF TInv
<1>6. nop \in Nat /\ id \in Nat /\ curId \in [Svr -> 0 .. nop] /\ nop' = op /\ op \in Nat
  BY <1>1, <1>2, <1>3 DEF TInv, Counted, SessTyped
<1>7. curId'[s] = id /\ \A t \in Svr : curId[t] <= curId'[t] /\ (t # s => curId'[t] = curId[t])
  BY <1>1, <1>2, <1>6
<1>8. \A t \in Svr, v \in Uid :
         req'[t][v] = IF t = s /\ v \in UidsOf(plan)
                      THEN Append(req[t][v], Ask(id, plan, v)) ELSE req[t][v]
  BY <1>1, <1>2, <1>5, <1>6, AskAllIs
<1>9. /\ z \in Session /\ Uids(z) = UidsOf(plan) /\ z.op = op /\ z.plan = plan /\ z.state = "query"
      /\ z.redo = 0 /\ DOMAIN z.data = {}
  BY <1>1, <1>3, <1>4, <1>6, FreshTyped, EmptyTable DEF Fresh
<1>10. \A t \in Svr : \A j \in DOMAIN sess'[t] :
          IF t = s /\ j = id THEN sess'[t][j] = z
          ELSE j \in DOMAIN sess[t] /\ sess'[t][j] = sess[t][j]
  <2>1. Opens(s, id, z) /\ sess \in [Svr -> PFun(Nat, Session)]
    BY <1>1, <1>2, <1>3, <1>4, <1>5 DEF SessTyped
  <2> QED BY <1>6, <1>9, <2>1, SessNew
<1> DEFINE g == [o \in 1 .. op |-> IF o = op THEN <<s, id>> ELSE f[o]]
<1>11. Owners(f)
  BY DEF Good
<1>12. /\ g \in [1 .. op -> Svr \X Nat] /\ g[op] = <<s, id>> /\ \A o \in 1 .. nop : g[o] = f[o]
  BY <1>3, <1>6, <1>11 DEF Owners
<1> HIDE DEF g
<1>13. Owners(g)'
  <2>1. ASSUME NEW o \in 1 .. op PROVE o \in 1 .. nop \/ o = op
    BY <1>3, <1>6
  <2>2. \A o \in 1 .. nop : g[o] # g[op]
    <3> TAKE o \in 1 .. nop
    <3>1. g[o] \in Svr \X Nat /\ g[o][2] <= curId[g[o][1]]
      BY <1>11, <1>12 DEF Owners
    <3>2. curId[s] < id
      BY <1>2, <1>6
    <3> QED BY <1>6, <1>12, <3>1, <3>2
  <2>3. ASSUME NEW o \in 1 .. op, NEW p \in 1 .. op, g[o] = g[p] PROVE o = p
    BY <1>11, <1>12, <2>1, <2>2, <2>3 DEF Owners
  <2>4. ASSUME NEW o \in 1 .. op PROVE g[o][2] <= curId'[g[o][1]]
    <3>1. CASE o = op
      BY <1>6, <1>7, <1>12, <3>1
    <3>2. CASE o \in 1 .. nop
      <4>1. g[o] = f[o] /\ f[o] \in Svr \X Nat /\ f[o][2] <= curId[f[o][1]]
        BY <1>11, <1>12, <3>2 DEF Owners
      <4>2. PICK t \in Svr, j \in Nat : f[o] = <<t, j>>
        BY <4>1
      <4>3. curId[t] <= curId'[t] /\ curId[t] \in Nat /\ curId'[t] \in Nat
        BY <1>6, <1>7
      <4> QED BY <4>1, <4>2, <4>3
    <3> QED BY <2>1, <3>1, <3>2
  <2> QED BY <1>6, <1>12, <2>3, <2>4 DEF Owners
<1>14. \A u \in Uid : Grows(u)
  BY <1>1, <1>5, GrowsSame
<1>15. StoreInv' /\ TalkInv'
  BY <1>1, StoreKept DEF Good, TalkInv
(* What was on its way has another number than the new session.            *)
<1>16. ASSUME NEW t \in Svr, NEW v \in Uid
       PROVE  /\ LaneOk(req'[t][v], rsp'[t][v], curId'[t])
              /\ \A m \in Msgs(req'[t][v]) :
                    \/ m \in Msgs(req[t][v]) /\ (t = s => m.id # id)
                    \/ t = s /\ v \in UidsOf(plan) /\ m = Ask(id, plan, v)
              /\ \A m \in Msgs(rsp'[t][v]) : m \in Msgs(rsp[t][v]) /\ (t = s => m.id # id)
  <2>1. PICK q \in Seq(Requests) : q = req[t][v]
    BY <1>5 DEF ReqTyped
  <2>2. PICK r \in Seq(Response) : r = rsp[t][v]
    BY <1>5 DEF RspTyped
  <2>3. LaneOk(q, r, curId[t])
    BY <2>1, <2>2 DEF Good, PathInv
  <2>4. rsp'[t][v] = r /\ curId[t] <= curId'[t] /\ curId[t] \in Nat /\ curId'[t] \in Nat
    BY <1>1, <1>6, <1>7, <2>2
  <2>5. \A m \in Requests : m.id \in Nat
    BY DEF Requests, Query, Save
  <2>6. \A m \in Msgs(q) : m.id \in Nat
    BY <1>5, <2>1, <2>5, MsgsTyped
  <2>7. \A m \in Msgs(r) : m.id \in Nat
    BY <1>5, <2>2, MsgsTyped DEF Response
  <2>8. LaneOk(q, r, curId'[t])
    BY <2>3, <2>4, <2>6, <2>7 DEF LaneOk
  <2>9. t = s => curId[t] < id /\ curId'[t] = id
    BY <1>2, <1>6, <1>7
  <2>10. t = s => (\A m \in Msgs(q) : m.id # id) /\ \A m \in Msgs(r) : m.id # id
    BY <1>6, <2>3, <2>4, <2>6, <2>7, <2>9 DEF LaneOk
  <2>11. CASE t = s /\ v \in UidsOf(plan)
    <3>1. PICK a \in Requests : a = Ask(id, plan, v)
      BY <1>1, <1>6, AskTyped DEF Requests
    <3>2. a.id = id
      BY <3>1 DEF Ask
    <3>3. req'[t][v] = Append(q, a)
      BY <1>8, <2>1, <2>11, <3>1
    <3>4. \A m : m \in Msgs(Append(q, a)) <=> m \in Msgs(q) \/ m = a
      BY AppendIs
    <3>5. Once(Append(q, a))
      BY <2>3, <2>10, <2>11, <3>2, OnceAppend DEF LaneOk
    <3>6. LaneOk(Append(q, a), r, curId'[t])
      BY <1>6, <2>8, <2>9, <2>10, <2>11, <3>2, <3>4, <3>5 DEF LaneOk
    <3> QED BY <2>1, <2>2, <2>4, <2>10, <2>11, <3>1, <3>3, <3>4, <3>6
  <2>12. CASE ~ (t = s /\ v \in UidsOf(plan))
    BY <1>8, <2>1, <2>2, <2>4, <2>8, <2>10, <2>12
  <2> QED BY <2>11, <2>12
<1>17. PathInv'
  BY <1>16 DEF PathInv
<1>18. AnswerInv'
  <2> SUFFICES ASSUME NEW t \in Svr, NEW v \in Uid, NEW m \in Msgs(rsp'[t][v])
               PROVE  AnswerOk(v, m)'
    BY DEF AnswerInv, Msgs
  <2>1. m \in Response /\ AnswerOk(v, m)
    BY <1>5, <1>16, MsgsTyped DEF Good, AnswerInv
  <2> QED BY <1>5, <1>14, <2>1, AnswerKept
<1>19. SaveInv(g)'
  <2> SUFFICES ASSUME NEW t \in Svr, NEW v \in Uid, NEW m \in Msgs(req'[t][v]), m.kind = "save"
               PROVE  SaveOk(g, t, v, m)'
    BY DEF SaveInv, Msgs
  <2>1. m \in Msgs(req[t][v])
    BY <1>16 DEF Ask
  <2>2. m \in Save /\ SaveOk(f, t, v, m)
    BY <1>5, <2>1, MsgsTyped DEF Good, SaveInv
  <2>3. SaveSame(f, g, t, v, m.id)
    BY <1>1, <1>3, <1>6, <1>12 DEF SaveSame, Untold
  <2> QED BY <1>5, <1>14, <2>2, <2>3, SaveKept
<1>20. SessInv(g)'
  <2> SUFFICES ASSUME NEW t \in Svr, NEW j \in DOMAIN sess'[t]
               PROVE  SessOk(g, t, j, sess[t][j])'
    BY DEF SessInv
  <2>1. PICK x : x = sess'[t][j]
    OBVIOUS
  <2>2. CASE t = s /\ j = id
    <3>1. x = z
      BY <1>10, <2>1, <2>2
    <3>2. ASSUME NEW v \in Uid PROVE Querying(s, id, z, v)'
      <4>1. CASE v \notin Uids(z)
        <5>1. Free(req'[s][v], rsp'[s][v], id)
          BY <1>9, <1>16, <4>1 DEF Free
        <5> QED BY <4>1, <5>1 DEF Querying, Uids
      <4>2. CASE v \in Uids(z)
        <5>1. v \notin DOMAIN z.data
          BY <1>9
        <5>2. \A m \in Msgs(req'[s][v]) : m.id = id => m = Ask(id, plan, v)
          BY <1>16
        <5>3. Asked(req'[s][v], rsp'[s][v], id, KeysOf(z.plan, v))
          BY <1>9, <1>16, <5>2 DEF Asked, Ask
        <5>4. <<op, v>> \notin applied /\ <<op, v>> \notin refused
          BY <1>3, <1>5, <1>6 DEF EndsTyped
        <5>5. Untold(z.op, v)'
          BY <1>1, <1>9, <5>4 DEF Untold
        <5> QED BY <4>2, <5>1, <5>3, <5>5 DEF Querying, Uids
      <4> QED BY <4>1, <4>2
    <3>3. SessOk(g, s, id, z)'
      BY <1>7, <1>9, <1>12, <1>6, <3>2 DEF SessOk
    <3> QED BY <2>1, <2>2, <3>1, <3>3
  <2>3. CASE ~ (t = s /\ j = id)
    <3>1. j \in DOMAIN sess[t] /\ x = sess[t][j]
      BY <1>10, <2>1, <2>3
    <3>2. Usable(x) /\ SessOk(f, t, j, x)
      BY <1>5, <3>1 DEF Good, SessInv, SessTyped
    <3>3. g[x.op] = f[x.op]
      BY <1>12, <3>2 DEF Usable
    <3>4. j <= curId'[t]
      <4>1. j \in Nat /\ curId[t] \in Nat /\ curId'[t] \in Nat /\ curId[t] <= curId'[t]
        BY <1>5, <1>6, <1>7, <3>1 DEF SessTyped
      <4> QED BY <3>2, <4>1 DEF SessOk
    <3>5. \A v \in Uid : Same(t, j, x, v)
      <4> TAKE v \in Uid
      <4>1. \A m \in Msgs(req'[t][v]) : m.id = j => m \in Msgs(req[t][v])
        BY <1>16, <2>3 DEF Ask
      <4>2. \A m \in Msgs(rsp'[t][v]) : m.id = j => m \in Msgs(rsp[t][v])
        BY <1>16
      <4> QED BY <1>1, <1>14, <4>1, <4>2 DEF Same
    <3>6. SessOk(g, t, j, x)'
      BY <1>5, <3>2, <3>3, <3>4, <3>5, SessKept
    <3> QED BY <2>1, <3>6
  <2> QED BY <2>2, <2>3
<1>21. Good(g)' /\ g \in [1 .. nop' -> Svr \X Nat]
  BY <1>6, <1>12, <1>13, <1>15, <1>17, <1>18, <1>19, <1>20 DEF Good
<1> QED BY <1>21

-----------------------------------------------------------------------------
(* The data server.                                                        *)

LEMMA Caches ==
    ASSUME StoreTyped, StoreTyped', StoreInv, NEW u \in Uid, NEW K \in SUBSET Key,
           vmap' = Cache(u, K), UNCHANGED <<db, applied>>
    PROVE  /\ StoreInv' /\ \A v \in Uid : Grows(v)
           /\ Copy(u, ReadRecords(u, K))'
<1>1. /\ \A v \in Uid : v # u => Cache(u, K)[v] = vmap[v]
      /\ \A k : k \in DOMAIN Cache(u, K)[u] <=> k \in DOMAIN vmap[u] \/ k \in K
      /\ \A k \in K : Cache(u, K)[u][k].ver = db[u][k].ver /\ Cache(u, K)[u][k].stamped
      /\ \A k \in DOMAIN vmap[u] : k \notin K => Cache(u, K)[u][k] = vmap[u][k]
      /\ ReadRecords(u, K) \in Datas /\ DOMAIN ReadRecords(u, K) = K
      /\ \A k \in K : ReadRecords(u, K)[k] = db[u][k]
  BY CacheTyped
<1>2. PICK c : c = Cache(u, K)
  OBVIOUS
<1>3. vmap' = c
  BY <1>2
<1>4. /\ \A v \in Uid : v # u => c[v] = vmap[v]
      /\ \A k : k \in DOMAIN c[u] <=> k \in DOMAIN vmap[u] \/ k \in K
      /\ \A k \in K : c[u][k].ver = db[u][k].ver /\ c[u][k].stamped
      /\ \A k \in DOMAIN vmap[u] : k \notin K => c[u][k] = vmap[u][k]
  BY <1>1, <1>2
<1>5. StoreInv'
  <2> SUFFICES ASSUME NEW v \in Uid, NEW k \in Key PROVE RecordOk(v, k)'
    BY DEF StoreInv
  <2>1. RecordOk(v, k)
    BY DEF StoreInv
  <2>2. k \in DOMAIN c[v] => c[v][k].ver = db[v][k].ver /\ c[v][k].stamped
    <3>1. CASE v = u /\ k \in K
      BY <1>4, <3>1
    <3>2. CASE v = u /\ k \notin K
      <4>1. k \in DOMAIN c[u] => k \in DOMAIN vmap[u] /\ c[u][k] = vmap[u][k]
        BY <1>4, <3>2
      <4>2. k \in DOMAIN vmap[u] => vmap[u][k].ver = db[u][k].ver /\ vmap[u][k].stamped
        BY <2>1, <3>2 DEF RecordOk
      <4> QED BY <3>2, <4>1, <4>2
    <3>3. CASE v # u
      BY <1>4, <2>1, <3>3 DEF RecordOk
    <3> QED BY <3>1, <3>2, <3>3
  <2> QED BY <1>3, <2>1, <2>2 DEF RecordOk
<1>6. ASSUME NEW v \in Uid PROVE Grows(v)
  <2>1. \A k \in DOMAIN vmap[v] : k \in DOMAIN c[v]
    BY <1>4
  <2> QED BY <1>3, <2>1, GrownSame DEF Grows, StoreTyped
<1>7. Copy(u, ReadRecords(u, K))'
  <2>1. PICK d : d = ReadRecords(u, K)
    OBVIOUS
  <2>2. DOMAIN d = K /\ \A k \in K : d[k] = db[u][k] /\ k \in Key
    BY <1>1, <2>1
  <2>3. ASSUME NEW k \in K PROVE k \in DOMAIN c[u] /\ Past(d[k], db[u][k])
    <3>1. db[u][k] \in Rec /\ db[u][k].ver = Len(db[u][k].val)
      BY DEF StoreTyped, StoreInv, RecordOk
    <3> QED BY <1>4, <2>2, <3>1, PastSelf
  <2>4. Copy(u, d)'
    BY <1>3, <2>2, <2>3 DEF Copy
  <2>5. ReadRecords(u, K)' = d
    BY <2>1 DEF ReadRecords
  <2> QED BY <2>4, <2>5
<1> QED BY <1>5, <1>6, <1>7

(* A record one handler's change longer.                                   *)
LEMMA OneMore ==
    ASSUME NEW d \in Rec, NEW c \in Rec, NEW op \in Op, d.ver = Len(d.val), c.ver = d.ver + 1,
           Makes(c, d, op)
    PROVE  /\ c.val = Append(d.val, op) /\ c.ver = Len(c.val) /\ Grown(d, c)
           /\ Last(c.val) = op
           /\ \A i \in 1 .. Len(c.val) : (i \in 1 .. Len(d.val) /\ c.val[i] = d.val[i])
                                          \/ (i = Len(c.val) /\ c.val[i] = op)
<1>1. d.val \in Seq(Op) /\ d.ver \in Nat /\ c.ver \in Nat
  BY DEF Rec
<1>2. PICK q \in Seq(Op) : q = d.val
  BY <1>1
<1>3. SubSeq(q, 1, Len(q)) = q
  BY SubSeqFull
<1>4. c.val = Append(q, op)
  BY <1>1, <1>2, <1>3 DEF Makes
<1>5. /\ Len(Append(q, op)) = Len(q) + 1 /\ Append(q, op)[Len(q) + 1] = op
      /\ \A i \in 1 .. Len(q) : Append(q, op)[i] = q[i]
      /\ Append(q, op) \in Seq(Op) /\ Len(q) \in Nat
  BY AppendProperties, LenProperties
<1>6. Grown(d, c)
  <2>1. ASSUME NEW n \in 0 .. Len(q) PROVE SubSeq(Append(q, op), 1, n) = SubSeq(q, 1, n)
    <3>1. n \in Nat /\ n <= Len(q) /\ n <= Len(q) + 1
      BY <1>5
    <3>2. \A i \in 1 .. n : Append(q, op)[i] = q[i]
      BY <1>5, <3>1
    <3> QED BY <1>5, <3>1, <3>2
  <2> QED BY <1>1, <1>2, <1>4, <2>1 DEF Grown
<1>7. Last(Append(q, op)) = op
  BY LastAppended
<1> QED BY <1>1, <1>2, <1>4, <1>5, <1>6, <1>7

(* What is new in a record is the update of a handler that made none yet.  *)
Fresher == \A v \in Uid, k \in Key : \A i \in 1 .. Len(db'[v][k].val) :
              \/ i \in 1 .. Len(db[v][k].val) /\ db'[v][k].val[i] = db[v][k].val[i]
              \/ <<db'[v][k].val[i], v>> \notin applied

Stored(f, s, u, m) ==
    /\ StoreInv' /\ (\A v \in Uid : Grows(v)) /\ Fresher
    /\ \E op \in 1 .. nop : /\ f[op] = <<s, m.id>> /\ Untold(op, u)
                            /\ \A p : p \in applied' <=> p \in applied \/ p = <<op, u>>

LEMMA Stores ==
    ASSUME Counted, StoreTyped, StoreTyped', StoreInv, NEW s \in Svr, NEW u \in Uid, NEW m \in Save,
           NEW f, SaveOk(f, s, u, m), Behind(u, m) = {}, Accepts(s, u, m, DOMAIN m.datas, 0)
    PROVE  Stored(f, s, u, m)
<1> DEFINE K == DOMAIN m.datas
<1>1. PICK op \in 1 .. nop : /\ f[op] = <<s, m.id>> /\ Untold(op, u)
                             /\ \A k \in K : Makes(m.datas[k], db[u][k], op)
  BY DEF SaveOk
<1>2. op \in Op
  BY OpIs
<1>3. ASSUME NEW k \in K
      PROVE  /\ k \in Key /\ m.datas[k] \in Rec /\ db[u][k] \in Rec /\ k \in DOMAIN vmap[u]
             /\ m.datas[k].ver = db[u][k].ver + 1 /\ db[u][k].ver = Len(db[u][k].val)
             /\ Makes(m.datas[k], db[u][k], op)
  <2>1. k \in Key /\ m.datas[k] \in Rec
    BY DatasIs DEF Save
  <2>2. db[u][k] \in Rec /\ RecordOk(u, k) /\ k \in DOMAIN vmap[u]
    BY <2>1 DEF StoreTyped, StoreInv, SaveOk
  <2>3. vmap[u][k].ver + 1 = m.datas[k].ver
    BY DEF Behind
  <2> QED BY <1>1, <2>1, <2>2, <2>3 DEF RecordOk
<1>4. ASSUME NEW k \in K
      PROVE  /\ m.datas[k].ver = Len(m.datas[k].val) /\ Grown(db[u][k], m.datas[k])
             /\ Last(m.datas[k].val) = op
             /\ \A i \in 1 .. Len(m.datas[k].val) :
                   (i \in 1 .. Len(db[u][k].val) /\ m.datas[k].val[i] = db[u][k].val[i])
                   \/ (i = Len(m.datas[k].val) /\ m.datas[k].val[i] = op)
  <2>1. PICK d \in Rec : d = db[u][k]
    BY <1>3
  <2>2. PICK c \in Rec : c = m.datas[k]
    BY <1>3
  <2>3. d.ver = Len(d.val) /\ c.ver = d.ver + 1 /\ Makes(c, d, op)
    BY <1>3, <2>1, <2>2
  <2>4. /\ c.ver = Len(c.val) /\ Grown(d, c) /\ Last(c.val) = op
        /\ \A i \in 1 .. Len(c.val) : (i \in 1 .. Len(d.val) /\ c.val[i] = d.val[i])
                                      \/ (i = Len(c.val) /\ c.val[i] = op)
    BY <1>2, <2>3, OneMore
  <2> QED BY <2>1, <2>2, <2>4
<1>5. \A p : p \in applied' <=> p \in applied \/ p = <<op, u>>
  <2>1. applied' = applied \cup {<<Last(m.datas[k].val), u>> : k \in K}
    BY DEF Accepts
  <2>2. K # {}
    BY DEF SaveOk
  <2> QED BY <1>4, <2>1, <2>2
<1>6. \A v \in Uid, k \in Key :
         db'[v][k] = IF v = u /\ k \in K THEN m.datas[k] ELSE db[v][k]
  BY DEF Accepts, StoreTyped
<1>7. K \in SUBSET Key
  BY <1>3
<1>8. PICK c : c = CountUp(u, K) /\ vmap' = c
  BY DEF Accepts
<1>9. /\ \A v \in Uid : v # u => c[v] = vmap[v]
      /\ \A k : k \in DOMAIN c[u] <=> k \in DOMAIN vmap[u] \/ k \in K
      /\ \A k \in DOMAIN vmap[u] : k \in K =>
                 /\ c[u][k].ver = vmap[u][k].ver + 1
                 /\ c[u][k].stamped = vmap[u][k].stamped
      /\ \A k \in DOMAIN vmap[u] : k \notin K => c[u][k] = vmap[u][k]
  <2>1. PICK J \in SUBSET Key : J = K
    BY <1>7
  <2> QED BY <1>8, <2>1, CountUpTyped
<1> HIDE DEF K
<1>10. ASSUME NEW v \in Uid PROVE Grows(v)
  <2>1. \A k \in DOMAIN vmap[v] : k \in DOMAIN c[v]
    BY <1>9
  <2>2. ASSUME NEW k \in Key PROVE Grown(db[v][k], db'[v][k])
    <3>1. CASE v = u /\ k \in K
      BY <1>4, <1>6, <3>1
    <3>2. CASE ~ (v = u /\ k \in K)
      BY <1>6, <3>2, GrownSame DEF StoreTyped
    <3> QED BY <3>1, <3>2
  <2> QED BY <1>8, <2>1, <2>2 DEF Grows
<1>11. StoreInv'
  <2> SUFFICES ASSUME NEW v \in Uid, NEW k \in Key PROVE RecordOk(v, k)'
    BY DEF StoreInv
  <2>1. RecordOk(v, k)
    BY DEF StoreInv
  <2>2. CASE v = u /\ k \in K
    <3>1. PICK d \in Rec : d = db[u][k]
      BY <1>3, <2>2
    <3>2. PICK e \in Rec : e = m.datas[k]
      BY <1>3, <2>2
    <3>3. db'[v][k] = e
      BY <1>6, <2>2, <3>2
    <3>4. /\ e.ver = Len(e.val) /\ e.ver = d.ver + 1 /\ d.ver = Len(d.val)
          /\ \A i \in 1 .. Len(e.val) : (i \in 1 .. Len(d.val) /\ e.val[i] = d.val[i])
                                        \/ (i = Len(e.val) /\ e.val[i] = op)
      BY <1>3, <1>4, <2>2, <3>1, <3>2
    <3>5. /\ \A i, j \in 1 .. Len(d.val) : d.val[i] = d.val[j] => i = j
          /\ \A i \in 1 .. Len(d.val) : <<d.val[i], u>> \in applied
      BY <2>1, <2>2, <3>1 DEF RecordOk
    <3>6. <<op, u>> \notin applied
      BY <1>1 DEF Untold
    <3>7. \A i \in 1 .. Len(d.val) : d.val[i] # op
      BY <3>5, <3>6
    <3>8. ASSUME NEW i \in 1 .. Len(e.val), NEW j \in 1 .. Len(e.val), e.val[i] = e.val[j]
          PROVE  i = j
      BY <3>4, <3>5, <3>7, <3>8
    <3>9. \A i \in 1 .. Len(e.val) : <<e.val[i], u>> \in applied'
      BY <1>5, <3>4, <3>5
    <3>10. c[u][k].ver = e.ver /\ c[u][k].stamped
      BY <1>3, <1>9, <2>1, <2>2, <3>1, <3>4 DEF RecordOk
    <3> QED BY <1>8, <2>2, <3>3, <3>4, <3>8, <3>9, <3>10 DEF RecordOk
  <2>3. CASE ~ (v = u /\ k \in K)
    <3>1. db'[v][k] = db[v][k]
      BY <1>6, <2>3
    <3>2. k \in DOMAIN c[v] => k \in DOMAIN vmap[v] /\ c[v][k] = vmap[v][k]
      BY <1>9, <2>3
    <3> QED BY <1>5, <1>8, <2>1, <3>1, <3>2 DEF RecordOk
  <2> QED BY <2>2, <2>3
<1>12. Fresher
  <2> SUFFICES ASSUME NEW v \in Uid, NEW k \in Key, NEW i \in 1 .. Len(db'[v][k].val)
               PROVE  \/ i \in 1 .. Len(db[v][k].val) /\ db'[v][k].val[i] = db[v][k].val[i]
                      \/ <<db'[v][k].val[i], v>> \notin applied
    BY DEF Fresher
  <2>1. CASE v = u /\ k \in K
    <3>1. db'[v][k] = m.datas[k]
      BY <1>6, <2>1
    <3>2. \/ i \in 1 .. Len(db[u][k].val) /\ m.datas[k].val[i] = db[u][k].val[i]
          \/ m.datas[k].val[i] = op
      BY <1>4, <2>1, <3>1
    <3>3. <<op, u>> \notin applied
      BY <1>1 DEF Untold
    <3> QED BY <2>1, <3>1, <3>2, <3>3
  <2>2. CASE ~ (v = u /\ k \in K)
    BY <1>6, <2>2
  <2> QED BY <2>1, <2>2
<1> QED BY <1>1, <1>5, <1>10, <1>11, <1>12 DEF Stored

LEMMA FreshSame == ASSUME db' = db PROVE Fresher
  BY DEF Fresher

(* Request m of user u was answered with a: what the steps of HandlerQuery *)
(* and HandlerSave have in common.                                         *)
Settled(f, s, u, m, a) ==
    /\ a.id = m.id /\ a.kind = m.kind
    /\ StoreInv' /\ (\A v \in Uid : Grows(v)) /\ AnswerOk(u, a)'
    /\ \A p \in applied : p \in applied'
    /\ m.kind = "query" => applied' = applied /\ DOMAIN a.datas = m.keys
    /\ \E op \in 1 .. nop \cup {0} : \A p : p \in applied' /\ p \notin applied =>
                              p = <<op, u>> /\ op \in 1 .. nop /\ f[op] = <<s, m.id>>
    /\ m.kind = "save" => \A o \in 1 .. nop : f[o] = <<s, m.id>> =>
                              (a.result = "success" <=> <<o, u>> \in applied')
    /\ Fresher
    /\ a.result = "diff" =>
          /\ m \in Save /\ Behind(u, m) # {} /\ UNCHANGED <<db, applied>>
          /\ \A k \in DOMAIN a.datas : k \in Key /\ a.datas[k].ver = db[u][k].ver

LEMMA FaultNone ==
    ASSUME Counted, faults'["fail"] = 0, NEW bad \in SUBSET Key, Fault("fail", Cardinality(bad))
    PROVE  bad = {}
<1>1. faults["fail"] \in Nat /\ faults' = [faults EXCEPT !["fail"] = @ + Cardinality(bad)]
      /\ "fail" \in DOMAIN faults
  BY DEF Counted, Fault, FaultKind
<1>2. IsFiniteSet(bad) /\ Cardinality(bad) \in Nat
  BY FiniteKeys
<1>3. Cardinality(bad) = 0
  BY <1>1, <1>2
<1> QED BY <1>2, <1>3, FS_EmptySet

LEMMA ServeSettles ==
    ASSUME TInv, TInv', NEW f, Good(f), NEW s \in Svr, NEW u \in Uid, Serve(s, u),
           faults'["fail"] = 0
    PROVE  \E m \in Requests, a \in Response :
              /\ m = Head(req[s][u]) /\ m \in Msgs(req[s][u])
              /\ Taken(s, u) /\ Answered(s, u, <<a>>)
              /\ UNCHANGED <<sess, curId, nop, saved, refused>>
              /\ Settled(f, s, u, m, a)
<1>1. /\ Counted /\ StoreTyped /\ StoreTyped' /\ ReqTyped /\ StoreInv /\ SaveInv(f) /\ Owners(f)
  BY PathSplit DEF TInv, Good
<1>2. Taken(s, u) /\ UNCHANGED <<sess, curId, nop, saved, refused>>
  BY DEF Serve, Taken, ends
<1>3. PICK m \in Requests : m = Head(req[s][u])
  BY <1>1, <1>2, TakenIs
<1>4. m \in Msgs(req[s][u])
  <2>1. PICK q \in Seq(Requests) : q = req[s][u]
    BY <1>1 DEF ReqTyped
  <2> QED BY <1>2, <1>3, <2>1, TailIs DEF Taken
<1>5. CASE m.kind = "query"
  <2>1. m \in Query
    BY <1>5 DEF Requests, Save
  <2>2. HandlerQuery(s, u, m)
    BY <1>3, <1>5 DEF Serve
  <2>3. PICK bad \in SUBSET m.keys :
           /\ Fault("fail", Cardinality(bad))
           /\ vmap' = Cache(u, m.keys \ bad)
           /\ Answered(s, u, Answers(m, u, Cardinality(bad),
                          Answer(m, "success", u, ReadRecords(u, m.keys \ bad))))
           /\ UNCHANGED <<db, applied>>
    BY <2>2 DEF HandlerQuery, Answered
  <2>4. bad = {}
    <3>1. bad \in SUBSET Key
      BY <2>1 DEF Query
    <3> QED BY <1>1, <2>3, <3>1, FaultNone
  <2>5. PICK K \in SUBSET Key : K = m.keys
    BY <2>1 DEF Query
  <2>6. m.keys \ bad = K /\ Cardinality(bad) = 0
    BY <2>4, <2>5, FS_EmptySet
  <2>7. ReadRecords(u, K) \in Datas /\ DOMAIN ReadRecords(u, K) = K
    BY <1>1, CacheTyped
  <2>8. PICK a \in Response : a = Answer(m, "success", u, ReadRecords(u, K))
    BY <2>7, QueryAnswerTyped
  <2>9. Answers(m, u, 0, a) = <<a>>
    BY AnswersTyped
  <2>10. vmap' = Cache(u, K) /\ UNCHANGED <<db, applied>> /\ Answered(s, u, <<a>>)
    BY <2>3, <2>6, <2>8, <2>9
  <2>11. StoreInv' /\ (\A v \in Uid : Grows(v)) /\ Copy(u, ReadRecords(u, K))'
    BY <1>1, <2>10, Caches
  <2>12. /\ a.id = m.id /\ a.kind = "query" /\ a.result = "success" /\ a.uid = u
         /\ a.datas = ReadRecords(u, K)
    BY <1>5, <2>8 DEF Answer
  <2>13. AnswerOk(u, a)'
    <3>1. Copy(u, a.datas)'
      BY <2>10, <2>11, <2>12 DEF ReadRecords
    <3> QED BY <2>12, <3>1 DEF AnswerOk
  <2>14. Settled(f, s, u, m, a)
    BY <1>5, <2>5, <2>7, <2>10, <2>11, <2>12, <2>13, FreshSame DEF Settled
  <2> QED BY <1>2, <1>3, <1>4, <2>10, <2>14
<1>6. CASE m.kind # "query"
  <2>1. m \in Save /\ m.kind = "save"
    BY <1>6 DEF Requests, Query, Save
  <2>2. HandlerSave(s, u, m)
    BY <1>3, <1>6 DEF Serve
  <2>3. SaveOk(f, s, u, m)
    BY <1>1, <1>4, <2>1 DEF SaveInv
  <2>4. PICK K \in SUBSET Key : K = DOMAIN m.datas
    BY <2>1, DatasIs DEF Save
  <2>5. IF Behind(u, m) = {} THEN Accepts(s, u, m, K, 0) ELSE Refuses(s, u, m, K, 0)
    <3>1. PICK bad \in SUBSET DOMAIN m.datas, n \in Nat :
              /\ Fault("fail", Cardinality(bad))
              /\ bad = {} /\ DOMAIN m.datas \subseteq DOMAIN vmap[u] =>
                    /\ n = 0
                    /\ IF Behind(u, m) = {} THEN Accepts(s, u, m, DOMAIN m.datas, 0)
                                            ELSE Refuses(s, u, m, DOMAIN m.datas, 0)
      BY <1>1, <2>1, <2>2, HandlerSaveIs
    <3>2. bad = {}
      BY <1>1, <2>4, <3>1, FaultNone
    <3>3. DOMAIN m.datas \subseteq DOMAIN vmap[u]
      BY <2>3 DEF SaveOk
    <3> QED BY <2>4, <3>1, <3>2, <3>3
  <2>6. CASE Behind(u, m) = {}
    <3>1. Accepts(s, u, m, DOMAIN m.datas, 0)
      BY <2>4, <2>5, <2>6
    <3>2. /\ StoreInv' /\ (\A v \in Uid : Grows(v)) /\ Fresher
          /\ \E op \in 1 .. nop : /\ f[op] = <<s, m.id>> /\ Untold(op, u)
                                  /\ \A p : p \in applied' <=> p \in applied \/ p = <<op, u>>
      <4>1. Stored(f, s, u, m)
        BY <1>1, <2>1, <2>3, <2>6, <3>1, Stores
      <4> QED BY <4>1 DEF Stored
    <3>3. PICK op \in 1 .. nop : /\ f[op] = <<s, m.id>> /\ Untold(op, u)
                                 /\ \A p : p \in applied' <=> p \in applied \/ p = <<op, u>>
      BY <3>2
    <3>4. << >> \in Datas /\ DOMAIN << >> = {}
      BY EmptyTable DEF Datas
    <3>5. PICK a \in Response : a = Answer(m, "success", 0, << >>)
      BY <3>4, QueryAnswerTyped
    <3>6. Answers(m, u, 0, a) = <<a>>
      BY AnswersTyped
    <3>7. Answered(s, u, <<a>>)
      BY <3>1, <3>5, <3>6 DEF Accepts
    <3>8. a.id = m.id /\ a.kind = "save" /\ a.result = "success" /\ DOMAIN a.datas = {}
      BY <2>1, <3>4, <3>5 DEF Answer
    <3>9. AnswerOk(u, a)'
      BY <3>8 DEF AnswerOk, Copy
    <3>10. \A o \in 1 .. nop : f[o] = <<s, m.id>> => <<o, u>> \in applied'
      BY <1>1, <3>3 DEF Owners
    <3>11. \A p : p \in applied' /\ p \notin applied =>
                              p = <<op, u>> /\ op \in 1 .. nop /\ f[op] = <<s, m.id>>
      BY <3>3
    <3>12. Settled(f, s, u, m, a)
      BY <2>1, <3>2, <3>3, <3>8, <3>9, <3>10, <3>11 DEF Settled
    <3> QED BY <1>2, <1>3, <1>4, <3>7, <3>12
  <2>7. CASE Behind(u, m) # {}
    <3>1. Refuses(s, u, m, K, 0)
      BY <2>5, <2>7
    <3>2. /\ ReadRecords(u, K) \in Datas /\ DOMAIN ReadRecords(u, K) = K
          /\ \A k \in K : k \in Key /\ ReadRecords(u, K)[k] = db[u][k]
      BY <1>1, CacheTyped
    <3>3. PICK a \in Response : a = Answer(m, "diff", u, ReadRecords(u, K))
      BY <3>2, QueryAnswerTyped
    <3>4. Answers(m, u, 0, a) = <<a>>
      BY AnswersTyped
    <3>5. vmap' = Cache(u, K) /\ UNCHANGED <<db, applied>> /\ Answered(s, u, <<a>>)
      BY <3>1, <3>3, <3>4 DEF Refuses
    <3>6. StoreInv' /\ (\A v \in Uid : Grows(v)) /\ Copy(u, ReadRecords(u, K))'
      BY <1>1, <3>5, Caches
    <3>7. /\ a.id = m.id /\ a.kind = "save" /\ a.result = "diff" /\ a.uid = u
          /\ a.datas = ReadRecords(u, K)
      BY <2>1, <3>3 DEF Answer
    <3>8. AnswerOk(u, a)'
      <4>1. Copy(u, a.datas)'
        BY <3>5, <3>6, <3>7 DEF ReadRecords
      <4> QED BY <3>7, <4>1 DEF AnswerOk
    <3>9. \A o \in 1 .. nop : f[o] = <<s, m.id>> => <<o, u>> \notin applied'
      <4>1. PICK op \in 1 .. nop : f[op] = <<s, m.id>> /\ Untold(op, u)
        BY <2>3 DEF SaveOk
      <4> QED BY <1>1, <3>5, <4>1 DEF Owners, Untold
    <3>10. Settled(f, s, u, m, a)
      BY <2>1, <2>7, <3>2, <3>5, <3>6, <3>7, <3>8, <3>9, FreshSame DEF Settled
    <3> QED BY <1>2, <1>3, <1>4, <3>5, <3>10
  <2> QED BY <2>6, <2>7
<1> QED BY <1>5, <1>6

(* Its answer takes the place of a message.                                *)
Replaced(s, u, m, a) ==
    /\ \A n \in Msgs(req'[s][u]) : n \in Msgs(req[s][u]) /\ n.id # m.id
    /\ \A n \in Msgs(rsp'[s][u]) : (n \in Msgs(rsp[s][u]) /\ n.id # m.id) \/ n = a
    /\ LaneOk(req'[s][u], rsp'[s][u], curId'[s])
    /\ \A t \in Svr, v \in Uid : ~ (t = s /\ v = u) =>
          req'[t][v] = req[t][v] /\ rsp'[t][v] = rsp[t][v]

LEMMA TakesPlace ==
    ASSUME TInv, NEW f, Good(f), NEW s \in Svr, NEW u \in Uid, NEW m \in Requests,
           NEW a \in Response, m = Head(req[s][u]), Taken(s, u), Answered(s, u, <<a>>),
           a.id = m.id, curId' = curId
    PROVE  Replaced(s, u, m, a)
<1>2. ReqTyped /\ RspTyped
  BY PathSplit DEF TInv
<1>3. \A t \in Svr, v \in Uid :
         req'[t][v] = IF t = s /\ v = u THEN Tail(req[t][v]) ELSE req[t][v]
  BY <1>2, TakenIs
<1>4. \A t \in Svr, v \in Uid :
         rsp'[t][v] = IF t = s /\ v = u THEN rsp[t][v] \o <<a>> ELSE rsp[t][v]
  <2>1. PICK b \in Seq(Response) : b = <<a>>
    <3>1. <<a>> \in Seq(Response)
      OBVIOUS
    <3> QED BY <3>1
  <2>2. Answered(s, u, b)
    BY <2>1
  <2>3. \A t \in Svr, v \in Uid :
           rsp'[t][v] = IF t = s /\ v = u THEN rsp[t][v] \o b ELSE rsp[t][v]
    BY <1>2, <2>2, AnsweredIs
  <2> QED BY <2>1, <2>3
<1>9. /\ \A n \in Msgs(req'[s][u]) : n \in Msgs(req[s][u]) /\ n.id # m.id
      /\ \A n \in Msgs(rsp'[s][u]) : (n \in Msgs(rsp[s][u]) /\ n.id # m.id) \/ n = a
      /\ LaneOk(req'[s][u], rsp'[s][u], curId'[s])
  <2>1. PICK q \in Seq(Requests) : q = req[s][u]
    BY <1>2 DEF ReqTyped
  <2>2. PICK r \in Seq(Response) : r = rsp[s][u]
    BY <1>2 DEF RspTyped
  <2>3. LaneOk(q, r, curId[s]) /\ q # << >> /\ m \in Msgs(q) /\ m = Head(q)
    BY <2>1, <2>2, TailIs DEF Good, PathInv, Taken
  <2>4. req'[s][u] = Tail(q) /\ rsp'[s][u] = Append(r, a)
    BY <1>3, <1>4, <2>1, <2>2, ConcatOne
  <2>5. Once(Tail(q)) /\ \A n \in Msgs(Tail(q)) : n.id # m.id /\ n \in Msgs(q)
    BY <2>3, OnceTail, TailIs DEF LaneOk
  <2>6. \A n : n \in Msgs(Append(r, a)) <=> n \in Msgs(r) \/ n = a
    BY AppendIs
  <2>7. \A n \in Msgs(r) : n.id # m.id
    BY <2>3 DEF LaneOk
  <2>8. Once(Append(r, a))
    BY <2>3, <2>7, OnceAppend DEF LaneOk
  <2>9. LaneOk(Tail(q), Append(r, a), curId[s])
    BY <2>3, <2>5, <2>6, <2>8 DEF LaneOk
  <2> QED BY <2>1, <2>2, <2>4, <2>5, <2>6, <2>7, <2>9
<1> QED BY <1>3, <1>4, <1>9 DEF Replaced

LEMMA ServeGood ==
    ASSUME TInv, TInv', NEW f, Good(f), NEW s \in Svr, NEW u \in Uid, Serve(s, u),
           faults'["fail"] = 0
    PROVE  Good(f)'
<1>1. PICK m \in Requests, a \in Response :
              /\ m = Head(req[s][u]) /\ m \in Msgs(req[s][u])
              /\ Taken(s, u) /\ Answered(s, u, <<a>>)
              /\ UNCHANGED <<sess, curId, nop, saved, refused>>
              /\ Settled(f, s, u, m, a)
  BY ServeSettles
<1>2. /\ StoreTyped /\ StoreTyped' /\ PathTyped /\ PathTyped' /\ SessTyped /\ ReqTyped /\ RspTyped
      /\ EndsTyped /\ Counted
  BY PathSplit DEF TInv
<1>5. a.id = m.id /\ a.kind = m.kind /\ StoreInv' /\ (\A v \in Uid : Grows(v)) /\ AnswerOk(u, a)'
  BY <1>1 DEF Settled
<1>6. \A p \in applied : p \in applied'
  BY <1>1 DEF Settled
<1>7. ASSUME NEW o \in 1 .. nop, NEW v \in Uid, <<o, v>> \in applied', <<o, v>> \notin applied
      PROVE  v = u /\ f[o] = <<s, m.id>>
  BY <1>1, <1>7 DEF Settled
<1>8. Owners(f) /\ Owners(f)'
  BY <1>1 DEF Good, Owners
<1>9. /\ \A n \in Msgs(req'[s][u]) : n \in Msgs(req[s][u]) /\ n.id # m.id
      /\ \A n \in Msgs(rsp'[s][u]) : (n \in Msgs(rsp[s][u]) /\ n.id # m.id) \/ n = a
      /\ LaneOk(req'[s][u], rsp'[s][u], curId'[s])
      /\ \A t \in Svr, v \in Uid : ~ (t = s /\ v = u) =>
            req'[t][v] = req[t][v] /\ rsp'[t][v] = rsp[t][v]
  <2>1. Replaced(s, u, m, a)
    BY <1>1, <1>5, TakesPlace
  <2> QED BY <2>1 DEF Replaced
<1>10. ASSUME NEW t \in Svr, NEW v \in Uid, ~ (t = s /\ v = u)
       PROVE  req'[t][v] = req[t][v] /\ rsp'[t][v] = rsp[t][v]
  BY <1>9, <1>10
<1>11. PathInv'
  <2> SUFFICES ASSUME NEW t \in Svr, NEW v \in Uid
               PROVE  LaneOk(req'[t][v], rsp'[t][v], curId'[t])
    BY DEF PathInv
  <2>1. CASE ~ (t = s /\ v = u)
    BY <1>1, <1>10, <2>1 DEF Good, PathInv
  <2> QED BY <1>9, <2>1
<1>12. TalkInv'
  <2>1. saved' \subseteq applied'
    BY <1>1, <1>6 DEF Good, TalkInv
  <2>2. ASSUME NEW p \in refused PROVE p \notin applied'
    <3>1. p \notin applied
      BY DEF Good, TalkInv
    <3>2. PICK o \in 1 .. nop, v \in Uid : p = <<o, v>>
      BY <1>2 DEF EndsTyped
    <3>3. CASE p \in applied'
      <4>1. v = u /\ f[o] = <<s, m.id>>
        BY <1>7, <3>1, <3>2, <3>3
      <4>2. m.kind = "save"
        <5>1. m.kind = "query" => applied' = applied
          BY <1>1 DEF Settled
        <5> QED BY <3>1, <3>3, <5>1 DEF Requests, Query, Save
      <4>3. SaveOk(f, s, u, m)
        BY <1>1, <4>2 DEF Good, SaveInv
      <4>4. PICK op \in 1 .. nop : f[op] = <<s, m.id>> /\ Untold(op, u)
        BY <4>3 DEF SaveOk
      <4>5. op = o
        BY <1>8, <4>1, <4>4 DEF Owners
      <4> QED BY <3>2, <4>1, <4>4, <4>5 DEF Untold
    <3> QED BY <3>3
  <2> QED BY <1>1, <2>1, <2>2 DEF TalkInv
<1>13. AnswerInv'
  <2> SUFFICES ASSUME NEW t \in Svr, NEW v \in Uid, NEW n \in Msgs(rsp'[t][v])
               PROVE  AnswerOk(v, n)'
    BY DEF AnswerInv, Msgs
  <2>1. CASE n \in Msgs(rsp[t][v])
    <3>1. n \in Response /\ AnswerOk(v, n)
      BY <1>2, <2>1, MsgsTyped DEF Good, AnswerInv
    <3> QED BY <1>2, <1>5, <3>1, AnswerKept
  <2>2. CASE n \notin Msgs(rsp[t][v])
    <3>1. t = s /\ v = u /\ n = a
      BY <1>9, <1>10, <2>2
    <3> QED BY <1>5, <3>1
  <2> QED BY <2>1, <2>2
<1>14. SaveInv(f)'
  <2> SUFFICES ASSUME NEW t \in Svr, NEW v \in Uid, NEW n \in Msgs(req'[t][v]), n.kind = "save"
               PROVE  SaveOk(f, t, v, n)'
    BY DEF SaveInv, Msgs
  <2>1. n \in Msgs(req[t][v]) /\ (t = s /\ v = u => n.id # m.id)
    BY <1>9, <1>10
  <2>2. n \in Save /\ SaveOk(f, t, v, n)
    BY <1>2, <2>1, MsgsTyped DEF Good, SaveInv
  <2>3. ASSUME NEW o \in 1 .. nop, f[o] = <<t, n.id>>, Untold(o, v) PROVE Untold(o, v)'
    <3>1. CASE <<o, v>> \in applied'
      <4>1. v = u /\ f[o] = <<s, m.id>>
        BY <1>7, <2>3, <3>1 DEF Untold
      <4> QED BY <2>1, <2>3, <4>1
    <3> QED BY <1>1, <2>3, <3>1 DEF Untold
  <2>4. SaveSame(f, f, t, v, n.id)
    BY <1>1, <1>2, <2>3 DEF SaveSame, Counted
  <2> QED BY <1>2, <1>5, <2>2, <2>4, SaveKept
<1>15. SessInv(f)'
  <2> SUFFICES ASSUME NEW t \in Svr, NEW j \in DOMAIN sess[t]
               PROVE  SessOk(f, t, j, sess[t][j])'
    BY <1>1 DEF SessInv
  <2>1. PICK x : x = sess[t][j]
    OBVIOUS
  <2>2. Usable(x) /\ SessOk(f, t, j, x)
    BY <1>2, <2>1 DEF Good, SessInv, SessTyped
  <2>3. f[x.op] = <<t, j>> /\ x.op \in 1 .. nop
    BY <2>2 DEF SessOk, Usable
  <2>4. ASSUME NEW v \in Uid, ~ (t = s /\ j = m.id /\ v = u) PROVE Same(t, j, x, v)
    <3>1. \A n \in Msgs(req'[t][v]) : n.id = j => n \in Msgs(req[t][v])
      BY <1>9, <1>10
    <3>2. \A n \in Msgs(rsp'[t][v]) : n.id = j => n \in Msgs(rsp[t][v])
      BY <1>5, <1>9, <1>10, <2>4
    <3>3. <<x.op, v>> \in applied' <=> <<x.op, v>> \in applied
      <4>1. CASE <<x.op, v>> \in applied' /\ <<x.op, v>> \notin applied
        <5>1. v = u /\ <<t, j>> = <<s, m.id>>
          BY <1>7, <2>3, <4>1
        <5> QED BY <2>4, <5>1
      <4> QED BY <1>6, <4>1
    <3> QED BY <1>1, <1>5, <3>1, <3>2, <3>3 DEF Same
  <2>5. CASE ~ (t = s /\ j = m.id)
    <3>1. \A v \in Uid : Same(t, j, x, v)
      BY <2>4, <2>5
    <3>2. j <= curId'[t]
      BY <1>1, <2>2 DEF SessOk
    <3>3. SessOk(f, t, j, x)'
      BY <1>2, <2>2, <3>1, <3>2, SessKept
    <3> QED BY <1>1, <2>1, <3>3
  <2>6. CASE t = s /\ j = m.id
    <3>1. ~ Free(req[s][u], rsp[s][u], j)
      BY <1>1, <2>6 DEF Free
    <3>2. ASSUME x.state = "query", NEW v \in Uid PROVE Querying(s, j, x, v)'
      <4>1. CASE v # u
        BY <1>2, <2>2, <2>4, <2>6, <3>2, <4>1, QueryingKept DEF SessOk
      <4>2. CASE v = u
        <5>1. Querying(s, j, x, u)
          BY <2>2, <2>6, <3>2 DEF SessOk
        <5>2. /\ u \in Uids(x) /\ u \notin DOMAIN x.data /\ Untold(x.op, u)
              /\ Asked(req[s][u], rsp[s][u], j, KeysOf(x.plan, u))
          BY <3>1, <5>1 DEF Querying
        <5>3. m.kind = "query" /\ m.keys = KeysOf(x.plan, u)
          BY <1>1, <2>6, <5>2 DEF Asked
        <5>4. applied' = applied /\ a.kind = "query" /\ DOMAIN a.datas = KeysOf(x.plan, u)
          BY <1>1, <5>3 DEF Settled
        <5>5. Asked(req'[s][u], rsp'[s][u], j, KeysOf(x.plan, u))
          BY <1>9, <2>6, <5>4 DEF Asked
        <5>6. Untold(x.op, u)'
          BY <1>1, <5>2, <5>4 DEF Untold
        <5> QED BY <4>2, <5>2, <5>5, <5>6 DEF Querying, Uids
      <4> QED BY <4>1, <4>2
    <3>3. ASSUME x.state = "save", NEW v \in Uid PROVE Updating(s, j, x, v)'
      <4>1. CASE v # u
        BY <1>2, <2>2, <2>4, <2>6, <3>3, <4>1, UpdatingKept DEF SessOk
      <4>2. CASE v = u
        <5>1. Updating(s, j, x, u)
          BY <2>2, <2>6, <3>3 DEF SessOk
        <5>2. u = Cur(x) /\ Saving(req[s][u], rsp[s][u], j, <<x.op, u>>)
          BY <3>1, <5>1 DEF Updating
        <5>3. m.kind = "save" /\ a.kind = "save"
          BY <1>1, <1>5, <2>6, <5>2 DEF Saving
        <5>4. a.result = "success" <=> <<x.op, u>> \in applied'
          BY <1>1, <2>3, <2>6, <5>3 DEF Settled
        <5>5. Saving(req[s][u], rsp[s][u], j, <<x.op, u>>)'
          BY <1>1, <1>9, <2>6, <5>2, <5>3, <5>4 DEF Saving
        <5> QED BY <4>2, <5>2, <5>5 DEF Updating, Cur
      <4> QED BY <4>1, <4>2
    <3>4. SessOk(f, s, j, x)'
      BY <1>1, <2>2, <2>6, <3>2, <3>3 DEF SessOk, Uids
    <3> QED BY <1>1, <2>1, <2>6, <3>4
  <2> QED BY <2>5, <2>6
<1> QED BY <1>5, <1>8, <1>11, <1>12, <1>13, <1>14, <1>15 DEF Good

-----------------------------------------------------------------------------
(* A logic server's answer.                                                *)

(* The answer read was the only message of its session about its user.     *)
LEMMA ReadPaths ==
    ASSUME TInv, NEW f, Good(f), NEW s \in Svr, NEW u \in Uid, Read(s, u), curId' = curId,
           NEW m, m = Head(rsp[s][u])
    PROVE  /\ m \in Msgs(rsp[s][u]) /\ AnswerOk(u, m) /\ Free(req[s][u], rsp'[s][u], m.id)
           /\ \A t \in Svr, v \in Uid : LaneOk(req[t][v], rsp'[t][v], curId'[t])
           /\ \A t \in Svr, v \in Uid : \A n \in Msgs(rsp'[t][v]) : n \in Msgs(rsp[t][v])
<1>1. RspTyped /\ PathInv /\ AnswerInv
  BY PathSplit DEF TInv, Good
<1>2. \A t \in Svr, v \in Uid :
         rsp'[t][v] = IF t = s /\ v = u THEN Tail(rsp[t][v]) ELSE rsp[t][v]
  BY <1>1, ReadIs
<1>3. ASSUME NEW t \in Svr, NEW v \in Uid
      PROVE  /\ LaneOk(req[t][v], rsp'[t][v], curId'[t])
             /\ \A n \in Msgs(rsp'[t][v]) : n \in Msgs(rsp[t][v])
             /\ t = s /\ v = u => m \in Msgs(rsp[t][v]) /\ Free(req[t][v], rsp'[t][v], m.id)
  <2>1. PICK r \in Seq(Response) : r = rsp[t][v]
    BY <1>1 DEF RspTyped
  <2>2. PICK q : q = req[t][v]
    OBVIOUS
  <2>3. LaneOk(q, r, curId'[t])
    BY <1>1, <2>1, <2>2 DEF PathInv
  <2>4. CASE t = s /\ v = u
    <3>1. r # << >> /\ m = Head(r) /\ rsp'[t][v] = Tail(r)
      BY <1>2, <2>1, <2>4 DEF Read
    <3>2. LaneOk(q, Tail(r), curId'[t])
      BY <2>3, <3>1, LaneRead
    <3>3. Once(r) /\ \A n \in Msgs(Tail(r)) : n.id # m.id
      BY <2>3, <3>1, OnceTail DEF LaneOk
    <3>4. m \in Msgs(r) /\ \A n \in Msgs(Tail(r)) : n \in Msgs(r)
      BY <3>1, TailIs
    <3>5. \A n \in Msgs(q) : n.id # m.id
      BY <2>3, <3>4 DEF LaneOk
    <3> QED BY <2>1, <2>2, <3>1, <3>2, <3>3, <3>4, <3>5 DEF Free
  <2>5. CASE ~ (t = s /\ v = u)
    BY <1>2, <2>1, <2>2, <2>3, <2>5
  <2> QED BY <2>4, <2>5
<1>4. AnswerOk(u, m)
  BY <1>1, <1>3 DEF AnswerInv
<1> QED BY <1>3, <1>4

(* What an answer to session id of s may change.                           *)
Minds(f, s, id) ==
    /\ \A t \in Svr, v \in Uid : \A n \in Msgs(rsp'[t][v]) : n \in Msgs(rsp[t][v])
    /\ \A t \in Svr, v \in Uid : \A n \in Msgs(req'[t][v]) :
          \/ n \in Msgs(req[t][v])
          \/ t = s /\ n.id = id /\ (n.kind = "save" => SaveOk(f, s, v, n)')
    /\ \A t \in Svr : \A j \in DOMAIN sess'[t] :
          IF t = s /\ j = id THEN SessOk(f, t, j, sess[t][j])'
          ELSE j \in DOMAIN sess[t] /\ sess'[t][j] = sess[t][j]
    /\ \A o \in 1 .. nop, v \in Uid :
          \/ <<o, v>> \in refused' <=> <<o, v>> \in refused
          \/ f[o] = <<s, id>> /\ \A n \in Msgs(req[s][v]) : n.id # id

LEMMA MindsGood ==
    ASSUME TInv, TInv', NEW f, Good(f), NEW s \in Svr, NEW id, Minds(f, s, id),
           UNCHANGED <<db, vmap, curId, nop, applied>>, PathInv', TalkInv'
    PROVE  Good(f)'
<1>1. StoreTyped /\ StoreTyped' /\ PathTyped /\ PathTyped' /\ SessTyped /\ nop \in Nat
  BY DEF TInv, Counted
<1>2. \A v \in Uid : Grows(v)
  BY <1>1, GrowsSame
<1>3. StoreInv' /\ Owners(f)'
  BY StoreKept DEF Good, Owners
<1>4. AnswerInv'
  <2> SUFFICES ASSUME NEW t \in Svr, NEW v \in Uid, NEW n \in Msgs(rsp'[t][v])
               PROVE  AnswerOk(v, n)'
    BY DEF AnswerInv, Msgs
  <2>1. n \in Msgs(rsp[t][v])
    BY DEF Minds
  <2>2. n \in Response /\ AnswerOk(v, n)
    BY <1>1, <2>1, MsgsTyped DEF Good, AnswerInv
  <2> QED BY <1>1, <1>2, <2>2, AnswerKept
<1>5. SaveInv(f)'
  <2> SUFFICES ASSUME NEW t \in Svr, NEW v \in Uid, NEW n \in Msgs(req'[t][v]), n.kind = "save"
               PROVE  SaveOk(f, t, v, n)'
    BY DEF SaveInv, Msgs
  <2>1. CASE n \in Msgs(req[t][v])
    <3>1. n \in Save /\ SaveOk(f, t, v, n)
      BY <1>1, <2>1, MsgsTyped DEF Good, SaveInv
    <3>2. ASSUME NEW o \in 1 .. nop, f[o] = <<t, n.id>>, Untold(o, v) PROVE Untold(o, v)'
      <4>1. \/ <<o, v>> \in refused' <=> <<o, v>> \in refused
            \/ f[o] = <<s, id>> /\ \A k \in Msgs(req[s][v]) : k.id # id
        BY DEF Minds
      <4>2. CASE f[o] = <<s, id>> /\ \A k \in Msgs(req[s][v]) : k.id # id
        BY <2>1, <3>2, <4>2
      <4> QED BY <3>2, <4>1, <4>2 DEF Untold
    <3>3. SaveSame(f, f, t, v, n.id)
      BY <1>1, <3>2 DEF SaveSame
    <3> QED BY <1>1, <1>2, <3>1, <3>3, SaveKept
  <2>2. CASE n \notin Msgs(req[t][v])
    BY <2>2 DEF Minds
  <2> QED BY <2>1, <2>2
<1>6. SessInv(f)'
  <2> SUFFICES ASSUME NEW t \in Svr, NEW j \in DOMAIN sess'[t]
               PROVE  SessOk(f, t, j, sess[t][j])'
    BY DEF SessInv
  <2>1. CASE t = s /\ j = id
    BY <2>1 DEF Minds
  <2>2. CASE ~ (t = s /\ j = id)
    <3>1. PICK x : x = sess'[t][j]
      OBVIOUS
    <3>2. j \in DOMAIN sess[t] /\ x = sess[t][j]
      BY <2>2, <3>1 DEF Minds
    <3>3. Usable(x) /\ SessOk(f, t, j, x)
      BY <1>1, <3>2 DEF Good, SessInv, SessTyped
    <3>4. f[x.op] = <<t, j>> /\ x.op \in 1 .. nop /\ j <= curId'[t]
      BY <3>3 DEF SessOk, Usable
    <3>5. ASSUME NEW v \in Uid PROVE Same(t, j, x, v)
      <4>1. \A n \in Msgs(req'[t][v]) : n.id = j => n \in Msgs(req[t][v])
        BY <2>2 DEF Minds
      <4>2. \A n \in Msgs(rsp'[t][v]) : n.id = j => n \in Msgs(rsp[t][v])
        BY DEF Minds
      <4>3. <<x.op, v>> \in refused' <=> <<x.op, v>> \in refused
        BY <2>2, <3>4 DEF Minds
      <4> QED BY <1>2, <4>1, <4>2, <4>3 DEF Same
    <3>6. SessOk(f, t, j, x)'
      BY <1>1, <3>3, <3>4, <3>5, SessKept
    <3> QED BY <3>1, <3>6
  <2> QED BY <2>1, <2>2
<1> QED BY <1>3, <1>4, <1>5, <1>6 DEF Good

(* Session id of s, as z, has all the data of its handler and nothing on   *)
(* its way: the handler may compute.                                       *)
AllFree(s, id) == \A v \in Uid : Free(req[s][v], rsp'[s][v], id)
Able(f, s, id, z) ==
    /\ id \in Nat /\ id <= curId[s] /\ f[z.op] = <<s, id>>
    /\ Usable(z) /\ DOMAIN z.data = Uids(z)
    /\ Copy(Cur(z), z.data[Cur(z)]) /\ Untold(z.op, Cur(z))
    /\ z.redo = 0 => DOMAIN z.data[Cur(z)] = KeysOf(z.plan, Cur(z))
    /\ \A v \in Later(z) : Ready(v, z)

(* What it saves is the change of one handler on a copy that was stored.   *)
LEMMA SaveMade ==
    ASSUME Counted, StoreTyped, NEW f, NEW s \in Svr, NEW id, NEW z, Able(f, s, id, z),
           NEW y, NEW n \in Save, n.id = id, GoesOn(z, y, n)
    PROVE  SaveOk(f, s, Cur(z), n)
<1> DEFINE u == Cur(z)
<1>1. /\ Usable(z) /\ u \in Uids(z) /\ u \in Uid /\ KeysOf(z.plan, u) = z.plan[z.index].keys
      /\ z.op \in 1 .. nop /\ z.op \in Op
  BY LaterIs, OpIs DEF Able, Usable
<1>2. z.data[u] \in Datas
  <2>1. z.data \in PFun(Uid, Datas) /\ u \in DOMAIN z.data
    BY <1>1, UsableIs DEF Able
  <2> QED BY <2>1, PFunOut
<1>3. DOMAIN n.datas # {} /\ \A k \in DOMAIN n.datas : k \in DOMAIN z.data[u]
  BY <1>1 DEF Able, GoesOn
<1>4. Copy(u, z.data[u]) /\ Untold(z.op, u) /\ f[z.op] = <<s, n.id>>
  BY DEF Able
<1>5. ASSUME NEW k \in DOMAIN n.datas
      PROVE  k \in DOMAIN vmap[u] /\ Makes(n.datas[k], db[u][k], z.op)
  <2>1. PICK c \in Rec : c = z.data[u][k]
    BY <1>2, <1>3, DatasIs
  <2>2. k \in Key /\ k \in DOMAIN vmap[u] /\ Past(c, db[u][k])
    BY <1>2, <1>3, <1>4, <2>1, DatasIs DEF Copy
  <2>3. PICK d \in Rec : d = db[u][k]
    BY <1>1, <2>2 DEF StoreTyped
  <2>4. n.datas[k] = [ver |-> c.ver + 1, val |-> Append(c.val, z.op)]
    BY <1>3, <2>1 DEF GoesOn, Base
  <2>5. c.ver \in Nat /\ d.ver \in Nat
    BY DEF Rec
  <2>6. n.datas[k].ver = c.ver + 1 /\ n.datas[k].val = Append(c.val, z.op)
    BY <2>4
  <2>7. c.ver + 1 > 0 /\ (c.ver + 1) - 1 = c.ver
    BY <2>5
  <2>8. Makes(n.datas[k], d, z.op)
    BY <2>2, <2>3, <2>6, <2>7 DEF Past, Makes
  <2> QED BY <2>2, <2>3, <2>8
<1> QED BY <1>1, <1>3, <1>4, <1>5 DEF SaveOk

LEMMA Computes ==
    ASSUME TInv, TInv', NEW f, Good(f), NEW s \in Svr, NEW id \in DOMAIN sess[s], NEW z,
           Able(f, s, id, z), AllFree(s, id), OnQuerySuccess(s, id, z),
           UNCHANGED <<db, vmap, curId, nop, applied, refused>>,
           \A t \in Svr, v \in Uid : LaneOk(req[t][v], rsp'[t][v], curId'[t]),
           \A t \in Svr, v \in Uid : \A n \in Msgs(rsp'[t][v]) : n \in Msgs(rsp[t][v])
    PROVE  Minds(f, s, id) /\ PathInv'
<1>1. /\ Counted /\ StoreTyped /\ PathTyped /\ ReqTyped
      /\ sess \in [Svr -> PFun(Nat, Session)] /\ Usable(z) /\ DOMAIN z.data = Uids(z) /\ id \in Nat
  BY PathSplit DEF TInv, SessTyped, Able
<1>2. CASE Release(s, id)
  <2>1. /\ req' = req
        /\ \A t \in Svr : \A j :
              j \in DOMAIN sess'[t] <=> j \in DOMAIN sess[t] /\ ~ (t = s /\ j = id)
        /\ \A t \in Svr : \A j \in DOMAIN sess'[t] : sess'[t][j] = sess[t][j]
    BY <1>1, <1>2, SessGone
  <2> QED BY <2>1 DEF Minds, PathInv
<1>3. CASE ~ Release(s, id)
  <2>1. PICK y \in Session, n \in Save :
           /\ n.id = id /\ GoesOn(z, y, n)
           /\ Becomes(s, id, y) /\ Sends(s, Cur(z), n)
    BY <1>1, <1>3, SuccessIs
  <2>2. PICK w \in Uid : w = Cur(z)
    BY <1>1, LaterIs
  <2>3. n \in Requests /\ n \in Query \cup Save
    BY DEF Requests
  <2>4. \A t \in Svr, v \in Uid :
           req'[t][v] = IF t = s /\ v = w THEN Append(req[t][v], n) ELSE req[t][v]
    BY <1>1, <2>1, <2>2, <2>3, SentAt
  <2>5. /\ \A t \in Svr : DOMAIN sess'[t] = DOMAIN sess[t]
        /\ \A t \in Svr : \A j \in DOMAIN sess'[t] :
              sess'[t][j] = IF t = s /\ j = id THEN y ELSE sess[t][j]
    BY <1>1, <2>1, SessAt
  <2>6. SaveOk(f, s, w, n)'
    <3>1. SaveOk(f, s, w, n)
      BY <1>1, <2>1, <2>2, SaveMade
    <3> QED BY <3>1 DEF SaveOk, Untold
  <2>7. ASSUME NEW t \in Svr, NEW v \in Uid
        PROVE  /\ LaneOk(req'[t][v], rsp'[t][v], curId'[t])
               /\ \A k \in Msgs(req'[t][v]) : k \in Msgs(req[t][v]) \/ (t = s /\ v = w /\ k = n)
    <3>1. PICK q \in Seq(Requests) : q = req[t][v]
      BY <1>1 DEF ReqTyped
    <3>2. PICK r : r = rsp'[t][v]
      OBVIOUS
    <3>3. LaneOk(q, r, curId'[t])
      BY <3>1, <3>2
    <3>4. CASE t = s /\ v = w
      <4>1. req'[t][v] = Append(q, n)
        BY <2>4, <3>1, <3>4
      <4>2. (\A k \in Msgs(q) : k.id # id) /\ \A k \in Msgs(r) : k.id # id
        BY <3>1, <3>2, <3>4 DEF AllFree, Free
      <4>3. \A k : k \in Msgs(Append(q, n)) <=> k \in Msgs(q) \/ k = n
        BY <2>3, AppendIs
      <4>4. Once(Append(q, n))
        BY <2>1, <2>3, <3>3, <4>2, OnceAppend DEF LaneOk
      <4>5. id <= curId'[t]
        BY <3>4 DEF Able
      <4>6. LaneOk(Append(q, n), r, curId'[t])
        BY <2>1, <3>3, <4>2, <4>3, <4>4, <4>5 DEF LaneOk
      <4> QED BY <3>1, <3>2, <3>4, <4>1, <4>3, <4>6
    <3>5. CASE ~ (t = s /\ v = w)
      BY <2>4, <3>1, <3>2, <3>3, <3>5
    <3> QED BY <3>4, <3>5
  <2>8. /\ y.op = z.op /\ y.plan = z.plan /\ y.index = z.index /\ y.state = "save"
        /\ DOMAIN y.data = DOMAIN z.data /\ Cur(y) = w
        /\ \A v \in DOMAIN z.data : v # w => y.data[v] = z.data[v]
        /\ n.kind = "save"
    BY <2>1, <2>2 DEF GoesOn, Cur
  <2>9. ASSUME NEW v \in Uid PROVE Updating(s, id, y, v)'
    <3>1. \A k \in Msgs(rsp'[s][v]) : k.id # id
      BY DEF AllFree, Free
    <3>2. CASE v = w
      <4>1. \A k \in Msgs(req'[s][v]) : k.id = id => k = n
        BY <2>7 DEF AllFree, Free
      <4>2. <<y.op, v>> \notin refused'
        BY <2>2, <2>8, <3>2 DEF Able, Untold
      <4>3. Saving(req[s][v], rsp[s][v], id, <<y.op, v>>)'
        BY <2>8, <3>1, <4>1, <4>2 DEF Saving
      <4> QED BY <2>8, <3>2, <4>3 DEF Updating, Cur
    <3>3. CASE v # w
      <4>1. Free(req'[s][v], rsp'[s][v], id)
        BY <2>7, <3>1, <3>3 DEF AllFree, Free
      <4>2. ASSUME v \in Later(y) PROVE Ready(v, y)'
        <5>1. v \in Later(z)
          BY <2>8, <4>2 DEF Later
        <5>2. Ready(v, z) /\ v \in DOMAIN z.data
          BY <5>1 DEF Able, Ready
        <5>3. Ready(v, y)
          BY <2>8, <3>3, <5>2 DEF Ready
        <5> QED BY <5>3 DEF Ready, Copy, Untold
      <4> QED BY <2>8, <3>3, <4>1, <4>2 DEF Updating, Cur, Later
    <3> QED BY <3>2, <3>3
  <2>10. SessOk(f, s, id, y)'
    BY <2>8, <2>9 DEF SessOk, Able
  <2>11. PathInv'
    BY <2>7 DEF PathInv
  <2>12. \A t \in Svr, v \in Uid : \A k \in Msgs(req'[t][v]) :
            \/ k \in Msgs(req[t][v])
            \/ t = s /\ k.id = id /\ (k.kind = "save" => SaveOk(f, s, v, k)')
    BY <2>1, <2>6, <2>7
  <2>13. ASSUME NEW t \in Svr, NEW j \in DOMAIN sess'[t]
         PROVE  IF t = s /\ j = id THEN SessOk(f, t, j, sess[t][j])'
                ELSE j \in DOMAIN sess[t] /\ sess'[t][j] = sess[t][j]
    BY <2>5, <2>10
  <2> QED BY <2>11, <2>12, <2>13 DEF Minds
<1> QED BY <1>2, <1>3

(* A query's answer: u is the only user it is about, and nothing else of   *)
(* the session is on its way about a user whose data it has.               *)
FilledUp(s, u, m, x, z) ==
    /\ m.uid = u /\ Usable(z) /\ z.op = x.op /\ z.plan = x.plan /\ z.redo = 0
    /\ z.index = x.index /\ z.state = "query" /\ Uids(z) = Uids(x)
    /\ \A v : v \in DOMAIN z.data <=> v \in DOMAIN x.data \/ v = u
    /\ DOMAIN z.data \subseteq Uids(x) /\ u \in Uids(x)
    /\ \A v \in Uid : v \in DOMAIN z.data => Ready(v, z) /\ Free(req[s][v], rsp'[s][v], m.id)
    /\ \A v \in Uid : v \notin Uids(x) => Free(req[s][v], rsp'[s][v], m.id)
    /\ \A v \in Uid : v \in Uids(x) /\ v \notin DOMAIN z.data =>
          Asked(req[s][v], rsp'[s][v], m.id, KeysOf(x.plan, v)) /\ Untold(x.op, v)

LEMMA FillsUp ==
    ASSUME TInv, NEW f, NEW s \in Svr, NEW u \in Uid, NEW m \in Response,
           NEW x, Usable(x), Placed(x), SessOk(f, s, m.id, x), x.state = "query",
           m \in Msgs(rsp[s][u]), AnswerOk(u, m), Free(req[s][u], rsp'[s][u], m.id),
           \A v \in Uid : \A n \in Msgs(rsp'[s][v]) : n \in Msgs(rsp[s][v]),
           NEW z, z = Filled(x, m)
    PROVE  FilledUp(s, u, m, x, z)
<1>1. /\ x.redo = 0 /\ DOMAIN x.data \subseteq Uids(x)
      /\ \A v \in Uid : Querying(s, m.id, x, v)
  BY DEF SessOk
<1>2. ~ Free(req[s][u], rsp[s][u], m.id)
  BY DEF Free
<1>3. /\ u \in Uids(x) /\ u \notin DOMAIN x.data /\ Untold(x.op, u)
      /\ Asked(req[s][u], rsp[s][u], m.id, KeysOf(x.plan, u))
  BY <1>1, <1>2 DEF Querying
<1>4. m.kind = "query" /\ DOMAIN m.datas = KeysOf(x.plan, u)
  BY <1>3 DEF Asked
<1>5. m.uid = u /\ Copy(u, m.datas)
  BY <1>4 DEF AnswerOk
<1>6. /\ Usable(z) /\ z.op = x.op /\ z.plan = x.plan /\ z.redo = 0
      /\ z.index = x.index /\ z.state = "query" /\ Uids(z) = Uids(x)
      /\ z.data = With(x.data, u, m.datas)
  BY <1>1, <1>3, <1>5, FilledTyped
<1>7. /\ \A v : v \in DOMAIN z.data <=> v \in DOMAIN x.data \/ v = u
      /\ z.data[u] = m.datas /\ \A v \in DOMAIN x.data : v # u => z.data[v] = x.data[v]
  BY <1>6, WithIs
<1>8. ASSUME NEW v \in Uid, v # u, Free(req[s][v], rsp[s][v], m.id)
      PROVE  Free(req[s][v], rsp'[s][v], m.id)
  BY <1>8 DEF Free
<1>9. ASSUME NEW v \in Uid, v \in DOMAIN z.data
      PROVE  Ready(v, z) /\ Free(req[s][v], rsp'[s][v], m.id)
  <2>1. CASE v = u
    BY <1>3, <1>4, <1>5, <1>6, <1>7, <2>1 DEF Ready
  <2>2. CASE v # u
    <3>1. v \in DOMAIN x.data /\ v \in Uids(x) /\ z.data[v] = x.data[v]
      BY <1>1, <1>7, <1>9, <2>2
    <3>2. Querying(s, m.id, x, v)
      BY <1>1
    <3>3. Free(req[s][v], rsp[s][v], m.id) /\ Ready(v, x)
      BY <3>1, <3>2 DEF Querying
    <3> QED BY <1>6, <1>8, <1>9, <2>2, <3>1, <3>3 DEF Ready
  <2> QED BY <2>1, <2>2
<1>10. ASSUME NEW v \in Uid, v \notin Uids(x) PROVE Free(req[s][v], rsp'[s][v], m.id)
  <2>1. Querying(s, m.id, x, v) /\ v # u
    BY <1>1, <1>3, <1>10
  <2>2. Free(req[s][v], rsp[s][v], m.id)
    BY <1>10, <2>1 DEF Querying
  <2> QED BY <1>8, <2>1, <2>2
<1>11. ASSUME NEW v \in Uid, v \in Uids(x), v \notin DOMAIN z.data
       PROVE  Asked(req[s][v], rsp'[s][v], m.id, KeysOf(x.plan, v)) /\ Untold(x.op, v)
  <2>1. Querying(s, m.id, x, v) /\ v \notin DOMAIN x.data
    BY <1>1, <1>7, <1>11
  <2>2. Asked(req[s][v], rsp[s][v], m.id, KeysOf(x.plan, v)) /\ Untold(x.op, v)
    BY <1>11, <2>1 DEF Querying
  <2> QED BY <2>2 DEF Asked
<1>12. DOMAIN z.data \subseteq Uids(x)
  BY <1>1, <1>3, <1>7
<1> QED BY <1>3, <1>5, <1>6, <1>7, <1>9, <1>10, <1>11, <1>12 DEF FilledUp

(* A save's answer: it is about the user the session updates, success says *)
(* that the update was applied, and nothing else of it is on its way.      *)
LEMMA Settles ==
    ASSUME TInv, NEW f, Good(f), NEW s \in Svr, NEW u \in Uid, NEW m \in Response,
           NEW x, Usable(x), SessOk(f, s, m.id, x), x.state = "save",
           m \in Msgs(rsp[s][u]), AnswerOk(u, m), Free(req[s][u], rsp'[s][u], m.id),
           \A v \in Uid : \A n \in Msgs(rsp'[s][v]) : n \in Msgs(rsp[s][v])
    PROVE  /\ u = Cur(x) /\ AllFree(s, m.id)
           /\ Succeeded(m) <=> <<x.op, u>> \in applied
           /\ ~ Succeeded(m) => m.uid = u /\ Copy(u, m.datas) /\ m.result = "diff"
           /\ <<x.op, u>> \notin refused
           /\ \A v \in Later(x) : Ready(v, x)
<1>1. \A v \in Uid : Updating(s, m.id, x, v)
  BY DEF SessOk
<1>2. ~ Free(req[s][u], rsp[s][u], m.id)
  BY DEF Free
<1>3. u = Cur(x)
  BY <1>1, <1>2 DEF Updating
<1>4. Saving(req[s][u], rsp[s][u], m.id, <<x.op, u>>)
  BY <1>1, <1>3 DEF Updating
<1>5. /\ m.kind = "save" /\ (m.result = "success" <=> <<x.op, u>> \in applied)
      /\ <<x.op, u>> \notin refused
  BY <1>4 DEF Saving
<1>6. AllFree(s, m.id)
  <2> SUFFICES ASSUME NEW v \in Uid PROVE Free(req[s][v], rsp'[s][v], m.id)
    BY DEF AllFree
  <2>1. CASE v = u
    BY <2>1
  <2>2. CASE v # u
    <3>1. Updating(s, m.id, x, v)
      BY <1>1
    <3>2. Free(req[s][v], rsp[s][v], m.id)
      BY <1>3, <2>2, <3>1 DEF Updating
    <3> QED BY <3>2 DEF Free
  <2> QED BY <2>1, <2>2
<1>7. ASSUME NEW v \in Later(x) PROVE Ready(v, x)
  <2>1. v \in Uid /\ v # Cur(x)
    BY LaterIs
  <2>2. Updating(s, m.id, x, v)
    BY <1>1, <2>1
  <2> QED BY <2>1, <2>2 DEF Updating
<1>8. ~ Succeeded(m) => m.uid = u /\ Copy(u, m.datas) /\ m.result = "diff"
  BY <1>5 DEF Succeeded, AnswerOk
<1> QED BY <1>3, <1>5, <1>6, <1>7, <1>8 DEF Succeeded

(* The session of an answer that was read.                                 *)
Answers1(f, s, u, m, x) ==
    /\ m.id \in DOMAIN sess[s] /\ x = sess[s][m.id] /\ Turned(s, m.id, x, m) /\ Told(x, m)
    /\ UNCHANGED <<db, vmap, curId, nop, applied>>
    /\ m \in Msgs(rsp[s][u]) /\ AnswerOk(u, m) /\ Free(req[s][u], rsp'[s][u], m.id)
    /\ \A t \in Svr, v \in Uid : LaneOk(req[t][v], rsp'[t][v], curId'[t])
    /\ \A t \in Svr, v \in Uid : \A n \in Msgs(rsp'[t][v]) : n \in Msgs(rsp[t][v])

LEMMA Ended ==
    ASSUME TInv, NEW f, NEW s \in Svr, NEW u \in Uid, NEW m \in Response, NEW x,
           Answers1(f, s, u, m, x), Release(s, m.id),
           \A o \in 1 .. nop, v \in Uid :
              \/ <<o, v>> \in refused' <=> <<o, v>> \in refused
              \/ f[o] = <<s, m.id>> /\ \A n \in Msgs(req[s][v]) : n.id # m.id
    PROVE  Minds(f, s, m.id) /\ PathInv'
<1>1. /\ req' = req
      /\ \A t \in Svr : \A j :
            j \in DOMAIN sess'[t] <=> j \in DOMAIN sess[t] /\ ~ (t = s /\ j = m.id)
      /\ \A t \in Svr : \A j \in DOMAIN sess'[t] : sess'[t][j] = sess[t][j]
  BY SessGone DEF TInv, SessTyped
<1> QED BY <1>1 DEF Minds, PathInv, Answers1

LEMMA FillIs ==
    ASSUME TInv, NEW f, Good(f), NEW s \in Svr, NEW u \in Uid, NEW m \in Response, NEW x,
           Answers1(f, s, u, m, x), x.state = "query"
    PROVE  FilledUp(s, u, m, x, Filled(x, m)) /\ SessOk(f, s, m.id, x) /\ m.id \in Nat
<1>1. Usable(x) /\ Placed(x) /\ SessOk(f, s, m.id, x) /\ m.id \in Nat
  BY DEF TInv, SessTyped, Good, SessInv, Answers1, Response
<1>2. /\ m \in Msgs(rsp[s][u]) /\ AnswerOk(u, m) /\ Free(req[s][u], rsp'[s][u], m.id)
      /\ \A v \in Uid : \A n \in Msgs(rsp'[s][v]) : n \in Msgs(rsp[s][v])
  BY DEF Answers1
<1> QED BY <1>1, <1>2, FillsUp

(* The session has all its data, or the new data of a refused save, or     *)
(* goes on with its next user.                                             *)
LEMMA FillAble ==
    ASSUME TInv, NEW f, NEW s \in Svr, NEW u \in Uid, NEW m \in Response, NEW x, NEW z,
           FilledUp(s, u, m, x, z), SessOk(f, s, m.id, x), m.id \in Nat, DOMAIN z.data = Uids(x)
    PROVE  Able(f, s, m.id, z) /\ AllFree(s, m.id) /\ z.redo = 0
<1>1. /\ Usable(z) /\ z.op = x.op /\ z.redo = 0 /\ Uids(z) = Uids(x)
      /\ \A v \in Uid : v \in DOMAIN z.data => Ready(v, z) /\ Free(req[s][v], rsp'[s][v], m.id)
      /\ \A v \in Uid : v \notin Uids(x) => Free(req[s][v], rsp'[s][v], m.id)
  BY DEF FilledUp
<1>2. AllFree(s, m.id)
  BY <1>1 DEF AllFree
<1>3. Cur(z) \in Uid /\ Cur(z) \in Uids(z) /\ \A v \in Later(z) : v \in Uid /\ v \in Uids(z)
  BY <1>1, LaterIs
<1>4. Ready(Cur(z), z) /\ \A v \in Later(z) : Ready(v, z)
  BY <1>1, <1>3
<1> QED BY <1>1, <1>2, <1>4 DEF Able, Ready, SessOk

Heard(f, s, u, m, x) ==
    /\ Usable(x) /\ DOMAIN x.data = Uids(x) /\ SessOk(f, s, m.id, x) /\ m.id \in Nat
    /\ u = Cur(x) /\ AllFree(s, m.id)
    /\ Succeeded(m) <=> <<x.op, u>> \in applied
    /\ ~ Succeeded(m) => m.uid = u /\ Copy(u, m.datas) /\ m.result = "diff"
    /\ <<x.op, u>> \notin refused
    /\ \A v \in Later(x) : Ready(v, x)
    /\ x.op \in 1 .. nop /\ f[x.op] = <<s, m.id>> /\ m.id <= curId[s] /\ u \in Uids(x)
    /\ x.redo \in Nat

LEMMA SettleIs ==
    ASSUME TInv, NEW f, Good(f), NEW s \in Svr, NEW u \in Uid, NEW m \in Response, NEW x,
           Answers1(f, s, u, m, x), x.state = "save"
    PROVE  Heard(f, s, u, m, x)
<1>1. /\ Usable(x) /\ DOMAIN x.data = Uids(x) /\ SessOk(f, s, m.id, x) /\ m.id \in Nat
  BY DEF TInv, SessTyped, Good, SessInv, Answers1, Response, Placed
<1>2. /\ m \in Msgs(rsp[s][u]) /\ AnswerOk(u, m) /\ Free(req[s][u], rsp'[s][u], m.id)
      /\ \A v \in Uid : \A n \in Msgs(rsp'[s][v]) : n \in Msgs(rsp[s][v])
  BY DEF Answers1
<1>3. /\ u = Cur(x) /\ AllFree(s, m.id)
      /\ Succeeded(m) <=> <<x.op, u>> \in applied
      /\ ~ Succeeded(m) => m.uid = u /\ Copy(u, m.datas) /\ m.result = "diff"
      /\ <<x.op, u>> \notin refused
      /\ \A v \in Later(x) : Ready(v, x)
  BY <1>1, <1>2, Settles
<1>4. x.op \in 1 .. nop /\ f[x.op] = <<s, m.id>> /\ m.id <= curId[s] /\ u \in Uids(x)
      /\ x.redo \in Nat
  BY <1>1, <1>3, LaterIs, UsableIs DEF Usable, SessOk
<1> QED BY <1>1, <1>3, <1>4 DEF Heard

LEMMA RenewAble ==
    ASSUME TInv, NEW f, Good(f), NEW s \in Svr, NEW u \in Uid, NEW m \in Response, NEW x,
           Answers1(f, s, u, m, x), x.state = "save", ~ Succeeded(m), MayRedo(x),
           m.uid \in Uids(x), NEW z, z = Renew(x, m)
    PROVE  /\ Able(f, s, m.id, z) /\ AllFree(s, m.id)
           /\ z.op = x.op /\ z.redo = x.redo + 1 /\ z.data[u] = m.datas /\ u = Cur(x)
           /\ Cur(z) = u /\ (\A v \in Later(z) : v \in Later(x)) /\ Uids(z) = Uids(x)
<1>1. /\ Usable(x) /\ DOMAIN x.data = Uids(x) /\ m.id \in Nat
      /\ u = Cur(x) /\ AllFree(s, m.id) /\ <<x.op, u>> \notin applied
      /\ m.uid = u /\ Copy(u, m.datas) /\ <<x.op, u>> \notin refused
      /\ \A v \in Later(x) : Ready(v, x)
      /\ f[x.op] = <<s, m.id>> /\ m.id <= curId[s] /\ u \in Uids(x) /\ x.redo \in Nat
  <2>1. Heard(f, s, u, m, x)
    BY SettleIs
  <2> QED BY <2>1 DEF Heard
<1>2. /\ Usable(z) /\ Uids(z) = Uids(x) /\ DOMAIN z.data = Uids(x)
      /\ z.data[u] = m.datas /\ \A v \in Uids(x) : v # u => z.data[v] = x.data[v]
      /\ z.op = x.op /\ z.plan = x.plan /\ z.index = x.index /\ z.redo = x.redo + 1
  BY <1>1, RenewTyped
<1>3. Cur(z) = u /\ Later(z) = Later(x) /\ z.redo # 0
  BY <1>1, <1>2 DEF Cur, Later
<1>4. ASSUME NEW v \in Later(x) PROVE Ready(v, z)
  <2>1. v # u /\ v \in Uids(x) /\ Ready(v, x)
    BY <1>1, LaterIs
  <2> QED BY <1>2, <2>1 DEF Ready
<1>5. Able(f, s, m.id, z)
  BY <1>1, <1>2, <1>3, <1>4 DEF Able, Untold
<1> QED BY <1>1, <1>2, <1>3, <1>5

LEMMA NextAble ==
    ASSUME TInv, NEW f, Good(f), NEW s \in Svr, NEW u \in Uid, NEW m \in Response, NEW x,
           Answers1(f, s, u, m, x), x.state = "save", x.index < Len(x.plan), NEW z, z = Next1(x)
    PROVE  /\ Able(f, s, m.id, z) /\ AllFree(s, m.id)
           /\ z.op = x.op /\ z.redo = x.redo /\ Uids(z) = Uids(x)
           /\ Cur(z) \in Later(x) /\ \A v \in Later(z) : v \in Later(x)
<1>1. /\ Usable(x) /\ DOMAIN x.data = Uids(x) /\ m.id \in Nat /\ AllFree(s, m.id)
      /\ \A v \in Later(x) : Ready(v, x)
      /\ f[x.op] = <<s, m.id>> /\ m.id <= curId[s]
  <2>1. Heard(f, s, u, m, x)
    BY SettleIs
  <2> QED BY <2>1 DEF Heard
<1>2. /\ Usable(z) /\ Uids(z) = Uids(x) /\ z.data = x.data
      /\ z.op = x.op /\ z.plan = x.plan /\ z.index = x.index + 1 /\ z.redo = x.redo
  BY <1>1, NextTyped
<1>3. x.index \in Nat /\ x.index + 1 \in DOMAIN x.plan
  BY <1>1, <1>2, UsableIs DEF Usable, Session
<1>4. Cur(z) \in Later(x) /\ \A v \in Later(z) : v \in Later(x)
  <2>1. DOMAIN x.plan \subseteq Nat
    BY <1>1, UsableIs, PlanIs
  <2> QED BY <1>2, <1>3, <2>1 DEF Cur, Later
<1>5. \A v \in Later(x) : Ready(v, z)
  BY <1>1, <1>2 DEF Ready
<1>6. Able(f, s, m.id, z)
  BY <1>1, <1>2, <1>4, <1>5 DEF Able, Ready
<1> QED BY <1>1, <1>2, <1>4, <1>6

LEMMA FillMinds ==
    ASSUME TInv, TInv', NEW f, Good(f), NEW s \in Svr, NEW u \in Uid, NEW m \in Response, NEW x,
           Answers1(f, s, u, m, x), x.state = "query"
    PROVE  Minds(f, s, m.id) /\ PathInv' /\ TalkInv'
<1>1. /\ Usable(x) /\ Placed(x) /\ SessOk(f, s, m.id, x) /\ m.id \in DOMAIN sess[s]
      /\ sess \in [Svr -> PFun(Nat, Session)] /\ m.id \in Nat
  BY DEF TInv, SessTyped, Good, SessInv, Answers1, Response
<1>2. UNCHANGED <<saved, refused>>
  BY DEF Answers1, Told
<1>3. TalkInv'
  BY <1>2 DEF Good, TalkInv, Answers1
<1>4. PICK z : z = Filled(x, m)
  OBVIOUS
<1>5. /\ m.uid = u /\ Usable(z) /\ z.op = x.op /\ z.plan = x.plan /\ z.redo = 0
      /\ z.index = x.index /\ z.state = "query" /\ Uids(z) = Uids(x)
      /\ \A v : v \in DOMAIN z.data <=> v \in DOMAIN x.data \/ v = u
      /\ DOMAIN z.data \subseteq Uids(x) /\ u \in Uids(x)
      /\ \A v \in Uid : v \in DOMAIN z.data => Ready(v, z) /\ Free(req[s][v], rsp'[s][v], m.id)
      /\ \A v \in Uid : v \notin Uids(x) => Free(req[s][v], rsp'[s][v], m.id)
      /\ \A v \in Uid : v \in Uids(x) /\ v \notin DOMAIN z.data =>
            Asked(req[s][v], rsp'[s][v], m.id, KeysOf(x.plan, v)) /\ Untold(x.op, v)
  BY <1>4, FillIs DEF FilledUp
<1>6. \/ Release(s, m.id)
      \/ DOMAIN z.data = Uids(x) /\ OnQuerySuccess(s, m.id, z)
      \/ DOMAIN z.data # Uids(x) /\ Becomes(s, m.id, z) /\ req' = req
  BY <1>4 DEF Answers1, Turned
<1>7. CASE Release(s, m.id)
  BY <1>2, <1>3, <1>7, Ended
<1>8. CASE DOMAIN z.data = Uids(x) /\ OnQuerySuccess(s, m.id, z)
  <2>1. Able(f, s, m.id, z) /\ AllFree(s, m.id)
    BY <1>1, <1>4, <1>8, FillIs, FillAble
  <2> QED BY <1>1, <1>2, <1>3, <1>8, <2>1, Computes DEF Answers1
<1>9. CASE DOMAIN z.data # Uids(x) /\ Becomes(s, m.id, z) /\ req' = req
  <2>1. /\ \A t \in Svr : DOMAIN sess'[t] = DOMAIN sess[t]
        /\ \A t \in Svr : \A j \in DOMAIN sess'[t] :
              sess'[t][j] = IF t = s /\ j = m.id THEN z ELSE sess[t][j]
    <3>1. z \in Session
      BY <1>5 DEF Usable
    <3> QED BY <1>1, <1>9, <3>1, SessAt
  <2>2. ASSUME NEW v \in Uid PROVE Querying(s, m.id, z, v)'
    <3>1. req'[s][v] = req[s][v]
      BY <1>9
    <3>2. CASE v \notin Uids(z) \/ v \in DOMAIN z.data
      <4>1. Free(req'[s][v], rsp'[s][v], m.id)
        BY <1>5, <3>1, <3>2
      <4>2. v \in Uids(z) => Ready(v, z)'
        <5>1. v \in Uids(z) => Ready(v, z)
          BY <1>5, <3>2
        <5>2. UNCHANGED <<db, vmap, applied, refused>>
          BY <1>2 DEF Answers1
        <5> QED BY <5>1, <5>2 DEF Ready, Copy, Untold
      <4> QED BY <3>2, <4>1, <4>2 DEF Querying, Uids
    <3>3. CASE ~ (v \notin Uids(z) \/ v \in DOMAIN z.data)
      <4>1. Asked(req'[s][v], rsp'[s][v], m.id, KeysOf(z.plan, v))
        BY <1>5, <3>1, <3>3
      <4>2. Untold(z.op, v)'
        <5>1. Untold(z.op, v)
          BY <1>5, <3>3
        <5> QED BY <1>2, <5>1 DEF Answers1, Untold
      <4> QED BY <3>3, <4>1, <4>2 DEF Querying, Uids
    <3> QED BY <3>2, <3>3
  <2>3. SessOk(f, s, m.id, z)'
    <3>1. m.id <= curId'[s] /\ f[z.op] = <<s, m.id>>
      BY <1>1, <1>5 DEF SessOk, Answers1
    <3> QED BY <1>5, <2>2, <3>1 DEF SessOk, Uids
  <2>4. Minds(f, s, m.id) /\ PathInv'
    BY <1>2, <1>9, <2>1, <2>3 DEF Minds, PathInv, Answers1
  <2> QED BY <1>3, <2>4
<1> QED BY <1>6, <1>7, <1>8, <1>9

LEMMA TellMinds ==
    ASSUME TInv, TInv', NEW f, Good(f), NEW s \in Svr, NEW u \in Uid, NEW m \in Response, NEW x,
           Answers1(f, s, u, m, x), x.state = "save"
    PROVE  Minds(f, s, m.id) /\ PathInv' /\ TalkInv'
<1>1. m.id \in DOMAIN sess[s]
  BY DEF Answers1
<1>2. /\ u = Cur(x) /\ AllFree(s, m.id) /\ u \in Uids(x)
      /\ Succeeded(m) <=> <<x.op, u>> \in applied
      /\ ~ Succeeded(m) => m.uid = u /\ m.result = "diff"
      /\ x.op \in 1 .. nop /\ f[x.op] = <<s, m.id>>
  <2>1. Heard(f, s, u, m, x)
    BY SettleIs
  <2> QED BY <2>1 DEF Heard
<1>4. TalkInv /\ UNCHANGED <<db, vmap, curId, nop, applied>>
  BY DEF Good, Answers1
<1>5. TalkInv'
  <2>1. saved' \subseteq applied
    BY <1>2, <1>4 DEF Answers1, Told, TalkInv
  <2>2. \A p \in refused' : p \notin applied
    BY <1>2, <1>4 DEF Answers1, Told, TalkInv
  <2> QED BY <1>4, <2>1, <2>2 DEF TalkInv
<1>6. \A o \in 1 .. nop, v \in Uid :
         \/ <<o, v>> \in refused' <=> <<o, v>> \in refused
         \/ f[o] = <<s, m.id>> /\ \A n \in Msgs(req[s][v]) : n.id # m.id
  <2> TAKE o \in 1 .. nop, v \in Uid
  <2>1. <<o, v>> \in refused' /\ <<o, v>> \notin refused => <<o, v>> = <<x.op, Cur(x)>>
    BY DEF Answers1, Told
  <2>2. refused \subseteq refused'
    BY DEF Answers1, Told
  <2>3. \A n \in Msgs(req[s][v]) : n.id # m.id
    BY <1>2 DEF AllFree, Free
  <2> QED BY <1>2, <2>1, <2>2, <2>3
<1>7. CASE Release(s, m.id)
  <2>1. Minds(f, s, m.id) /\ PathInv'
    BY <1>6, <1>7, Ended
  <2> QED BY <1>5, <2>1
<1>8. ASSUME NEW z, Able(f, s, m.id, z), OnQuerySuccess(s, m.id, z), refused' = refused
      PROVE  Minds(f, s, m.id) /\ PathInv'
  BY <1>1, <1>2, <1>4, <1>8, Computes DEF Answers1
<1>9. CASE ~ Succeeded(m) /\ m.result = "diff" /\ MayRedo(x) /\ m.uid \in Uids(x)
           /\ OnQuerySuccess(s, m.id, Renew(x, m))
  <2>1. Able(f, s, m.id, Renew(x, m))
    BY <1>9, RenewAble
  <2>2. refused' = refused
    BY <1>9 DEF Answers1, Told
  <2> QED BY <1>5, <1>8, <1>9, <2>1, <2>2
<1>10. CASE Succeeded(m) /\ x.index < Len(x.plan) /\ OnQuerySuccess(s, m.id, Next1(x))
  <2>1. Able(f, s, m.id, Next1(x))
    BY <1>10, NextAble
  <2>2. refused' = refused
    BY <1>10 DEF Answers1, Told, Succeeded
  <2> QED BY <1>5, <1>8, <1>10, <2>1, <2>2
<1>11. \/ Release(s, m.id)
       \/ /\ m.kind = "save" /\ m.result = "diff" /\ MayRedo(x) /\ m.uid \in Uids(x)
          /\ OnQuerySuccess(s, m.id, Renew(x, m))
       \/ Succeeded(m) /\ x.index < Len(x.plan) /\ OnQuerySuccess(s, m.id, Next1(x))
  BY DEF Answers1, Turned
<1> QED BY <1>7, <1>9, <1>10, <1>11 DEF Succeeded

LEMMA ReceiveGood ==
    ASSUME TInv, TInv', NEW f, Good(f), NEW s \in Svr, NEW u \in Uid, Receive(s, u)
    PROVE  Good(f)'
<1>1. PICK m \in Response :
              /\ m = Head(rsp[s][u]) /\ Read(s, u)
              /\ UNCHANGED <<db, vmap, curId, nop, applied, mix, faults>>
              /\ IF m.id \notin DOMAIN sess[s] THEN UNCHANGED <<sess, req, saved, refused>>
                 ELSE Turned(s, m.id, sess[s][m.id], m) /\ Told(sess[s][m.id], m)
  BY ReceiveIs, PathSplit DEF TInv
<1>2. /\ m \in Msgs(rsp[s][u]) /\ AnswerOk(u, m) /\ Free(req[s][u], rsp'[s][u], m.id)
      /\ \A t \in Svr, v \in Uid : LaneOk(req[t][v], rsp'[t][v], curId'[t])
      /\ \A t \in Svr, v \in Uid : \A n \in Msgs(rsp'[t][v]) : n \in Msgs(rsp[t][v])
  BY <1>1, ReadPaths
<1>3. CASE m.id \notin DOMAIN sess[s]
  <2>1. Fewer /\ PathInv'
    BY <1>1, <1>2, <1>3 DEF Fewer, PathInv
  <2> QED BY <1>1, <1>3, <2>1, FewerGood
<1>4. CASE m.id \in DOMAIN sess[s]
  <2>1. PICK x : x = sess[s][m.id]
    OBVIOUS
  <2>2. Answers1(f, s, u, m, x)
    BY <1>1, <1>2, <1>4, <2>1 DEF Answers1
  <2>3. x.state \in {"query", "save"}
    BY <1>4, <2>1 DEF TInv, SessTyped, Usable, Session
  <2>4. Minds(f, s, m.id) /\ PathInv' /\ TalkInv'
    BY <2>2, <2>3, FillMinds, TellMinds
  <2> QED BY <1>1, <2>4, MindsGood
<1> QED BY <1>3, <1>4

-----------------------------------------------------------------------------
(* Every step.                                                             *)

LEMMA InitGood == ASSUME Init PROVE SteadyInv
<1>1. /\ db = [u \in Uid |-> [k \in Key |-> NotStored]] /\ vmap = [u \in Uid |-> << >>]
      /\ sess = [s \in Svr |-> << >>] /\ curId = [s \in Svr |-> 0]
      /\ req = [s \in Svr |-> [u \in Uid |-> << >>]]
      /\ rsp = [s \in Svr |-> [u \in Uid |-> << >>]]
      /\ nop = 0 /\ applied = {} /\ saved = {} /\ refused = {}
  BY DEF Init
<1>2. PICK f : f = [o \in 1 .. nop |-> CHOOSE e \in Svr \X Nat : TRUE]
  OBVIOUS
<1>3. f \in [1 .. nop -> Svr \X Nat] /\ Owners(f)
  BY <1>1, <1>2 DEF Owners
<1>4. StoreInv
  <2> SUFFICES ASSUME NEW u \in Uid, NEW k \in Key PROVE RecordOk(u, k)
    BY DEF StoreInv
  <2>1. db[u][k] = NotStored /\ vmap[u] = << >>
    BY <1>1
  <2>2. db[u][k].ver = 0 /\ db[u][k].val = << >> /\ Len(<< >>) = 0 /\ DOMAIN vmap[u] = {}
    BY <2>1 DEF NotStored
  <2> QED BY <2>2 DEF RecordOk
<1>5. \A s \in Svr, u \in Uid : req[s][u] = << >> /\ rsp[s][u] = << >>
  BY <1>1
<1>6. Msgs(<< >>) = {} /\ Once(<< >>)
  BY DEF Msgs, Once
<1>7. PathInv /\ AnswerInv /\ SaveInv(f)
  BY <1>5, <1>6 DEF PathInv, LaneOk, AnswerInv, SaveInv
<1>8. SessInv(f)
  <2>1. \A s \in Svr : sess[s] = << >>
    BY <1>1
  <2>2. \A s \in Svr : DOMAIN sess[s] = {}
    BY <2>1
  <2> QED BY <2>2 DEF SessInv
<1>9. TalkInv
  BY <1>1 DEF TalkInv
<1>10. Good(f)
  BY <1>3, <1>4, <1>7, <1>8, <1>9 DEF Good
<1> QED BY <1>3, <1>10 DEF SteadyInv

(* A fault of another kind leaves the count of this one.                   *)
LEMMA FaultUp ==
    ASSUME Counted, NEW e \in FaultKind, NEW n \in Nat, Fault(e, n)
    PROVE  /\ faults'[e] = faults[e] + n
           /\ \A d \in FaultKind : faults[d] \in Nat /\ (d # e => faults'[d] = faults[d])
  BY DEF Counted, Fault

Kinds == {"kill", "stop", "fail", "restart"}

LEMMA SteadyIs == Steady <=> \A d \in Kinds : faults[d] = 0
  BY DEF Steady, Undisturbed, Kinds

LEMMA ServeFails ==
    ASSUME TInv, NEW s \in Svr, NEW u \in Uid, Serve(s, u)
    PROVE  \E n \in Nat : Fault("fail", n)
<1>1. ReqTyped
  BY PathSplit DEF TInv
<1>2. PICK m \in Requests : m = Head(req[s][u])
  BY <1>1, TakenIs DEF Serve, Taken
<1>3. CASE m.kind = "query"
  <2>1. HandlerQuery(s, u, m) /\ m.keys \in SUBSET Key
    BY <1>2, <1>3 DEF Serve, Requests, Query, Save
  <2>2. PICK bad \in SUBSET Key : Fault("fail", Cardinality(bad))
    BY <2>1 DEF HandlerQuery
  <2> QED BY <2>2, FiniteKeys
<1>4. CASE m.kind # "query"
  <2>1. HandlerSave(s, u, m) /\ m \in Save
    BY <1>2, <1>4 DEF Serve, Requests, Query
  <2>2. \A k \in DOMAIN m.datas : k \in Key
    BY <2>1, DatasIs DEF Save
  <2>3. PICK bad \in SUBSET Key : Fault("fail", Cardinality(bad))
    BY <2>1, <2>2 DEF HandlerSave
  <2> QED BY <2>3, FiniteKeys
<1> QED BY <1>3, <1>4

(* A disturbed system stays so, and only these steps disturb it.           *)
LEMMA Disturbs ==
    ASSUME TInv, [Next]_vars, Steady'
    PROVE  /\ Steady /\ ~ DbRestart /\ faults'["fail"] = 0
           /\ \A s \in Svr : ~ Stop(s) /\ ~ Kill(s)
<1>1. Counted /\ \A d \in Kinds : d \in FaultKind
  BY DEF TInv, Kinds, FaultKind
<1>2. \A d \in Kinds : faults'[d] = 0 /\ faults[d] \in Nat
  BY <1>1 DEF Steady, Undisturbed, Kinds, Counted
<1>3. ASSUME NEW e \in FaultKind, NEW n \in Nat, Fault(e, n)
      PROVE  Steady /\ (e \in Kinds => n = 0)
  <2>1. /\ faults'[e] = faults[e] + n
        /\ \A d \in FaultKind : faults[d] \in Nat /\ (d # e => faults'[d] = faults[d])
    BY <1>1, <1>3, FaultUp
  <2>2. \A d \in Kinds : faults[d] = 0
    BY <1>1, <1>2, <2>1
  <2> QED BY <1>1, <1>2, <2>1, <2>2, SteadyIs
<1>4. ~ DbRestart
  <2>1. "restart" \in FaultKind /\ "restart" \in Kinds /\ 1 \in Nat /\ 1 # 0
    BY DEF FaultKind, Kinds
  <2>2. ~ Fault("restart", 1)
    BY <1>3, <2>1
  <2> QED BY <2>2 DEF DbRestart
<1>5. \A s \in Svr : ~ Stop(s) /\ ~ Kill(s)
  <2>1. /\ "stop" \in FaultKind /\ "stop" \in Kinds /\ "kill" \in FaultKind /\ "kill" \in Kinds
        /\ 1 \in Nat /\ 1 # 0
    BY DEF FaultKind, Kinds
  <2>2. ~ Fault("stop", 1) /\ ~ Fault("kill", 1)
    BY <1>3, <2>1
  <2> QED BY <2>2 DEF Stop, Kill
<1>6. ASSUME faults' = faults PROVE Steady
  BY <1>2, <1>6, SteadyIs
<1>7. Steady
  <2>1. ASSUME NEW s \in Svr, QueryAllData(s) \/ TimeOut(s) PROVE Steady
    BY <1>6, <2>1 DEF QueryAllData, TimeOut
  <2>2. ASSUME NEW s \in Svr, NEW u \in Uid, Receive(s, u) PROVE Steady
    BY <1>6, <2>2 DEF Receive
  <2>3. ASSUME NEW s \in Svr, NEW u \in Uid, Serve(s, u) PROVE Steady
    <3>1. PICK n \in Nat : Fault("fail", n)
      BY <2>3, ServeFails
    <3> QED BY <1>3, <3>1 DEF FaultKind
  <2>4. ASSUME NEW s \in Svr, NEW u \in Uid, Lose(s, u) PROVE Steady
    <3>1. Fault("loss", 1)
      BY <2>4 DEF Lose
    <3> QED BY <1>3, <3>1 DEF FaultKind
  <2>5. CASE VersionExpire
    BY <1>6, <2>5 DEF VersionExpire
  <2>6. CASE UNCHANGED vars
    BY <1>6, <2>6 DEF vars
  <2> QED BY <1>4, <1>5, <2>1, <2>2, <2>3, <2>4, <2>5, <2>6 DEF Next
<1> QED BY <1>2, <1>4, <1>5, <1>7 DEF Kinds

LEMMA StepGood == ASSUME TInv, SteadyInv, [Next]_vars PROVE SteadyInv'
<1> SUFFICES ASSUME Steady' PROVE \E g \in [1 .. nop' -> Svr \X Nat] : Good(g)'
  BY DEF SteadyInv
<1>1. TInv'
  BY StepTyped
<1>2. /\ Steady /\ ~ DbRestart /\ faults'["fail"] = 0
      /\ \A s \in Svr : ~ Stop(s) /\ ~ Kill(s)
  BY Disturbs
<1>3. PICK f \in [1 .. nop -> Svr \X Nat] : Good(f)
  BY <1>2 DEF SteadyInv
<1>4. Good(f)' => \E g \in [1 .. nop' -> Svr \X Nat] : Good(g)'
  BY DEF Good, Owners
<1>5. ASSUME NEW s \in Svr, QueryAllData(s)
      PROVE  \E g \in [1 .. nop' -> Svr \X Nat] : Good(g)'
  BY <1>1, <1>3, <1>5, QueryAllGood
<1>6. ASSUME NEW s \in Svr, TimeOut(s) PROVE Good(f)'
  BY <1>1, <1>3, <1>6, TimeOutGood
<1>7. ASSUME NEW s \in Svr, NEW u \in Uid, Receive(s, u) \/ Serve(s, u) \/ Lose(s, u)
      PROVE  Good(f)'
  BY <1>1, <1>2, <1>3, <1>7, ReceiveGood, ServeGood, LoseGood
<1>8. CASE VersionExpire
  BY <1>1, <1>3, <1>4, <1>8, VersionExpireGood
<1>9. CASE UNCHANGED vars
  <2>1. /\ UNCHANGED <<db, vmap, curId, nop, applied, saved, refused>>
        /\ UNCHANGED <<req, rsp, sess>>
    BY <1>9 DEF vars, ends
  <2>2. Fewer /\ PathInv'
    BY <1>3, <2>1 DEF Fewer, PathInv, Good
  <2>3. Good(f)'
    BY <1>1, <1>3, <2>1, <2>2, FewerGood
  <2> QED BY <1>4, <2>3
<1> QED BY <1>2, <1>4, <1>5, <1>6, <1>7, <1>8, <1>9 DEF Next

(* An invariant of the data sessions: while nothing but the network and    *)
(* the clock disturbed them, SteadyInv accounts for every message, every   *)
(* copy and every version.                                                 *)
THEOREM SteadyState == Spec => [](TInv /\ SteadyInv)
<1>1. Init => TInv /\ SteadyInv
  BY InitTyped, InitGood
<1>2. TInv /\ SteadyInv /\ [Next]_vars => (TInv /\ SteadyInv)'
  BY StepTyped, StepGood
<1> QED BY <1>1, <1>2, PTL DEF Spec

-----------------------------------------------------------------------------
(* What it comes to.                                                       *)

(* The version the data server compares a save with is the one LevelDB     *)
(* has, whatever was lost, came late or expired.                           *)
THEOREM CacheTrue == Spec => [](Steady => CacheIsCurrent)
<1>1. TInv /\ SteadyInv => (Steady => CacheIsCurrent)
  <2> SUFFICES ASSUME TInv, SteadyInv, Steady, NEW u \in Uid, NEW k \in DOMAIN vmap[u]
               PROVE  vmap[u][k].ver = db[u][k].ver
    BY DEF CacheIsCurrent
  <2>1. PICK f : Good(f)
    BY DEF SteadyInv
  <2>2. k \in Key
    BY PFunOut DEF TInv, StoreTyped
  <2> QED BY <2>1, <2>2 DEF Good, StoreInv, RecordOk
<1> QED BY <1>1, SteadyState, PTL

(* No handler execution is in a record twice, however many of its saves    *)
(* were refused, lost or computed again.                                   *)
THEOREM PaysOnce == Spec => [](Steady => UpdatesOnce)
<1>1. TInv /\ SteadyInv => (Steady => UpdatesOnce)
  <2> SUFFICES ASSUME TInv, SteadyInv, Steady, NEW u \in Uid, NEW k \in Key
               PROVE  IsInjective(db[u][k].val)
    BY DEF UpdatesOnce
  <2>1. PICK f : Good(f)
    BY DEF SteadyInv
  <2>2. \A i, j \in 1 .. Len(db[u][k].val) : db[u][k].val[i] = db[u][k].val[j] => i = j
    BY <2>1 DEF Good, StoreInv, RecordOk
  <2>3. PICK q \in Seq(Op) : q = db[u][k].val
    BY DEF TInv, StoreTyped, Rec
  <2>4. DOMAIN q = 1 .. Len(q)
    BY LenProperties
  <2> QED BY <2>2, <2>3, <2>4 DEF IsInjective
<1> QED BY <1>1, SteadyState, PTL

(* What a handler is told of its save is true.                             *)
THEOREM ToldTrue == Spec => [](Steady => AnswersAreTrue)
<1>1. SteadyInv => (Steady => AnswersAreTrue)
  <2> SUFFICES ASSUME SteadyInv, Steady PROVE SavedIsApplied /\ RefusedIsNotApplied
    BY DEF AnswersAreTrue
  <2>1. TalkInv
    BY DEF SteadyInv, Good
  <2> QED BY <2>1 DEF TalkInv, SavedIsApplied, RefusedIsNotApplied
<1> QED BY <1>1, SteadyState, PTL

-----------------------------------------------------------------------------
(* The refinement: a save that is accepted is the update of one handler.   *)

Store == [u \in Uid |-> [k \in Key |-> db[u][k].val]]

LEMMA AtomicUpdate ==
    ASSUME TInv, NEW f, Good(f), NEW s \in Svr, NEW u \in Uid, NEW m \in Save,
           SaveOk(f, s, u, m), Behind(u, m) = {}, Accepts(s, u, m, DOMAIN m.datas, 0)
    PROVE  atomic!Next
<1> DEFINE K == DOMAIN m.datas
<1>1. PICK op \in 1 .. nop : \A k \in K : Makes(m.datas[k], db[u][k], op)
  BY DEF SaveOk
<1>2. op \in Op /\ StoreTyped /\ StoreInv
  BY OpIs DEF TInv, Good
<1>3. ASSUME NEW k \in K PROVE k \in Key /\ m.datas[k].val = Append(db[u][k].val, op)
  <2>1. k \in Key /\ k \in DOMAIN vmap[u]
    BY DatasIs DEF Save, SaveOk
  <2>2. PICK c \in Rec : c = m.datas[k]
    BY DatasIs DEF Save
  <2>3. PICK d \in Rec : d = db[u][k]
    BY <1>2, <2>1 DEF StoreTyped
  <2>4. d.ver = Len(d.val) /\ vmap[u][k].ver = d.ver
    BY <1>2, <2>1, <2>3 DEF StoreInv, RecordOk
  <2>5. c.ver = d.ver + 1
    BY <2>2, <2>4 DEF Behind
  <2>6. c.val = Append(d.val, op)
    <3>1. Makes(c, d, op)
      BY <1>1, <2>2, <2>3
    <3> QED BY <1>2, <2>4, <2>5, <3>1, OneMore
  <2> QED BY <2>1, <2>2, <2>3, <2>6
<1>4. \A v \in Uid, k \in Key :
         db'[v][k] = IF v = u /\ k \in K THEN m.datas[k] ELSE db[v][k]
  BY <1>2 DEF Accepts, StoreTyped
<1>5. PICK J \in SUBSET Key : J = K
  BY <1>3
<1>6. \A v \in Uid, k \in Key :
         db'[v][k].val = IF v = u /\ k \in J THEN Append(db[v][k].val, op) ELSE db[v][k].val
  BY <1>3, <1>4, <1>5
<1>7. Store' = [Store EXCEPT ![u] =
                   [k \in Key |-> IF k \in J THEN Append(Store[u][k], op) ELSE Store[u][k]]]
  <2>1. PICK g : g = [k \in Key |-> IF k \in J THEN Append(Store[u][k], op) ELSE Store[u][k]]
    OBVIOUS
  <2>2. /\ Store = [v \in Uid |-> [k \in Key |-> db[v][k].val]]
        /\ Store' = [v \in Uid |-> [k \in Key |-> db'[v][k].val]]
    BY DEF Store
  <2>3. g = [k \in Key |-> db'[u][k].val]
    <3>1. \A k \in Key : Store[u][k] = db[u][k].val
      BY <2>2
    <3> QED BY <1>6, <2>1, <3>1
  <2>4. \A v \in Uid : v # u => Store'[v] = Store[v]
    BY <1>6, <2>2
  <2>5. Store'[u] = g
    BY <2>2, <2>3
  <2>6. Store' = [Store EXCEPT ![u] = g]
    BY <2>2, <2>4, <2>5
  <2> QED BY <2>1, <2>6
<1>8. atomic!Update(op, u, J)
  BY <1>7 DEF atomic!Update, Store
<1> QED BY <1>2, <1>5, <1>8 DEF atomic!Next

LEMMA AtomicServe ==
    ASSUME TInv, NEW f, Good(f), NEW s \in Svr, NEW u \in Uid, Serve(s, u), faults'["fail"] = 0
    PROVE  atomic!Next \/ db' = db
<1>1. Counted /\ StoreTyped /\ ReqTyped /\ SaveInv(f)
  BY PathSplit DEF TInv, Good
<1>2. Taken(s, u)
  BY DEF Serve, Taken
<1>3. PICK m \in Requests : m = Head(req[s][u])
  BY <1>1, <1>2, TakenIs
<1>4. m \in Msgs(req[s][u])
  <2>1. PICK q \in Seq(Requests) : q = req[s][u]
    BY <1>1 DEF ReqTyped
  <2> QED BY <1>2, <1>3, <2>1, TailIs DEF Taken
<1>5. CASE m.kind = "query"
  BY <1>3, <1>5 DEF Serve, HandlerQuery
<1>6. CASE m.kind # "query"
  <2>1. m \in Save /\ m.kind = "save" /\ HandlerSave(s, u, m)
    BY <1>3, <1>6 DEF Requests, Query, Save, Serve
  <2>2. SaveOk(f, s, u, m)
    BY <1>1, <1>4, <2>1 DEF SaveInv
  <2>3. PICK K \in SUBSET Key : K = DOMAIN m.datas
    BY <2>1, DatasIs DEF Save
  <2>4. PICK bad \in SUBSET DOMAIN m.datas, n \in Nat :
            /\ Fault("fail", Cardinality(bad))
            /\ bad = {} /\ DOMAIN m.datas \subseteq DOMAIN vmap[u] =>
                  /\ n = 0
                  /\ IF Behind(u, m) = {} THEN Accepts(s, u, m, DOMAIN m.datas, 0)
                                          ELSE Refuses(s, u, m, DOMAIN m.datas, 0)
    BY <1>1, <2>1, HandlerSaveIs
  <2>5. bad = {}
    BY <1>1, <2>3, <2>4, FaultNone
  <2>6. DOMAIN m.datas \subseteq DOMAIN vmap[u]
    BY <2>2 DEF SaveOk
  <2>7. CASE Behind(u, m) = {}
    BY <2>1, <2>2, <2>4, <2>5, <2>6, <2>7, AtomicUpdate
  <2>8. CASE Behind(u, m) # {}
    BY <2>4, <2>5, <2>6, <2>8 DEF Refuses
  <2> QED BY <2>7, <2>8
<1> QED BY <1>5, <1>6

(* Handlers of all logic servers and the data server together make atomic  *)
(* updates, as AtomicStore says: no save overwrites a change its handler   *)
(* has not seen, unless a server was killed or stopped, LevelDB failed or  *)
(* the data server was started again.                                      *)
THEOREM AtomicUpdates == Spec /\ []Steady => NoLostUpdate
<1>1. Init => atomic!Init
  <2> SUFFICES ASSUME Init PROVE Store = [u \in Uid |-> [k \in Key |-> << >>]]
    BY DEF atomic!Init, Store
  <2>1. \A u \in Uid, k \in Key : db[u][k].val = << >>
    BY DEF Init, NotStored
  <2> QED BY <2>1 DEF Store
<1>2. ASSUME TInv, SteadyInv, Steady', [Next]_vars PROVE [atomic!Next]_Store
  <2>1. /\ Steady /\ ~ DbRestart /\ faults'["fail"] = 0
        /\ \A s \in Svr : ~ Stop(s) /\ ~ Kill(s)
    BY <1>2, Disturbs
  <2>2. PICK f : Good(f)
    BY <1>2, <2>1 DEF SteadyInv
  <2>3. ASSUME NEW s \in Svr, NEW u \in Uid, Serve(s, u) PROVE atomic!Next \/ db' = db
    BY <1>2, <2>1, <2>2, <2>3, AtomicServe
  <2>4. ASSUME NEW s \in Svr, NEW u \in Uid, Receive(s, u) \/ Lose(s, u) PROVE db' = db
    BY <2>4 DEF Receive, Lose
  <2>5. ASSUME NEW s \in Svr, QueryAllData(s) \/ TimeOut(s) PROVE db' = db
    BY <2>5 DEF QueryAllData, TimeOut
  <2>6. atomic!Next \/ db' = db
    BY <1>2, <2>1, <2>3, <2>4, <2>5 DEF Next, VersionExpire, vars
  <2>7. db' = db => Store' = Store
    BY DEF Store
  <2> QED BY <2>6, <2>7
<1> QED BY <1>1, <1>2, SteadyState, PTL DEF Spec, NoLostUpdate, atomic!Spec, Store

-----------------------------------------------------------------------------
(* Why a handler computes again.                                           *)

(* The handlers whose updates of x's users were applied.  T are those that *)
(* x has computed again for: each was applied when x had its present copy, *)
(* so that none of them is in what was stored since.                       *)
Rivals(x) == {a \in applied : a[2] \in Uids(x) /\ a[1] # x.op}
Unseen(T, u, k, n) == \A i \in 1 .. Len(db[u][k].val) : i >= n => <<db[u][k].val[i], u>> \notin T
EarnedBy(T, s, id, x) ==
    /\ T \subseteq Rivals(x) /\ \A a \in T : a[2] \notin Later(x)
    /\ x.redo <= Cardinality(T)
    /\ \A m \in Msgs(req[s][Cur(x)]) : m.id = id =>
          \A k \in DOMAIN m.datas : Unseen(T, Cur(x), k, m.datas[k].ver)
    /\ \A m \in Msgs(rsp[s][Cur(x)]) : m.id = id /\ m.result = "diff" =>
          /\ x.redo + 1 <= Cardinality(T)
          /\ \A k \in DOMAIN m.datas : Unseen(T, Cur(x), k, m.datas[k].ver + 1)
Earns(s, id, x) == x.state = "save" => \E T \in SUBSET applied : EarnedBy(T, s, id, x)
Earned == \A s \in Svr : \A id \in DOMAIN sess[s] : Earns(s, id, sess[s][id])
EarnInv == Steady => Earned

LEMMA FiniteRivals ==
    ASSUME TInv, NEW x, Usable(x)
    PROVE  IsFiniteSet(Rivals(x)) /\ \A T \in SUBSET Rivals(x) : IsFiniteSet(T)
<1> DEFINE D == 1 .. Len(x.plan)
           F == [i \in D |-> x.plan[i].uid]
<1>1. Len(x.plan) \in Nat /\ D = DOMAIN x.plan /\ nop \in Nat
  BY UsableIs, PlanIs DEF TInv, Counted
<1>2. IsFiniteSet(D) /\ IsFiniteSet(1 .. nop)
  BY <1>1, FS_Interval
<1>3. F \in Surjection(D, Uids(x))
  BY <1>1 DEF Surjection, Uids
<1>4. IsFiniteSet(Uids(x))
  BY <1>2, <1>3, FS_Surjection DEF ExistsSurjection
<1>5. IsFiniteSet((1 .. nop) \X Uids(x))
  BY <1>2, <1>4, FS_Product
<1>6. Rivals(x) \subseteq (1 .. nop) \X Uids(x)
  BY DEF Rivals, TInv, EndsTyped
<1>7. IsFiniteSet(Rivals(x))
  BY <1>5, <1>6, FS_Subset
<1> QED BY <1>7, FS_Subset

LEMMA UnseenKept ==
    ASSUME StoreTyped, StoreTyped', Fresher, NEW u \in Uid, NEW k \in Key, NEW n,
           NEW T \in SUBSET applied, Unseen(T, u, k, n)
    PROVE  Unseen(T, u, k, n)'
  BY DEF Unseen, Fresher

(* Steps about others leave what a session has earned.                     *)
Untouched(s, id, v) ==
    /\ \A m \in Msgs(req'[s][v]) : m.id = id => m \in Msgs(req[s][v])
    /\ \A m \in Msgs(rsp'[s][v]) : m.id = id /\ m.result = "diff" => m \in Msgs(rsp[s][v])

LEMMA EarnsKept ==
    ASSUME TInv, TInv', NEW f, Good(f), NEW s \in Svr, NEW id \in DOMAIN sess[s],
           NEW x, x = sess[s][id], Earns(s, id, x),
           Fresher, applied \subseteq applied', Untouched(s, id, Cur(x))
    PROVE  Earns(s, id, x)'
<1> SUFFICES ASSUME x.state = "save" PROVE \E T \in SUBSET applied' : EarnedBy(T, s, id, x)'
  BY DEF Earns
<1>1. PICK T \in SUBSET applied : EarnedBy(T, s, id, x)
  BY DEF Earns
<1>2. PICK u \in Uid : u = Cur(x)
  BY LaterIs DEF TInv, SessTyped
<1>3. StoreTyped /\ StoreTyped' /\ PathTyped
  BY DEF TInv
<1>4. Saving(req[s][u], rsp[s][u], id, <<x.op, u>>)
  BY <1>2 DEF Good, SessInv, SessOk, Updating
<1>5. T \subseteq Rivals(x)' /\ (\A a \in T : a[2] \notin Later(x)') /\ T \in SUBSET applied'
  BY <1>1 DEF EarnedBy, Rivals, Uids, Later
<1>6. ASSUME NEW m \in Msgs(req'[s][u]), m.id = id, NEW k \in DOMAIN m.datas
      PROVE  Unseen(T, u, k, m.datas[k].ver)'
  <2>1. m \in Msgs(req[s][u]) /\ Unseen(T, u, k, m.datas[k].ver)
    BY <1>1, <1>2, <1>6 DEF Untouched, EarnedBy
  <2>2. m \in Save
    BY <1>3, <1>4, <1>6, <2>1, MsgsTyped DEF Saving
  <2>3. k \in Key
    BY <1>6, <2>2, DatasIs DEF Save
  <2> QED BY <1>3, <2>1, <2>3, UnseenKept
<1>7. ASSUME NEW m \in Msgs(rsp'[s][u]), m.id = id, m.result = "diff"
      PROVE  /\ x.redo + 1 <= Cardinality(T)
             /\ \A k \in DOMAIN m.datas : Unseen(T, u, k, m.datas[k].ver + 1)'
  <2>1. /\ m \in Msgs(rsp[s][u]) /\ x.redo + 1 <= Cardinality(T)
        /\ \A k \in DOMAIN m.datas : Unseen(T, u, k, m.datas[k].ver + 1)
    BY <1>1, <1>2, <1>7 DEF Untouched, EarnedBy
  <2>2. \A k \in DOMAIN m.datas : k \in Key
    BY <1>3, <2>1, MsgsTyped, DatasIs DEF Response
  <2> QED BY <1>3, <2>1, <2>2, UnseenKept
<1>8. EarnedBy(T, s, id, x)'
  BY <1>1, <1>2, <1>5, <1>6, <1>7 DEF EarnedBy, Cur
<1> QED BY <1>5, <1>8

(* A refused save: somebody else's update is in the way, and the new data  *)
(* that the answer carries has it.                                         *)
LEMMA EarnsMore ==
    ASSUME TInv, TInv', NEW f, Good(f), NEW s \in Svr, NEW u \in Uid, NEW m \in Save,
           m \in Msgs(req[s][u]), NEW a, a.datas \in Datas,
           NEW x, m.id \in DOMAIN sess[s], x = sess[s][m.id], x.state = "save",
           Earns(s, m.id, x), Behind(u, m) # {}, UNCHANGED <<db, applied>>,
           \A k \in DOMAIN a.datas : a.datas[k].ver = db[u][k].ver,
           \A n \in Msgs(req'[s][u]) : n \in Msgs(req[s][u]) /\ n.id # m.id,
           \A n \in Msgs(rsp'[s][u]) : (n \in Msgs(rsp[s][u]) /\ n.id # m.id) \/ n = a
    PROVE  Earns(s, m.id, x)'
<1>1. /\ Usable(x) /\ SessOk(f, s, m.id, x) /\ StoreTyped /\ StoreTyped' /\ Counted
      /\ SaveInv(f) /\ Owners(f) /\ StoreInv
  BY DEF TInv, SessTyped, Good, SessInv
<1>2. m.kind = "save" /\ SaveOk(f, s, u, m)
  BY <1>1 DEF SaveInv, Save
<1>3. u = Cur(x)
  <2>1. Updating(s, m.id, x, u)
    BY <1>1 DEF SessOk
  <2>2. ~ Free(req[s][u], rsp[s][u], m.id)
    BY DEF Free
  <2> QED BY <2>1, <2>2 DEF Updating
<1>4. PICK op \in 1 .. nop : /\ f[op] = <<s, m.id>> /\ Untold(op, u)
                             /\ \A k \in DOMAIN m.datas : Makes(m.datas[k], db[u][k], op)
  BY <1>2 DEF SaveOk
<1>5. x.op = op
  BY <1>1, <1>4 DEF SessOk, Owners, Usable
<1>6. PICK T \in SUBSET applied : EarnedBy(T, s, m.id, x)
  BY DEF Earns
<1>7. PICK k \in DOMAIN m.datas : vmap[u][k].ver + 1 # m.datas[k].ver
  BY DEF Behind
<1>8. /\ k \in Key /\ m.datas[k] \in Rec /\ db[u][k] \in Rec /\ k \in DOMAIN vmap[u]
      /\ RecordOk(u, k)
  BY <1>1, <1>2, DatasIs DEF Save, SaveOk, StoreInv, StoreTyped
<1>9. m.datas[k].ver \in 1 .. Len(db[u][k].val)
  <2>1. m.datas[k].ver > 0 /\ m.datas[k].ver - 1 <= db[u][k].ver
    BY <1>4 DEF Makes
  <2>2. m.datas[k].ver # db[u][k].ver + 1 /\ db[u][k].ver = Len(db[u][k].val)
    BY <1>7, <1>8 DEF RecordOk
  <2>3. PICK n \in Nat : n = m.datas[k].ver
    BY <1>8 DEF Rec
  <2>4. PICK d \in Nat : d = db[u][k].ver
    BY <1>8 DEF Rec
  <2>5. n > 0 /\ n - 1 <= d /\ n # d + 1 /\ d = Len(db[u][k].val)
    BY <2>1, <2>2, <2>3, <2>4
  <2>6. n \in 1 .. d
    BY <2>5
  <2> QED BY <2>3, <2>5, <2>6
<1>10. PICK p : p = <<db[u][k].val[m.datas[k].ver], u>>
  OBVIOUS
<1>11. p \in applied /\ p[2] = u
  BY <1>8, <1>9, <1>10 DEF RecordOk
<1>12. p \notin T
  <2>1. Unseen(T, u, k, m.datas[k].ver)
    BY <1>3, <1>6 DEF EarnedBy
  <2> QED BY <1>9, <1>10, <2>1 DEF Unseen
<1>13. p[1] # x.op
  <2>1. <<x.op, u>> \notin applied
    BY <1>4, <1>5 DEF Untold
  <2> QED BY <1>10, <1>11, <2>1
<1>14. PICK W : W = T \cup {p}
  OBVIOUS
<1>15. W \in SUBSET applied /\ W \subseteq Rivals(x) /\ \A b \in W : b[2] \notin Later(x)
  <2>1. u \in Uids(x) /\ u \notin Later(x)
    BY <1>1, <1>3, LaterIs
  <2>2. p \in Rivals(x)
    BY <1>11, <1>13, <2>1 DEF Rivals
  <2>3. T \subseteq Rivals(x) /\ \A b \in T : b[2] \notin Later(x)
    BY <1>6 DEF EarnedBy
  <2> QED BY <1>6, <1>11, <1>14, <2>1, <2>2, <2>3
<1>16. x.redo + 1 <= Cardinality(W) /\ x.redo <= Cardinality(W)
  <2>1. IsFiniteSet(T) /\ x.redo <= Cardinality(T)
    BY <1>1, <1>6, FiniteRivals DEF EarnedBy
  <2>2. Cardinality(T) \in Nat /\ Cardinality(W) = Cardinality(T) + 1
    BY <1>12, <1>14, <2>1, FS_AddElement, FS_CardinalityType
  <2> QED BY <1>1, <2>1, <2>2, UsableIs
<1>17. \A j \in DOMAIN a.datas : Unseen(W, u, j, a.datas[j].ver + 1)'
  <2> TAKE j \in DOMAIN a.datas
  <2>1. j \in Key
    BY DatasIs
  <2>2. a.datas[j].ver = Len(db[u][j].val) /\ Len(db[u][j].val) \in Nat
    BY <1>1, <2>1 DEF StoreInv, RecordOk, StoreTyped, Rec
  <2>3. \A i \in 1 .. Len(db[u][j].val) : ~ (i >= a.datas[j].ver + 1)
    BY <2>2
  <2> QED BY <2>3 DEF Unseen
<1>18. /\ \A n \in Msgs(req'[s][u]) : n.id # m.id
       /\ \A n \in Msgs(rsp'[s][u]) : n.id = m.id => n = a
  OBVIOUS
<1>19. EarnedBy(W, s, m.id, x)'
  <2>1. W \subseteq Rivals(x)' /\ \A b \in W : b[2] \notin Later(x)'
    BY <1>15 DEF Rivals, Uids, Later
  <2> QED BY <1>3, <1>16, <1>17, <1>18, <2>1 DEF EarnedBy, Cur
<1> QED BY <1>15, <1>19 DEF Earns

LEMMA ServeEarns ==
    ASSUME TInv, TInv', NEW f, Good(f), NEW s \in Svr, NEW u \in Uid, Serve(s, u),
           faults'["fail"] = 0, Earned
    PROVE  Earned'
<1>1. PICK m \in Requests, a \in Response :
              /\ m = Head(req[s][u]) /\ m \in Msgs(req[s][u])
              /\ Taken(s, u) /\ Answered(s, u, <<a>>)
              /\ UNCHANGED <<sess, curId, nop, saved, refused>>
              /\ Settled(f, s, u, m, a)
  BY ServeSettles
<1>4. /\ \A n \in Msgs(req'[s][u]) : n \in Msgs(req[s][u]) /\ n.id # m.id
      /\ \A n \in Msgs(rsp'[s][u]) : (n \in Msgs(rsp[s][u]) /\ n.id # m.id) \/ n = a
      /\ \A t \in Svr, v \in Uid : ~ (t = s /\ v = u) =>
            req'[t][v] = req[t][v] /\ rsp'[t][v] = rsp[t][v]
  <2>1. a.id = m.id
    BY <1>1 DEF Settled
  <2>2. Replaced(s, u, m, a)
    BY <1>1, <2>1, TakesPlace
  <2> QED BY <2>2 DEF Replaced
<1>5. /\ Fresher /\ a.id = m.id /\ applied \subseteq applied'
      /\ a.result = "diff" =>
            /\ m \in Save /\ Behind(u, m) # {} /\ UNCHANGED <<db, applied>>
            /\ \A k \in DOMAIN a.datas : k \in Key /\ a.datas[k].ver = db[u][k].ver
  BY <1>1 DEF Settled
<1> SUFFICES ASSUME NEW t \in Svr, NEW id \in DOMAIN sess[t]
             PROVE  Earns(t, id, sess[t][id])'
  BY <1>1 DEF Earned
<1>6. PICK x : x = sess[t][id]
  OBVIOUS
<1>7. sess'[t][id] = x /\ Earns(t, id, x)
  BY <1>1, <1>6 DEF Earned
<1>8. PICK v \in Uid : v = Cur(x)
  BY <1>6, LaterIs DEF TInv, SessTyped
<1>9. CASE t = s /\ id = m.id /\ v = u /\ a.result = "diff" /\ x.state = "save"
  <2>1. a.datas \in Datas
    BY DEF Response
  <2>2. /\ m \in Save /\ Behind(u, m) # {} /\ UNCHANGED <<db, applied>>
        /\ \A k \in DOMAIN a.datas : a.datas[k].ver = db[u][k].ver
    BY <1>5, <1>9
  <2>3. m.id \in DOMAIN sess[s] /\ x = sess[s][m.id] /\ x.state = "save" /\ Earns(s, m.id, x)
    BY <1>6, <1>7, <1>9
  <2>4. /\ \A n \in Msgs(req'[s][u]) : n \in Msgs(req[s][u]) /\ n.id # m.id
        /\ \A n \in Msgs(rsp'[s][u]) : (n \in Msgs(rsp[s][u]) /\ n.id # m.id) \/ n = a
        /\ m \in Msgs(req[s][u])
    BY <1>1, <1>4
  <2>5. Earns(s, m.id, x)'
    BY <2>1, <2>2, <2>3, <2>4, EarnsMore
  <2> QED BY <1>7, <1>9, <2>5
<1>10. CASE x.state # "save"
  BY <1>7, <1>10 DEF Earns
<1>11. CASE ~ (t = s /\ id = m.id /\ v = u /\ a.result = "diff")
  <2>1. Untouched(t, id, v)
    BY <1>4, <1>5, <1>11 DEF Untouched
  <2>2. Earns(t, id, x)'
    BY <1>5, <1>6, <1>7, <1>8, <2>1, EarnsKept
  <2> QED BY <1>7, <2>2
<1> QED BY <1>9, <1>10, <1>11

LEMMA FewerEarns ==
    ASSUME TInv, TInv', NEW f, Good(f), Earned, Fewer, UNCHANGED <<db, applied>>
    PROVE  Earned'
<1> SUFFICES ASSUME NEW t \in Svr, NEW id \in DOMAIN sess'[t]
             PROVE  Earns(t, id, sess[t][id])'
  BY DEF Earned
<1>1. PICK x : x = sess'[t][id]
  OBVIOUS
<1>2. id \in DOMAIN sess[t] /\ x = sess[t][id] /\ Earns(t, id, x)
  BY <1>1 DEF Fewer, Earned
<1>3. Cur(x) \in Uid
  BY <1>2, LaterIs DEF TInv, SessTyped
<1>4. Untouched(t, id, Cur(x))
  BY <1>3 DEF Fewer, Untouched
<1>5. Earns(t, id, x)'
  BY <1>2, <1>4, FreshSame, EarnsKept
<1> QED BY <1>1, <1>5

(* An answer to one session leaves the others what they have earned.       *)
LEMMA OthersEarn ==
    ASSUME TInv, TInv', NEW f, Good(f), Earned, NEW s \in Svr, NEW id, Minds(f, s, id),
           UNCHANGED <<db, applied>>, NEW t \in Svr, NEW j \in DOMAIN sess'[t], ~ (t = s /\ j = id)
    PROVE  Earns(t, j, sess[t][j])'
<1>1. PICK x : x = sess'[t][j]
  OBVIOUS
<1>2. j \in DOMAIN sess[t] /\ x = sess[t][j]
  BY <1>1 DEF Minds
<1>3. Earns(t, j, x) /\ Cur(x) \in Uid
  BY <1>2, LaterIs DEF TInv, SessTyped, Earned
<1>4. Untouched(t, j, Cur(x))
  BY <1>3 DEF Minds, Untouched
<1>5. Earns(t, j, x)'
  BY <1>2, <1>3, <1>4, FreshSame, EarnsKept
<1> QED BY <1>1, <1>5

(* The session that computes: its copy has none of what it computed again  *)
(* for beyond its version.                                                 *)
LEMMA ComputesEarns ==
    ASSUME TInv, TInv', NEW f, NEW s \in Svr, NEW id \in DOMAIN sess[s], NEW z,
           Able(f, s, id, z), AllFree(s, id), OnQuerySuccess(s, id, z), UNCHANGED <<db, applied>>,
           NEW T \in SUBSET applied, T \subseteq Rivals(z), \A a \in T : a[2] \notin Later(z),
           z.redo <= Cardinality(T),
           \A k \in DOMAIN z.data[Cur(z)] : Unseen(T, Cur(z), k, z.data[Cur(z)][k].ver + 1),
           id \in DOMAIN sess'[s]
    PROVE  Earns(s, id, sess[s][id])'
<1>1. /\ Counted /\ PathTyped /\ ReqTyped
      /\ sess \in [Svr -> PFun(Nat, Session)] /\ Usable(z) /\ DOMAIN z.data = Uids(z) /\ id \in Nat
  BY PathSplit DEF TInv, SessTyped, Able
<1>2. ~ Release(s, id)
  BY <1>1, SessGone
<1>3. PICK y \in Session, n \in Save :
         /\ n.id = id /\ GoesOn(z, y, n) /\ Becomes(s, id, y) /\ Sends(s, Cur(z), n)
  BY <1>1, <1>2, SuccessIs
<1>4. PICK w \in Uid : w = Cur(z)
  BY <1>1, LaterIs
<1>5. sess'[s][id] = y
  BY <1>1, <1>3, SessAt
<1>6. /\ y.op = z.op /\ y.plan = z.plan /\ y.index = z.index /\ y.redo = z.redo
      /\ Cur(y) = w /\ Later(y) = Later(z) /\ Uids(y) = Uids(z)
  <2>1. y.op = z.op /\ y.plan = z.plan /\ y.index = z.index /\ y.redo = z.redo
    BY <1>3 DEF GoesOn
  <2>2. Cur(y) = Cur(z) /\ Later(y) = Later(z) /\ Uids(y) = Uids(z)
    BY <2>1 DEF Cur, Later, Uids
  <2> QED BY <1>4, <2>1, <2>2
<1>7. /\ \A m \in Msgs(req'[s][w]) : m.id = id => m = n
      /\ \A m \in Msgs(rsp'[s][w]) : m.id # id
  <2>1. PICK q \in Seq(Requests) : q = req[s][w]
    BY <1>1 DEF ReqTyped
  <2>2. n \in Requests /\ n \in Query \cup Save
    BY DEF Requests
  <2>3. req'[s][w] = Append(q, n)
    <3>1. Sends(s, w, n)
      BY <1>3, <1>4
    <3>2. \A t \in Svr, v \in Uid :
             req'[t][v] = IF t = s /\ v = w THEN Append(req[t][v], n) ELSE req[t][v]
      BY <1>1, <2>2, <3>1, SentAt
    <3> QED BY <2>1, <3>2
  <2>4. \A m : m \in Msgs(Append(q, n)) <=> m \in Msgs(q) \/ m = n
    BY <2>2, AppendIs
  <2>5. (\A m \in Msgs(q) : m.id # id) /\ \A m \in Msgs(rsp'[s][w]) : m.id # id
    BY <2>1 DEF AllFree, Free
  <2> QED BY <2>3, <2>4, <2>5
<1>8. ASSUME NEW k \in DOMAIN n.datas PROVE Unseen(T, w, k, n.datas[k].ver)'
  <2>1. k \in DOMAIN z.data[w]
    <3>1. z.redo = 0 => DOMAIN z.data[w] = z.plan[z.index].keys
      BY <1>1, <1>4, LaterIs DEF Able
    <3> QED BY <1>3, <1>4, <3>1 DEF GoesOn
  <2>2. n.datas[k].ver = z.data[w][k].ver + 1
    <3>1. PICK b : b = Base(z, k)
      OBVIOUS
    <3>2. b = z.data[w][k]
      BY <1>4, <2>1, <3>1 DEF Base
    <3>3. n.datas[k] = [ver |-> b.ver + 1, val |-> Append(b.val, z.op)]
      BY <1>3, <3>1 DEF GoesOn
    <3> QED BY <3>2, <3>3
  <2>3. Unseen(T, w, k, z.data[w][k].ver + 1)
    BY <1>4, <2>1
  <2> QED BY <2>2, <2>3 DEF Unseen
<1>9. T \subseteq Rivals(y)' /\ \A a \in T : a[2] \notin Later(y)
  BY <1>6 DEF Rivals
<1>10. EarnedBy(T, s, id, y)'
  <2>1. Later(y)' = Later(y) /\ Cur(y)' = w
    BY <1>6 DEF Later, Cur
  <2> QED BY <1>6, <1>7, <1>8, <1>9, <2>1 DEF EarnedBy
<1> QED BY <1>5, <1>10 DEF Earns

LEMMA FillEarns ==
    ASSUME TInv, TInv', NEW f, Good(f), NEW s \in Svr, NEW u \in Uid, NEW m \in Response, NEW x,
           Answers1(f, s, u, m, x), x.state = "query", m.id \in DOMAIN sess'[s]
    PROVE  Earns(s, m.id, sess[s][m.id])'
<1>1. PICK z : z = Filled(x, m)
  OBVIOUS
<1>2. FilledUp(s, u, m, x, z) /\ SessOk(f, s, m.id, x) /\ m.id \in Nat
  BY <1>1, FillIs
<1>3. Usable(z) /\ z.state = "query"
  BY <1>2 DEF FilledUp
<1>4. sess \in [Svr -> PFun(Nat, Session)] /\ m.id \in DOMAIN sess[s] /\ UNCHANGED <<db, applied>>
  BY DEF TInv, SessTyped, Answers1
<1>5. \/ DOMAIN z.data = Uids(x) /\ OnQuerySuccess(s, m.id, z)
      \/ Becomes(s, m.id, z)
  <2>1. ~ Release(s, m.id)
    BY <1>2, <1>4, SessGone
  <2> QED BY <1>1, <2>1 DEF Answers1, Turned
<1>6. CASE DOMAIN z.data = Uids(x) /\ OnQuerySuccess(s, m.id, z)
  <2>1. Able(f, s, m.id, z) /\ AllFree(s, m.id) /\ z.redo = 0
    BY <1>2, <1>6, FillAble
  <2>2. PICK T \in SUBSET applied : T = {}
    OBVIOUS
  <2>3. /\ T \subseteq Rivals(z) /\ (\A a \in T : a[2] \notin Later(z))
        /\ \A k \in DOMAIN z.data[Cur(z)] : Unseen(T, Cur(z), k, z.data[Cur(z)][k].ver + 1)
    BY <2>2 DEF Unseen
  <2>4. z.redo <= Cardinality(T)
    BY <2>1, <2>2, FS_EmptySet
  <2> QED BY <1>4, <1>6, <2>1, <2>3, <2>4, ComputesEarns
<1>7. CASE Becomes(s, m.id, z)
  <2>1. sess'[s][m.id] = z
    BY <1>3, <1>4, <1>7, SessAt DEF Usable
  <2> QED BY <1>3, <2>1 DEF Earns
<1> QED BY <1>5, <1>6, <1>7

LEMMA TellEarns ==
    ASSUME TInv, TInv', NEW f, Good(f), NEW s \in Svr, NEW u \in Uid, NEW m \in Response, NEW x,
           Answers1(f, s, u, m, x), x.state = "save", m.id \in DOMAIN sess'[s], Earns(s, m.id, x)
    PROVE  Earns(s, m.id, sess[s][m.id])'
<1>1. /\ Usable(x) /\ DOMAIN x.data = Uids(x) /\ SessOk(f, s, m.id, x) /\ m.id \in Nat
      /\ u = Cur(x) /\ u \in Uids(x)
      /\ ~ Succeeded(m) => m.uid = u /\ m.result = "diff"
  <2>1. Heard(f, s, u, m, x)
    BY SettleIs
  <2> QED BY <2>1 DEF Heard
<1>2. /\ sess \in [Svr -> PFun(Nat, Session)] /\ m.id \in DOMAIN sess[s]
      /\ UNCHANGED <<db, applied>> /\ m \in Msgs(rsp[s][u])
  BY DEF TInv, SessTyped, Answers1
<1>3. PICK T \in SUBSET applied : EarnedBy(T, s, m.id, x)
  BY DEF Earns
<1>4. /\ T \subseteq Rivals(x) /\ (\A a \in T : a[2] \notin Later(x)) /\ x.redo <= Cardinality(T)
      /\ m.result = "diff" => /\ x.redo + 1 <= Cardinality(T)
                              /\ \A k \in DOMAIN m.datas : Unseen(T, u, k, m.datas[k].ver + 1)
  BY <1>1, <1>2, <1>3 DEF EarnedBy
<1>5. ~ Release(s, m.id)
  BY <1>1, <1>2, SessGone
<1>6. \/ /\ ~ Succeeded(m) /\ MayRedo(x) /\ m.uid \in Uids(x) /\ m.result = "diff"
         /\ OnQuerySuccess(s, m.id, Renew(x, m))
      \/ Succeeded(m) /\ x.index < Len(x.plan) /\ OnQuerySuccess(s, m.id, Next1(x))
  BY <1>5 DEF Answers1, Turned, Succeeded
<1>7. CASE /\ ~ Succeeded(m) /\ MayRedo(x) /\ m.uid \in Uids(x) /\ m.result = "diff"
           /\ OnQuerySuccess(s, m.id, Renew(x, m))
  <2>1. PICK z : z = Renew(x, m)
    OBVIOUS
  <2>2. /\ Able(f, s, m.id, z) /\ AllFree(s, m.id)
        /\ z.op = x.op /\ z.redo = x.redo + 1 /\ z.data[u] = m.datas
        /\ Cur(z) = u /\ (\A v \in Later(z) : v \in Later(x)) /\ Uids(z) = Uids(x)
    BY <1>7, <2>1, RenewAble
  <2>3. T \subseteq Rivals(z) /\ \A a \in T : a[2] \notin Later(z)
    BY <1>4, <2>2 DEF Rivals
  <2>4. \A k \in DOMAIN z.data[Cur(z)] : Unseen(T, Cur(z), k, z.data[Cur(z)][k].ver + 1)
    BY <1>4, <1>7, <2>2
  <2> QED BY <1>2, <1>4, <1>7, <2>1, <2>2, <2>3, <2>4, ComputesEarns
<1>8. CASE Succeeded(m) /\ x.index < Len(x.plan) /\ OnQuerySuccess(s, m.id, Next1(x))
  <2>1. PICK z : z = Next1(x)
    OBVIOUS
  <2>2. /\ Able(f, s, m.id, z) /\ AllFree(s, m.id)
        /\ z.op = x.op /\ z.redo = x.redo /\ Uids(z) = Uids(x)
        /\ Cur(z) \in Later(x) /\ \A v \in Later(z) : v \in Later(x)
    BY <1>8, <2>1, NextAble
  <2>3. T \subseteq Rivals(z) /\ \A a \in T : a[2] \notin Later(z)
    BY <1>4, <2>2 DEF Rivals
  <2>4. \A k \in DOMAIN z.data[Cur(z)] : Unseen(T, Cur(z), k, z.data[Cur(z)][k].ver + 1)
    <3>1. ASSUME NEW c PROVE <<c, Cur(z)>> \notin T
      <4>1. <<c, Cur(z)>>[2] = Cur(z)
        OBVIOUS
      <4> QED BY <1>4, <2>2, <4>1
    <3> QED BY <3>1 DEF Unseen
  <2> QED BY <1>2, <1>4, <1>8, <2>1, <2>2, <2>3, <2>4, ComputesEarns
<1> QED BY <1>6, <1>7, <1>8

LEMMA ReceiveEarns ==
    ASSUME TInv, TInv', NEW f, Good(f), NEW s \in Svr, NEW u \in Uid, Receive(s, u), Earned
    PROVE  Earned'
<1>1. PICK m \in Response :
              /\ m = Head(rsp[s][u]) /\ Read(s, u)
              /\ UNCHANGED <<db, vmap, curId, nop, applied, mix, faults>>
              /\ IF m.id \notin DOMAIN sess[s] THEN UNCHANGED <<sess, req, saved, refused>>
                 ELSE Turned(s, m.id, sess[s][m.id], m) /\ Told(sess[s][m.id], m)
  BY ReceiveIs, PathSplit DEF TInv
<1>2. /\ m \in Msgs(rsp[s][u]) /\ AnswerOk(u, m) /\ Free(req[s][u], rsp'[s][u], m.id)
      /\ \A t \in Svr, v \in Uid : LaneOk(req[t][v], rsp'[t][v], curId'[t])
      /\ \A t \in Svr, v \in Uid : \A n \in Msgs(rsp'[t][v]) : n \in Msgs(rsp[t][v])
  BY <1>1, ReadPaths
<1>3. CASE m.id \notin DOMAIN sess[s]
  <2>1. Fewer
    BY <1>1, <1>2, <1>3 DEF Fewer
  <2> QED BY <1>1, <2>1, FewerEarns
<1>4. CASE m.id \in DOMAIN sess[s]
  <2>1. PICK x : x = sess[s][m.id]
    OBVIOUS
  <2>2. Answers1(f, s, u, m, x)
    BY <1>1, <1>2, <1>4, <2>1 DEF Answers1
  <2>3. x.state \in {"query", "save"}
    BY <1>4, <2>1 DEF TInv, SessTyped, Usable, Session
  <2>4. Minds(f, s, m.id) /\ PathInv' /\ TalkInv'
    BY <2>2, <2>3, FillMinds, TellMinds
  <2>5. Earns(s, m.id, x)
    BY <1>4, <2>1 DEF Earned
  <2>6. m.id \in DOMAIN sess'[s] => Earns(s, m.id, sess[s][m.id])'
    BY <2>2, <2>3, <2>5, FillEarns, TellEarns
  <2>7. \A t \in Svr : \A j \in DOMAIN sess'[t] : ~ (t = s /\ j = m.id) =>
           Earns(t, j, sess[t][j])'
    BY <1>1, <2>4, OthersEarn
  <2> QED BY <2>6, <2>7 DEF Earned
<1> QED BY <1>3, <1>4

LEMMA QueryAllEarns ==
    ASSUME TInv, TInv', NEW f, Good(f), NEW s \in Svr, QueryAllData(s), Earned
    PROVE  Earned'
<1>1. PICK plan \in mix.plans :
              /\ plan \in Plans /\ nop < mix.op /\ nop' = nop + 1
              /\ curId' = [curId EXCEPT ![s] = curId[s] + 1]
              /\ Opens(s, curId[s] + 1, Fresh(nop + 1, plan))
              /\ AskAll(s, curId[s] + 1, plan)
              /\ UNCHANGED <<db, vmap, rsp, applied, saved, refused, mix, faults>>
  BY QueryAllIs
<1>2. PICK id : id = curId[s] + 1
  OBVIOUS
<1>3. PICK z : z = Fresh(nop + 1, plan)
  OBVIOUS
<1>4. SessTyped /\ ReqTyped /\ nop \in Nat /\ curId \in [Svr -> 0 .. nop] /\ id \in Nat
  BY <1>2, PathSplit DEF TInv, Counted, SessTyped
<1>5. z \in Session /\ z.state = "query"
  BY <1>1, <1>3, <1>4, FreshTyped DEF Fresh
<1>6. \A t \in Svr : \A j \in DOMAIN sess'[t] :
         IF t = s /\ j = id THEN sess'[t][j] = z
         ELSE j \in DOMAIN sess[t] /\ sess'[t][j] = sess[t][j]
  <2>1. Opens(s, id, z) /\ sess \in [Svr -> PFun(Nat, Session)]
    BY <1>1, <1>2, <1>3, <1>4 DEF SessTyped
  <2> QED BY <1>4, <1>5, <2>1, SessNew
<1>7. ASSUME NEW t \in Svr, NEW v \in Uid, NEW m \in Msgs(req'[t][v])
      PROVE  m \in Msgs(req[t][v]) \/ (t = s /\ m.id = id)
  <2>1. PICK q \in Seq(Requests) : q = req[t][v]
    BY <1>4 DEF ReqTyped
  <2>2. req'[t][v] = IF t = s /\ v \in UidsOf(plan) THEN Append(q, Ask(id, plan, v)) ELSE q
    BY <1>1, <1>2, <1>4, <2>1, AskAllIs
  <2>3. Ask(id, plan, v) \in Requests /\ Ask(id, plan, v).id = id
    BY <1>1, <1>4, AskTyped DEF Ask, Requests
  <2>4. \A n : n \in Msgs(Append(q, Ask(id, plan, v))) <=> n \in Msgs(q) \/ n = Ask(id, plan, v)
    BY <2>3, AppendIs
  <2> QED BY <1>7, <2>1, <2>2, <2>3, <2>4
<1>8. ASSUME NEW t \in Svr, NEW j \in DOMAIN sess'[t], ~ (t = s /\ j = id)
      PROVE  Earns(t, j, sess[t][j])'
  <2>1. PICK x : x = sess'[t][j]
    OBVIOUS
  <2>2. j \in DOMAIN sess[t] /\ x = sess[t][j]
    BY <1>6, <1>8, <2>1
  <2>3. Earns(t, j, x) /\ Cur(x) \in Uid
    BY <1>4, <2>2, LaterIs DEF SessTyped, Earned
  <2>4. Untouched(t, j, Cur(x))
    BY <1>1, <1>7, <1>8, <2>3 DEF Untouched
  <2>5. Earns(t, j, x)'
    BY <1>1, <2>2, <2>3, <2>4, FreshSame, EarnsKept
  <2> QED BY <2>1, <2>5
<1>9. id \in DOMAIN sess'[s] => Earns(s, id, sess[s][id])'
  BY <1>5, <1>6 DEF Earns
<1> QED BY <1>8, <1>9 DEF Earned

LEMMA StepEarns == ASSUME TInv, SteadyInv, EarnInv, [Next]_vars PROVE EarnInv'
<1> SUFFICES ASSUME Steady' PROVE Earned'
  BY DEF EarnInv
<1>1. TInv'
  BY StepTyped
<1>2. /\ Steady /\ ~ DbRestart /\ faults'["fail"] = 0
      /\ \A s \in Svr : ~ Stop(s) /\ ~ Kill(s)
  BY Disturbs
<1>3. PICK f : Good(f)
  BY <1>2 DEF SteadyInv
<1>4. Earned
  BY <1>2 DEF EarnInv
<1>5. ASSUME NEW s \in Svr, QueryAllData(s) PROVE Earned'
  BY <1>1, <1>3, <1>4, <1>5, QueryAllEarns
<1>6. ASSUME NEW s \in Svr, NEW u \in Uid, Receive(s, u) \/ Serve(s, u) PROVE Earned'
  BY <1>1, <1>2, <1>3, <1>4, <1>6, ReceiveEarns, ServeEarns
<1>7. ASSUME NEW s \in Svr, TimeOut(s) PROVE Fewer /\ UNCHANGED <<db, applied>>
  <2>1. PICK id \in DOMAIN sess[s] : Release(s, id)
    BY <1>7 DEF TimeOut
  <2>2. UNCHANGED <<db, req, rsp, applied>>
    BY <1>7, <2>1 DEF TimeOut, Release
  <2>3. \A t \in Svr : \A j \in DOMAIN sess'[t] : j \in DOMAIN sess[t] /\ sess'[t][j] = sess[t][j]
    BY <2>1, SessGone DEF TInv, SessTyped
  <2> QED BY <2>2, <2>3 DEF Fewer
<1>8. ASSUME NEW s \in Svr, NEW u \in Uid, Lose(s, u) PROVE Fewer /\ UNCHANGED <<db, applied>>
  <2>1. ReqTyped /\ RspTyped
    BY PathSplit DEF TInv
  <2>2. /\ UNCHANGED <<db, sess, applied>>
        /\ (Taken(s, u) /\ rsp' = rsp) \/ (Read(s, u) /\ req' = req)
    BY <1>8 DEF Lose, Taken, Read
  <2>3. ASSUME NEW t \in Svr, NEW v \in Uid
        PROVE  /\ \A m \in Msgs(req'[t][v]) : m \in Msgs(req[t][v])
               /\ \A m \in Msgs(rsp'[t][v]) : m \in Msgs(rsp[t][v])
    <3>1. PICK q \in Seq(Requests) : q = req[t][v]
      BY <2>1 DEF ReqTyped
    <3>2. PICK r \in Seq(Response) : r = rsp[t][v]
      BY <2>1 DEF RspTyped
    <3>3. \/ req'[t][v] = q /\ rsp'[t][v] = r
          \/ req'[t][v] = Tail(q) /\ rsp'[t][v] = r /\ q # << >>
          \/ req'[t][v] = q /\ rsp'[t][v] = Tail(r) /\ r # << >>
      <4>1. CASE Taken(s, u) /\ rsp' = rsp
        BY <2>1, <3>1, <3>2, <4>1, TakenIs DEF Taken
      <4>2. CASE Read(s, u) /\ req' = req
        BY <2>1, <3>1, <3>2, <4>2, ReadIs DEF Read
      <4> QED BY <2>2, <4>1, <4>2
    <3>4. /\ q # << >> => \A m \in Msgs(Tail(q)) : m \in Msgs(q)
          /\ r # << >> => \A m \in Msgs(Tail(r)) : m \in Msgs(r)
      BY TailIs
    <3> QED BY <3>1, <3>2, <3>3, <3>4
  <2> QED BY <2>2, <2>3 DEF Fewer
<1>9. VersionExpire \/ UNCHANGED vars => Fewer /\ UNCHANGED <<db, applied>>
  BY DEF VersionExpire, vars, Fewer
<1>10. Fewer /\ UNCHANGED <<db, applied>> => Earned'
  BY <1>1, <1>3, <1>4, FewerEarns
<1> QED BY <1>2, <1>5, <1>6, <1>7, <1>8, <1>9, <1>10 DEF Next

(* No handler computes again without cause: for each time another          *)
(* handler's update of one of its users' records came first, so that with  *)
(* fewer rivals than EN_Max_DB_Redo_Time none is refused.                  *)
THEOREM RedoEarned == Spec => [](Steady => RedoIsEarned)
<1>1. Init => EarnInv
  <2> SUFFICES ASSUME Init, NEW s \in Svr PROVE DOMAIN sess[s] = {}
    BY DEF EarnInv, Earned
  <2>1. sess[s] = << >>
    BY DEF Init
  <2> QED BY <2>1
<1>2. TInv /\ SteadyInv /\ EarnInv /\ [Next]_vars => EarnInv'
  BY StepEarns
<1>3. TInv /\ SteadyInv /\ EarnInv => (Steady => RedoIsEarned)
  <2> SUFFICES ASSUME TInv, SteadyInv, EarnInv, Steady, NEW s \in Svr, NEW id \in DOMAIN sess[s],
                      NEW x, x = sess[s][id]
               PROVE  x.redo <= Cardinality(Rivals(x))
    BY DEF RedoIsEarned, Rivals
  <2>1. PICK f : Good(f)
    BY DEF SteadyInv
  <2>2. Usable(x) /\ SessOk(f, s, id, x) /\ x.redo \in Nat
    BY <2>1, UsableIs DEF TInv, SessTyped, Good, SessInv
  <2>3. IsFiniteSet(Rivals(x)) /\ Cardinality(Rivals(x)) \in Nat
    BY <2>2, FiniteRivals, FS_CardinalityType
  <2>4. CASE x.state = "query"
    BY <2>2, <2>3, <2>4 DEF SessOk
  <2>5. CASE x.state = "save"
    <3>1. PICK T : T \subseteq Rivals(x) /\ x.redo <= Cardinality(T)
      BY <2>5 DEF EarnInv, Earned, Earns, EarnedBy
    <3>2. Cardinality(T) <= Cardinality(Rivals(x)) /\ Cardinality(T) \in Nat
      BY <2>3, <3>1, FS_Subset, FS_CardinalityType
    <3> QED BY <2>2, <2>3, <3>1, <3>2
  <2> QED BY <2>2, <2>4, <2>5 DEF Usable, Session
<1> QED BY <1>1, <1>2, <1>3, SteadyState, PTL DEF Spec

-----------------------------------------------------------------------------
(* What a handler is told while data server and LevelDB may fail.          *)

(* No logic server was killed or stopped, and no message was lost if a     *)
(* call of LevelDB failed.                                                 *)
Trusty == /\ faults["kill"] = 0 /\ faults["stop"] = 0
          /\ faults["fail"] = 0 \/ faults["loss"] = 0

(* A request is answered by failures and then by at most one other answer. *)
FailFirst(r) == \A i, j \in DOMAIN r : i < j /\ r[i].id = r[j].id => r[i].result = "failed"
RouteOk(q, r, u, n) == /\ Once(q) /\ FailFirst(r)
                       /\ \A m \in Msgs(q) : m.id <= n
                       /\ \A a \in Msgs(r) : a.id <= n /\ (a.kind = "query" => a.uid = u)
                       /\ \A m \in Msgs(q), a \in Msgs(r) : m.id # a.id
Routes == \A s \in Svr, u \in Uid : RouteOk(req[s][u], rsp[s][u], u, curId[s])

(* What is on its way between a session and the data server about user u:  *)
(* queries; or saves of what handler op made, whose success is true or     *)
(* comes after a failure.                                                  *)
Queries(q, r, id) == /\ \A m \in Msgs(q) : m.id = id => m.kind = "query"
                     /\ \A a \in Msgs(r) : a.id = id => a.kind = "query"
Wrote(m, op) == /\ m.kind = "save" /\ DOMAIN m.datas # {}
                /\ \A k \in DOMAIN m.datas : Last(m.datas[k].val) = op
FailedBefore(r, id) == \E b \in Msgs(r) : b.id = id /\ b.result = "failed"
Backed(s, u, id, op) ==
    /\ \A m \in Msgs(req[s][u]) : m.id = id => Wrote(m, op)
    /\ \A a \in Msgs(rsp[s][u]) : a.id = id =>
          /\ a.kind = "save"
          /\ a.result = "success" => \/ <<op, u>> \in applied
                                     \/ faults["fail"] > 0 /\ FailedBefore(rsp[s][u], id)
Honest(s, id, x) ==
    /\ id <= curId[s]
    /\ x.state = "query" => \A v \in Uid :
          IF v \in Uids(x) /\ v \notin DOMAIN x.data THEN Queries(req[s][v], rsp[s][v], id)
                                                     ELSE Free(req[s][v], rsp[s][v], id)
    /\ x.state = "save" => \A v \in Uid :
          IF v = Cur(x) THEN Backed(s, v, id, x.op) ELSE Free(req[s][v], rsp[s][v], id)

LEMMA RouteTaken ==
    ASSUME NEW q \in Seq(Requests), q # << >>, NEW r, NEW u, NEW n, RouteOk(q, r, u, n)
    PROVE  RouteOk(Tail(q), r, u, n)
<1>1. Once(Tail(q)) /\ \A m \in Msgs(Tail(q)) : m \in Msgs(q)
  BY OnceTail, TailIs DEF RouteOk
<1> QED BY <1>1 DEF RouteOk

(* What is read leaves the other answers in order; if it is not a failure, *)
(* it was the last one of its request.                                     *)
LEMMA RouteRead ==
    ASSUME NEW q, NEW r \in Seq(Response), r # << >>, NEW u, NEW n, RouteOk(q, r, u, n)
    PROVE  /\ RouteOk(q, Tail(r), u, n) /\ Head(r) \in Msgs(r)
           /\ Head(r).result # "failed" => Free(q, Tail(r), Head(r).id)
<1>1. /\ Len(r) \in Nat /\ Len(r) > 0 /\ DOMAIN r = 1 .. Len(r) /\ Head(r) = r[1]
      /\ DOMAIN Tail(r) = 1 .. Len(r) - 1
      /\ \A i \in 1 .. Len(r) - 1 : Tail(r)[i] = r[i + 1]
  BY HeadTailProperties, LenProperties, EmptySeq
<1>2. Head(r) \in Msgs(r) /\ \A m \in Msgs(Tail(r)) : m \in Msgs(r)
  BY TailIs
<1>3. FailFirst(Tail(r))
  <2> SUFFICES ASSUME NEW i \in 1 .. Len(r) - 1, NEW j \in 1 .. Len(r) - 1, i < j,
                      Tail(r)[i].id = Tail(r)[j].id
               PROVE  Tail(r)[i].result = "failed"
    BY <1>1 DEF FailFirst
  <2>1. i + 1 \in DOMAIN r /\ j + 1 \in DOMAIN r /\ i + 1 < j + 1
    BY <1>1
  <2>2. r[i + 1].id = r[j + 1].id
    BY <1>1
  <2> QED BY <1>1, <2>1, <2>2 DEF RouteOk, FailFirst
<1>4. ASSUME Head(r).result # "failed", NEW i \in 1 .. Len(r) - 1
      PROVE  Tail(r)[i].id # Head(r).id
  <2>1. 1 \in DOMAIN r /\ i + 1 \in DOMAIN r /\ 1 < i + 1 /\ Tail(r)[i] = r[i + 1]
    BY <1>1
  <2> QED BY <1>1, <1>4, <2>1 DEF RouteOk, FailFirst
<1>5. RouteOk(q, Tail(r), u, n)
  BY <1>2, <1>3 DEF RouteOk
<1>6. Head(r).result # "failed" => Free(q, Tail(r), Head(r).id)
  <2>1. \A m \in Msgs(q) : m.id # Head(r).id
    BY <1>2 DEF RouteOk
  <2> QED BY <1>1, <1>4, <2>1 DEF Free, Msgs
<1> QED BY <1>2, <1>5, <1>6

LEMMA RouteSent ==
    ASSUME NEW q \in Seq(Requests), NEW r, NEW u, NEW n, NEW m \in Requests,
           RouteOk(q, r, u, n), Free(q, r, m.id), m.id <= n
    PROVE  RouteOk(Append(q, m), r, u, n)
<1>1. \A k : k \in Msgs(Append(q, m)) <=> k \in Msgs(q) \/ k = m
  BY AppendIs
<1>2. Once(Append(q, m))
  BY OnceAppend DEF RouteOk, Free
<1> QED BY <1>1, <1>2 DEF RouteOk, Free

(* The answers to a request: n failures b and then a.                      *)
Group(w, n, b, a) == /\ w \in Seq(Response) /\ Len(w) = n + 1
                     /\ \A i \in 1 .. n + 1 : w[i] = IF i <= n THEN b ELSE a
                     /\ b.result = "failed" /\ b.id = a.id

LEMMA GroupIs ==
    ASSUME NEW n \in Nat, NEW b \in Response, NEW a \in Response,
           b.result = "failed", b.id = a.id
    PROVE  Group([i \in 1 .. n |-> b] \o <<a>>, n, b, a)
<1> DEFINE p == [i \in 1 .. n |-> b]
<1>1. /\ p \in Seq(Response) /\ <<a>> \in Seq(Response) /\ Len(p) = n
      /\ Len(<<a>>) = 1 /\ <<a>>[1] = a
      /\ \A i \in 1 .. n : p[i] = b
  OBVIOUS
<1> HIDE DEF p
<1>2. /\ p \o <<a>> \in Seq(Response) /\ Len(p \o <<a>>) = n + 1
      /\ \A i \in 1 .. n + 1 : (p \o <<a>>)[i] = IF i <= n THEN b ELSE a
  BY <1>1, ConcatProperties
<1>3. Group(p \o <<a>>, n, b, a)
  BY <1>2 DEF Group
<1> QED BY <1>3 DEF p

LEMMA RouteServed ==
    ASSUME NEW r \in Seq(Response), NEW n \in Nat, NEW b, NEW a,
           FailFirst(r), \A m \in Msgs(r) : m.id # a.id, NEW w, Group(w, n, b, a)
    PROVE  /\ FailFirst(r \o w)
           /\ \A m : m \in Msgs(r \o w) <=> m \in Msgs(r) \/ m = a \/ (n > 0 /\ m = b)
<1> DEFINE o == r \o w
<1>1. Len(r) \in Nat /\ DOMAIN r = 1 .. Len(r)
  BY LenProperties
<1>2. /\ w \in Seq(Response) /\ Len(w) = n + 1
      /\ \A i \in 1 .. n + 1 : w[i] = IF i <= n THEN b ELSE a
      /\ b.result = "failed" /\ b.id = a.id
  BY DEF Group
<1>4. /\ o \in Seq(Response) /\ Len(o) = Len(r) + (n + 1)
      /\ \A i \in 1 .. Len(o) : o[i] = IF i <= Len(r) THEN r[i] ELSE w[i - Len(r)]
  <2>1. w \in Seq(Response)
    BY <1>2
  <2>2. /\ o \in Seq(Response) /\ Len(o) = Len(r) + Len(w)
        /\ \A i \in 1 .. Len(r) + Len(w) : o[i] = IF i <= Len(r) THEN r[i] ELSE w[i - Len(r)]
    BY <2>1, ConcatProperties
  <2> QED BY <1>2, <2>2
<1> HIDE DEF o
<1>5. /\ DOMAIN o = 1 .. Len(r) + (n + 1)
      /\ \A i \in 1 .. Len(r) + (n + 1) :
            o[i] = IF i <= Len(r) THEN r[i] ELSE IF i <= Len(r) + n THEN b ELSE a
  <2>1. DOMAIN o = 1 .. Len(r) + (n + 1)
    BY <1>4, LenProperties
  <2>2. ASSUME NEW i \in 1 .. Len(r) + (n + 1), ~ (i <= Len(r))
        PROVE  o[i] = IF i <= Len(r) + n THEN b ELSE a
    <3>1. i - Len(r) \in 1 .. n + 1 /\ (i - Len(r) <= n <=> i <= Len(r) + n)
      BY <1>1, <2>2
    <3>2. o[i] = w[i - Len(r)]
      BY <1>4, <2>2
    <3> QED BY <1>2, <3>1, <3>2
  <2> QED BY <1>4, <2>1, <2>2
<1>6. \A i \in 1 .. Len(r) : r[i].id # a.id
  BY <1>1 DEF Msgs
<1>7. FailFirst(o)
  <2> SUFFICES ASSUME NEW i \in 1 .. Len(r) + (n + 1), NEW j \in 1 .. Len(r) + (n + 1), i < j,
                      o[i].id = o[j].id
               PROVE  o[i].result = "failed"
    BY <1>5 DEF FailFirst
  <2>1. CASE j <= Len(r)
    <3>1. i \in DOMAIN r /\ j \in DOMAIN r /\ o[i] = r[i] /\ o[j] = r[j]
      BY <1>1, <1>5, <2>1
    <3> QED BY <3>1 DEF FailFirst
  <2>2. CASE j > Len(r) /\ i <= Len(r)
    <3>1. i \in 1 .. Len(r) /\ o[i] = r[i] /\ o[j] \in {a, b}
      BY <1>1, <1>5, <2>2
    <3> QED BY <1>2, <1>6, <3>1
  <2>3. CASE i > Len(r)
    <3>1. i <= Len(r) + n /\ ~ (i <= Len(r))
      BY <1>1, <2>3
    <3> QED BY <1>2, <1>5, <3>1
  <2> QED BY <1>1, <2>1, <2>2, <2>3
<1>8. ASSUME NEW m \in Msgs(o) PROVE m \in Msgs(r) \/ m = a \/ (n > 0 /\ m = b)
  <2>1. PICK i \in 1 .. Len(r) + (n + 1) : m = o[i]
    BY <1>5 DEF Msgs
  <2>2. CASE i <= Len(r)
    <3>1. i \in DOMAIN r /\ m = r[i]
      BY <1>1, <1>5, <2>1, <2>2
    <3> QED BY <3>1 DEF Msgs
  <2>3. CASE ~ (i <= Len(r)) /\ i <= Len(r) + n
    <3>1. n > 0 /\ m = b
      BY <1>1, <1>5, <2>1, <2>3
    <3> QED BY <3>1
  <2>4. CASE ~ (i <= Len(r)) /\ ~ (i <= Len(r) + n)
    BY <1>5, <2>1, <2>4
  <2> QED BY <2>2, <2>3, <2>4
<1>9. /\ \A i \in DOMAIN r : i \in DOMAIN o /\ o[i] = r[i]
      /\ Len(r) + (n + 1) \in DOMAIN o /\ o[Len(r) + (n + 1)] = a
      /\ n > 0 => Len(r) + 1 \in DOMAIN o /\ o[Len(r) + 1] = b
  BY <1>1, <1>5
<1>10. /\ \A m \in Msgs(r) : m \in Msgs(o)
       /\ a \in Msgs(o) /\ (n > 0 => b \in Msgs(o))
  <2>1. \A i \in DOMAIN o : o[i] \in Msgs(o)
    BY DEF Msgs
  <2>2. \A m \in Msgs(r) : \E i \in DOMAIN r : m = r[i]
    BY DEF Msgs
  <2> QED BY <1>9, <2>1, <2>2
<1> QED BY <1>7, <1>8, <1>10 DEF o

(* What a step leaves of the messages of session id about user u.          *)
Leaves(s, u, id) ==
    /\ \A m \in Msgs(req'[s][u]) : m.id = id => m \in Msgs(req[s][u])
    /\ \A a \in Msgs(rsp'[s][u]) : a.id = id => a \in Msgs(rsp[s][u])
    /\ faults["fail"] > 0 => \A a \in Msgs(rsp[s][u]) : a.id = id => a \in Msgs(rsp'[s][u])
More == /\ applied \subseteq applied'
        /\ faults["fail"] > 0 => faults'["fail"] > 0

LEMMA BackedKept ==
    ASSUME NEW s, NEW u, NEW id, NEW op, Backed(s, u, id, op), Leaves(s, u, id), More
    PROVE  Backed(s, u, id, op)'
<1>1. \A m \in Msgs(req'[s][u]) : m.id = id => Wrote(m, op)
  BY DEF Backed, Leaves
<1>2. faults["fail"] > 0 /\ FailedBefore(rsp[s][u], id) =>
          faults'["fail"] > 0 /\ FailedBefore(rsp'[s][u], id)
  BY DEF FailedBefore, Leaves, More
<1>3. \A a \in Msgs(rsp'[s][u]) : a.id = id =>
         /\ a.kind = "save"
         /\ a.result = "success" => \/ <<op, u>> \in applied'
                                    \/ faults'["fail"] > 0 /\ FailedBefore(rsp'[s][u], id)
  BY <1>2 DEF Backed, Leaves, More
<1> QED BY <1>1, <1>3 DEF Backed

(* A session stays honest if it does so in what is on its way of each user.*)
Carries(s, v, id, op) ==
    /\ Free(req[s][v], rsp[s][v], id) => Free(req'[s][v], rsp'[s][v], id)
    /\ Queries(req[s][v], rsp[s][v], id) => Queries(req'[s][v], rsp'[s][v], id)
    /\ Backed(s, v, id, op) => Backed(s, v, id, op)'

LEMMA LeavesCarries ==
    ASSUME NEW s, NEW v, NEW id, NEW op, Leaves(s, v, id), More PROVE Carries(s, v, id, op)
<1>1. Free(req[s][v], rsp[s][v], id) => Free(req'[s][v], rsp'[s][v], id)
  BY FreeKept DEF Leaves
<1>2. Queries(req[s][v], rsp[s][v], id) => Queries(req'[s][v], rsp'[s][v], id)
  BY DEF Leaves, Queries
<1>3. Backed(s, v, id, op) => Backed(s, v, id, op)'
  BY BackedKept
<1> QED BY <1>1, <1>2, <1>3 DEF Carries

LEMMA HonestKept ==
    ASSUME NEW s \in Svr, NEW id, NEW x, Honest(s, id, x), id <= curId'[s],
           \A v \in Uid : Carries(s, v, id, x.op)
    PROVE  Honest(s, id, x)'
<1>1. x.state = "query" => \A v \in Uid :
          IF v \in Uids(x) /\ v \notin DOMAIN x.data THEN Queries(req'[s][v], rsp'[s][v], id)
                                                     ELSE Free(req'[s][v], rsp'[s][v], id)
  BY DEF Honest, Carries
<1>2. x.state = "save" => \A v \in Uid :
          IF v = Cur(x) THEN Backed(s, v, id, x.op)' ELSE Free(req'[s][v], rsp'[s][v], id)
  BY DEF Honest, Carries
<1> QED BY <1>1, <1>2 DEF Honest, Uids, Cur

Truthful == /\ Routes /\ saved \subseteq applied
            /\ \A s \in Svr : \A id \in DOMAIN sess[s] : Honest(s, id, sess[s][id])
TruthInv == Trusty => Truthful

(* The steps that only take messages, sessions or versions away.           *)
LEMMA FewerTruth ==
    ASSUME Truthful, Fewer, More, Routes', faults["fail"] = 0 \/ rsp' = rsp,
           UNCHANGED <<curId, saved>>
    PROVE  Truthful'
<1>1. saved' \subseteq applied'
  BY DEF Truthful, More
<1>2. ASSUME NEW s \in Svr, NEW id \in DOMAIN sess'[s] PROVE Honest(s, id, sess[s][id])'
  <2>1. PICK x : x = sess'[s][id]
    OBVIOUS
  <2>2. Honest(s, id, x)
    BY <2>1 DEF Fewer, Truthful
  <2>3. \A v \in Uid : Leaves(s, v, id)
    BY DEF Fewer, Leaves
  <2>4. \A v \in Uid : Carries(s, v, id, x.op)
    BY <2>3, LeavesCarries
  <2>5. id <= curId'[s]
    BY <2>2 DEF Honest
  <2>6. Honest(s, id, x)'
    BY <2>2, <2>4, <2>5, HonestKept
  <2> QED BY <2>1, <2>6
<1> QED BY <1>1, <1>2 DEF Truthful

LEMMA FaultMore ==
    ASSUME Counted, NEW e \in FaultKind, NEW n \in Nat, Fault(e, n)
    PROVE  \A d \in FaultKind : faults[d] \in Nat /\ faults'[d] \in Nat /\ faults[d] <= faults'[d]
  BY DEF Counted, Fault

LEMMA LoseTruth ==
    ASSUME TInv, Truthful, NEW s \in Svr, NEW u \in Uid, Lose(s, u), faults["fail"] = 0
    PROVE  Truthful'
<1>1. ReqTyped /\ RspTyped /\ Counted
  BY PathSplit DEF TInv
<1>2. /\ UNCHANGED <<sess, curId, applied, saved>> /\ Fault("loss", 1)
      /\ (Taken(s, u) /\ rsp' = rsp) \/ (Read(s, u) /\ req' = req)
  BY DEF Lose, Taken, Read, ends
<1>3. ASSUME NEW t \in Svr, NEW v \in Uid
      PROVE  /\ \A m \in Msgs(req'[t][v]) : m \in Msgs(req[t][v])
             /\ \A m \in Msgs(rsp'[t][v]) : m \in Msgs(rsp[t][v])
             /\ RouteOk(req'[t][v], rsp'[t][v], v, curId'[t])
  <2>1. PICK q \in Seq(Requests) : q = req[t][v]
    BY <1>1 DEF ReqTyped
  <2>2. PICK r \in Seq(Response) : r = rsp[t][v]
    BY <1>1 DEF RspTyped
  <2>3. RouteOk(q, r, v, curId[t])
    BY <2>1, <2>2 DEF Truthful, Routes
  <2>4. \/ req'[t][v] = q /\ rsp'[t][v] = r
        \/ req'[t][v] = Tail(q) /\ rsp'[t][v] = r /\ q # << >>
        \/ req'[t][v] = q /\ rsp'[t][v] = Tail(r) /\ r # << >>
    <3>1. CASE Taken(s, u) /\ rsp' = rsp
      BY <1>1, <2>1, <2>2, <3>1, TakenIs DEF Taken
    <3>2. CASE Read(s, u) /\ req' = req
      BY <1>1, <2>1, <2>2, <3>2, ReadIs DEF Read
    <3> QED BY <1>2, <3>1, <3>2
  <2>5. q # << >> => RouteOk(Tail(q), r, v, curId[t]) /\ \A m \in Msgs(Tail(q)) : m \in Msgs(q)
    BY <2>3, RouteTaken, TailIs
  <2>6. r # << >> => RouteOk(q, Tail(r), v, curId[t]) /\ \A m \in Msgs(Tail(r)) : m \in Msgs(r)
    BY <2>3, RouteRead, TailIs
  <2>7. curId'[t] = curId[t]
    BY <1>2
  <2> QED BY <2>1, <2>2, <2>3, <2>4, <2>5, <2>6, <2>7
<1>4. Fewer /\ Routes'
  BY <1>2, <1>3 DEF Fewer, Routes
<1>5. More
  BY <1>2 DEF More
<1> QED BY <1>2, <1>4, <1>5, FewerTruth

LEMMA QuietTruth ==
    ASSUME TInv, Truthful,
           (\E s \in Svr : TimeOut(s)) \/ DbRestart \/ VersionExpire \/ UNCHANGED vars
    PROVE  Truthful'
<1>1. Counted /\ sess \in [Svr -> PFun(Nat, Session)]
  BY DEF TInv, SessTyped
<1>2. /\ UNCHANGED <<req, rsp, curId, applied, saved>>
      /\ \A t \in Svr : \A j \in DOMAIN sess'[t] : j \in DOMAIN sess[t] /\ sess'[t][j] = sess[t][j]
      /\ faults["fail"] > 0 => faults'["fail"] > 0
  <2>1. CASE \E s \in Svr : TimeOut(s)
    <3>1. PICK s \in Svr : TimeOut(s)
      BY <2>1
    <3>2. PICK id \in DOMAIN sess[s] : Release(s, id)
      BY <3>1 DEF TimeOut
    <3>3. \A t \in Svr : \A j \in DOMAIN sess'[t] : j \in DOMAIN sess[t] /\ sess'[t][j] = sess[t][j]
      BY <1>1, <3>2, SessGone
    <3> QED BY <3>1, <3>2, <3>3 DEF TimeOut, Release, ends
  <2>2. CASE DbRestart
    <3>1. Fault("restart", 1) /\ UNCHANGED <<req, rsp, sess, curId, applied, saved>>
      BY <2>2 DEF DbRestart, ends
    <3>2. faults'["fail"] = faults["fail"]
      BY <1>1, <3>1, FaultUp DEF FaultKind
    <3> QED BY <3>1, <3>2
  <2>3. CASE VersionExpire
    BY <2>3 DEF VersionExpire, ends
  <2>4. CASE UNCHANGED vars
    BY <2>4 DEF vars, ends
  <2> QED BY <2>1, <2>2, <2>3, <2>4
<1>3. Fewer /\ More /\ Routes'
  BY <1>2 DEF Fewer, More, Routes, Truthful
<1> QED BY <1>2, <1>3, FewerTruth

(* What the data server answers request m of user u: n failures and one    *)
(* answer more.  A save it says it took was applied, or a call failed.     *)
Says(s, u, m, n, b, a) ==
    /\ Answered(s, u, [i \in 1 .. n |-> b] \o <<a>>)
    /\ b.result = "failed" /\ b.id = m.id /\ a.id = m.id
    /\ b.kind = m.kind /\ a.kind = m.kind
    /\ m.kind = "query" => b.uid = u /\ a.uid = u
    /\ m.kind = "save" /\ a.result = "success" => \A op : Wrote(m, op) =>
          <<op, u>> \in applied' \/ (n > 0 /\ faults'["fail"] > 0)

LEMMA AnswerIs ==
    ASSUME NEW m, NEW result, NEW u, NEW d
    PROVE  /\ Answer(m, result, u, d).id = m.id /\ Answer(m, result, u, d).kind = m.kind
           /\ Answer(m, result, u, d).result = result /\ Answer(m, result, u, d).uid = u
  BY DEF Answer

LEMMA ServeSays ==
    ASSUME TInv, NEW s \in Svr, NEW u \in Uid, Serve(s, u)
    PROVE  \E m \in Requests, n \in Nat, b \in Response, a \in Response :
              /\ m = Head(req[s][u]) /\ Taken(s, u) /\ Says(s, u, m, n, b, a) /\ More
              /\ UNCHANGED <<sess, curId, saved>>
<1>1. /\ Counted /\ StoreTyped /\ ReqTyped /\ RspTyped
  BY PathSplit DEF TInv
<1>2. Taken(s, u) /\ UNCHANGED <<sess, curId, saved>>
  BY DEF Serve, Taken, ends
<1>3. PICK m \in Requests : m = Head(req[s][u])
  BY <1>1, <1>2, TakenIs
<1>4. PICK b : b = Answer(m, "failed", u, << >>)
  OBVIOUS
<1>5. << >> \in Datas
  BY EmptyTable DEF Datas
<1>6. b \in Response /\ b.result = "failed" /\ b.id = m.id /\ b.kind = m.kind /\ b.uid = u
  BY <1>4, <1>5, QueryAnswerTyped, AnswerIs
<1>7. CASE m.kind = "query"
  <2>1. m.keys \in SUBSET Key
    BY <1>7 DEF Requests, Query, Save
  <2>2. HandlerQuery(s, u, m)
    BY <1>3, <1>7 DEF Serve
  <2>3. PICK bad \in SUBSET m.keys :
           /\ Fault("fail", Cardinality(bad)) /\ UNCHANGED applied
           /\ Answered(s, u, Answers(m, u, Cardinality(bad),
                          Answer(m, "success", u, ReadRecords(u, m.keys \ bad))))
    BY <2>2 DEF HandlerQuery, Answered
  <2>4. PICK n \in Nat : n = Cardinality(bad)
    BY <2>1, FiniteKeys
  <2>5. PICK a : a = Answer(m, "success", u, ReadRecords(u, m.keys \ bad))
    OBVIOUS
  <2>6. a \in Response
    <3>1. m.keys \ bad \in SUBSET Key
      BY <2>1
    <3>2. ReadRecords(u, m.keys \ bad) \in Datas
      BY <1>1, <3>1, CacheTyped
    <3> QED BY <2>5, <3>2, QueryAnswerTyped
  <2>7. Answered(s, u, [i \in 1 .. n |-> b] \o <<a>>)
    BY <1>4, <2>3, <2>4, <2>5 DEF Answers
  <2>8. Says(s, u, m, n, b, a)
    BY <1>6, <1>7, <2>5, <2>7, AnswerIs DEF Says
  <2>9. More
    BY <1>1, <2>3, <2>4, FaultMore DEF More, FaultKind
  <2> QED BY <1>2, <1>3, <1>6, <2>6, <2>8, <2>9
<1>8. CASE m.kind # "query"
  <2>1. m \in Save /\ m.kind = "save"
    BY <1>8 DEF Requests, Query, Save
  <2>2. HandlerSave(s, u, m)
    BY <1>3, <1>8 DEF Serve
  <2>3. PICK bad \in SUBSET DOMAIN m.datas, n \in Nat :
            /\ Fault("fail", Cardinality(bad)) /\ n >= Cardinality(bad)
            /\ \/ Accepts(s, u, m, DOMAIN m.datas \ bad, n)
               \/ Refuses(s, u, m, DOMAIN m.datas \ bad, n)
    BY <1>1, <2>1, <2>2, HandlerSaveIs
  <2>4. bad \in SUBSET Key /\ DOMAIN m.datas \ bad \in SUBSET Key
    <3>1. DOMAIN m.datas \in SUBSET Key
      BY <2>1, PFunOut DEF Save, Datas
    <3> QED BY <3>1
  <2>5. PICK c \in Nat : c = Cardinality(bad) /\ (c = 0 => bad = {})
    BY <2>4, FiniteKeys, FS_EmptySet
  <2>6. More
    <3>1. applied \subseteq applied'
      BY <2>3 DEF Accepts, Refuses
    <3> QED BY <1>1, <2>3, <2>5, <3>1, FaultMore DEF More, FaultKind
  <2>7. faults'["fail"] = faults["fail"] + c /\ faults["fail"] \in Nat
    BY <1>1, <2>3, <2>5, FaultUp DEF FaultKind
  <2>8. CASE Accepts(s, u, m, DOMAIN m.datas \ bad, n)
    <3>1. PICK a : a = Answer(m, "success", 0, << >>)
      OBVIOUS
    <3>2. a \in Response
      BY <1>5, <3>1, QueryAnswerTyped
    <3>3. Answered(s, u, [i \in 1 .. n |-> b] \o <<a>>)
      BY <1>4, <2>8, <3>1 DEF Accepts, Answers
    <3>4. ASSUME NEW op, Wrote(m, op)
          PROVE  <<op, u>> \in applied' \/ (n > 0 /\ faults'["fail"] > 0)
      <4>1. CASE bad = {}
        <5>1. PICK k \in DOMAIN m.datas \ bad : Last(m.datas[k].val) = op
          BY <3>4, <4>1 DEF Wrote
        <5> QED BY <2>8, <5>1 DEF Accepts
      <4>2. CASE bad # {}
        <5>1. c > 0
          BY <2>5, <4>2
        <5> QED BY <2>3, <2>5, <2>7, <5>1
      <4> QED BY <4>1, <4>2
    <3>5. Says(s, u, m, n, b, a)
      BY <1>6, <1>8, <3>1, <3>3, <3>4, AnswerIs DEF Says
    <3> QED BY <1>2, <1>3, <1>6, <2>6, <3>2, <3>5
  <2>9. CASE Refuses(s, u, m, DOMAIN m.datas \ bad, n)
    <3>1. PICK a : a = Answer(m, "diff", u, ReadRecords(u, DOMAIN m.datas \ bad))
      OBVIOUS
    <3>2. a \in Response
      <4>1. ReadRecords(u, DOMAIN m.datas \ bad) \in Datas
        BY <1>1, <2>4, CacheTyped
      <4> QED BY <3>1, <4>1, QueryAnswerTyped
    <3>3. Answered(s, u, [i \in 1 .. n |-> b] \o <<a>>)
      BY <1>4, <2>9, <3>1 DEF Refuses, Answers
    <3>4. Says(s, u, m, n, b, a)
      BY <1>6, <1>8, <3>1, <3>3, AnswerIs DEF Says
    <3> QED BY <1>2, <1>3, <1>6, <2>6, <3>2, <3>4
  <2> QED BY <2>3, <2>8, <2>9
<1> QED BY <1>7, <1>8

LEMMA ServeTruth ==
    ASSUME TInv, TInv', Truthful, NEW s \in Svr, NEW u \in Uid, Serve(s, u)
    PROVE  Truthful'
<1>1. PICK m \in Requests, n \in Nat, b \in Response, a \in Response :
              /\ m = Head(req[s][u]) /\ Taken(s, u) /\ Says(s, u, m, n, b, a) /\ More
              /\ UNCHANGED <<sess, curId, saved>>
  BY ServeSays
<1>2. ReqTyped /\ RspTyped
  BY PathSplit DEF TInv
<1>3. \A t \in Svr, v \in Uid :
         req'[t][v] = IF t = s /\ v = u THEN Tail(req[t][v]) ELSE req[t][v]
  BY <1>1, <1>2, TakenIs
<1>4. PICK w : w = [i \in 1 .. n |-> b] \o <<a>>
  OBVIOUS
<1>5. Group(w, n, b, a) /\ w \in Seq(Response)
  <2>1. b.result = "failed" /\ b.id = a.id
    BY <1>1 DEF Says
  <2>2. Group(w, n, b, a)
    BY <1>4, <2>1, GroupIs
  <2> QED BY <2>2 DEF Group
<1>6. \A t \in Svr, v \in Uid :
         rsp'[t][v] = IF t = s /\ v = u THEN rsp[t][v] \o w ELSE rsp[t][v]
  <2>1. Answered(s, u, w)
    BY <1>1, <1>4 DEF Says
  <2> QED BY <1>2, <1>5, <2>1, AnsweredIs
<1>7. /\ RouteOk(req'[s][u], rsp'[s][u], u, curId[s])
      /\ m \in Msgs(req[s][u]) /\ \A c \in Msgs(rsp[s][u]) : c.id # m.id
      /\ \A c \in Msgs(req'[s][u]) : c \in Msgs(req[s][u]) /\ c.id # m.id
      /\ \A c : c \in Msgs(rsp'[s][u]) <=> c \in Msgs(rsp[s][u]) \/ c = a \/ (n > 0 /\ c = b)
  <2>1. PICK q \in Seq(Requests) : q = req[s][u]
    BY <1>2 DEF ReqTyped
  <2>2. PICK r \in Seq(Response) : r = rsp[s][u]
    BY <1>2 DEF RspTyped
  <2>3. q # << >> /\ m = Head(q) /\ req'[s][u] = Tail(q) /\ rsp'[s][u] = r \o w
    <3>1. req[s][u] # << >>
      BY <1>1 DEF Taken
    <3> QED BY <1>1, <1>3, <1>6, <2>1, <2>2, <3>1
  <2>4. RouteOk(q, r, u, curId[s])
    BY <2>1, <2>2 DEF Truthful, Routes
  <2>5. m \in Msgs(q) /\ \A c \in Msgs(Tail(q)) : c \in Msgs(q) /\ c.id # m.id
    BY <2>3, <2>4, TailIs, OnceTail DEF RouteOk
  <2>6. m.id <= curId[s] /\ \A c \in Msgs(r) : c.id # m.id
    BY <2>4, <2>5 DEF RouteOk
  <2>7. PICK o : o = r \o w
    OBVIOUS
  <2>9. b.result = "failed" /\ b.id = a.id /\ a.id = m.id
    BY <1>1 DEF Says
  <2>10. /\ FailFirst(o)
         /\ \A c : c \in Msgs(o) <=> c \in Msgs(r) \/ c = a \/ (n > 0 /\ c = b)
    <3>1. FailFirst(r) /\ \A c \in Msgs(r) : c.id # a.id
      BY <2>4, <2>6, <2>9 DEF RouteOk
    <3>2. Group(w, n, b, a)
      BY <1>5
    <3>3. /\ FailFirst(r \o w)
          /\ \A c : c \in Msgs(r \o w) <=> c \in Msgs(r) \/ c = a \/ (n > 0 /\ c = b)
      BY <3>1, <3>2, RouteServed
    <3> QED BY <2>7, <3>3
  <2>12. (a.kind = "query" => a.uid = u) /\ (b.kind = "query" => b.uid = u)
    BY <1>1 DEF Says
  <2>13. RouteOk(Tail(q), o, u, curId[s])
    <3>1. Once(Tail(q))
      BY <2>3, <2>4, OnceTail DEF RouteOk
    <3>2. \A c \in Msgs(o) : c.id <= curId[s] /\ (c.kind = "query" => c.uid = u)
      BY <2>4, <2>6, <2>9, <2>10, <2>12 DEF RouteOk
    <3>3. \A e \in Msgs(Tail(q)), c \in Msgs(o) : e.id # c.id
      BY <2>4, <2>5, <2>9, <2>10 DEF RouteOk
    <3> QED BY <2>4, <2>5, <2>10, <3>1, <3>2, <3>3 DEF RouteOk
  <2> QED BY <2>1, <2>2, <2>3, <2>5, <2>6, <2>7, <2>10, <2>13
<1>8. Routes'
  <2> SUFFICES ASSUME NEW t \in Svr, NEW v \in Uid
               PROVE  RouteOk(req'[t][v], rsp'[t][v], v, curId'[t])
    BY DEF Routes
  <2>1. CASE t = s /\ v = u
    BY <1>1, <1>7, <2>1
  <2>2. CASE ~ (t = s /\ v = u)
    BY <1>1, <1>3, <1>6, <2>2 DEF Truthful, Routes
  <2> QED BY <2>1, <2>2
<1>9. saved' \subseteq applied'
  BY <1>1 DEF Truthful, More
<1>10. ASSUME NEW t \in Svr, NEW id \in DOMAIN sess'[t] PROVE Honest(t, id, sess[t][id])'
  <2>1. PICK x : x = sess[t][id] /\ sess'[t][id] = x
    BY <1>1
  <2>2. Honest(t, id, x) /\ id <= curId'[t]
    BY <1>1, <2>1 DEF Truthful, Honest
  <2>3. ASSUME NEW v \in Uid PROVE Carries(t, v, id, x.op)
    <3>1. CASE ~ (t = s /\ v = u)
      <4>1. Leaves(t, v, id)
        BY <1>3, <1>6, <3>1 DEF Leaves
      <4> QED BY <1>1, <4>1, LeavesCarries
    <3>2. CASE t = s /\ v = u /\ id # m.id
      <4>1. a.id = m.id /\ b.id = m.id
        BY <1>1 DEF Says
      <4>2. Leaves(t, v, id)
        BY <1>7, <3>2, <4>1 DEF Leaves
      <4> QED BY <1>1, <4>2, LeavesCarries
    <3>3. CASE t = s /\ v = u /\ id = m.id
      <4>1. ~ Free(req[t][v], rsp[t][v], id)
        BY <1>7, <3>3 DEF Free
      <4>2. Queries(req[t][v], rsp[t][v], id) => Queries(req'[t][v], rsp'[t][v], id)
        <5>1. SUFFICES ASSUME Queries(req[t][v], rsp[t][v], id)
                       PROVE  Queries(req'[t][v], rsp'[t][v], id)
          OBVIOUS
        <5>2. m.kind = "query"
          BY <1>7, <3>3, <5>1 DEF Queries
        <5>3. a.kind = "query" /\ b.kind = "query"
          BY <1>1, <5>2 DEF Says
        <5> QED BY <1>7, <3>3, <5>1, <5>3 DEF Queries
      <4>3. Backed(t, v, id, x.op) => Backed(t, v, id, x.op)'
        <5>1. SUFFICES ASSUME Backed(t, v, id, x.op) PROVE Backed(t, v, id, x.op)'
          OBVIOUS
        <5>2. Wrote(m, x.op) /\ m.kind = "save"
          BY <1>7, <3>3, <5>1 DEF Backed, Wrote
        <5>3. /\ a.kind = "save" /\ b.kind = "save" /\ b.result = "failed" /\ b.id = id
              /\ a.result = "success" =>
                    <<x.op, u>> \in applied' \/ (n > 0 /\ faults'["fail"] > 0)
          BY <1>1, <3>3, <5>2 DEF Says
        <5>4. n > 0 => FailedBefore(rsp'[t][v], id)
          BY <1>7, <3>3, <5>3 DEF FailedBefore
        <5>5. \A c \in Msgs(rsp'[t][v]) : c.id = id => c = a \/ c = b
          BY <1>7, <3>3
        <5>6. \A c \in Msgs(rsp'[t][v]) : c.id = id =>
                 /\ c.kind = "save"
                 /\ c.result = "success" => \/ <<x.op, v>> \in applied'
                                            \/ faults'["fail"] > 0 /\ FailedBefore(rsp'[t][v], id)
          BY <3>3, <5>3, <5>4, <5>5
        <5>7. \A c \in Msgs(req'[t][v]) : c.id = id => Wrote(c, x.op)
          BY <1>7, <3>3
        <5> QED BY <5>6, <5>7 DEF Backed
      <4> QED BY <4>1, <4>2, <4>3 DEF Carries
    <3> QED BY <3>1, <3>2, <3>3
  <2>4. Honest(t, id, x)'
    BY <2>2, <2>3, HonestKept
  <2> QED BY <2>1, <2>4
<1> QED BY <1>8, <1>9, <1>10 DEF Truthful

LEMMA QueryAllTruth ==
    ASSUME TInv, TInv', Truthful, NEW s \in Svr, QueryAllData(s)
    PROVE  Truthful'
<1>1. PICK plan \in mix.plans :
              /\ plan \in Plans /\ nop < mix.op /\ nop' = nop + 1
              /\ curId' = [curId EXCEPT ![s] = curId[s] + 1]
              /\ Opens(s, curId[s] + 1, Fresh(nop + 1, plan))
              /\ AskAll(s, curId[s] + 1, plan)
              /\ UNCHANGED <<db, vmap, rsp, applied, saved, refused, mix, faults>>
  BY QueryAllIs
<1>2. PICK id : id = curId[s] + 1
  OBVIOUS
<1>3. PICK z : z = Fresh(nop + 1, plan)
  OBVIOUS
<1>4. /\ PathTyped /\ ReqTyped /\ RspTyped /\ SessTyped
  BY PathSplit DEF TInv
<1>5. nop \in Nat /\ id \in Nat /\ curId \in [Svr -> 0 .. nop]
  BY <1>1, <1>2 DEF TInv, Counted, SessTyped
<1>6. /\ curId'[s] = id /\ curId[s] < id
      /\ \A t \in Svr : curId[t] \in Nat /\ curId'[t] \in Nat /\ curId[t] <= curId'[t]
  BY <1>1, <1>2, <1>5
<1>7. \A t \in Svr, v \in Uid :
         req'[t][v] = IF t = s /\ v \in UidsOf(plan)
                      THEN Append(req[t][v], Ask(id, plan, v)) ELSE req[t][v]
  BY <1>1, <1>2, <1>4, <1>5, AskAllIs
<1>8. /\ z \in Session /\ Uids(z) = UidsOf(plan) /\ z.state = "query" /\ DOMAIN z.data = {}
  BY <1>1, <1>3, <1>5, FreshTyped, EmptyTable DEF Fresh
<1>9. \A t \in Svr : \A j \in DOMAIN sess'[t] :
          IF t = s /\ j = id THEN sess'[t][j] = z
          ELSE j \in DOMAIN sess[t] /\ sess'[t][j] = sess[t][j]
  <2>1. Opens(s, id, z) /\ sess \in [Svr -> PFun(Nat, Session)]
    BY <1>1, <1>2, <1>3, <1>4 DEF SessTyped
  <2> QED BY <1>5, <1>8, <2>1, SessNew
<1>10. ASSUME NEW t \in Svr, NEW v \in Uid
       PROVE  /\ RouteOk(req'[t][v], rsp'[t][v], v, curId'[t])
              /\ t = s => Free(req[t][v], rsp[t][v], id)
              /\ \A m : m \in Msgs(req'[t][v]) <=>
                    \/ m \in Msgs(req[t][v])
                    \/ t = s /\ v \in UidsOf(plan) /\ m = Ask(id, plan, v)
  <2>1. PICK q \in Seq(Requests) : q = req[t][v]
    BY <1>4 DEF ReqTyped
  <2>2. PICK r \in Seq(Response) : r = rsp[t][v]
    BY <1>4 DEF RspTyped
  <2>3. RouteOk(q, r, v, curId[t]) /\ rsp'[t][v] = r
    BY <1>1, <2>1, <2>2 DEF Truthful, Routes
  <2>4. (\A m \in Msgs(q) : m.id \in Nat) /\ \A m \in Msgs(r) : m.id \in Nat
    <3>1. \A m \in Requests : m.id \in Nat
      BY DEF Requests, Query, Save
    <3> QED BY <1>4, <2>1, <2>2, <3>1, MsgsTyped DEF Response
  <2>5. RouteOk(q, r, v, curId'[t])
    <3>1. (\A m \in Msgs(q) : m.id <= curId'[t]) /\ \A m \in Msgs(r) : m.id <= curId'[t]
      BY <1>6, <2>3, <2>4 DEF RouteOk
    <3> QED BY <2>3, <3>1 DEF RouteOk
  <2>6. t = s => Free(q, r, id)
    BY <1>5, <1>6, <2>3, <2>4 DEF RouteOk, Free
  <2>7. CASE t = s /\ v \in UidsOf(plan)
    <3>0. Ask(id, plan, v) \in Query /\ Ask(id, plan, v).id = id
      BY <1>1, <1>5, AskTyped DEF Ask
    <3>1. PICK m \in Requests : m = Ask(id, plan, v) /\ m.id = id
      BY <3>0 DEF Requests
    <3>2. req'[t][v] = Append(q, m)
      BY <1>7, <2>1, <2>7, <3>1
    <3>3. RouteOk(Append(q, m), r, v, curId'[t])
      BY <1>5, <1>6, <2>5, <2>6, <2>7, <3>1, RouteSent
    <3>4. \A k : k \in Msgs(Append(q, m)) <=> k \in Msgs(q) \/ k = m
      BY AppendIs
    <3> QED BY <2>1, <2>2, <2>3, <2>6, <2>7, <3>1, <3>2, <3>3, <3>4
  <2>8. CASE ~ (t = s /\ v \in UidsOf(plan))
    BY <1>7, <2>1, <2>2, <2>3, <2>5, <2>6, <2>8
  <2> QED BY <2>7, <2>8
<1>11. Routes' /\ saved' \subseteq applied' /\ More
  BY <1>1, <1>10 DEF Routes, Truthful, More
<1>12. ASSUME NEW t \in Svr, NEW j \in DOMAIN sess'[t] PROVE Honest(t, j, sess[t][j])'
  <2>1. PICK x : x = sess'[t][j]
    OBVIOUS
  <2>2. CASE t = s /\ j = id
    <3>1. x = z
      BY <1>9, <2>1, <2>2
    <3>2. ASSUME NEW v \in Uid
          PROVE  IF v \in Uids(z) THEN Queries(req'[s][v], rsp'[s][v], id)
                                  ELSE Free(req'[s][v], rsp'[s][v], id)
      <4>1. Free(req[s][v], rsp[s][v], id) /\ rsp'[s][v] = rsp[s][v]
        BY <1>1, <1>10
      <4>2. Ask(id, plan, v).kind = "query"
        BY DEF Ask
      <4>3. CASE v \in Uids(z)
        BY <1>8, <1>10, <4>1, <4>2, <4>3 DEF Free, Queries
      <4>4. CASE v \notin Uids(z)
        <5>1. req'[s][v] = req[s][v]
          BY <1>7, <1>8, <4>4
        <5> QED BY <4>1, <4>4, <5>1
      <4> QED BY <4>3, <4>4
    <3>3. Honest(s, id, z)'
      <4>1. id <= curId'[s]
        BY <1>5, <1>6
      <4> QED BY <1>8, <3>2, <4>1 DEF Honest, Uids, Cur
    <3> QED BY <2>1, <2>2, <3>1, <3>3
  <2>3. CASE ~ (t = s /\ j = id)
    <3>1. j \in DOMAIN sess[t] /\ x = sess[t][j]
      BY <1>9, <2>1, <2>3
    <3>2. Honest(t, j, x) /\ j \in Nat
      BY <1>4, <3>1, PFunOut DEF Truthful, SessTyped
    <3>3. j <= curId'[t]
      BY <1>6, <3>2 DEF Honest
    <3>4. ASSUME NEW v \in Uid PROVE Carries(t, v, j, x.op)
      <4>1. t = s => Ask(id, plan, v).id # j
        BY <2>3 DEF Ask
      <4>2. Leaves(t, v, j)
        BY <1>1, <1>10, <4>1 DEF Leaves
      <4> QED BY <1>11, <4>2, LeavesCarries
    <3>5. Honest(t, j, x)'
      BY <3>2, <3>3, <3>4, HonestKept
    <3> QED BY <2>1, <3>5
  <2> QED BY <2>2, <2>3
<1> QED BY <1>11, <1>12 DEF Truthful

(* The answer m that server s reads about user u.                          *)
LEMMA ReadTruth ==
    ASSUME TInv, Truthful, NEW s \in Svr, NEW u \in Uid, Read(s, u), curId' = curId,
           NEW m, m = Head(rsp[s][u])
    PROVE  /\ \A t \in Svr, v \in Uid : RouteOk(req[t][v], rsp'[t][v], v, curId'[t])
           /\ \A t \in Svr, v \in Uid : ~ (t = s /\ v = u) => rsp'[t][v] = rsp[t][v]
           /\ \A n : n \in Msgs(rsp[s][u]) <=> n = m \/ n \in Msgs(rsp'[s][u])
           /\ m.kind = "query" => m.uid = u
           /\ m.result # "failed" => Free(req[s][u], rsp'[s][u], m.id)
<1>1. RspTyped /\ Routes
  BY PathSplit DEF TInv, Truthful
<1>2. \A t \in Svr, v \in Uid :
         rsp'[t][v] = IF t = s /\ v = u THEN Tail(rsp[t][v]) ELSE rsp[t][v]
  BY <1>1, ReadIs
<1>3. PICK r \in Seq(Response) : r = rsp[s][u]
  BY <1>1 DEF RspTyped
<1>4. PICK q : q = req[s][u]
  OBVIOUS
<1>5. r # << >> /\ m = Head(r) /\ rsp'[s][u] = Tail(r)
  <2>1. rsp[s][u] # << >>
    BY DEF Read
  <2> QED BY <1>2, <1>3, <2>1
<1>6. RouteOk(q, r, u, curId[s])
  BY <1>1, <1>3, <1>4 DEF Routes
<1>7. /\ RouteOk(q, Tail(r), u, curId[s]) /\ m \in Msgs(r)
      /\ m.result # "failed" => Free(q, Tail(r), m.id)
  BY <1>5, <1>6, RouteRead
<1>8. \A n : n \in Msgs(r) <=> n = m \/ n \in Msgs(Tail(r))
  BY <1>5, TailIs
<1>9. m.kind = "query" => m.uid = u
  BY <1>6, <1>7 DEF RouteOk
<1>10. ASSUME NEW t \in Svr, NEW v \in Uid PROVE RouteOk(req[t][v], rsp'[t][v], v, curId'[t])
  <2>1. CASE t = s /\ v = u
    BY <1>4, <1>5, <1>7, <2>1
  <2>2. CASE ~ (t = s /\ v = u)
    BY <1>1, <1>2, <2>2 DEF Routes
  <2> QED BY <2>1, <2>2
<1> QED BY <1>2, <1>3, <1>4, <1>5, <1>7, <1>8, <1>9, <1>10

(* Answer m was read and what its session sent is all that is new: nothing *)
(* has changed for the other sessions.                                     *)
Took(s, u, m) ==
    /\ \A t \in Svr, v \in Uid : ~ (t = s /\ v = u) => rsp'[t][v] = rsp[t][v]
    /\ \A n : n \in Msgs(rsp[s][u]) <=> n = m \/ n \in Msgs(rsp'[s][u])
    /\ \A t \in Svr, v \in Uid : \A n \in Msgs(req'[t][v]) :
          n \in Msgs(req[t][v]) \/ (t = s /\ n.id = m.id)

LEMMA OthersHonest ==
    ASSUME Truthful, More, curId' = curId, NEW s \in Svr, NEW u \in Uid, NEW m, Took(s, u, m)
    PROVE  \A t \in Svr : \A j \in DOMAIN sess[t] :
              ~ (t = s /\ j = m.id) => \A x : x = sess[t][j] => Honest(t, j, x)'
<1> SUFFICES ASSUME NEW t \in Svr, NEW j \in DOMAIN sess[t], ~ (t = s /\ j = m.id),
                    NEW x, x = sess[t][j]
             PROVE  Honest(t, j, x)'
  OBVIOUS
<1>1. Honest(t, j, x)
  BY DEF Truthful
<1>2. \A v \in Uid : Leaves(t, v, j)
  BY DEF Leaves, Took
<1>3. \A v \in Uid : Carries(t, v, j, x.op)
  BY <1>2, LeavesCarries
<1>4. j <= curId'[t]
  BY <1>1 DEF Honest
<1> QED BY <1>1, <1>3, <1>4, HonestKept

(* A session that computes: nothing of it was on its way, and its save is  *)
(* what it wrote.                                                          *)
LEMMA ComputesTruth ==
    ASSUME TInv, NEW s \in Svr, NEW id \in DOMAIN sess[s], NEW x, Usable(x),
           DOMAIN x.data = Uids(x), OnQuerySuccess(s, id, x), id <= curId'[s], curId' = curId,
           \A t \in Svr, v \in Uid : RouteOk(req[t][v], rsp'[t][v], v, curId'[t]),
           AllFree(s, id)
    PROVE  /\ Routes'
           /\ \A t \in Svr, v \in Uid : \A n \in Msgs(req'[t][v]) :
                 n \in Msgs(req[t][v]) \/ (t = s /\ n.id = id)
           /\ \A t \in Svr : \A j \in DOMAIN sess'[t] :
                 \/ t = s /\ j = id /\ Honest(s, id, sess[s][id])'
                 \/ j \in DOMAIN sess[t] /\ sess'[t][j] = sess[t][j] /\ ~ (t = s /\ j = id)
<1>1. /\ Counted /\ PathTyped /\ ReqTyped /\ sess \in [Svr -> PFun(Nat, Session)]
      /\ sess[s] \in PFun(Nat, Session)
  BY PathSplit DEF TInv, SessTyped
<1>2. id \in Nat
  BY <1>1, PFunOut
<1>3. CASE Release(s, id)
  <2>1. /\ req' = req
        /\ \A t \in Svr : \A j : j \in DOMAIN sess'[t] <=> j \in DOMAIN sess[t] /\ ~ (t = s /\ j = id)
        /\ \A t \in Svr : \A j \in DOMAIN sess'[t] : sess'[t][j] = sess[t][j]
    BY <1>1, <1>3, SessGone
  <2> QED BY <2>1 DEF Routes
<1>4. ASSUME NEW z \in Session, NEW m \in Save, m.id = id, GoesOn(x, z, m), Becomes(s, id, z),
             Sends(s, Cur(x), m)
      PROVE  /\ Routes'
             /\ \A t \in Svr, v \in Uid : \A n \in Msgs(req'[t][v]) :
                   n \in Msgs(req[t][v]) \/ (t = s /\ n.id = id)
             /\ \A t \in Svr : \A j \in DOMAIN sess'[t] :
                   \/ t = s /\ j = id /\ Honest(s, id, sess[s][id])'
                   \/ j \in DOMAIN sess[t] /\ sess'[t][j] = sess[t][j] /\ ~ (t = s /\ j = id)
  <2>1. PICK u \in Uid : u = Cur(x)
    BY UsableIs DEF Cur
  <2>2. m \in Requests /\ m \in Query \cup Save
    BY DEF Requests
  <2>3. \A t \in Svr, v \in Uid :
           req'[t][v] = IF t = s /\ v = u THEN Append(req[t][v], m) ELSE req[t][v]
    BY <1>1, <1>4, <2>1, <2>2, SentAt
  <2>4. ASSUME NEW t \in Svr, NEW v \in Uid
        PROVE  /\ RouteOk(req'[t][v], rsp'[t][v], v, curId'[t])
               /\ \A n \in Msgs(req'[t][v]) : n \in Msgs(req[t][v]) \/ (t = s /\ v = u /\ n = m)
    <3>1. PICK q \in Seq(Requests) : q = req[t][v]
      BY <1>1 DEF ReqTyped
    <3>2. PICK r : r = rsp'[t][v]
      OBVIOUS
    <3>3. RouteOk(q, r, v, curId'[t])
      BY <3>1, <3>2
    <3>4. CASE t = s /\ v = u
      <4>1. Free(q, r, m.id) /\ m.id <= curId'[t]
        BY <1>4, <3>1, <3>2, <3>4 DEF AllFree
      <4>2. RouteOk(Append(q, m), r, v, curId'[t])
        BY <2>2, <3>3, <4>1, RouteSent
      <4>3. \A n : n \in Msgs(Append(q, m)) <=> n \in Msgs(q) \/ n = m
        BY <2>2, AppendIs
      <4> QED BY <2>3, <3>1, <3>2, <3>4, <4>2, <4>3
    <3>5. CASE ~ (t = s /\ v = u)
      BY <2>3, <3>1, <3>2, <3>3, <3>5
    <3> QED BY <3>4, <3>5
  <2>5. /\ \A t \in Svr : DOMAIN sess'[t] = DOMAIN sess[t]
        /\ \A t \in Svr : \A j \in DOMAIN sess'[t] :
              sess'[t][j] = IF t = s /\ j = id THEN z ELSE sess[t][j]
    BY <1>1, <1>4, SessAt
  <2>6. z.state = "save" /\ z.op = x.op /\ Cur(z) = u /\ m.kind = "save" /\ DOMAIN m.datas # {}
    BY <1>4, <2>1 DEF GoesOn, Cur
  <2>7. Wrote(m, x.op)
    <3>1. ASSUME NEW k \in DOMAIN m.datas PROVE Last(m.datas[k].val) = x.op
      <4>1. m.datas[k] = [ver |-> Base(x, k).ver + 1, val |-> Append(Base(x, k).val, x.op)]
        BY <1>4 DEF GoesOn
      <4>2. k \in Key /\ m.datas[k] \in Rec
        BY DatasIs DEF Save
      <4>3. Base(x, k).val \in Seq(Op) /\ x.op \in Op
        <5>1. Base(x, k) \in Rec
          <6>1. NotStored \in Rec
            BY EmptySeq DEF NotStored, Rec
          <6>2. x.data \in PFun(Uid, Datas) /\ u \in DOMAIN x.data
            BY <2>1, UsableIs DEF Cur
          <6>3. x.data[u] \in Datas
            BY <6>2, PFunOut
          <6>4. \A i \in DOMAIN x.data[u] : x.data[u][i] \in Rec
            BY <6>3, DatasIs
          <6> QED BY <2>1, <6>1, <6>4 DEF Base
        <5>2. x.op \in Op
          BY <1>1, OpIs DEF Usable
        <5> QED BY <5>1, <5>2 DEF Rec
      <4> QED BY <4>1, <4>3, LastAppended
    <3> QED BY <2>6, <3>1 DEF Wrote
  <2>8. Honest(s, id, z)'
    <3>1. ASSUME NEW v \in Uid
          PROVE  IF v = u THEN Backed(s, v, id, z.op)' ELSE Free(req'[s][v], rsp'[s][v], id)
      <4>1. Free(req[s][v], rsp'[s][v], id)
        BY DEF AllFree
      <4>2. \A n \in Msgs(req'[s][v]) : n.id = id => v = u /\ n = m
        BY <2>4, <4>1 DEF Free
      <4>3. CASE v = u
        <5>1. \A n \in Msgs(req'[s][v]) : n.id = id => Wrote(n, z.op)
          BY <2>6, <2>7, <4>2
        <5>2. \A n \in Msgs(rsp'[s][v]) : n.id # id
          BY <4>1 DEF Free
        <5> QED BY <4>3, <5>1, <5>2 DEF Backed
      <4>4. CASE v # u
        BY <4>1, <4>2, <4>4 DEF Free
      <4> QED BY <4>3, <4>4
    <3> QED BY <2>6, <3>1 DEF Honest, Uids, Cur
  <2>9. Routes'
    BY <2>4 DEF Routes
  <2>10. \A t \in Svr, v \in Uid : \A n \in Msgs(req'[t][v]) :
            n \in Msgs(req[t][v]) \/ (t = s /\ n.id = id)
    BY <1>4, <2>4
  <2>11. \A t \in Svr : \A j \in DOMAIN sess'[t] :
            \/ t = s /\ j = id /\ Honest(s, id, sess[s][id])'
            \/ j \in DOMAIN sess[t] /\ sess'[t][j] = sess[t][j] /\ ~ (t = s /\ j = id)
    <3>1. sess'[s][id] = z
      BY <2>5
    <3> QED BY <2>5, <2>8, <3>1
  <2> QED BY <2>9, <2>10, <2>11
<1> QED BY <1>1, <1>2, <1>3, <1>4, SuccessIs

(* An answer that is not a failure is the last that is on its way about    *)
(* its session; to a session that saves it is about the current user, and  *)
(* true.                                                                   *)
LEMMA HeardTrue ==
    ASSUME TInv, Truthful, NEW s \in Svr, NEW u \in Uid, NEW m, NEW id \in DOMAIN sess[s],
           id = m.id, NEW x, x = sess[s][id],
           \A t \in Svr, v \in Uid : ~ (t = s /\ v = u) => rsp'[t][v] = rsp[t][v],
           \A n : n \in Msgs(rsp[s][u]) <=> n = m \/ n \in Msgs(rsp'[s][u]),
           m.result # "failed" => Free(req[s][u], rsp'[s][u], m.id)
    PROVE  /\ x.state = "save" =>
                 /\ u = Cur(x) /\ m.kind = "save" /\ (m.result # "failed" => AllFree(s, id))
                 /\ m.result = "success" => <<x.op, u>> \in applied
           /\ x.state = "query" /\ m.result # "failed" =>
                 \A v \in Uid : IF v \in Uids(x) /\ v \notin DOMAIN x.data /\ v # u
                                THEN Queries(req[s][v], rsp'[s][v], id)
                                ELSE Free(req[s][v], rsp'[s][v], id)
<1>1. Honest(s, id, x) /\ m \in Msgs(rsp[s][u])
  BY DEF Truthful
<1>2. ~ Free(req[s][u], rsp[s][u], id)
  BY <1>1 DEF Free
<1>3. CASE x.state = "save"
  <2>1. u = Cur(x) /\ Backed(s, u, id, x.op)
    BY <1>1, <1>2, <1>3 DEF Honest
  <2>2. m.kind = "save"
    BY <1>1, <2>1 DEF Backed
  <2>3. m.result # "failed" => AllFree(s, id)
    BY <1>1, <1>3, <2>1 DEF Honest, AllFree
  <2>4. m.result = "success" => <<x.op, u>> \in applied
    <3>1. SUFFICES ASSUME m.result = "success" PROVE <<x.op, u>> \in applied
      OBVIOUS
    <3>2. m.result # "failed"
      BY <3>1
    <3>3. ~ FailedBefore(rsp[s][u], id)
      BY <3>2 DEF FailedBefore, Free
    <3> QED BY <1>1, <2>1, <3>1, <3>3 DEF Backed
  <2> QED BY <1>3, <2>1, <2>2, <2>3, <2>4
<1>4. CASE x.state = "query"
  BY <1>1, <1>4 DEF Honest
<1>5. x.state \in {"query", "save"}
  BY DEF TInv, SessTyped, Usable, Session
<1> QED BY <1>3, <1>4, <1>5

LEMMA ReceiveTruth ==
    ASSUME TInv, TInv', Truthful, NEW s \in Svr, NEW u \in Uid, Receive(s, u)
    PROVE  Truthful'
<1>1. RspTyped /\ SessTyped /\ Counted /\ sess \in [Svr -> PFun(Nat, Session)]
  BY PathSplit DEF TInv, SessTyped
<1>2. PICK m \in Response :
              /\ m = Head(rsp[s][u]) /\ Read(s, u)
              /\ UNCHANGED <<db, vmap, curId, nop, applied, mix, faults>>
              /\ IF m.id \notin DOMAIN sess[s] THEN UNCHANGED <<sess, req, saved, refused>>
                 ELSE Turned(s, m.id, sess[s][m.id], m) /\ Told(sess[s][m.id], m)
  BY <1>1, ReceiveIs
<1>3. PICK id : id = m.id
  OBVIOUS
<1>4. More /\ curId' = curId
  BY <1>2 DEF More
<1>5. /\ \A t \in Svr, v \in Uid : RouteOk(req[t][v], rsp'[t][v], v, curId'[t])
      /\ \A t \in Svr, v \in Uid : ~ (t = s /\ v = u) => rsp'[t][v] = rsp[t][v]
      /\ \A n : n \in Msgs(rsp[s][u]) <=> n = m \/ n \in Msgs(rsp'[s][u])
      /\ m.kind = "query" => m.uid = u
      /\ m.result # "failed" => Free(req[s][u], rsp'[s][u], m.id)
  BY <1>2, ReadTruth
<1>6. saved \subseteq applied /\ applied' = applied
  BY <1>2 DEF Truthful
(* It is enough to know where the sessions that are left come from.        *)
<1>7. ASSUME \A t \in Svr, v \in Uid : \A n \in Msgs(req'[t][v]) :
                 n \in Msgs(req[t][v]) \/ (t = s /\ n.id = id),
             \A t \in Svr : \A j \in DOMAIN sess'[t] :
                 \/ t = s /\ j = id /\ Honest(s, id, sess[s][id])'
                 \/ j \in DOMAIN sess[t] /\ sess'[t][j] = sess[t][j] /\ ~ (t = s /\ j = id)
      PROVE  \A t \in Svr : \A j \in DOMAIN sess'[t] : Honest(t, j, sess[t][j])'
  <2> TAKE t \in Svr
  <2> TAKE j \in DOMAIN sess'[t]
  <2>1. CASE t = s /\ j = id /\ Honest(s, id, sess[s][id])'
    BY <2>1
  <2>2. CASE j \in DOMAIN sess[t] /\ sess'[t][j] = sess[t][j] /\ ~ (t = s /\ j = id)
    <3>1. PICK x : x = sess[t][j]
      OBVIOUS
    <3>2. Took(s, u, m)
      BY <1>3, <1>5, <1>7 DEF Took
    <3>3. \A w \in Svr : \A i \in DOMAIN sess[w] :
             ~ (w = s /\ i = m.id) => \A y : y = sess[w][i] => Honest(w, i, y)'
      BY <1>4, <3>2, OthersHonest
    <3>4. Honest(t, j, x)'
      BY <1>3, <2>2, <3>1, <3>3
    <3> QED BY <2>2, <3>1, <3>4
  <2> QED BY <1>7, <2>1, <2>2
<1>8. CASE m.id \notin DOMAIN sess[s]
  <2>1. UNCHANGED <<sess, req, saved>>
    BY <1>2, <1>8
  <2>2. \A t \in Svr : \A j \in DOMAIN sess'[t] : Honest(t, j, sess[t][j])'
    BY <1>3, <1>7, <1>8, <2>1
  <2>3. Routes'
    BY <1>5, <2>1 DEF Routes
  <2> QED BY <1>6, <2>1, <2>2, <2>3 DEF Truthful
<1>9. CASE m.id \in DOMAIN sess[s]
  <2>1. PICK x : x = sess[s][id]
    OBVIOUS
  <2>2. Usable(x) /\ Placed(x) /\ id <= curId'[s] /\ id \in DOMAIN sess[s]
    BY <1>1, <1>3, <1>4, <1>9, <2>1 DEF SessTyped, Truthful, Honest
  <2>3. Turned(s, id, x, m) /\ Told(x, m)
    BY <1>2, <1>3, <1>9, <2>1
  <2>4. /\ x.state = "save" =>
                 /\ u = Cur(x) /\ m.kind = "save" /\ (m.result # "failed" => AllFree(s, id))
                 /\ m.result = "success" => <<x.op, u>> \in applied
        /\ x.state = "query" /\ m.result # "failed" =>
                 \A v \in Uid : IF v \in Uids(x) /\ v \notin DOMAIN x.data /\ v # u
                                THEN Queries(req[s][v], rsp'[s][v], id)
                                ELSE Free(req[s][v], rsp'[s][v], id)
    BY <1>3, <1>5, <2>1, <2>2, HeardTrue
  <2>5. saved' \subseteq applied'
    <3>1. saved' = saved \/ (x.state = "save" /\ Succeeded(m)
                             /\ saved' = saved \cup {<<x.op, Cur(x)>>})
      BY <2>3 DEF Told
    <3>2. x.state = "save" /\ Succeeded(m) => <<x.op, Cur(x)>> \in applied
      BY <2>4 DEF Succeeded
    <3> QED BY <1>6, <3>1, <3>2
  <2> DEFINE Fine ==
         /\ Routes'
         /\ \A t \in Svr, v \in Uid : \A n \in Msgs(req'[t][v]) :
               n \in Msgs(req[t][v]) \/ (t = s /\ n.id = id)
         /\ \A t \in Svr : \A j \in DOMAIN sess'[t] :
               \/ t = s /\ j = id /\ Honest(s, id, sess[s][id])'
               \/ j \in DOMAIN sess[t] /\ sess'[t][j] = sess[t][j] /\ ~ (t = s /\ j = id)
  <2>6. Fine => Truthful'
    BY <1>7, <2>5 DEF Truthful
  <2>7. ASSUME req' = req PROVE Routes'
    BY <1>5, <2>7 DEF Routes
  <2>8. CASE Release(s, id)
    <3>1. /\ req' = req
          /\ \A t \in Svr : \A j : j \in DOMAIN sess'[t] <=> j \in DOMAIN sess[t] /\ ~ (t = s /\ j = id)
          /\ \A t \in Svr : \A j \in DOMAIN sess'[t] : sess'[t][j] = sess[t][j]
      BY <1>1, <2>8, SessGone
    <3>2. Fine
      BY <2>7, <3>1
    <3> QED BY <2>6, <3>2
  <2>9. ASSUME NEW z, Usable(z), DOMAIN z.data = Uids(z), OnQuerySuccess(s, id, z), AllFree(s, id)
        PROVE  Truthful'
    <3>1. Fine
      BY <1>4, <1>5, <2>2, <2>9, ComputesTruth
    <3> QED BY <2>6, <3>1
  <2>10. CASE /\ x.state = "query" /\ m.kind = "query" /\ m.result = "success" /\ m.uid \in Uids(x)
              /\ IF DOMAIN Filled(x, m).data = Uids(x)
                 THEN OnQuerySuccess(s, id, Filled(x, m))
                 ELSE Becomes(s, id, Filled(x, m)) /\ req' = req
    <3>1. PICK z : z = Filled(x, m)
      OBVIOUS
    <3>2. /\ z \in Session /\ Usable(z) /\ Uids(z) = Uids(x) /\ z.data = With(x.data, m.uid, m.datas)
          /\ z.state = "query"
      BY <2>2, <2>10, <3>1, FilledTyped
    <3>3. m.uid = u /\ m.result # "failed"
      BY <1>5, <2>10
    <3>4. \A v : v \in DOMAIN z.data <=> v \in DOMAIN x.data \/ v = u
      BY <3>2, <3>3, WithIs
    <3>5. \A v \in Uid : IF v \in Uids(z) /\ v \notin DOMAIN z.data
                         THEN Queries(req[s][v], rsp'[s][v], id)
                         ELSE Free(req[s][v], rsp'[s][v], id)
      BY <2>4, <2>10, <3>2, <3>3, <3>4
    <3>6. CASE DOMAIN z.data = Uids(x)
      <4>1. AllFree(s, id)
        BY <3>2, <3>5, <3>6 DEF AllFree
      <4> QED BY <2>9, <2>10, <3>1, <3>2, <3>6, <4>1
    <3>7. CASE DOMAIN z.data # Uids(x)
      <4>1. Becomes(s, id, z) /\ req' = req
        BY <2>10, <3>1, <3>7
      <4>2. /\ \A t \in Svr : DOMAIN sess'[t] = DOMAIN sess[t]
            /\ \A t \in Svr : \A j \in DOMAIN sess'[t] :
                  sess'[t][j] = IF t = s /\ j = id THEN z ELSE sess[t][j]
        BY <1>1, <2>2, <3>2, <4>1, SessAt
      <4>3. Honest(s, id, z)'
        BY <2>2, <3>2, <3>5, <4>1 DEF Honest, Uids, Cur
      <4>4. sess'[s][id] = z
        BY <2>2, <4>2
      <4>5. Fine
        BY <2>7, <4>1, <4>2, <4>3, <4>4
      <4> QED BY <2>6, <4>5
    <3> QED BY <3>6, <3>7
  <2>11. CASE /\ x.state = "save" /\ m.kind = "save" /\ m.result = "diff" /\ MayRedo(x)
              /\ m.uid \in Uids(x) /\ OnQuerySuccess(s, id, Renew(x, m))
    <3>1. DOMAIN x.data = Uids(x) /\ AllFree(s, id)
      BY <2>2, <2>4, <2>11 DEF Placed
    <3>2. /\ Usable(Renew(x, m)) /\ Uids(Renew(x, m)) = Uids(x)
          /\ DOMAIN Renew(x, m).data = Uids(x)
      BY <2>2, <2>11, <3>1, RenewTyped
    <3> QED BY <2>9, <2>11, <3>1, <3>2
  <2>12. CASE /\ x.state = "save" /\ Succeeded(m) /\ x.index < Len(x.plan)
              /\ OnQuerySuccess(s, id, Next1(x))
    <3>1. DOMAIN x.data = Uids(x) /\ AllFree(s, id)
      BY <2>2, <2>4, <2>12 DEF Placed, Succeeded
    <3>2. /\ Usable(Next1(x)) /\ Uids(Next1(x)) = Uids(x) /\ Next1(x).data = x.data
      BY <2>2, <2>12, NextTyped
    <3> QED BY <2>9, <2>12, <3>1, <3>2
  <2> QED BY <2>3, <2>8, <2>10, <2>11, <2>12 DEF Turned
<1> QED BY <1>8, <1>9

(* Faults only become more, so that a behaviour that may be trusted now    *)
(* could always be.                                                        *)
LEMMA FaultsGrow ==
    ASSUME TInv, [Next]_vars, NEW d \in FaultKind
    PROVE  faults[d] \in Nat /\ faults'[d] \in Nat /\ faults[d] <= faults'[d]
<1>1. Counted
  BY DEF TInv
<1>2. ASSUME NEW e \in FaultKind, NEW n \in Nat, Fault(e, n)
      PROVE  faults[d] \in Nat /\ faults'[d] \in Nat /\ faults[d] <= faults'[d]
  BY <1>1, <1>2, FaultMore
<1>3. ASSUME faults' = faults
      PROVE  faults[d] \in Nat /\ faults'[d] \in Nat /\ faults[d] <= faults'[d]
  BY <1>1, <1>3 DEF Counted
<1>4. ASSUME NEW s \in Svr, QueryAllData(s) \/ TimeOut(s) \/ Stop(s) \/ Kill(s)
      PROVE  faults[d] \in Nat /\ faults'[d] \in Nat /\ faults[d] <= faults'[d]
  <2>1. CASE QueryAllData(s) \/ TimeOut(s)
    BY <1>3, <2>1 DEF QueryAllData, TimeOut
  <2>2. CASE Stop(s) \/ Kill(s)
    <3>1. Fault("stop", 1) \/ Fault("kill", 1)
      BY <2>2 DEF Stop, Kill
    <3> QED BY <1>2, <3>1 DEF FaultKind
  <2> QED BY <1>4, <2>1, <2>2
<1>5. ASSUME NEW s \in Svr, NEW u \in Uid, Receive(s, u) \/ Serve(s, u) \/ Lose(s, u)
      PROVE  faults[d] \in Nat /\ faults'[d] \in Nat /\ faults[d] <= faults'[d]
  <2>1. CASE Receive(s, u)
    BY <1>3, <2>1 DEF Receive
  <2>2. CASE Serve(s, u)
    <3>1. PICK n \in Nat : Fault("fail", n)
      BY <2>2, ServeFails
    <3> QED BY <1>2, <3>1 DEF FaultKind
  <2>3. CASE Lose(s, u)
    <3>1. Fault("loss", 1)
      BY <2>3 DEF Lose
    <3> QED BY <1>2, <3>1 DEF FaultKind
  <2> QED BY <1>5, <2>1, <2>2, <2>3
<1>6. CASE DbRestart
  <2>1. Fault("restart", 1)
    BY <1>6 DEF DbRestart
  <2> QED BY <1>2, <2>1 DEF FaultKind
<1>7. CASE VersionExpire \/ UNCHANGED vars
  BY <1>3, <1>7 DEF VersionExpire, vars
<1> QED BY <1>4, <1>5, <1>6, <1>7 DEF Next

LEMMA StepTruth == ASSUME TInv, TruthInv, [Next]_vars PROVE TruthInv'
<1> SUFFICES ASSUME Trusty' PROVE Truthful'
  BY DEF TruthInv
<1>1. TInv' /\ Counted
  BY StepTyped DEF TInv
<1>2. \A d \in FaultKind : faults[d] \in Nat /\ faults'[d] \in Nat /\ faults[d] <= faults'[d]
  BY FaultsGrow
<1>3. {"kill", "stop", "restart", "loss", "fail"} = FaultKind
  BY DEF FaultKind
<1>4. Trusty
  BY <1>2, <1>3 DEF Trusty
<1>5. Truthful
  BY <1>4 DEF TruthInv
<1>6. ASSUME NEW s \in Svr PROVE ~ Stop(s) /\ ~ Kill(s)
  <2>1. ~ Fault("stop", 1) /\ ~ Fault("kill", 1)
    <3>1. Fault("stop", 1) => faults'["stop"] = faults["stop"] + 1
      BY <1>1, <1>3, FaultUp
    <3>2. Fault("kill", 1) => faults'["kill"] = faults["kill"] + 1
      BY <1>1, <1>3, FaultUp
    <3> QED BY <1>2, <1>3, <3>1, <3>2 DEF Trusty
  <2> QED BY <2>1 DEF Stop, Kill
<1>7. ASSUME NEW s \in Svr, NEW u \in Uid, Lose(s, u) PROVE Truthful'
  <2>1. faults'["loss"] = faults["loss"] + 1 /\ faults'["fail"] = faults["fail"]
    <3>1. Fault("loss", 1)
      BY <1>7 DEF Lose
    <3> QED BY <1>1, <1>3, <3>1, FaultUp
  <2>2. faults["fail"] = 0
    BY <1>2, <1>3, <2>1 DEF Trusty
  <2> QED BY <1>5, <1>7, <2>2, LoseTruth
<1>8. ASSUME NEW s \in Svr, QueryAllData(s) \/ TimeOut(s) PROVE Truthful'
  BY <1>1, <1>5, <1>8, QueryAllTruth, QuietTruth
<1>9. ASSUME NEW s \in Svr, NEW u \in Uid, Receive(s, u) \/ Serve(s, u) PROVE Truthful'
  BY <1>1, <1>5, <1>9, ReceiveTruth, ServeTruth
<1>10. CASE DbRestart \/ VersionExpire \/ UNCHANGED vars
  BY <1>5, <1>10, QuietTruth
<1> QED BY <1>6, <1>7, <1>8, <1>9, <1>10 DEF Next

LEMMA InitTruth == ASSUME Init PROVE TruthInv
<1>1. /\ \A s \in Svr, u \in Uid : req[s][u] = << >> /\ rsp[s][u] = << >>
      /\ \A s \in Svr : sess[s] = << >>
      /\ saved = {}
  BY DEF Init
<1>2. Msgs(<< >>) = {} /\ Once(<< >>) /\ FailFirst(<< >>)
  BY DEF Msgs, Once, FailFirst
<1>3. Routes
  BY <1>1, <1>2 DEF Routes, RouteOk
<1>4. \A s \in Svr : DOMAIN sess[s] = {}
  BY <1>1
<1> QED BY <1>1, <1>3, <1>4 DEF TruthInv, Truthful

(* A handler that is told its save succeeded was saved, also when the data *)
(* server was started again and knows no version, and whatever was lost or *)
(* came late: a save of which a call of LevelDB failed is reported as a    *)
(* failure first, and that report only has to arrive.  Killed and stopped  *)
(* logic servers are left out: they use the numbers of their sessions      *)
(* again, and take an old answer for one to a new session.                 *)
THEOREM SaidIsSaved == Spec => [](Trusty => SavedIsApplied)
<1>1. Init => TInv /\ TruthInv
  BY InitTyped, InitTruth
<1>2. TInv /\ TruthInv /\ [Next]_vars => (TInv /\ TruthInv)'
  BY StepTyped, StepTruth
<1>3. TInv /\ TruthInv => (Trusty => SavedIsApplied)
  BY DEF TruthInv, Truthful, SavedIsApplied
<1> QED BY <1>1, <1>2, <1>3, PTL DEF Spec
=============================================================================
