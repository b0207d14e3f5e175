-------------------------- MODULE DbSessionProofs ---------------------------
(***************************************************************************)
(* Sessions and data server for any number of logic servers, users, kinds  *)
(* of record and handler executions, any plans of what they query and any  *)
(* redo limit.                                                             *)
(***************************************************************************)
EXTENDS DbSession, SequenceTheorems, FiniteSetTheorems, WellFoundedInduction, TLAPS

(* Functions on some of S.                                                 *)
PFun(S, T) == UNION {[D -> T] : D \in SUBSET S}
Msgs(q) == {q[i] : i \in DOMAIN q}

Rec == [ver : Nat, val : Seq(Op)]
Datas == PFun(Key, Rec)
Plans == UNION {m.plans : m \in Mixes}
Session == [op : Nat, state : {"query", "save"}, plan : Plans, index : Nat,
            data : PFun(Uid, Datas), redo : Nat]
Query == [id : Nat, kind : {"query"}, keys : SUBSET Key]
Save == [id : Nat, kind : {"save"}, datas : Datas]
Response == [id : Nat, kind : {"query", "save"}, result : {"success", "diff", "failed"},
             uid : Uid \cup {0}, datas : Datas]

Counted == /\ nop \in Nat /\ mix \in Mixes /\ nop <= mix.op
           /\ faults \in [FaultKind -> Nat]
StoreTyped == db \in [Uid -> [Key -> Rec]] /\ vmap \in [Uid -> PFun(Key, Cached)]
PathTyped == /\ req \in [Svr -> [Uid -> Seq(Query \cup Save)]]
             /\ rsp \in [Svr -> [Uid -> Seq(Response)]]
(* A save has a change by one of the handlers, in every record.            *)
SaveTyped == \A s \in Svr, u \in Uid : \A m \in Msgs(req[s][u]) : m.kind = "save" =>
                \A k \in DOMAIN m.datas : Last(m.datas[k].val) \in 1 .. nop
(* What a handler needs to go on.                                          *)
Usable(x) == /\ x \in Session /\ x.op \in 1 .. nop /\ x.plan \in mix.plans
             /\ x.index \in DOMAIN x.plan /\ x.redo < MaxRedo
Placed(x) == /\ x.state = "query" => x.index = 1 /\ DOMAIN x.data # Uids(x)
             /\ x.state = "save" => DOMAIN x.data = Uids(x)
SessTyped == /\ sess \in [Svr -> PFun(Nat, Session)]
             /\ curId \in [Svr -> 0 .. nop]
             /\ \A s \in Svr : \A id \in DOMAIN sess[s] :
                   id \in 1 .. nop /\ Usable(sess[s][id]) /\ Placed(sess[s][id])
EndsTyped == UNION {applied, saved, refused} \subseteq (1 .. nop) \X Uid

TInv == Counted /\ StoreTyped /\ PathTyped /\ SaveTyped /\ SessTyped /\ EndsTyped

-----------------------------------------------------------------------------
(* Tables and queues.                                                      *)

LEMMA PFunOut ==
    ASSUME NEW S, NEW T, NEW f \in PFun(S, T)
    PROVE  f \in [DOMAIN f -> T] /\ DOMAIN f \in SUBSET S
  BY DEF PFun

LEMMA PFunIn ==
    ASSUME NEW S, NEW T, NEW D \in SUBSET S, NEW f \in [D -> T]
    PROVE  f \in PFun(S, T)
  BY DEF PFun

LEMMA EmptyTable == ASSUME NEW S, NEW T PROVE << >> \in PFun(S, T) /\ DOMAIN << >> = {}
<1>1. DOMAIN << >> = {}
  OBVIOUS
<1>2. << >> \in [{} -> T]
  OBVIOUS
<1> QED BY <1>1, <1>2 DEF PFun

LEMMA WithoutIs ==
    ASSUME NEW f, NEW i
    PROVE  /\ \A j : j \in DOMAIN Without(f, i) <=> j \in DOMAIN f /\ j # i
           /\ \A j \in DOMAIN f : j # i => Without(f, i)[j] = f[j]
  BY DEF Without

LEMMA WithIs ==
    ASSUME NEW f, NEW i, NEW x
    PROVE  /\ \A j : j \in DOMAIN With(f, i, x) <=> j \in DOMAIN f \/ j = i
           /\ With(f, i, x)[i] = x
           /\ \A j \in DOMAIN f : j # i => With(f, i, x)[j] = f[j]
  BY DEF With

LEMMA TableOps ==
    ASSUME NEW S, NEW T, NEW f \in PFun(S, T), NEW i
    PROVE  /\ Without(f, i) \in PFun(S, T)
           /\ \A x \in T : i \in S => With(f, i, x) \in PFun(S, T)
<1>1. f \in [DOMAIN f -> T] /\ DOMAIN f \in SUBSET S
  BY PFunOut
<1>2. Without(f, i) \in [DOMAIN f \ {i} -> T]
  BY <1>1 DEF Without
<1>3. ASSUME NEW x \in T, i \in S PROVE With(f, i, x) \in PFun(S, T)
  <2>1. With(f, i, x) \in [DOMAIN f \cup {i} -> T]
    BY <1>1 DEF With
  <2>2. DOMAIN f \cup {i} \in SUBSET S
    BY <1>1, <1>3
  <2> QED BY <2>1, <2>2, PFunIn
<1>4. DOMAIN f \ {i} \in SUBSET S
  BY <1>1
<1> QED BY <1>2, <1>3, <1>4, PFunIn

LEMMA TailIs ==
    ASSUME NEW S, NEW q \in Seq(S), q # << >>
    PROVE  /\ Head(q) \in S /\ Tail(q) \in Seq(S)
           /\ \A n : n \in Msgs(q) <=> n = Head(q) \/ n \in Msgs(Tail(q))
<1>1. /\ Len(q) \in Nat /\ Len(q) > 0 /\ DOMAIN q = 1 .. Len(q)
      /\ Head(q) = q[1] /\ Head(q) \in S /\ Tail(q) \in Seq(S)
      /\ DOMAIN Tail(q) = 1 .. Len(q) - 1
      /\ \A i \in 1 .. Len(q) - 1 : Tail(q)[i] = q[i + 1]
  BY HeadTailProperties, LenProperties, EmptySeq
<1>2. ASSUME NEW i \in DOMAIN q PROVE q[i] = Head(q) \/ q[i] \in Msgs(Tail(q))
  <2>1. CASE i = 1
    BY <1>1, <2>1
  <2>2. CASE i # 1
    <3>1. i - 1 \in DOMAIN Tail(q) /\ Tail(q)[i - 1] = q[i]
      BY <1>1, <2>2
    <3> QED BY <3>1 DEF Msgs
  <2> QED BY <2>1, <2>2
<1>3. ASSUME NEW i \in DOMAIN Tail(q) PROVE Tail(q)[i] \in Msgs(q)
  <2>1. i + 1 \in DOMAIN q /\ Tail(q)[i] = q[i + 1]
    BY <1>1
  <2> QED BY <2>1 DEF Msgs
<1>4. Head(q) \in Msgs(q)
  BY <1>1 DEF Msgs
<1> QED BY <1>1, <1>2, <1>3, <1>4 DEF Msgs

LEMMA AppendIs ==
    ASSUME NEW S, NEW q \in Seq(S), NEW m \in S
    PROVE  /\ Append(q, m) \in Seq(S)
           /\ \A n : n \in Msgs(Append(q, m)) <=> n \in Msgs(q) \/ n = m
<1>1. /\ Len(q) \in Nat /\ DOMAIN q = 1 .. Len(q) /\ Append(q, m) \in Seq(S)
      /\ DOMAIN Append(q, m) = 1 .. Len(q) + 1 /\ Append(q, m)[Len(q) + 1] = m
      /\ \A i \in 1 .. Len(q) : Append(q, m)[i] = q[i]
  BY AppendProperties, LenProperties
<1>2. \A i \in 1 .. Len(q) + 1 : i \in 1 .. Len(q) \/ i = Len(q) + 1
  BY <1>1
<1>3. 1 .. Len(q) \subseteq 1 .. Len(q) + 1 /\ Len(q) + 1 \in 1 .. Len(q) + 1
  BY <1>1
<1> QED BY <1>1, <1>2, <1>3 DEF Msgs

LEMMA LastAppended ==
    ASSUME NEW S, NEW q \in Seq(S), NEW m \in S PROVE Last(Append(q, m)) = m
  BY AppendProperties DEF Last

(* The largest of numbers that have a bound.                               *)
LEMMA MaxIn ==
    ASSUME NEW n \in Nat, NEW T \in SUBSET (0 .. n), T # {} PROVE Max(T) \in T
<1>1. \E x \in T : \A y \in T : x >= y
  <2> DEFINE U == {n - x : x \in T}
             R == OpToRel(<, Nat)
  <2>1. U \subseteq Nat /\ U # {}
    <3>1. \A x \in T : n - x \in Nat
      OBVIOUS
    <3>2. PICK x \in T : TRUE
      OBVIOUS
    <3>3. n - x \in U
      OBVIOUS
    <3> QED BY <3>1, <3>3
  <2>2. PICK z \in U : \A y \in U : ~ (<<y, z>> \in R)
    <3> HIDE DEF U, R
    <3>1. IsWellFoundedOn(R, Nat)
      BY NatLessThanWellFounded DEF R
    <3> QED BY <2>1, <3>1, WFMin
  <2>3. \A y \in U : ~ (y < z)
    BY <2>1, <2>2 DEF OpToRel
  <2>4. PICK x \in T : z = n - x
    OBVIOUS
  <2>5. \A y \in T : n - y \in U
    OBVIOUS
  <2>6. ASSUME NEW y \in T PROVE x >= y
    <3>1. ~ (n - y < n - x)
      BY <2>3, <2>4, <2>5
    <3> QED BY <3>1
  <2> QED BY <2>6
<1> QED BY <1>1 DEF Max

-----------------------------------------------------------------------------
(* Types.                                                                  *)

LEMMA PlanIs ==
    ASSUME NEW plan \in Plans
    PROVE  /\ plan \in Seq([uid : Uid, keys : SUBSET Key]) /\ 1 \in DOMAIN plan
           /\ DOMAIN plan = 1 .. Len(plan) /\ Len(plan) \in Nat
           /\ \A i \in DOMAIN plan : plan[i].uid \in Uid /\ plan[i].keys \in SUBSET Key
           /\ \A i, j \in DOMAIN plan : plan[i].uid = plan[j].uid => i = j
<1>1. /\ plan \in Seq([uid : Uid, keys : SUBSET Key]) /\ plan # << >>
      /\ \A i, j \in DOMAIN plan : plan[i].uid = plan[j].uid => i = j
  BY PlanAssumption DEF Plans
<1>2. DOMAIN plan = 1 .. Len(plan) /\ Len(plan) \in Nat /\ 1 \in DOMAIN plan
  BY <1>1, LenProperties, EmptySeq
<1>3. \A i \in DOMAIN plan : plan[i] \in [uid : Uid, keys : SUBSET Key]
  BY <1>1, <1>2, ElementOfSeq
<1> QED BY <1>1, <1>2, <1>3

LEMMA UsableIs ==
    ASSUME NEW x, Usable(x)
    PROVE  /\ x.plan \in Plans /\ x.op \in Nat /\ x.redo \in Nat /\ x.data \in PFun(Uid, Datas)
           /\ x.plan[x.index].uid \in Uids(x) /\ x.plan[x.index].uid \in Uid
           /\ x.plan[x.index].keys \in SUBSET Key
<1>1. x \in Session /\ x.index \in DOMAIN x.plan
  BY DEF Usable
<1>2. x.plan \in Plans
  BY <1>1 DEF Session
<1> QED BY <1>1, <1>2, PlanIs DEF Session, Uids

LEMMA OpIs == ASSUME Counted, NEW op \in 1 .. nop PROVE op \in Op
<1>1. mix.op \in Nat /\ op \in 1 .. mix.op
  BY MixAssumption DEF Counted
<1> QED BY <1>1 DEF Counted, Op

(* Session x of a handler goes on as z and has sent m.                     *)
Cur(x) == x.plan[x.index].uid
Base(x, k) == IF k \in DOMAIN x.data[Cur(x)] THEN x.data[Cur(x)][k] ELSE NotStored
GoesOn(x, z, m) ==
    /\ z.op = x.op /\ z.plan = x.plan /\ z.index = x.index /\ z.redo = x.redo
    /\ z.state = "save" /\ DOMAIN z.data = DOMAIN x.data
    /\ \A v \in DOMAIN x.data \ {Cur(x)} : z.data[v] = x.data[v]
    /\ m.kind = "save" /\ DOMAIN m.datas # {}
    /\ DOMAIN m.datas \subseteq x.plan[x.index].keys
    /\ x.redo # 0 => DOMAIN m.datas \subseteq DOMAIN x.data[Cur(x)]
    /\ \A k \in DOMAIN m.datas :
          m.datas[k] = [ver |-> Base(x, k).ver + 1, val |-> Append(Base(x, k).val, x.op)]

Becomes(s, id, z) == sess' = [sess EXCEPT ![s][id] = z]
Opens(s, id, x) == sess' = [sess EXCEPT ![s] = With(sess[s], id, x)]
Sends(s, u, m) == req' = [req EXCEPT ![s][u] = Append(@, m)]

(* What OnQuerySuccess does to the session and sends.                      *)
LEMMA SuccessIs ==
    ASSUME Counted, NEW s, NEW id \in Nat, NEW x, Usable(x), DOMAIN x.data = Uids(x),
           OnQuerySuccess(s, id, x)
    PROVE  \/ Release(s, id)
           \/ \E z \in Session, m \in Save :
                 /\ m.id = id /\ GoesOn(x, z, m)
                 /\ Becomes(s, id, z) /\ Sends(s, Cur(x), m)
<1> DEFINE u == x.plan[x.index].uid
           keys == x.plan[x.index].keys
           copy(k) == IF k \in DOMAIN x.data[u] THEN x.data[u][k] ELSE NotStored
           new(k) == [ver |-> copy(k).ver + 1, val |-> Append(copy(k).val, x.op)]
           may == IF x.redo = 0 THEN keys ELSE keys \cap DOMAIN x.data[u]
<1>1. /\ u \in Uids(x) /\ u \in Uid /\ keys \in SUBSET Key /\ x \in Session
      /\ x.op \in Op /\ x.data \in PFun(Uid, Datas)
  BY UsableIs, OpIs DEF Usable
<1>2. x.data \in [DOMAIN x.data -> Datas] /\ DOMAIN x.data \in SUBSET Uid
  BY <1>1, PFunOut
<1>3. x.data[u] \in [DOMAIN x.data[u] -> Rec] /\ DOMAIN x.data[u] \in SUBSET Key
  BY <1>1, <1>2, PFunOut DEF Datas
<1>4. NotStored \in Rec
  BY EmptySeq DEF NotStored, Rec
<1>5. \A k : copy(k) \in Rec
  BY <1>3, <1>4
<1>6. \A k : new(k) \in Rec
  <2>1. \A c \in Rec : c.ver + 1 \in Nat /\ Append(c.val, x.op) \in Seq(Op)
    BY <1>1, AppendProperties DEF Rec
  <2> HIDE DEF copy
  <2>2. \A k : copy(k).ver + 1 \in Nat /\ Append(copy(k).val, x.op) \in Seq(Op)
    BY <1>5, <2>1
  <2> QED BY <2>2 DEF Rec
<1>7. \/ Release(s, id)
      \/ \E W \in (SUBSET may) \ {{}} :
           /\ req' = [req EXCEPT ![s][u] =
                         Append(@, [id |-> id, kind |-> "save", datas |-> [k \in W |-> new(k)]])]
           /\ sess' = [sess EXCEPT ![s][id] =
                         [x EXCEPT !.state = "save",
                                   !.data[u] = [k \in DOMAIN @ \cup W |->
                                                  IF k \in W THEN new(k) ELSE @[k]]]]
  BY DEF OnQuerySuccess, NewVersion
<1> HIDE DEF new, may, copy, u
<1>8. ASSUME NEW W \in (SUBSET may) \ {{}},
             req' = [req EXCEPT ![s][u] =
                       Append(@, [id |-> id, kind |-> "save", datas |-> [k \in W |-> new(k)]])],
             sess' = [sess EXCEPT ![s][id] =
                        [x EXCEPT !.state = "save",
                                  !.data[u] = [k \in DOMAIN @ \cup W |->
                                                 IF k \in W THEN new(k) ELSE @[k]]]]
      PROVE  \E z \in Session, m \in Save :
                 /\ m.id = id /\ GoesOn(x, z, m)
                 /\ sess' = [sess EXCEPT ![s][id] = z]
                 /\ req' = [req EXCEPT ![s][u] = Append(@, m)]
  <2> DEFINE d == [k \in W |-> new(k)]
             m == [id |-> id, kind |-> "save", datas |-> d]
             e == [k \in DOMAIN x.data[u] \cup W |-> IF k \in W THEN new(k) ELSE x.data[u][k]]
             y == [x.data EXCEPT ![u] = e]
             z == [x EXCEPT !.state = "save", !.data = y]
  <2>1. W \subseteq keys /\ W # {} /\ (x.redo # 0 => W \subseteq DOMAIN x.data[u])
    BY DEF may
  <2>2. d \in [W -> Rec] /\ W \in SUBSET Key
    BY <1>1, <1>6, <2>1
  <2>3. d \in Datas /\ DOMAIN d = W /\ \A k \in W : d[k] = new(k)
    BY <2>2, PFunIn DEF Datas
  <2>4. e \in [DOMAIN x.data[u] \cup W -> Rec] /\ DOMAIN x.data[u] \cup W \in SUBSET Key
    BY <1>3, <1>6, <2>2
  <2>5. e \in Datas
    BY <2>4, PFunIn DEF Datas
  <2>6. /\ z = [x EXCEPT !.state = "save",
                         !.data[u] = [k \in DOMAIN @ \cup W |-> IF k \in W THEN new(k) ELSE @[k]]]
    BY <1>1, <1>2 DEF Session
  <2> HIDE DEF d, e
  <2>7. m \in Save /\ m.id = id /\ m.kind = "save" /\ m.datas = d
    BY <2>3 DEF Save
  <2>8. y \in [DOMAIN x.data -> Datas] /\ \A v \in DOMAIN x.data \ {u} : y[v] = x.data[v]
    BY <1>2, <2>5
  <2>9. y \in PFun(Uid, Datas) /\ DOMAIN y = DOMAIN x.data
    BY <1>2, <2>8, PFunIn
  <2> HIDE DEF y
  <2>10. /\ z \in Session /\ z.op = x.op /\ z.plan = x.plan /\ z.index = x.index
         /\ z.redo = x.redo /\ z.state = "save" /\ z.data = y
    BY <1>1, <2>9 DEF Session
  <2>11. sess' = [sess EXCEPT ![s][id] = z]
    BY <1>8, <2>6
  <2>12. req' = [req EXCEPT ![s][u] = Append(@, m)]
    BY <1>8 DEF d
  <2> HIDE DEF m, z
  <2>13. \A k \in W : new(k) = [ver |-> Base(x, k).ver + 1, val |-> Append(Base(x, k).val, x.op)]
    BY DEF new, copy, Base, Cur, u
  <2>14. GoesOn(x, z, m)
    BY <2>1, <2>3, <2>7, <2>8, <2>9, <2>10, <2>13 DEF GoesOn, Cur, u
  <2> QED BY <2>7, <2>10, <2>11, <2>12, <2>14
<1> QED BY <1>7, <1>8 DEF Cur, u, Becomes, Sends

(* A session that ends, one that goes on, and a message that is sent.      *)
LEMMA SessGone ==
    ASSUME sess \in [Svr -> PFun(Nat, Session)], NEW s \in Svr, NEW id, Release(s, id)
    PROVE  /\ sess' \in [Svr -> PFun(Nat, Session)] /\ req' = req
           /\ \A t \in Svr : \A j :
                 j \in DOMAIN sess'[t] <=> j \in DOMAIN sess[t] /\ ~ (t = s /\ j = id)
           /\ \A t \in Svr : \A j \in DOMAIN sess'[t] : sess'[t][j] = sess[t][j]
<1>1. sess' = [sess EXCEPT ![s] = Without(sess[s], id)] /\ req' = req
  BY DEF Release
<1>2. sess[s] \in PFun(Nat, Session)
  OBVIOUS
<1>3. Without(sess[s], id) \in PFun(Nat, Session)
  BY <1>2, TableOps
<1>4. /\ \A j : j \in DOMAIN Without(sess[s], id) <=> j \in DOMAIN sess[s] /\ j # id
      /\ \A j \in DOMAIN sess[s] : j # id => Without(sess[s], id)[j] = sess[s][j]
  BY WithoutIs
<1>5. \A t \in Svr : sess'[t] = IF t = s THEN Without(sess[s], id) ELSE sess[t]
  BY <1>1
<1> QED BY <1>1, <1>3, <1>4, <1>5

LEMMA SessAt ==
    ASSUME sess \in [Svr -> PFun(Nat, Session)], NEW s \in Svr, NEW id \in DOMAIN sess[s],
           NEW z \in Session, Becomes(s, id, z)
    PROVE  /\ sess' \in [Svr -> PFun(Nat, Session)]
           /\ \A t \in Svr : DOMAIN sess'[t] = DOMAIN sess[t]
           /\ \A t \in Svr : \A j \in DOMAIN sess'[t] :
                 sess'[t][j] = IF t = s /\ j = id THEN z ELSE sess[t][j]
<1> DEFINE f == [sess[s] EXCEPT ![id] = z]
<1>1. sess[s] \in [DOMAIN sess[s] -> Session] /\ DOMAIN sess[s] \in SUBSET Nat
  BY PFunOut
<1>2. /\ f \in [DOMAIN sess[s] -> Session] /\ DOMAIN f = DOMAIN sess[s]
      /\ \A j \in DOMAIN sess[s] : f[j] = IF j = id THEN z ELSE sess[s][j]
  BY <1>1
<1>3. f \in PFun(Nat, Session)
  BY <1>1, <1>2, PFunIn
<1>4. sess' = [sess EXCEPT ![s] = f]
  BY DEF Becomes
<1> HIDE DEF f
<1>5. \A t \in Svr : sess'[t] = IF t = s THEN f ELSE sess[t]
  BY <1>4
<1> QED BY <1>2, <1>3, <1>4, <1>5

LEMMA MessageSent ==
    ASSUME NEW q \in Seq(Query \cup Save), NEW m \in Query \cup Save
    PROVE  /\ Append(q, m) \in Seq(Query \cup Save)
           /\ \A n : n \in Msgs(Append(q, m)) <=> n \in Msgs(q) \/ n = m
<1> DEFINE B == Query \cup Save
<1>1. q \in Seq(B) /\ m \in B
  OBVIOUS
<1> HIDE DEF B
<1>2. /\ Append(q, m) \in Seq(B)
      /\ \A n : n \in Msgs(Append(q, m)) <=> n \in Msgs(q) \/ n = m
  BY <1>1, AppendIs
<1> QED BY <1>2 DEF B

LEMMA SentAt ==
    ASSUME PathTyped, NEW s \in Svr, NEW u \in Uid, NEW m \in Query \cup Save,
           Sends(s, u, m)
    PROVE  /\ req' \in [Svr -> [Uid -> Seq(Query \cup Save)]]
           /\ \A t \in Svr, v \in Uid :
                 req'[t][v] = IF t = s /\ v = u THEN Append(req[t][v], m) ELSE req[t][v]
<1>1. req \in [Svr -> [Uid -> Seq(Query \cup Save)]] /\ req[s][u] \in Seq(Query \cup Save)
  BY DEF PathTyped
<1> DEFINE T == Seq(Query \cup Save)
           q == Append(req[s][u], m)
<1>2. q \in T
  BY <1>1, MessageSent
<1>3. req' = [req EXCEPT ![s][u] = q] /\ req \in [Svr -> [Uid -> T]]
  BY <1>1 DEF Sends
<1> DEFINE f == [req[s] EXCEPT ![u] = q]
<1> HIDE DEF q, T
<1>4. f \in [Uid -> T] /\ f[u] = q /\ \A v \in Uid \ {u} : f[v] = req[s][v]
  BY <1>2, <1>3
<1>5. req' = [req EXCEPT ![s] = f]
  BY <1>3
<1> HIDE DEF f
<1>6. req' \in [Svr -> [Uid -> T]] /\ \A t \in Svr : req'[t] = IF t = s THEN f ELSE req[t]
  BY <1>3, <1>4, <1>5
<1>7. \A t \in Svr, v \in Uid : req'[t][v] = IF t = s /\ v = u THEN q ELSE req[t][v]
  BY <1>4, <1>6
<1> QED BY <1>6, <1>7 DEF T, q

LEMMA UsableSame ==
    ASSUME NEW x, NEW z \in Session, Usable(x), z.op = x.op, z.plan = x.plan, z.index = x.index,
           z.redo = x.redo
    PROVE  Usable(z)
  BY DEF Usable

LEMMA ReleaseTyped ==
    ASSUME SessTyped, NEW s \in Svr, NEW id, Release(s, id), UNCHANGED <<curId, nop, mix>>
    PROVE  SessTyped'
<1>1. /\ sess' \in [Svr -> PFun(Nat, Session)]
      /\ \A t \in Svr : \A j \in DOMAIN sess'[t] : j \in DOMAIN sess[t] /\ sess'[t][j] = sess[t][j]
  BY SessGone DEF SessTyped
<1>2. ASSUME NEW t \in Svr, NEW j \in DOMAIN sess'[t]
      PROVE  j \in 1 .. nop /\ Usable(sess[t][j])' /\ Placed(sess[t][j])'
  <2>1. PICK x : x = sess'[t][j]
    OBVIOUS
  <2>2. j \in 1 .. nop /\ Usable(x) /\ Placed(x)
    BY <1>1, <2>1 DEF SessTyped
  <2> QED BY <2>1, <2>2 DEF Usable, Placed, Uids
<1> QED BY <1>1, <1>2 DEF SessTyped

LEMMA GoesOnTyped ==
    ASSUME SessTyped, NEW s \in Svr, NEW id \in DOMAIN sess[s], NEW z \in Session,
           Becomes(s, id, z), Usable(z), Placed(z), UNCHANGED <<curId, nop, mix>>
    PROVE  SessTyped'
<1>1. /\ sess' \in [Svr -> PFun(Nat, Session)]
      /\ \A t \in Svr : DOMAIN sess'[t] = DOMAIN sess[t]
      /\ \A t \in Svr : \A j \in DOMAIN sess'[t] :
            sess'[t][j] = IF t = s /\ j = id THEN z ELSE sess[t][j]
  BY SessAt DEF SessTyped
<1>2. ASSUME NEW t \in Svr, NEW j \in DOMAIN sess'[t]
      PROVE  j \in 1 .. nop /\ Usable(sess[t][j])' /\ Placed(sess[t][j])'
  <2>1. PICK x : x = sess'[t][j]
    OBVIOUS
  <2>2. j \in 1 .. nop /\ Usable(x) /\ Placed(x)
    BY <1>1, <2>1 DEF SessTyped
  <2> QED BY <2>1, <2>2 DEF Usable, Placed, Uids
<1> QED BY <1>1, <1>2 DEF SessTyped

LEMMA SaveTypedSame ==
    ASSUME SaveTyped, UNCHANGED <<req, nop>> PROVE SaveTyped'
  BY DEF SaveTyped, Msgs

LEMMA SuccessTyped ==
    ASSUME TInv, NEW s \in Svr, NEW id \in DOMAIN sess[s], NEW x, Usable(x),
           DOMAIN x.data = Uids(x), OnQuerySuccess(s, id, x), UNCHANGED <<curId, nop, mix>>
    PROVE  /\ SessTyped' /\ req' \in [Svr -> [Uid -> Seq(Query \cup Save)]] /\ SaveTyped'
<1>1. Counted /\ SessTyped /\ SaveTyped /\ PathTyped /\ id \in Nat
  BY DEF TInv, SessTyped, Counted
<1>2. Cur(x) \in Uid /\ Cur(x) \in Uids(x) /\ x.op \in 1 .. nop
  BY UsableIs DEF Usable, Cur
<1>3. CASE Release(s, id)
  <2>1. req' = req
    BY <1>3 DEF Release
  <2> QED BY <1>1, <1>3, <2>1, ReleaseTyped, SaveTypedSame DEF PathTyped
<1>4. CASE ~ Release(s, id)
  <2>1. PICK z \in Session, m \in Save :
           /\ GoesOn(x, z, m)
           /\ Becomes(s, id, z) /\ Sends(s, Cur(x), m)
    BY <1>1, <1>4, SuccessIs
  <2>2. Usable(z) /\ Placed(z)
    BY <2>1, UsableSame DEF Placed, Uids, GoesOn
  <2>3. SessTyped'
    BY <1>1, <2>1, <2>2, GoesOnTyped
  <2>4. /\ req' \in [Svr -> [Uid -> Seq(Query \cup Save)]]
        /\ \A t \in Svr, v \in Uid : Msgs(req'[t][v]) \subseteq Msgs(req[t][v]) \cup {m}
    <3>0. PICK u \in Uid : u = Cur(x)
      BY <1>2
    <3>1. m \in Query \cup Save /\ PathTyped /\ Sends(s, u, m)
      BY <1>1, <2>1, <3>0
    <3>2. /\ req' \in [Svr -> [Uid -> Seq(Query \cup Save)]]
          /\ \A t \in Svr, v \in Uid :
                req'[t][v] = IF t = s /\ v = u THEN Append(req[t][v], m) ELSE req[t][v]
      BY <3>1, SentAt
    <3>3. ASSUME NEW t \in Svr, NEW v \in Uid
          PROVE  Msgs(req'[t][v]) \subseteq Msgs(req[t][v]) \cup {m}
      <4>1. PICK q \in Seq(Query \cup Save) : q = req[t][v]
        BY <3>1 DEF PathTyped
      <4>2. \A n : n \in Msgs(Append(q, m)) <=> n \in Msgs(q) \/ n = m
        BY <3>1, MessageSent
      <4>3. req'[t][v] = Append(q, m) \/ req'[t][v] = q
        BY <3>2, <4>1
      <4> QED BY <4>1, <4>2, <4>3
    <3> QED BY <3>2, <3>3
  <2>5. ASSUME NEW k \in DOMAIN m.datas PROVE Last(m.datas[k].val) \in 1 .. nop
    <3>1. Base(x, k).val \in Seq(Op)
      <4>1. x.data \in [DOMAIN x.data -> Datas]
        BY UsableIs, PFunOut
      <4>2. x.data[Cur(x)] \in [DOMAIN x.data[Cur(x)] -> Rec]
        BY <1>2, <4>1, PFunOut DEF Datas
      <4> QED BY <4>2, EmptySeq DEF NotStored, Rec, Base
    <3>2. m.datas[k].val = Append(Base(x, k).val, x.op)
      <4>1. m.datas[k] = [ver |-> Base(x, k).ver + 1, val |-> Append(Base(x, k).val, x.op)]
        BY <2>1 DEF GoesOn
      <4> QED BY <4>1
    <3>3. x.op \in Op
      BY <1>1, <1>2, OpIs
    <3> QED BY <1>2, <3>1, <3>2, <3>3, LastAppended
  <2>6. SaveTyped'
    <3> SUFFICES ASSUME NEW t \in Svr, NEW v \in Uid, NEW n \in Msgs(req'[t][v]),
                        n.kind = "save", NEW k \in DOMAIN n.datas
                 PROVE  Last(n.datas[k].val) \in 1 .. nop
      BY <1>1 DEF SaveTyped, Msgs
    <3> QED BY <1>1, <2>4, <2>5 DEF SaveTyped
  <2> QED BY <2>3, <2>4, <2>6
<1> QED BY <1>3, <1>4

-----------------------------------------------------------------------------
(* Every step keeps the types.                                             *)

LEMMA PutAt ==
    ASSUME NEW A, NEW B, NEW T, NEW r \in [A -> [B -> T]], NEW a \in A, NEW b \in B, NEW q \in T
    PROVE  /\ [r EXCEPT ![a][b] = q] \in [A -> [B -> T]]
           /\ \A c \in A, d \in B :
                 [r EXCEPT ![a][b] = q][c][d] = IF c = a /\ d = b THEN q ELSE r[c][d]
<1> DEFINE f == [r[a] EXCEPT ![b] = q]
<1>1. f \in [B -> T] /\ f[b] = q /\ \A d \in B \ {b} : f[d] = r[a][d]
  OBVIOUS
<1>2. [r EXCEPT ![a][b] = q] = [r EXCEPT ![a] = f]
  OBVIOUS
<1> HIDE DEF f
<1>3. /\ [r EXCEPT ![a] = f] \in [A -> [B -> T]]
      /\ \A c \in A : [r EXCEPT ![a] = f][c] = IF c = a THEN f ELSE r[c]
  BY <1>1
<1>4. \A c \in A, d \in B :
         [r EXCEPT ![a] = f][c][d] = IF c = a /\ d = b THEN q ELSE r[c][d]
  BY <1>1, <1>3
<1> QED BY <1>2, <1>3, <1>4

Requests == Query \cup Save
ReqTyped == req \in [Svr -> [Uid -> Seq(Requests)]]
RspTyped == rsp \in [Svr -> [Uid -> Seq(Response)]]
Taken(s, u) == req[s][u] # << >> /\ req' = [req EXCEPT ![s][u] = Tail(@)]
Read(s, u) == rsp[s][u] # << >> /\ rsp' = [rsp EXCEPT ![s][u] = Tail(@)]
Answered(s, u, a) == rsp' = [rsp EXCEPT ![s][u] = @ \o a]

LEMMA TakenIs ==
    ASSUME ReqTyped, NEW s \in Svr, NEW u \in Uid, Taken(s, u)
    PROVE  /\ Head(req[s][u]) \in Requests /\ ReqTyped'
           /\ \A t \in Svr, v \in Uid :
                 req'[t][v] = IF t = s /\ v = u THEN Tail(req[t][v]) ELSE req[t][v]
<1> DEFINE T == Seq(Requests)
<1>1. PICK q \in T : q = req[s][u]
  BY DEF ReqTyped
<1>2. Head(q) \in Requests /\ Tail(q) \in T
  BY <1>1, TailIs DEF Taken
<1>3. PICK p \in T : p = Tail(q)
  BY <1>2
<1>4. req' = [req EXCEPT ![s][u] = p] /\ req \in [Svr -> [Uid -> T]]
  BY <1>1, <1>3 DEF Taken, ReqTyped
<1> HIDE DEF T
<1>5. /\ req' \in [Svr -> [Uid -> T]]
      /\ \A t \in Svr, v \in Uid : req'[t][v] = IF t = s /\ v = u THEN p ELSE req[t][v]
  BY <1>4, PutAt
<1> QED BY <1>1, <1>2, <1>3, <1>5 DEF ReqTyped, T

LEMMA ReadIs ==
    ASSUME RspTyped, NEW s \in Svr, NEW u \in Uid, Read(s, u)
    PROVE  /\ Head(rsp[s][u]) \in Response /\ RspTyped'
           /\ \A t \in Svr, v \in Uid :
                 rsp'[t][v] = IF t = s /\ v = u THEN Tail(rsp[t][v]) ELSE rsp[t][v]
<1> DEFINE T == Seq(Response)
<1>1. PICK q \in T : q = rsp[s][u]
  BY DEF RspTyped
<1>2. Head(q) \in Response /\ Tail(q) \in T
  BY <1>1, TailIs DEF Read
<1>3. PICK p \in T : p = Tail(q)
  BY <1>2
<1>4. rsp' = [rsp EXCEPT ![s][u] = p] /\ rsp \in [Svr -> [Uid -> T]]
  BY <1>1, <1>3 DEF Read, RspTyped
<1> HIDE DEF T
<1>5. /\ rsp' \in [Svr -> [Uid -> T]]
      /\ \A t \in Svr, v \in Uid : rsp'[t][v] = IF t = s /\ v = u THEN p ELSE rsp[t][v]
  BY <1>4, PutAt
<1> QED BY <1>1, <1>2, <1>3, <1>5 DEF RspTyped, T

LEMMA AnsweredIs ==
    ASSUME RspTyped, NEW s \in Svr, NEW u \in Uid, NEW a \in Seq(Response), Answered(s, u, a)
    PROVE  /\ RspTyped'
           /\ \A t \in Svr, v \in Uid :
                 rsp'[t][v] = IF t = s /\ v = u THEN rsp[t][v] \o a ELSE rsp[t][v]
<1> DEFINE T == Seq(Response)
<1>1. PICK q \in T : q = rsp[s][u]
  BY DEF RspTyped
<1>2. PICK p \in T : p = q \o a
  BY <1>1, ConcatProperties
<1>3. rsp' = [rsp EXCEPT ![s][u] = p] /\ rsp \in [Svr -> [Uid -> T]]
  BY <1>1, <1>2 DEF Answered, RspTyped
<1> HIDE DEF T
<1>4. /\ rsp' \in [Svr -> [Uid -> T]]
      /\ \A t \in Svr, v \in Uid : rsp'[t][v] = IF t = s /\ v = u THEN p ELSE rsp[t][v]
  BY <1>3, PutAt
<1> QED BY <1>1, <1>2, <1>4 DEF RspTyped, T

LEMMA PathSplit == PathTyped <=> ReqTyped /\ RspTyped
  BY DEF PathTyped, ReqTyped, RspTyped, Requests

(* What is taken from a queue leaves the others' and the rest of it.       *)
LEMMA TakenTyped ==
    ASSUME ReqTyped, SaveTyped, NEW s \in Svr, NEW u \in Uid, Taken(s, u), nop' = nop
    PROVE  SaveTyped'
<1>1. ASSUME NEW t \in Svr, NEW v \in Uid PROVE Msgs(req'[t][v]) \subseteq Msgs(req[t][v])
  <2>1. PICK q \in Seq(Requests) : q = req[t][v]
    BY DEF ReqTyped
  <2>2. q # << >> => Msgs(Tail(q)) \subseteq Msgs(q)
    BY TailIs
  <2>3. req'[t][v] = q \/ (req'[t][v] = Tail(q) /\ q # << >>)
    BY <2>1, TakenIs DEF Taken
  <2> QED BY <2>1, <2>2, <2>3
<1> SUFFICES ASSUME NEW t \in Svr, NEW v \in Uid, NEW n \in Msgs(req'[t][v]),
                    n.kind = "save", NEW k \in DOMAIN n.datas
             PROVE  Last(n.datas[k].val) \in 1 .. nop
  BY DEF SaveTyped, Msgs
<1> QED BY <1>1 DEF SaveTyped

LEMMA CountedSame == ASSUME Counted, UNCHANGED <<nop, mix, faults>> PROVE Counted'
  BY DEF Counted

LEMMA FaultCounted ==
    ASSUME Counted, NEW f \in FaultKind, NEW n \in Nat, Fault(f, n), nop' = nop
    PROVE  Counted' /\ mix' = mix /\ faults'[f] = faults[f] + n
           /\ \A g \in FaultKind \ {f} : faults'[g] = faults[g]
  BY DEF Counted, Fault

LEMMA InitTyped == ASSUME Init PROVE TInv
<1>1. Counted
  BY MixAssumption DEF Init, Counted
<1>2. StoreTyped
  <2>1. NotStored \in Rec
    BY EmptySeq DEF NotStored, Rec
  <2>2. << >> \in PFun(Key, Cached)
    BY EmptyTable
  <2> QED BY <2>1, <2>2 DEF Init, StoreTyped
<1>3. PathTyped
  BY EmptySeq DEF Init, PathTyped
<1>4. SaveTyped
  BY EmptySeq DEF Init, SaveTyped, Msgs
<1>5. SessTyped
  <2>1. << >> \in PFun(Nat, Session) /\ DOMAIN << >> = {}
    BY EmptyTable
  <2> QED BY <2>1 DEF Init, SessTyped
<1>6. EndsTyped
  BY DEF Init, EndsTyped
<1> QED BY <1>1, <1>2, <1>3, <1>4, <1>5, <1>6 DEF TInv

(* The data server takes request m of user u: what it answers.             *)
Accepts(s, u, m, good, n) ==
    /\ applied' = applied \cup {<<Last(m.datas[k].val), u>> : k \in good}
    /\ db' = [db EXCEPT ![u] = [k \in Key |-> IF k \in good THEN m.datas[k] ELSE @[k]]]
    /\ vmap' = CountUp(u, good)
    /\ Answered(s, u, Answers(m, u, n, Answer(m, "success", 0, << >>)))
Refuses(s, u, m, good, n) ==
    /\ vmap' = Cache(u, good)
    /\ Answered(s, u, Answers(m, u, n, Answer(m, "diff", u, ReadRecords(u, good))))
    /\ UNCHANGED <<db, applied>>
Behind(u, m) == {k \in DOMAIN m.datas : vmap[u][k].ver + 1 # m.datas[k].ver}

LEMMA FiniteKeys ==
    ASSUME NEW K \in SUBSET Key PROVE IsFiniteSet(K) /\ Cardinality(K) \in Nat
  BY KeyAssumption, FS_Subset, FS_CardinalityType

LEMMA HandlerSaveIs ==
    ASSUME StoreTyped, NEW s \in Svr, NEW u \in Uid, NEW m \in Save, HandlerSave(s, u, m)
    PROVE  \E bad \in SUBSET DOMAIN m.datas, n \in Nat :
              /\ Fault("fail", Cardinality(bad)) /\ n >= Cardinality(bad)
              /\ \/ Accepts(s, u, m, DOMAIN m.datas \ bad, n)
                 \/ Refuses(s, u, m, DOMAIN m.datas \ bad, n)
              /\ bad = {} /\ DOMAIN m.datas \subseteq DOMAIN vmap[u] =>
                    /\ n = 0
                    /\ IF Behind(u, m) = {} THEN Accepts(s, u, m, DOMAIN m.datas, 0)
                                            ELSE Refuses(s, u, m, DOMAIN m.datas, 0)
<1> DEFINE K == DOMAIN m.datas
           missing == K \ DOMAIN vmap[u]
           version(g, k) == IF k \in missing THEN g[k] ELSE vmap[u][k].ver
           diff(g) == {k \in K : version(g, k) + 1 # m.datas[k].ver}
           unseen(g) == {k \in missing : \A j \in diff(g) : k <= j}
           nfail(g, bad) == Cardinality(unseen(g)) + Cardinality(bad)
<1>1. m.datas \in Datas /\ K \in SUBSET Key
  BY PFunOut DEF Save, Datas
<1>2. PICK g \in [missing -> Garbage], bad \in SUBSET K :
         /\ Fault("fail", Cardinality(bad))
         /\ IF diff(g) = {} THEN Accepts(s, u, m, K \ bad, nfail(g, bad))
                            ELSE Refuses(s, u, m, K \ bad, nfail(g, bad))
  BY DEF HandlerSave, Differs, Accepts, Refuses, Answered
<1>3. nfail(g, bad) \in Nat /\ nfail(g, bad) >= Cardinality(bad)
  <2>1. unseen(g) \in SUBSET Key /\ bad \in SUBSET Key
    BY <1>1
  <2> HIDE DEF unseen
  <2>2. Cardinality(unseen(g)) \in Nat /\ Cardinality(bad) \in Nat
    BY <2>1, FiniteKeys
  <2> QED BY <2>2
<1>4. ASSUME bad = {}, K \subseteq DOMAIN vmap[u]
      PROVE  nfail(g, bad) = 0 /\ diff(g) = Behind(u, m) /\ K \ bad = K
  <2>1. missing = {} /\ K \ bad = K
    BY <1>4
  <2>2. unseen(g) = {}
    BY <2>1
  <2>3. diff(g) = Behind(u, m)
    BY <2>1 DEF Behind
  <2> HIDE DEF unseen, diff
  <2>4. Cardinality(unseen(g)) = 0 /\ Cardinality(bad) = 0
    BY <1>4, <2>2, FS_EmptySet
  <2> QED BY <2>1, <2>3, <2>4
<1> HIDE DEF nfail, diff
<1>5. PICK n \in Nat : n = nfail(g, bad)
  BY <1>3
<1>6. /\ Fault("fail", Cardinality(bad)) /\ n >= Cardinality(bad)
      /\ Accepts(s, u, m, K \ bad, n) \/ Refuses(s, u, m, K \ bad, n)
  BY <1>2, <1>3, <1>5
<1>7. ASSUME bad = {}, K \subseteq DOMAIN vmap[u]
      PROVE  n = 0 /\ IF Behind(u, m) = {} THEN Accepts(s, u, m, K, 0) ELSE Refuses(s, u, m, K, 0)
  <2>1. nfail(g, bad) = 0 /\ diff(g) = Behind(u, m) /\ K \ bad = K
    BY <1>4, <1>7
  <2> QED BY <1>2, <1>5, <2>1
<1> QED BY <1>6, <1>7

LEMMA AnswersTyped ==
    ASSUME NEW m \in Requests, NEW u \in Uid, NEW n \in Nat, NEW a \in Response
    PROVE  /\ Answers(m, u, n, a) \in Seq(Response)
           /\ Answers(m, u, 0, a) = <<a>>
<1>1. m.id \in Nat /\ m.kind \in {"query", "save"}
  BY DEF Requests, Query, Save
<1>2. << >> \in Datas
  BY EmptyTable DEF Datas
<1>3. Answer(m, "failed", u, << >>) \in Response
  BY <1>1, <1>2 DEF Answer, Response
<1> DEFINE b == Answer(m, "failed", u, << >>)
<1> HIDE DEF b
<1>4. b \in Response
  BY <1>3 DEF b
<1>5. [i \in 1 .. n |-> b] \in Seq(Response) /\ <<a>> \in Seq(Response)
  BY <1>4
<1>6. [i \in 1 .. n |-> b] \o <<a>> \in Seq(Response)
  BY <1>5, ConcatProperties
<1>7. [i \in 1 .. 0 |-> b] = << >>
  OBVIOUS
<1>8. << >> \o <<a>> = <<a>>
  BY <1>5, ConcatEmptySeq
<1> QED BY <1>6, <1>7, <1>8 DEF Answers, b

LEMMA CacheTyped ==
    ASSUME StoreTyped, NEW u \in Uid, NEW K \in SUBSET Key
    PROVE  /\ Cache(u, K) \in [Uid -> PFun(Key, Cached)]
           /\ \A v \in Uid : v # u => Cache(u, K)[v] = vmap[v]
           /\ \A k : k \in DOMAIN Cache(u, K)[u] <=> k \in DOMAIN vmap[u] \/ k \in K
           /\ \A k \in K : Cache(u, K)[u][k].ver = db[u][k].ver /\ Cache(u, K)[u][k].stamped
           /\ \A k \in DOMAIN vmap[u] : k \notin K => Cache(u, K)[u][k] = vmap[u][k]
           /\ ReadRecords(u, K) \in Datas /\ DOMAIN ReadRecords(u, K) = K
           /\ \A k \in K : ReadRecords(u, K)[k] = db[u][k]
<1>1. /\ vmap \in [Uid -> PFun(Key, Cached)] /\ vmap[u] \in PFun(Key, Cached)
      /\ \A k \in K : db[u][k] \in Rec
  BY DEF StoreTyped
<1>2. vmap[u] \in [DOMAIN vmap[u] -> Cached] /\ DOMAIN vmap[u] \in SUBSET Key
  BY <1>1, PFunOut
<1> DEFINE e == [k \in DOMAIN vmap[u] \cup K |->
                   IF k \in K THEN [ver |-> db[u][k].ver, stamped |-> TRUE] ELSE vmap[u][k]]
<1>3. e \in [DOMAIN vmap[u] \cup K -> Cached] /\ DOMAIN vmap[u] \cup K \in SUBSET Key
  BY <1>1, <1>2 DEF Cached, Rec
<1>4. e \in PFun(Key, Cached)
  BY <1>3, PFunIn
<1>5. Cache(u, K) = [vmap EXCEPT ![u] = e]
  BY <1>1 DEF Cache
<1>6. /\ DOMAIN e = DOMAIN vmap[u] \cup K
      /\ \A k \in K : e[k] = [ver |-> db[u][k].ver, stamped |-> TRUE]
      /\ \A k \in DOMAIN vmap[u] \ K : e[k] = vmap[u][k]
  OBVIOUS
<1> HIDE DEF e
<1>7. Cache(u, K) \in [Uid -> PFun(Key, Cached)] /\ Cache(u, K)[u] = e
      /\ \A v \in Uid \ {u} : Cache(u, K)[v] = vmap[v]
  BY <1>1, <1>4, <1>5
<1>8. ReadRecords(u, K) \in [K -> Rec] /\ \A k \in K : ReadRecords(u, K)[k] = db[u][k]
  BY <1>1 DEF ReadRecords
<1>9. ReadRecords(u, K) \in Datas /\ DOMAIN ReadRecords(u, K) = K
  BY <1>8, PFunIn DEF Datas
<1> QED BY <1>6, <1>7, <1>8, <1>9

LEMMA CountUpTyped ==
    ASSUME StoreTyped, NEW u \in Uid, NEW K \in SUBSET Key
    PROVE  /\ CountUp(u, K) \in [Uid -> PFun(Key, Cached)]
           /\ \A v \in Uid : v # u => CountUp(u, K)[v] = vmap[v]
           /\ \A k : k \in DOMAIN CountUp(u, K)[u] <=> k \in DOMAIN vmap[u] \/ k \in K
           /\ \A k \in DOMAIN vmap[u] : k \in K =>
                 /\ CountUp(u, K)[u][k].ver = vmap[u][k].ver + 1
                 /\ CountUp(u, K)[u][k].stamped = vmap[u][k].stamped
           /\ \A k \in DOMAIN vmap[u] : k \notin K => CountUp(u, K)[u][k] = vmap[u][k]
<1>1. /\ vmap \in [Uid -> PFun(Key, Cached)] /\ vmap[u] \in PFun(Key, Cached)
  BY DEF StoreTyped
<1>2. vmap[u] \in [DOMAIN vmap[u] -> Cached] /\ DOMAIN vmap[u] \in SUBSET Key
  BY <1>1, PFunOut
<1> DEFINE c(k) == IF k \notin K THEN vmap[u][k]
                   ELSE IF k \in DOMAIN vmap[u] THEN [vmap[u][k] EXCEPT !.ver = @ + 1]
                   ELSE [ver |-> 1, stamped |-> FALSE]
           e == [k \in DOMAIN vmap[u] \cup K |-> c(k)]
<1>3. \A k \in DOMAIN vmap[u] \cup K : c(k) \in Cached
  BY <1>2 DEF Cached
<1>4. CountUp(u, K) = [vmap EXCEPT ![u] = e]
  BY <1>1 DEF CountUp
<1>5. /\ \A k \in DOMAIN vmap[u] \cap K : c(k).ver = vmap[u][k].ver + 1
                                          /\ c(k).stamped = vmap[u][k].stamped
      /\ \A k \in DOMAIN vmap[u] \ K : c(k) = vmap[u][k]
  BY <1>2 DEF Cached
<1> HIDE DEF c
<1>6. e \in [DOMAIN vmap[u] \cup K -> Cached] /\ DOMAIN vmap[u] \cup K \in SUBSET Key
  BY <1>2, <1>3
<1>7. e \in PFun(Key, Cached) /\ DOMAIN e = DOMAIN vmap[u] \cup K
      /\ \A k \in DOMAIN vmap[u] \cup K : e[k] = c(k)
  BY <1>6, PFunIn
<1> HIDE DEF e
<1>8. CountUp(u, K) \in [Uid -> PFun(Key, Cached)] /\ CountUp(u, K)[u] = e
      /\ \A v \in Uid \ {u} : CountUp(u, K)[v] = vmap[v]
  BY <1>1, <1>4, <1>7
<1> QED BY <1>5, <1>7, <1>8

LEMMA QueryAnswerTyped ==
    ASSUME NEW m \in Requests, NEW d \in Datas, NEW u \in Uid \cup {0},
           NEW r \in {"success", "diff", "failed"}
    PROVE  Answer(m, r, u, d) \in Response
  BY DEF Answer, Response, Requests, Query, Save

LEMMA AcceptsTyped ==
    ASSUME TInv, NEW s \in Svr, NEW u \in Uid, NEW m \in Save, m \in Msgs(req[s][u]),
           NEW good \in SUBSET DOMAIN m.datas, NEW n \in Nat, Accepts(s, u, m, good, n),
           UNCHANGED <<nop, saved, refused>>
    PROVE  StoreTyped' /\ RspTyped' /\ EndsTyped'
<1>1. m.datas \in Datas /\ m.kind = "save" /\ m \in Requests
  BY DEF Save, Requests
<1>2. m.datas \in [DOMAIN m.datas -> Rec] /\ DOMAIN m.datas \in SUBSET Key
  BY <1>1, PFunOut DEF Datas
<1>3. StoreTyped /\ RspTyped /\ EndsTyped
  BY PathSplit DEF TInv
<1>4. db' \in [Uid -> [Key -> Rec]]
  <2>1. [k \in Key |-> IF k \in good THEN m.datas[k] ELSE db[u][k]] \in [Key -> Rec]
    BY <1>2, <1>3 DEF StoreTyped
  <2> QED BY <1>3, <2>1 DEF Accepts, StoreTyped
<1>5. vmap' \in [Uid -> PFun(Key, Cached)]
  BY <1>2, <1>3, CountUpTyped DEF Accepts
<1>6. RspTyped'
  <2>1. << >> \in Datas
    BY EmptyTable DEF Datas
  <2>2. Answer(m, "success", 0, << >>) \in Response
    BY <1>1, <2>1, QueryAnswerTyped
  <2>3. Answers(m, u, n, Answer(m, "success", 0, << >>)) \in Seq(Response)
    BY <1>1, <2>2, AnswersTyped
  <2> QED BY <1>3, <2>3, AnsweredIs DEF Accepts
<1>7. EndsTyped'
  <2>1. \A k \in good : Last(m.datas[k].val) \in 1 .. nop
    BY <1>1 DEF TInv, SaveTyped
  <2>2. applied' \subseteq (1 .. nop) \X Uid
    BY <1>3, <2>1 DEF Accepts, EndsTyped
  <2> QED BY <1>3, <2>2 DEF EndsTyped
<1> QED BY <1>4, <1>5, <1>6, <1>7 DEF StoreTyped

LEMMA RefusesTyped ==
    ASSUME TInv, NEW s \in Svr, NEW u \in Uid, NEW m \in Save,
           NEW good \in SUBSET DOMAIN m.datas, NEW n \in Nat, Refuses(s, u, m, good, n),
           UNCHANGED <<nop, saved, refused>>
    PROVE  StoreTyped' /\ RspTyped' /\ EndsTyped'
<1>1. m.datas \in Datas /\ m \in Requests
  BY DEF Save, Requests
<1>2. good \in SUBSET Key
  BY <1>1, PFunOut DEF Datas
<1>3. StoreTyped /\ RspTyped /\ EndsTyped
  BY PathSplit DEF TInv
<1>4. vmap' \in [Uid -> PFun(Key, Cached)] /\ ReadRecords(u, good) \in Datas
  BY <1>2, <1>3, CacheTyped DEF Refuses
<1>5. RspTyped'
  <2>1. Answer(m, "diff", u, ReadRecords(u, good)) \in Response
    BY <1>1, <1>4, QueryAnswerTyped
  <2>2. Answers(m, u, n, Answer(m, "diff", u, ReadRecords(u, good))) \in Seq(Response)
    BY <1>1, <2>1, AnswersTyped
  <2> QED BY <1>3, <2>2, AnsweredIs DEF Refuses
<1> QED BY <1>3, <1>4, <1>5 DEF StoreTyped, Refuses, EndsTyped

LEMMA ServeTyped ==
    ASSUME TInv, NEW s \in Svr, NEW u \in Uid, Serve(s, u) PROVE TInv'
<1>1. /\ Counted /\ StoreTyped /\ ReqTyped /\ RspTyped /\ SaveTyped /\ SessTyped /\ EndsTyped
  BY PathSplit DEF TInv
<1>2. Taken(s, u) /\ UNCHANGED <<sess, curId, nop, saved, refused>>
  BY DEF Serve, Taken, ends
<1>3. PICK m \in Requests : m = Head(req[s][u])
  BY <1>1, <1>2, TakenIs
<1>4. m \in Msgs(req[s][u])
  <2>1. PICK q \in Seq(Requests) : q = req[s][u]
    BY <1>1 DEF ReqTyped
  <2> QED BY <1>2, <1>3, <2>1, TailIs DEF Taken
<1>5. ReqTyped' /\ SaveTyped'
  BY <1>1, <1>2, TakenIs, TakenTyped
<1>6. Counted' /\ StoreTyped' /\ RspTyped' /\ EndsTyped' /\ mix' = mix
  <2>1. CASE m.kind = "query"
    <3>1. m \in Query
      BY <2>1 DEF Requests, Save
    <3>2. HandlerQuery(s, u, m)
      BY <1>3, <2>1 DEF Serve
    <3>3. PICK bad \in SUBSET m.keys :
             /\ Fault("fail", Cardinality(bad))
             /\ vmap' = Cache(u, m.keys \ bad)
             /\ Answered(s, u, Answers(m, u, Cardinality(bad),
                            Answer(m, "success", u, ReadRecords(u, m.keys \ bad))))
             /\ UNCHANGED <<db, applied>>
      BY <3>2 DEF HandlerQuery, Answered
    <3>4. bad \in SUBSET Key /\ m.keys \ bad \in SUBSET Key
      BY <3>1 DEF Query
    <3>5. Cardinality(bad) \in Nat
      BY <3>4, FiniteKeys
    <3>6. Counted' /\ mix' = mix
      BY <1>1, <1>2, <3>3, <3>5, FaultCounted DEF FaultKind
    <3>7. vmap' \in [Uid -> PFun(Key, Cached)] /\ ReadRecords(u, m.keys \ bad) \in Datas
      BY <1>1, <3>3, <3>4, CacheTyped
    <3>8. Answer(m, "success", u, ReadRecords(u, m.keys \ bad)) \in Response
      BY <3>7, QueryAnswerTyped
    <3>9. Answers(m, u, Cardinality(bad),
                  Answer(m, "success", u, ReadRecords(u, m.keys \ bad))) \in Seq(Response)
      BY <3>5, <3>8, AnswersTyped
    <3>10. RspTyped'
      BY <1>1, <3>3, <3>9, AnsweredIs
    <3> QED BY <1>1, <1>2, <3>3, <3>6, <3>7, <3>10 DEF StoreTyped, EndsTyped
  <2>2. CASE m.kind # "query"
    <3>1. m \in Save
      BY <2>2 DEF Requests, Query
    <3>2. HandlerSave(s, u, m)
      BY <1>3, <2>2 DEF Serve
    <3>3. PICK bad \in SUBSET DOMAIN m.datas, n \in Nat :
              /\ Fault("fail", Cardinality(bad))
              /\ \/ Accepts(s, u, m, DOMAIN m.datas \ bad, n)
                 \/ Refuses(s, u, m, DOMAIN m.datas \ bad, n)
      BY <1>1, <3>1, <3>2, HandlerSaveIs
    <3>4. Cardinality(bad) \in Nat
      <4>1. bad \in SUBSET Key
        BY <3>1, PFunOut DEF Save, Datas
      <4> QED BY <4>1, FiniteKeys
    <3>5. Counted' /\ mix' = mix
      BY <1>1, <1>2, <3>3, <3>4, FaultCounted DEF FaultKind
    <3>6. PICK good \in SUBSET DOMAIN m.datas : good = DOMAIN m.datas \ bad
      OBVIOUS
    <3>7. Accepts(s, u, m, good, n) \/ Refuses(s, u, m, good, n)
      BY <3>3, <3>6
    <3>8. StoreTyped' /\ RspTyped' /\ EndsTyped'
      BY <1>2, <1>4, <3>1, <3>7, AcceptsTyped, RefusesTyped
    <3> QED BY <3>5, <3>8
  <2> QED BY <2>1, <2>2
<1>7. SessTyped'
  BY <1>1, <1>2, <1>6 DEF SessTyped, Usable, Placed, Uids
<1> QED BY <1>5, <1>6, <1>7, PathSplit DEF TInv, ReqTyped, RspTyped, PathTyped, Requests

LEMMA LoseTyped ==
    ASSUME TInv, NEW s \in Svr, NEW u \in Uid, Lose(s, u) PROVE TInv'
<1>1. /\ Counted /\ StoreTyped /\ ReqTyped /\ RspTyped /\ SaveTyped /\ SessTyped /\ EndsTyped
  BY PathSplit DEF TInv
<1>2. /\ Fault("loss", 1) /\ UNCHANGED <<db, vmap, sess, curId, nop, applied, saved, refused>>
      /\ (Taken(s, u) /\ rsp' = rsp) \/ (Read(s, u) /\ req' = req)
  BY DEF Lose, Taken, Read, ends
<1>3. Counted' /\ mix' = mix
  BY <1>1, <1>2, FaultCounted DEF FaultKind
<1>4. ReqTyped' /\ RspTyped' /\ SaveTyped'
  <2>1. CASE Taken(s, u) /\ rsp' = rsp
    BY <1>1, <1>2, <2>1, TakenIs, TakenTyped DEF RspTyped
  <2>2. CASE Read(s, u) /\ req' = req
    BY <1>1, <1>2, <2>2, ReadIs, SaveTypedSame DEF ReqTyped
  <2> QED BY <1>2, <2>1, <2>2
<1>5. StoreTyped' /\ EndsTyped'
  BY <1>1, <1>2 DEF StoreTyped, EndsTyped
<1>6. SessTyped'
  BY <1>1, <1>2, <1>3 DEF SessTyped, Usable, Placed, Uids
<1> QED BY <1>3, <1>4, <1>5, <1>6, PathSplit DEF TInv, ReqTyped, RspTyped, PathTyped, Requests

LEMMA TimeOutTyped ==
    ASSUME TInv, NEW s \in Svr, TimeOut(s) PROVE TInv'
<1>1. PICK id \in DOMAIN sess[s] : Release(s, id)
  BY DEF TimeOut
<1>2. UNCHANGED <<db, vmap, curId, req, rsp, nop, applied, saved, refused, mix, faults>>
  BY <1>1 DEF TimeOut, Release, ends
<1>3. SessTyped'
  BY <1>1, <1>2, ReleaseTyped DEF TInv
<1>4. Counted' /\ SaveTyped'
  BY <1>2, CountedSame, SaveTypedSame DEF TInv
<1> QED BY <1>2, <1>3, <1>4 DEF TInv, StoreTyped, PathTyped, EndsTyped

LEMMA StopTyped ==
    ASSUME TInv, NEW s \in Svr, Stop(s) PROVE TInv'
<1>1. Counted /\ SessTyped /\ SaveTyped
  BY DEF TInv
<1>2. /\ UNCHANGED <<db, vmap, sess, req, rsp, nop, applied, saved, refused>>
      /\ curId' = [curId EXCEPT ![s] = Max(DOMAIN sess[s] \cup {0})]
  BY DEF Stop, ends
<1>3. Counted' /\ mix' = mix
  BY <1>1, <1>2, FaultCounted DEF Stop, FaultKind
<1>4. Max(DOMAIN sess[s] \cup {0}) \in 0 .. nop
  <2>1. DOMAIN sess[s] \cup {0} \in SUBSET (0 .. nop) /\ nop \in Nat
    BY <1>1 DEF SessTyped, Counted
  <2>2. DOMAIN sess[s] \cup {0} # {}
    OBVIOUS
  <2> QED BY <2>1, <2>2, MaxIn
<1>5. curId' \in [Svr -> 0 .. nop]
  BY <1>1, <1>2, <1>4 DEF SessTyped
<1>6. SessTyped'
  BY <1>1, <1>2, <1>3, <1>5 DEF SessTyped, Usable, Placed, Uids
<1>7. SaveTyped'
  BY <1>1, <1>2, SaveTypedSame
<1> QED BY <1>2, <1>3, <1>6, <1>7 DEF TInv, StoreTyped, PathTyped, EndsTyped

LEMMA KillTyped ==
    ASSUME TInv, NEW s \in Svr, Kill(s) PROVE TInv'
<1>1. Counted /\ SessTyped /\ SaveTyped
  BY DEF TInv
<1>2. /\ UNCHANGED <<db, vmap, req, rsp, nop, applied, saved, refused>>
      /\ curId' = [curId EXCEPT ![s] = 0] /\ sess' = [sess EXCEPT ![s] = << >>]
  BY DEF Kill, ends
<1>3. Counted' /\ mix' = mix
  BY <1>1, <1>2, FaultCounted DEF Kill, FaultKind
<1>4. << >> \in PFun(Nat, Session) /\ DOMAIN << >> = {}
  BY EmptyTable
<1>5. /\ sess' \in [Svr -> PFun(Nat, Session)] /\ curId' \in [Svr -> 0 .. nop]
      /\ \A t \in Svr : sess'[t] = IF t = s THEN << >> ELSE sess[t]
  BY <1>1, <1>2, <1>4 DEF SessTyped, Counted
<1>6. ASSUME NEW t \in Svr, NEW j \in DOMAIN sess'[t]
      PROVE  j \in 1 .. nop /\ Usable(sess[t][j])' /\ Placed(sess[t][j])'
  <2>1. sess'[t] = sess[t]
    BY <1>4, <1>5, <1>6
  <2>2. PICK x : x = sess'[t][j]
    OBVIOUS
  <2>3. j \in 1 .. nop /\ Usable(x) /\ Placed(x)
    BY <1>1, <2>1, <2>2, <1>6 DEF SessTyped
  <2> QED BY <1>2, <1>3, <2>2, <2>3 DEF Usable, Placed, Uids
<1>7. SessTyped'
  BY <1>2, <1>5, <1>6 DEF SessTyped
<1>8. SaveTyped'
  BY <1>1, <1>2, SaveTypedSame
<1> QED BY <1>2, <1>3, <1>7, <1>8 DEF TInv, StoreTyped, PathTyped, EndsTyped

LEMMA DbRestartTyped == ASSUME TInv, DbRestart PROVE TInv'
<1>1. Counted /\ SessTyped /\ SaveTyped
  BY DEF TInv
<1>2. /\ UNCHANGED <<db, sess, curId, req, rsp, nop, applied, saved, refused>>
      /\ vmap' = [u \in Uid |-> << >>]
  BY DEF DbRestart, ends
<1>3. Counted' /\ mix' = mix
  BY <1>1, <1>2, FaultCounted DEF DbRestart, FaultKind
<1>4. << >> \in PFun(Key, Cached)
  BY EmptyTable
<1>5. StoreTyped'
  BY <1>2, <1>4 DEF TInv, StoreTyped
<1>6. SessTyped' /\ SaveTyped'
  BY <1>1, <1>2, <1>3, SaveTypedSame DEF SessTyped, Usable, Placed, Uids
<1> QED BY <1>2, <1>3, <1>5, <1>6 DEF TInv, PathTyped, EndsTyped

LEMMA ExpireIs ==
    ASSUME StoreTyped, VersionExpire
    PROVE  \E u \in Uid : \E gone \in SUBSET DOMAIN vmap[u] :
              /\ \A k \in gone : vmap[u][k].stamped => ~ InUse(u)
              /\ vmap' \in [Uid -> PFun(Key, Cached)]
              /\ \A v \in Uid : v # u => vmap'[v] = vmap[v]
              /\ \A k : k \in DOMAIN vmap'[u] <=> k \in DOMAIN vmap[u] /\ k \notin gone
              /\ \A k \in DOMAIN vmap'[u] : vmap'[u][k] = vmap[u][k]
<1>1. PICK u \in Uid :
         vmap' = [vmap EXCEPT ![u] =
                    [k \in DOMAIN @ \ {j \in DOMAIN vmap[u] : vmap[u][j].stamped => ~ InUse(u)}
                       |-> @[k]]]
  BY DEF VersionExpire
<1>2. PICK gone : gone = {j \in DOMAIN vmap[u] : vmap[u][j].stamped => ~ InUse(u)}
  OBVIOUS
<1>3. vmap \in [Uid -> PFun(Key, Cached)] /\ vmap[u] \in PFun(Key, Cached)
  BY DEF StoreTyped
<1>4. vmap[u] \in [DOMAIN vmap[u] -> Cached] /\ DOMAIN vmap[u] \in SUBSET Key
  BY <1>3, PFunOut
<1> DEFINE e == [k \in DOMAIN vmap[u] \ gone |-> vmap[u][k]]
<1>5. e \in [DOMAIN vmap[u] \ gone -> Cached] /\ DOMAIN vmap[u] \ gone \in SUBSET Key
  BY <1>4
<1>6. e \in PFun(Key, Cached) /\ DOMAIN e = DOMAIN vmap[u] \ gone
      /\ \A k \in DOMAIN e : e[k] = vmap[u][k]
  BY <1>5, PFunIn
<1>7. vmap' = [vmap EXCEPT ![u] = e]
  BY <1>1, <1>2, <1>3
<1> HIDE DEF e
<1>8. vmap' \in [Uid -> PFun(Key, Cached)] /\ vmap'[u] = e
      /\ \A v \in Uid \ {u} : vmap'[v] = vmap[v]
  BY <1>3, <1>6, <1>7
<1>9. gone \in SUBSET DOMAIN vmap[u] /\ \A k \in gone : vmap[u][k].stamped => ~ InUse(u)
  BY <1>2
<1> QED BY <1>6, <1>8, <1>9

LEMMA VersionExpireTyped == ASSUME TInv, VersionExpire PROVE TInv'
<1>1. vmap' \in [Uid -> PFun(Key, Cached)]
  BY ExpireIs DEF TInv
<1>2. UNCHANGED <<db, sess, curId, req, rsp, nop, applied, saved, refused, mix, faults>>
  BY DEF VersionExpire, ends
<1>3. Counted' /\ SaveTyped'
  BY <1>2, CountedSame, SaveTypedSame DEF TInv
<1>4. SessTyped'
  BY <1>2 DEF TInv, SessTyped, Usable, Placed, Uids
<1> QED BY <1>1, <1>2, <1>3, <1>4 DEF TInv, StoreTyped, PathTyped, EndsTyped

(* A handler's new session, and what it asks of user u.                    *)
KeysOf(plan, u) == UNION {plan[i].keys : i \in {j \in DOMAIN plan : plan[j].uid = u}}
UidsOf(plan) == {plan[i].uid : i \in DOMAIN plan}
Fresh(op, plan) == [op |-> op, state |-> "query", plan |-> plan, index |-> 1,
                    data |-> << >>, redo |-> 0]
Ask(id, plan, u) == [id |-> id, kind |-> "query", keys |-> KeysOf(plan, u)]
AskAll(s, id, plan) ==
    req' = [req EXCEPT ![s] = [u \in Uid |-> IF u \in UidsOf(plan)
                                             THEN Append(req[s][u], Ask(id, plan, u))
                                             ELSE req[s][u]]]

LEMMA AskTyped ==
    ASSUME NEW plan \in Plans, NEW u, NEW id \in Nat
    PROVE  KeysOf(plan, u) \in SUBSET Key /\ Ask(id, plan, u) \in Query
<1>1. KeysOf(plan, u) \in SUBSET Key
  BY PlanIs DEF KeysOf
<1> QED BY <1>1 DEF Ask, Query

LEMMA AskAllIs ==
    ASSUME ReqTyped, NEW s \in Svr, NEW id \in Nat, NEW plan \in Plans, AskAll(s, id, plan)
    PROVE  /\ ReqTyped'
           /\ \A t \in Svr, v \in Uid :
                 req'[t][v] = IF t = s /\ v \in UidsOf(plan)
                              THEN Append(req[t][v], Ask(id, plan, v)) ELSE req[t][v]
<1> DEFINE T == Seq(Requests)
           f == [u \in Uid |-> IF u \in UidsOf(plan) THEN Append(req[s][u], Ask(id, plan, u))
                                                     ELSE req[s][u]]
<1>1. req \in [Svr -> [Uid -> T]]
  BY DEF ReqTyped
<1>2. \A u \in Uid : Append(req[s][u], Ask(id, plan, u)) \in T
  <2> TAKE u \in Uid
  <2>1. Ask(id, plan, u) \in Requests
    BY AskTyped DEF Requests
  <2>2. PICK q \in T : q = req[s][u]
    BY <1>1
  <2>3. Append(q, Ask(id, plan, u)) \in T
    BY <2>1, AppendIs
  <2> QED BY <2>2, <2>3
<1> HIDE DEF T
<1>3. f \in [Uid -> T]
  BY <1>1, <1>2
<1>4. \A u \in Uid : f[u] = IF u \in UidsOf(plan) THEN Append(req[s][u], Ask(id, plan, u))
                                                  ELSE req[s][u]
  OBVIOUS
<1>5. req' = [req EXCEPT ![s] = f]
  BY DEF AskAll
<1> HIDE DEF f
<1>6. req' \in [Svr -> [Uid -> T]] /\ \A t \in Svr : req'[t] = IF t = s THEN f ELSE req[t]
  BY <1>1, <1>3, <1>5
<1>7. \A t \in Svr, v \in Uid :
         req'[t][v] = IF t = s /\ v \in UidsOf(plan)
                      THEN Append(req[t][v], Ask(id, plan, v)) ELSE req[t][v]
  <2> TAKE t \in Svr, v \in Uid
  <2>1. CASE t = s
    BY <1>4, <1>6, <2>1
  <2>2. CASE t # s
    BY <1>6, <2>2
  <2> QED BY <2>1, <2>2
<1> QED BY <1>6, <1>7 DEF ReqTyped, T

LEMMA QueryAllIs ==
    ASSUME TInv, NEW s \in Svr, QueryAllData(s)
    PROVE  \E plan \in mix.plans :
              /\ plan \in Plans /\ nop < mix.op /\ nop' = nop + 1
              /\ curId' = [curId EXCEPT ![s] = curId[s] + 1]
              /\ Opens(s, curId[s] + 1, Fresh(nop + 1, plan))
              /\ AskAll(s, curId[s] + 1, plan)
              /\ UNCHANGED <<db, vmap, rsp, applied, saved, refused, mix, faults>>
<1>1. PICK plan \in mix.plans :
         LET id == curId[s] + 1
             x  == [op |-> nop + 1, state |-> "query", plan |-> plan, index |-> 1,
                    data |-> << >>, redo |-> 0]
         IN  /\ nop < mix.op
             /\ nop' = nop + 1
             /\ curId' = [curId EXCEPT ![s] = id]
             /\ sess' = [sess EXCEPT ![s] = With(@, id, x)]
             /\ req' = [req EXCEPT ![s] = [u \in Uid |->
                           IF u \in Uids(x)
                           THEN Append(@[u],
                                  [id |-> id, kind |-> "query",
                                   keys |-> UNION {plan[i].keys : i \in {j \in DOMAIN plan :
                                                                     plan[j].uid = u}}])
                           ELSE @[u]]]
             /\ UNCHANGED <<db, vmap, rsp, applied, ends, mix, faults>>
  BY DEF QueryAllData
<1>2. plan \in Plans
  BY DEF Plans, TInv, Counted
<1>3. sess \in [Svr -> PFun(Nat, Session)] /\ req \in [Svr -> [Uid -> Seq(Query \cup Save)]]
  BY DEF TInv, SessTyped, PathTyped
<1>4. Opens(s, curId[s] + 1, Fresh(nop + 1, plan))
  BY <1>1, <1>3 DEF Fresh, Opens
<1>5. AskAll(s, curId[s] + 1, plan)
  BY <1>1, <1>3 DEF AskAll, Uids, UidsOf, Ask, KeysOf
<1> QED BY <1>1, <1>2, <1>4, <1>5 DEF ends

LEMMA FreshTyped ==
    ASSUME NEW plan \in Plans, NEW op \in Nat
    PROVE  /\ Fresh(op, plan) \in Session /\ Placed(Fresh(op, plan))
           /\ Uids(Fresh(op, plan)) = UidsOf(plan) /\ UidsOf(plan) \subseteq Uid
           /\ UidsOf(plan) # {}
<1>1. << >> \in PFun(Uid, Datas) /\ DOMAIN << >> = {}
  BY EmptyTable
<1>2. Fresh(op, plan) \in Session
  BY <1>1 DEF Fresh, Session
<1>3. UidsOf(plan) \subseteq Uid /\ UidsOf(plan) # {}
  BY PlanIs DEF UidsOf
<1>4. Uids(Fresh(op, plan)) = UidsOf(plan)
  BY DEF Uids, UidsOf, Fresh
<1> QED BY <1>1, <1>2, <1>3, <1>4 DEF Placed, Fresh

(* A session that is new.                                                  *)
LEMMA SessNew ==
    ASSUME sess \in [Svr -> PFun(Nat, Session)], NEW s \in Svr, NEW id \in Nat, NEW x \in Session,
           Opens(s, id, x)
    PROVE  /\ sess' \in [Svr -> PFun(Nat, Session)]
           /\ \A t \in Svr : \A j :
                 j \in DOMAIN sess'[t] <=> j \in DOMAIN sess[t] \/ (t = s /\ j = id)
           /\ \A t \in Svr : \A j \in DOMAIN sess'[t] :
                 IF t = s /\ j = id THEN sess'[t][j] = x
                 ELSE j \in DOMAIN sess[t] /\ sess'[t][j] = sess[t][j]
<1>0. /\ \A j : j \in DOMAIN With(sess[s], id, x) <=> j \in DOMAIN sess[s] \/ j = id
      /\ With(sess[s], id, x)[id] = x
      /\ \A j \in DOMAIN sess[s] : j # id => With(sess[s], id, x)[j] = sess[s][j]
  BY WithIs
<1> DEFINE f == With(sess[s], id, x)
<1>1. f \in PFun(Nat, Session)
  BY TableOps
<1>2. /\ \A j : j \in DOMAIN f <=> j \in DOMAIN sess[s] \/ j = id
      /\ f[id] = x
      /\ \A j \in DOMAIN sess[s] : j # id => f[j] = sess[s][j]
  BY <1>0
<1> HIDE DEF f
<1>3. sess' = [sess EXCEPT ![s] = f]
  BY DEF f, Opens
<1>4. /\ sess' \in [Svr -> PFun(Nat, Session)]
      /\ \A t \in Svr : sess'[t] = IF t = s THEN f ELSE sess[t]
  BY <1>1, <1>3
<1> QED BY <1>2, <1>4

LEMMA QueryAllTyped == ASSUME TInv, NEW s \in Svr, QueryAllData(s) PROVE TInv'
<1>1. PICK plan \in mix.plans :
              /\ plan \in Plans /\ nop < mix.op /\ nop' = nop + 1
              /\ curId' = [curId EXCEPT ![s] = curId[s] + 1]
              /\ Opens(s, curId[s] + 1, Fresh(nop + 1, plan))
              /\ AskAll(s, curId[s] + 1, plan)
              /\ UNCHANGED <<db, vmap, rsp, applied, saved, refused, mix, faults>>
  BY QueryAllIs
<1>2. /\ Counted /\ StoreTyped /\ ReqTyped /\ RspTyped /\ SaveTyped /\ SessTyped /\ EndsTyped
  BY PathSplit DEF TInv
<1>3. nop \in Nat /\ curId[s] \in Nat /\ curId[s] <= nop /\ mix.op \in Nat
  BY <1>2, MixAssumption DEF Counted, SessTyped
<1>4. Counted'
  BY <1>1, <1>2, <1>3 DEF Counted
<1>5. /\ ReqTyped'
      /\ \A t \in Svr, v \in Uid :
                 req'[t][v] = IF t = s /\ v \in UidsOf(plan)
                              THEN Append(req[t][v], Ask(curId[s] + 1, plan, v)) ELSE req[t][v]
  <2>1. curId[s] + 1 \in Nat
    BY <1>3
  <2> QED BY <1>1, <1>2, <2>1, AskAllIs
<1>6. SaveTyped'
  <2> SUFFICES ASSUME NEW t \in Svr, NEW v \in Uid, NEW n \in Msgs(req'[t][v]),
                      n.kind = "save", NEW k \in DOMAIN n.datas
               PROVE  Last(n.datas[k].val) \in 1 .. nop'
    BY DEF SaveTyped, Msgs
  <2>1. PICK q \in Seq(Requests) : q = req[t][v]
    BY <1>2 DEF ReqTyped
  <2>2. Ask(curId[s] + 1, plan, v) \in Requests /\ Ask(curId[s] + 1, plan, v).kind = "query"
    BY <1>1, <1>3, AskTyped DEF Requests, Ask
  <2>3. n \in Msgs(q) \cup {Ask(curId[s] + 1, plan, v)}
    BY <1>5, <2>1, <2>2, AppendIs
  <2>4. n \in Msgs(req[t][v])
    BY <2>1, <2>2, <2>3
  <2>5. Last(n.datas[k].val) \in 1 .. nop
    BY <1>2, <2>4 DEF SaveTyped
  <2> QED BY <1>1, <1>3, <2>5
<1>7. SessTyped'
  <2> DEFINE x == Fresh(nop + 1, plan)
             id == curId[s] + 1
  <2>1. x \in Session /\ Placed(x) /\ id \in Nat
    BY <1>1, <1>3, FreshTyped
  <2>2. x.op = nop + 1 /\ x.plan = plan /\ x.index = 1 /\ x.redo = 0
    BY DEF Fresh
  <2>3. 1 \in DOMAIN plan /\ 0 < MaxRedo
    BY <1>1, PlanIs, RedoAssumption
  <2> HIDE DEF x, id
  <2>4. /\ sess' \in [Svr -> PFun(Nat, Session)]
        /\ \A t \in Svr : \A j \in DOMAIN sess'[t] :
                 IF t = s /\ j = id THEN sess'[t][j] = x
                 ELSE j \in DOMAIN sess[t] /\ sess'[t][j] = sess[t][j]
    <3>1. Opens(s, id, x)
      BY <1>1 DEF id, x
    <3>2. sess \in [Svr -> PFun(Nat, Session)] /\ x \in Session /\ id \in Nat
      BY <1>2, <2>1 DEF SessTyped
    <3> QED BY <3>1, <3>2, SessNew
  <2>5. curId' \in [Svr -> 0 .. nop']
    BY <1>1, <1>2, <1>3 DEF SessTyped
  <2>6. ASSUME NEW t \in Svr, NEW j \in DOMAIN sess'[t]
        PROVE  j \in 1 .. nop' /\ Usable(sess[t][j])' /\ Placed(sess[t][j])'
    <3>1. CASE t = s /\ j = id
      <4>1. sess'[t][j] = x
        BY <2>4, <2>6, <3>1
      <4>2. j \in 1 .. nop'
        BY <1>1, <1>3, <3>1 DEF id
      <4>3. PICK z : z = sess'[t][j]
        OBVIOUS
      <4>4. Usable(z)' /\ Placed(z)'
        BY <1>1, <1>3, <2>1, <2>2, <2>3, <4>1, <4>3 DEF Usable, Placed, Uids
      <4> QED BY <4>2, <4>3, <4>4
    <3>2. CASE ~ (t = s /\ j = id)
      <4>1. j \in DOMAIN sess[t] /\ sess'[t][j] = sess[t][j]
        BY <2>4, <2>6, <3>2
      <4>2. PICK z : z = sess'[t][j]
        OBVIOUS
      <4>3. j \in 1 .. nop /\ Usable(z) /\ Placed(z)
        BY <1>2, <4>1, <4>2 DEF SessTyped
      <4>4. Usable(z)' /\ Placed(z)' /\ j \in 1 .. nop'
        BY <1>1, <1>3, <4>3 DEF Usable, Placed, Uids
      <4> QED BY <4>2, <4>4
    <3> QED BY <3>1, <3>2
  <2> QED BY <2>4, <2>5, <2>6 DEF SessTyped
<1>8. EndsTyped'
  BY <1>1, <1>2, <1>3 DEF EndsTyped
<1> QED BY <1>1, <1>2, <1>4, <1>5, <1>6, <1>7, <1>8, PathSplit
        DEF TInv, StoreTyped, ReqTyped, RspTyped, PathTyped, Requests

(* What an answer does to its session.                                     *)
Filled(x, m) == [x EXCEPT !.data = With(x.data, m.uid, m.datas)]
Next1(x) == [x EXCEPT !.index = x.index + 1]

LEMMA FilledTyped ==
    ASSUME NEW x, Usable(x), NEW m \in Response, m.uid \in Uids(x)
    PROVE  /\ Filled(x, m) \in Session /\ Usable(Filled(x, m)) /\ Uids(Filled(x, m)) = Uids(x)
           /\ Filled(x, m).data = With(x.data, m.uid, m.datas)
           /\ Filled(x, m).op = x.op /\ Filled(x, m).plan = x.plan
           /\ Filled(x, m).index = x.index /\ Filled(x, m).redo = x.redo
           /\ Filled(x, m).state = x.state
<1>1. x \in Session /\ x.plan \in Plans /\ x.data \in PFun(Uid, Datas)
  BY UsableIs DEF Usable
<1>2. m.uid \in Uid /\ m.datas \in Datas
  BY <1>1, PlanIs DEF Uids, Response
<1>3. With(x.data, m.uid, m.datas) \in PFun(Uid, Datas)
  BY <1>1, <1>2, TableOps
<1> DEFINE d == With(x.data, m.uid, m.datas)
<1>4. Filled(x, m) = [x EXCEPT !.data = d]
  BY DEF Filled
<1> HIDE DEF d
<1>5. /\ Filled(x, m) \in Session /\ Filled(x, m).data = d
      /\ Filled(x, m).op = x.op /\ Filled(x, m).plan = x.plan
      /\ Filled(x, m).index = x.index /\ Filled(x, m).redo = x.redo
      /\ Filled(x, m).state = x.state
  BY <1>1, <1>3, <1>4 DEF Session, d
<1>6. Usable(Filled(x, m)) /\ Uids(Filled(x, m)) = Uids(x)
  BY <1>5 DEF Usable, Uids
<1> QED BY <1>5, <1>6 DEF d

LEMMA RenewTyped ==
    ASSUME NEW x, Usable(x), DOMAIN x.data = Uids(x), NEW m \in Response, m.uid \in Uids(x),
           MayRedo(x)
    PROVE  /\ Renew(x, m) \in Session /\ Usable(Renew(x, m))
           /\ Uids(Renew(x, m)) = Uids(x) /\ DOMAIN Renew(x, m).data = Uids(x)
           /\ Renew(x, m).data[m.uid] = m.datas
           /\ \A v \in Uids(x) : v # m.uid => Renew(x, m).data[v] = x.data[v]
           /\ Renew(x, m).op = x.op /\ Renew(x, m).plan = x.plan
           /\ Renew(x, m).index = x.index /\ Renew(x, m).redo = x.redo + 1
           /\ Renew(x, m).state = x.state
<1>1. x \in Session /\ x.plan \in Plans /\ x.data \in PFun(Uid, Datas) /\ x.redo \in Nat
  BY UsableIs DEF Usable
<1>2. m.uid \in Uid /\ m.datas \in Datas
  BY <1>1, PlanIs DEF Uids, Response
<1> DEFINE d == [x.data EXCEPT ![m.uid] = m.datas]
<1>3. x.data \in [DOMAIN x.data -> Datas] /\ DOMAIN x.data \in SUBSET Uid
  BY <1>1, PFunOut
<1>4. d \in [DOMAIN x.data -> Datas] /\ DOMAIN d = Uids(x) /\ d[m.uid] = m.datas
      /\ \A v \in Uids(x) : v # m.uid => d[v] = x.data[v]
  BY <1>2, <1>3
<1>5. d \in PFun(Uid, Datas)
  BY <1>3, <1>4, PFunIn
<1>6. Renew(x, m) = [x EXCEPT !.redo = x.redo + 1, !.data = d]
  BY <1>1 DEF Renew, Session
<1> HIDE DEF d
<1>7. /\ Renew(x, m) \in Session /\ Renew(x, m).data = d
      /\ Renew(x, m).op = x.op /\ Renew(x, m).plan = x.plan
      /\ Renew(x, m).index = x.index /\ Renew(x, m).redo = x.redo + 1
      /\ Renew(x, m).state = x.state
  <2>1. PICK r \in Nat : r = x.redo + 1
    BY <1>1
  <2>2. Renew(x, m) = [x EXCEPT !.redo = r, !.data = d]
    BY <1>6, <2>1
  <2> QED BY <1>1, <1>5, <2>1, <2>2 DEF Session
<1>8. Usable(Renew(x, m)) /\ Uids(Renew(x, m)) = Uids(x)
  BY <1>7 DEF Usable, Uids, MayRedo
<1> QED BY <1>4, <1>7, <1>8

LEMMA NextTyped ==
    ASSUME NEW x, Usable(x), x.index < Len(x.plan)
    PROVE  /\ Next1(x) \in Session /\ Usable(Next1(x)) /\ Uids(Next1(x)) = Uids(x)
           /\ Next1(x).op = x.op /\ Next1(x).plan = x.plan /\ Next1(x).data = x.data
           /\ Next1(x).index = x.index + 1 /\ Next1(x).redo = x.redo
           /\ Next1(x).state = x.state
<1>1. x \in Session /\ x.plan \in Plans
  BY UsableIs DEF Usable
<1>2. x.index + 1 \in DOMAIN x.plan /\ x.index \in Nat
  BY <1>1, PlanIs DEF Usable
<1>3. /\ Next1(x) \in Session /\ Next1(x).op = x.op /\ Next1(x).plan = x.plan
      /\ Next1(x).data = x.data /\ Next1(x).index = x.index + 1 /\ Next1(x).redo = x.redo
      /\ Next1(x).state = x.state
  BY <1>1, <1>2 DEF Next1, Session
<1> QED BY <1>2, <1>3 DEF Usable, Uids

(* The steps of Receive on a session: it ends, it waits for the data of    *)
(* its other users, or it computes (again, or for the next user).          *)
Turned(s, id, x, m) ==
    \/ Release(s, id)
    \/ /\ x.state = "query" /\ m.kind = "query" /\ m.result = "success" /\ m.uid \in Uids(x)
       /\ IF DOMAIN Filled(x, m).data = Uids(x)
          THEN OnQuerySuccess(s, id, Filled(x, m))
          ELSE Becomes(s, id, Filled(x, m)) /\ req' = req
    \/ /\ x.state = "save" /\ m.kind = "save" /\ m.result = "diff" /\ MayRedo(x)
       /\ m.uid \in Uids(x) /\ OnQuerySuccess(s, id, Renew(x, m))
    \/ /\ x.state = "save" /\ Succeeded(m) /\ x.index < Len(x.plan)
       /\ OnQuerySuccess(s, id, Next1(x))
Told(x, m) ==
    \/ /\ UNCHANGED <<saved, refused>>
       /\ x.state = "query" \/ (m.result = "diff" /\ MayRedo(x) /\ m.uid \in Uids(x))
    \/ /\ x.state = "save" /\ Succeeded(m)
       /\ saved' = saved \cup {<<x.op, Cur(x)>>} /\ refused' = refused
    \/ /\ x.state = "save" /\ ~ Succeeded(m)
       /\ ~ (m.result = "diff" /\ MayRedo(x) /\ m.uid \in Uids(x))
       /\ refused' = refused \cup {<<x.op, Cur(x)>>} /\ saved' = saved

LEMMA ReceiveIs ==
    ASSUME NEW s \in Svr, NEW u \in Uid, Receive(s, u), RspTyped, SessTyped
    PROVE  \E m \in Response :
              /\ m = Head(rsp[s][u]) /\ Read(s, u)
              /\ UNCHANGED <<db, vmap, curId, nop, applied, mix, faults>>
              /\ IF m.id \notin DOMAIN sess[s] THEN UNCHANGED <<sess, req, saved, refused>>
                 ELSE Turned(s, m.id, sess[s][m.id], m) /\ Told(sess[s][m.id], m)
<1>1. Read(s, u) /\ UNCHANGED <<db, vmap, curId, nop, applied, mix, faults>>
  BY DEF Receive, Read
<1>2. PICK m \in Response : m = Head(rsp[s][u])
  BY <1>1, ReadIs
<1>3. CASE m.id \notin DOMAIN sess[s]
  <2>1. UNCHANGED <<sess, req, saved, refused>>
    BY <1>2, <1>3 DEF Receive, ends
  <2> QED BY <1>1, <1>2, <1>3, <2>1
<1>4. CASE m.id \in DOMAIN sess[s]
  <2>1. PICK id : id = m.id
    OBVIOUS
  <2>2. PICK x : x = sess[s][id]
    OBVIOUS
  <2>3. /\ x.state = "query" => QueryResponse(s, id, x, m)
        /\ x.state # "query" => SaveResponse(s, id, x, m)
    BY <1>2, <1>4, <2>1, <2>2 DEF Receive
  <2>4. x \in Session /\ x.data \in PFun(Uid, Datas)
    BY <1>4, <2>1, <2>2, UsableIs DEF SessTyped, Usable
  <2>5. CASE x.state = "query"
    <3>1. Told(x, m)
      BY <2>3, <2>5 DEF QueryResponse, Told, ends
    <3>2. Filled(x, m) = [x EXCEPT !.data = With(@, m.uid, m.datas)]
      BY <2>4 DEF Filled, Session
    <3>3. Turned(s, id, x, m)
      BY <2>3, <2>5, <3>2 DEF QueryResponse, Turned, Becomes
    <3> QED BY <1>1, <1>2, <1>4, <2>1, <2>2, <3>1, <3>3
  <2>6. CASE x.state = "save"
    <3>1. SaveResponse(s, id, x, m)
      BY <2>3, <2>6
    <3>2. CASE Succeeded(m)
      <4>1. /\ saved' = saved \cup {<<x.op, Cur(x)>>} /\ refused' = refused
            /\ IF x.index < Len(x.plan) THEN OnQuerySuccess(s, id, [x EXCEPT !.index = @ + 1])
                                        ELSE Release(s, id)
        BY <3>1, <3>2 DEF SaveResponse, OnSaveSuccess, Cur
      <4>2. Next1(x) = [x EXCEPT !.index = @ + 1]
        BY <2>4 DEF Next1, Session
      <4>3. Turned(s, id, x, m)
        BY <2>6, <3>2, <4>1, <4>2 DEF Turned
      <4>4. Told(x, m)
        BY <2>6, <3>2, <4>1 DEF Told
      <4> QED BY <1>1, <1>2, <1>4, <2>1, <2>2, <4>3, <4>4
    <3>3. CASE ~ Succeeded(m) /\ m.result = "diff" /\ MayRedo(x) /\ m.uid \in Uids(x)
      <4>1. OnQuerySuccess(s, id, Renew(x, m)) /\ UNCHANGED <<saved, refused>>
        BY <3>1, <3>3 DEF SaveResponse, ends
      <4>2. m.kind = "save"
        BY <3>3 DEF Succeeded
      <4>3. Turned(s, id, x, m)
        BY <2>6, <3>3, <4>1, <4>2 DEF Turned
      <4>4. Told(x, m)
        BY <3>3, <4>1 DEF Told
      <4> QED BY <1>1, <1>2, <1>4, <2>1, <2>2, <4>3, <4>4
    <3>4. CASE ~ Succeeded(m) /\ ~ (m.result = "diff" /\ MayRedo(x) /\ m.uid \in Uids(x))
      <4>1. /\ refused' = refused \cup {<<x.op, Cur(x)>>} /\ saved' = saved
            /\ Release(s, id)
        BY <3>1, <3>4 DEF SaveResponse, OnSaveFailed, Cur
      <4>2. Turned(s, id, x, m)
        BY <4>1 DEF Turned
      <4>3. Told(x, m)
        BY <2>6, <3>4, <4>1 DEF Told
      <4> QED BY <1>1, <1>2, <1>4, <2>1, <2>2, <4>2, <4>3
    <3> QED BY <3>2, <3>3, <3>4
  <2> QED BY <2>4, <2>5, <2>6 DEF Session
<1> QED BY <1>3, <1>4

LEMMA TurnedTyped ==
    ASSUME TInv, NEW s \in Svr, NEW id \in DOMAIN sess[s], NEW x, x = sess[s][id],
           NEW m \in Response, Turned(s, id, x, m), UNCHANGED <<curId, nop, mix>>
    PROVE  SessTyped' /\ ReqTyped' /\ SaveTyped'
<1>1. Usable(x) /\ Placed(x) /\ x \in Session
  BY DEF TInv, SessTyped, Usable
<1>2. CASE Release(s, id)
  <2>1. SessTyped'
    BY <1>2, ReleaseTyped DEF TInv
  <2>2. req' = req
    BY <1>2 DEF Release
  <2> QED BY <2>1, <2>2, SaveTypedSame, PathSplit DEF TInv, ReqTyped
<1>3. CASE m.uid \in Uids(x) /\ DOMAIN Filled(x, m).data # Uids(x) /\ x.state = "query"
           /\ Becomes(s, id, Filled(x, m)) /\ req' = req
  <2>1. PICK z : z = Filled(x, m)
    OBVIOUS
  <2>2. /\ z \in Session /\ Usable(z) /\ Uids(z) = Uids(x)
        /\ z.index = x.index /\ z.state = x.state
    BY <1>1, <1>3, <2>1, FilledTyped
  <2>3. Placed(z)
    BY <1>1, <1>3, <2>1, <2>2 DEF Placed
  <2>4. SessTyped'
    BY <1>3, <2>1, <2>2, <2>3, GoesOnTyped DEF TInv
  <2> QED BY <1>3, <2>4, SaveTypedSame, PathSplit DEF TInv, ReqTyped
<1>4. CASE \E z : Usable(z) /\ DOMAIN z.data = Uids(z) /\ OnQuerySuccess(s, id, z)
  <2>1. PICK z : Usable(z) /\ DOMAIN z.data = Uids(z) /\ OnQuerySuccess(s, id, z)
    BY <1>4
  <2> QED BY <2>1, SuccessTyped DEF ReqTyped, Requests
<1>5. CASE m.uid \in Uids(x) /\ DOMAIN Filled(x, m).data = Uids(x)
           /\ OnQuerySuccess(s, id, Filled(x, m))
  BY <1>1, <1>4, <1>5, FilledTyped
<1>6. CASE x.state = "save" /\ MayRedo(x) /\ m.uid \in Uids(x)
           /\ OnQuerySuccess(s, id, Renew(x, m))
  <2>1. DOMAIN x.data = Uids(x)
    BY <1>1, <1>6 DEF Placed
  <2> QED BY <1>1, <1>4, <1>6, <2>1, RenewTyped
<1>7. CASE x.state = "save" /\ x.index < Len(x.plan) /\ OnQuerySuccess(s, id, Next1(x))
  <2>1. DOMAIN x.data = Uids(x)
    BY <1>1, <1>7 DEF Placed
  <2> QED BY <1>1, <1>4, <1>7, <2>1, NextTyped
<1> QED BY <1>2, <1>3, <1>5, <1>6, <1>7 DEF Turned

LEMMA ToldTyped ==
    ASSUME EndsTyped, NEW x, Usable(x), NEW m, Told(x, m), UNCHANGED <<nop, applied>>
    PROVE  EndsTyped'
<1>1. <<x.op, Cur(x)>> \in (1 .. nop) \X Uid
  BY UsableIs DEF Usable, Cur
<1> QED BY <1>1 DEF Told, EndsTyped

LEMMA ReceiveTyped ==
    ASSUME TInv, NEW s \in Svr, NEW u \in Uid, Receive(s, u) PROVE TInv'
<1>1. RspTyped /\ SessTyped /\ Counted /\ SaveTyped /\ EndsTyped
  BY PathSplit DEF TInv
<1>2. PICK m \in Response :
              /\ m = Head(rsp[s][u]) /\ Read(s, u)
              /\ UNCHANGED <<db, vmap, curId, nop, applied, mix, faults>>
              /\ IF m.id \notin DOMAIN sess[s] THEN UNCHANGED <<sess, req, saved, refused>>
                 ELSE Turned(s, m.id, sess[s][m.id], m) /\ Told(sess[s][m.id], m)
  BY <1>1, ReceiveIs
<1>3. RspTyped' /\ Counted' /\ StoreTyped'
  BY <1>1, <1>2, ReadIs, CountedSame DEF TInv, StoreTyped
<1>4. SessTyped' /\ ReqTyped' /\ SaveTyped' /\ EndsTyped'
  <2>1. CASE m.id \notin DOMAIN sess[s]
    <3>1. UNCHANGED <<sess, req, saved, refused>>
      BY <1>2, <2>1
    <3>2. SessTyped'
      BY <1>1, <1>2, <3>1 DEF SessTyped, Usable, Placed, Uids
    <3>3. SaveTyped'
      BY <1>1, <1>2, <3>1, SaveTypedSame
    <3> QED BY <1>1, <1>2, <3>1, <3>2, <3>3, PathSplit DEF TInv, ReqTyped, EndsTyped
  <2>2. CASE m.id \in DOMAIN sess[s]
    <3>1. PICK id \in DOMAIN sess[s] : id = m.id
      BY <2>2
    <3>2. PICK x : x = sess[s][id]
      OBVIOUS
    <3>3. Turned(s, id, x, m) /\ Told(x, m)
      BY <1>2, <2>2, <3>1, <3>2
    <3>4. SessTyped' /\ ReqTyped' /\ SaveTyped'
      BY <1>2, <3>2, <3>3, TurnedTyped
    <3>5. EndsTyped'
      <4>1. Usable(x)
        BY <1>1, <3>2 DEF SessTyped
      <4> QED BY <1>1, <1>2, <3>3, <4>1, ToldTyped
    <3> QED BY <3>4, <3>5
  <2> QED BY <2>1, <2>2
<1> QED BY <1>3, <1>4, PathSplit DEF TInv, ReqTyped, RspTyped, PathTyped, Requests

LEMMA StutterTyped == ASSUME TInv, UNCHANGED vars PROVE TInv'
<1>1. SessTyped'
  BY DEF TInv, SessTyped, Usable, Placed, Uids, vars, ends
<1>2. SaveTyped' /\ Counted'
  BY SaveTypedSame, CountedSame DEF TInv, vars, ends
<1> QED BY <1>1, <1>2 DEF TInv, StoreTyped, PathTyped, EndsTyped, vars, ends

LEMMA StepTyped == ASSUME TInv, [Next]_vars PROVE TInv'
<1>1. ASSUME NEW s \in Svr, QueryAllData(s) \/ TimeOut(s) \/ Stop(s) \/ Kill(s) PROVE TInv'
  BY <1>1, QueryAllTyped, TimeOutTyped, StopTyped, KillTyped
<1>2. ASSUME NEW s \in Svr, NEW u \in Uid, Receive(s, u) \/ Serve(s, u) \/ Lose(s, u)
      PROVE  TInv'
  BY <1>2, ReceiveTyped, ServeTyped, LoseTyped
<1>3. CASE DbRestart \/ VersionExpire
  BY <1>3, DbRestartTyped, VersionExpireTyped
<1> QED BY <1>1, <1>2, <1>3, StutterTyped DEF Next

LEMMA TypesHold == ASSUME TInv PROVE TypeOK
<1>1. /\ Counted /\ StoreTyped /\ SessTyped /\ EndsTyped
  BY DEF TInv
<1>2. ASSUME NEW u \in Uid
      PROVE  /\ \A k \in Key : db[u][k].ver \in Nat /\ db[u][k].val \in Seq(Op)
             /\ DOMAIN vmap[u] \subseteq Key
             /\ \A k \in DOMAIN vmap[u] : vmap[u][k] \in Cached
  <2>1. db[u] \in [Key -> Rec] /\ vmap[u] \in PFun(Key, Cached)
    BY <1>1 DEF StoreTyped
  <2>2. vmap[u] \in [DOMAIN vmap[u] -> Cached] /\ DOMAIN vmap[u] \in SUBSET Key
    BY <2>1, PFunOut
  <2> QED BY <2>1, <2>2 DEF Rec
<1>3. ASSUME NEW s \in Svr, NEW id \in DOMAIN sess[s]
      PROVE  LET x == sess[s][id]
             IN  /\ x.op \in 1 .. nop /\ x.plan \in mix.plans /\ x.index \in DOMAIN x.plan
                 /\ x.redo < MaxRedo
                 /\ x.state = "query" => x.index = 1 /\ DOMAIN x.data # Uids(x)
                 /\ x.state = "save" => DOMAIN x.data = Uids(x)
  BY <1>1 DEF SessTyped, Usable, Placed
<1>4. \A s \in Svr : curId[s] \in 0 .. nop
  BY <1>1 DEF SessTyped
<1> QED BY <1>1, <1>2, <1>3, <1>4 DEF TypeOK, EndsTyped

(* In every state the tables, sessions and messages have their types, a    *)
(* session that waits for its data has not all of it and one that saves    *)
(* has, no session computes again more often than EN_Max_DB_Redo_Time      *)
(* allows, and only handler executions that were started leave traces:     *)
(* whatever is lost, restarted or fails.                                   *)
THEOREM TypeCorrect == Spec => []TypeOK
<1>1. Init => TInv
  BY InitTyped
<1>2. TInv /\ [Next]_vars => TInv'
  BY StepTyped
<1>3. TInv => TypeOK
  BY TypesHold
<1> QED BY <1>1, <1>2, <1>3, PTL DEF Spec
=============================================================================
