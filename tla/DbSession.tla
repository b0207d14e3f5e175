----------------------------- MODULE DbSession ------------------------------
(***************************************************************************)
(* How a logic server changes the stored data of a user                    *)
(* (common/message_handler_base.cpp, common/message_base.cpp,              *)
(* common/session_manager.cpp) and how a data server decides which changes *)
(* it accepts (svr/dbproxysvr).                                            *)
(*                                                                         *)
(* A handler runs in a session: it queries the records of each user it is  *)
(* about, computes on its copy, and sends back what it changed with the    *)
(* version it read plus one.  The data server keeps the current version of *)
(* every record it has served in memory and answers a save of another      *)
(* version with the new data, on which the handler computes again.         *)
(*                                                                         *)
(* Requests and answers travel through the proxies: those of one logic     *)
(* server about one user take one path and keep their order, others do     *)
(* not.  A proxy that cannot send drops what it holds; it keeps what it    *)
(* holds for a server that is down and delivers it to its successor.       *)
(***************************************************************************)
EXTENDS Naturals, SequencesExt, FiniteSets, FiniteSetsExt

CONSTANTS Svr,          \* the logic servers
          Uid,          \* the users
          Key,          \* kinds of record (PBDBKey), in the order of a request
          Garbage,      \* what the uninitialised local of HandlerSave may hold
          MaxRedo,      \* EN_Max_DB_Redo_Time
          Mixes         \* the bounds of the behaviours, see MixAssumption

ASSUME KeyAssumption == Key \subseteq Nat /\ IsFiniteSet(Key)
ASSUME RedoAssumption == MaxRedo \in Nat \ {0}

FaultKind == {"kill", "stop", "restart", "loss", "fail"}

(* Bounds of a behaviour: on the handler executions, on what they query    *)
(* (sequences of [uid, keys]) and on the faults of each kind.              *)
ASSUME MixAssumption ==
    \A m \in Mixes : m.op \in Nat /\ FaultKind \subseteq DOMAIN m
                     /\ \A f \in FaultKind : m[f] \in Nat
ASSUME PlanAssumption ==
    \A plan \in UNION {m.plans : m \in Mixes} :
        /\ plan \in Seq([uid : Uid, keys : SUBSET Key]) /\ plan # << >>
        /\ \A i, j \in DOMAIN plan : plan[i].uid = plan[j].uid => i = j

VARIABLES db,       \* LevelDB: version and value of each record
          vmap,     \* _version_map: per user, the records with a cached version
          sess,     \* per logic server: session_id -> session
          curId,    \* _cur_max_id of each SessionManager
          req, rsp, \* messages between a logic server and the data server, per user
          nop,      \* history: handler executions so far
          applied,  \* history: <<op, uid>> of which LevelDB took an update
          saved,    \* history: <<op, uid>> for which OnSaveSuccess was called
          refused,  \* history: <<op, uid>> for which OnSaveFailed was called
          mix,      \* the bounds of this behaviour, one of Mixes
          faults    \* faults so far, by kind

ends == <<saved, refused>>
vars == <<db, vmap, sess, curId, req, rsp, nop, applied, ends, mix, faults>>

NotStored == [ver |-> 0, val |-> << >>]

Fault(f, n) == /\ faults[f] + n <= mix[f]
               /\ faults' = [faults EXCEPT ![f] = @ + n]
               /\ UNCHANGED mix

Init == /\ db = [u \in Uid |-> [k \in Key |-> NotStored]]
        /\ vmap = [u \in Uid |-> << >>]
        /\ sess = [s \in Svr |-> << >>]
        /\ curId = [s \in Svr |-> 0]
        /\ req = [s \in Svr |-> [u \in Uid |-> << >>]]
        /\ rsp = [s \in Svr |-> [u \in Uid |-> << >>]]
        /\ nop = 0
        /\ applied = {} /\ saved = {} /\ refused = {}
        /\ mix \in Mixes
        /\ faults = [f \in FaultKind |-> 0]

Uids(x) == {x.plan[i].uid : i \in DOMAIN x.plan}
Without(f, i) == [j \in DOMAIN f \ {i} |-> f[j]]
With(f, i, x) == [j \in DOMAIN f \cup {i} |-> IF j = i THEN x ELSE f[j]]

-----------------------------------------------------------------------------
(* The logic server.                                                       *)

(* ReleaseSession(id).                                                     *)
Release(s, id) == /\ sess' = [sess EXCEPT ![s] = Without(@, id)]
                  /\ UNCHANGED req

(* A message creates a session (CreateSession) whose handler wants data:   *)
(* SendQueryToDBProxy asks for the records of each of its users.           *)
QueryAllData(s) ==
    \E plan \in mix.plans :
        LET id == curId[s] + 1
            x  == [op |-> nop + 1, state |-> "query", plan |-> plan, index |-> 1,
                   data |-> << >>, redo |-> 0]
        IN  /\ nop < mix.op
            /\ nop' = nop + 1
            /\ curId' = [curId EXCEPT ![s] = id]
            /\ sess' = [sess EXCEPT ![s] = With(@, id, x)]
            /\ req' = [req EXCEPT ![s] = [u \in Uid |->
                          IF u \in Uids(x)
                          THEN Append(@[u],
                                 [id |-> id, kind |-> "query",
                                  keys |-> UNION {plan[i].keys : i \in {j \in DOMAIN plan :
                                                                    plan[j].uid = u}}])
                          ELSE @[u]]]
            /\ UNCHANGED <<db, vmap, rsp, applied, ends, mix, faults>>

(* AddSaveData sends the version read plus one.                            *)
SameVersion(v) == v             \* mutant: the version is not counted up
NewVersion(v) == v + 1

(* The handler's OnQuerySuccess: on session x it updates the records W of  *)
(* the current user and saves them (SendSaveToDBProxy), or finds nothing   *)
(* to save and the session ends.  A record it has no copy of starts empty. *)
(* Computing again, a handler saves among the records it saved before (all *)
(* the session has a copy of): so do all the handlers of the servers.      *)
OnQuerySuccess(s, id, x) ==
    LET p == x.plan[x.index]
        u == p.uid
        copy(k) == IF k \in DOMAIN x.data[u] THEN x.data[u][k] ELSE NotStored
        may     == IF x.redo = 0 THEN p.keys ELSE p.keys \cap DOMAIN x.data[u]
        new(k)  == [ver |-> NewVersion(copy(k).ver), val |-> Append(copy(k).val, x.op)]
    IN  \/ Release(s, id)
        \/ \E W \in (SUBSET may) \ {{}} :
              /\ req' = [req EXCEPT ![s][u] =
                            Append(@, [id |-> id, kind |-> "save",
                                       datas |-> [k \in W |-> new(k)]])]
              /\ sess' = [sess EXCEPT ![s][id] =
                            [x EXCEPT !.state = "save",
                                      !.data[u] = [k \in DOMAIN @ \cup W |->
                                                     IF k \in W THEN new(k) ELSE @[k]]]]

(* MessageHandlerBase::QueryResponse.  An answer that is not of a query    *)
(* reads as one with no uid.                                               *)
QueryResponse(s, id, x, m) ==
    LET y == [x EXCEPT !.data = With(@, m.uid, m.datas)]
    IN  /\ UNCHANGED ends
        /\ IF m.kind # "query" \/ m.result # "success" \/ m.uid \notin Uids(x)
           THEN Release(s, id)
           ELSE IF DOMAIN y.data = Uids(x)
           THEN OnQuerySuccess(s, id, y)
           ELSE sess' = [sess EXCEPT ![s][id] = y] /\ UNCHANGED req

(* OnSaveSuccess, and ProcessNext for the handlers that go on with the     *)
(* next user's data.                                                       *)
OnSaveSuccess(s, id, x) ==
    /\ saved' = saved \cup {<<x.op, x.plan[x.index].uid>>}
    /\ UNCHANGED refused
    /\ IF x.index < Len(x.plan) THEN OnQuerySuccess(s, id, [x EXCEPT !.index = @ + 1])
                                ELSE Release(s, id)

OnSaveFailed(s, id, x) ==
    /\ refused' = refused \cup {<<x.op, x.plan[x.index].uid>>}
    /\ UNCHANGED saved
    /\ Release(s, id)

(* An answer that is not of a save reads as one with the default result,   *)
(* which is success.                                                       *)
NotFailed(m) == m.result # "failed"     \* mutant: no version check
Succeeded(m) == m.kind # "save" \/ m.result = "success"

RedoForEver(x) == TRUE                  \* mutant: no limit
MayRedo(x) == x.redo + 1 < MaxRedo

(* The new data of a refused save replaces all the session has of the user.*)
KeepCopy(x, m) == [x EXCEPT !.redo = @ + 1]     \* mutant: no new data
Renew(x, m) == [x EXCEPT !.redo = @ + 1, !.data[m.uid] = m.datas]

(* MessageHandlerBase::SaveResponse.                                       *)
SaveResponse(s, id, x, m) ==
    IF Succeeded(m) THEN OnSaveSuccess(s, id, x)
    ELSE IF m.result = "diff" /\ MayRedo(x) /\ m.uid \in Uids(x)
    THEN OnQuerySuccess(s, id, Renew(x, m)) /\ UNCHANGED ends
    ELSE OnSaveFailed(s, id, x)

(* OnServerMessage and Process: an answer finds its session by session_id. *)
Receive(s, u) ==
    LET m == Head(rsp[s][u])
        x == sess[s][m.id]
    IN  /\ rsp[s][u] # << >>
        /\ rsp' = [rsp EXCEPT ![s][u] = Tail(@)]
        /\ IF m.id \notin DOMAIN sess[s] THEN UNCHANGED <<sess, req, ends>>
           ELSE IF x.state = "query" THEN QueryResponse(s, m.id, x, m)
           ELSE SaveResponse(s, m.id, x, m)
        /\ UNCHANGED <<db, vmap, curId, nop, applied, mix, faults>>

(* CheckTimeOut: a session whose answer has not come for ten seconds.      *)
TimeOut(s) == /\ \E id \in DOMAIN sess[s] : Release(s, id)
              /\ UNCHANGED <<db, vmap, curId, rsp, nop, applied, ends, mix, faults>>

(* Stopped by its operator, a server leaves its sessions in shared memory  *)
(* and its successor finds them; ids go on from the largest of those.      *)
Stop(s) == /\ Fault("stop", 1)
           /\ curId' = [curId EXCEPT ![s] = Max(DOMAIN sess[s] \cup {0})]
           /\ UNCHANGED <<db, vmap, sess, req, rsp, nop, applied, ends>>

(* Killed, it leaves nothing.                                              *)
Kill(s) == /\ Fault("kill", 1)
           /\ curId' = [curId EXCEPT ![s] = 0]
           /\ sess' = [sess EXCEPT ![s] = << >>]
           /\ UNCHANGED <<db, vmap, req, rsp, nop, applied, ends>>

-----------------------------------------------------------------------------
(* The data server.                                                        *)

Answer(m, result, u, datas) ==
    [id |-> m.id, kind |-> m.kind, result |-> result, uid |-> u, datas |-> datas]

(* The failures sent before the answer, which is sent all the same.        *)
AnswersSaved(m, u, nfail, a) ==         \* mutant
    IF a.result = "diff" THEN << >> ELSE <<a>>
Answers(m, u, nfail, a) == [i \in 1 .. nfail |-> Answer(m, "failed", u, << >>)] \o <<a>>

(* LeveldbManager::Query caches the version of what it reads.              *)
Cache(u, K) == [vmap EXCEPT ![u] =
                  [k \in DOMAIN @ \cup K |->
                     IF k \in K THEN [ver |-> db[u][k].ver, stamped |-> TRUE] ELSE @[k]]]

(* Records K of u read, but for those LevelDB fails to read.               *)
ReadRecords(u, K) == [k \in K |-> db[u][k]]

(* HandlerQuery::OnMessage; bad are the records LevelDB fails to read.     *)
HandlerQuery(s, u, m) ==
    \E bad \in SUBSET m.keys :
        /\ Fault("fail", Cardinality(bad))
        /\ vmap' = Cache(u, m.keys \ bad)
        /\ rsp' = [rsp EXCEPT ![s][u] = @ \o
                     Answers(m, u, Cardinality(bad),
                             Answer(m, "success", u, ReadRecords(u, m.keys \ bad)))]
        /\ UNCHANGED <<db, applied>>

(* Not the version after the one cached.                                   *)
Newer(cached, new) == cached > new      \* mutant: equal versions pass
Differs(cached, new) == cached + 1 # new

(* LeveldbManager::Save counts the cached version up, from 0 if there is   *)
(* none.                                                                   *)
NoCount(u, K) == vmap                   \* mutant: the cache is not touched
CountUp(u, K) == [vmap EXCEPT ![u] =
                    [k \in DOMAIN @ \cup K |->
                       IF k \notin K THEN @[k]
                       ELSE IF k \in DOMAIN @ THEN [vmap[u][k] EXCEPT !.ver = @ + 1]
                       ELSE [ver |-> 1, stamped |-> FALSE]]]

(* HandlerSave::OnMessage.  The versions are compared in order up to the   *)
(* first that differs.  For a record that has no cached version a failure  *)
(* is sent and the comparison is made all the same, with whatever the      *)
(* local variable holds (message_handler_leveldb.cpp:33-40).               *)
HandlerSave(s, u, m) ==
    LET K       == DOMAIN m.datas
        missing == K \ DOMAIN vmap[u]
    IN  \E g \in [missing -> Garbage], bad \in SUBSET K :
        LET version(k) == IF k \in missing THEN g[k] ELSE vmap[u][k].ver
            diff   == {k \in K : Differs(version(k), m.datas[k].ver)}
            unseen == {k \in missing : \A j \in diff : k <= j}
            good   == K \ bad
            nfail  == Cardinality(unseen) + Cardinality(bad)
        IN  /\ Fault("fail", Cardinality(bad))
            /\ IF diff = {}
               THEN /\ applied' = applied \cup {<<Last(m.datas[k].val), u>> : k \in good}
                    /\ db' = [db EXCEPT ![u] = [k \in Key |->
                                IF k \in good THEN m.datas[k] ELSE @[k]]]
                    /\ vmap' = CountUp(u, good)
                    /\ rsp' = [rsp EXCEPT ![s][u] = @ \o
                                 Answers(m, u, nfail, Answer(m, "success", 0, << >>))]
               ELSE /\ vmap' = Cache(u, good)
                    /\ rsp' = [rsp EXCEPT ![s][u] = @ \o
                                 Answers(m, u, nfail, Answer(m, "diff", u, ReadRecords(u, good)))]
                    /\ UNCHANGED <<db, applied>>

Serve(s, u) ==
    LET m == Head(req[s][u])
    IN  /\ req[s][u] # << >>
        /\ req' = [req EXCEPT ![s][u] = Tail(@)]
        /\ IF m.kind = "query" THEN HandlerQuery(s, u, m) ELSE HandlerSave(s, u, m)
        /\ UNCHANGED <<sess, curId, nop, ends>>

(* The data server starts again: the records are there, the versions not.  *)
DbRestart == /\ Fault("restart", 1)
             /\ vmap' = [u \in Uid |-> << >>]
             /\ UNCHANGED <<db, sess, curId, req, rsp, nop, applied, ends>>

(* A session or a message that is about user u: none lasts a day.          *)
InUse(u) == \E s \in Svr : \/ \E id \in DOMAIN sess[s] : u \in Uids(sess[s][id])
                           \/ req[s][u] # << >> \/ rsp[s][u] # << >>

(* VersionExpire, once a day: a version not queried for a day, so not by   *)
(* any session that is still there.  A version that only a save has left   *)
(* has no time of a query and goes at once.                                *)
VersionExpire ==
    \E u \in Uid :
        LET gone == {k \in DOMAIN vmap[u] : vmap[u][k].stamped => ~InUse(u)}
        IN  /\ gone # {}
            /\ vmap' = [vmap EXCEPT ![u] = [k \in DOMAIN @ \ gone |-> @[k]]]
            /\ UNCHANGED <<db, sess, curId, req, rsp, nop, applied, ends, mix, faults>>

-----------------------------------------------------------------------------
(* A proxy drops a message it could not send.                              *)
Lose(s, u) ==
    /\ Fault("loss", 1)
    /\ \/ req[s][u] # << >> /\ req' = [req EXCEPT ![s][u] = Tail(@)] /\ UNCHANGED rsp
       \/ rsp[s][u] # << >> /\ rsp' = [rsp EXCEPT ![s][u] = Tail(@)] /\ UNCHANGED req
    /\ UNCHANGED <<db, vmap, sess, curId, nop, applied, ends>>

Next == \/ \E s \in Svr : QueryAllData(s) \/ TimeOut(s) \/ Stop(s) \/ Kill(s)
        \/ \E s \in Svr, u \in Uid : Receive(s, u) \/ Serve(s, u) \/ Lose(s, u)
        \/ DbRestart \/ VersionExpire

Spec == Init /\ [][Next]_vars

(* The servers' polling loops: what has arrived is served.                 *)
FairSpec == /\ Spec
            /\ \A s \in Svr, u \in Uid : WF_vars(Receive(s, u)) /\ WF_vars(Serve(s, u))

-----------------------------------------------------------------------------
Op == UNION {1 .. m.op : m \in Mixes}
Cached == [ver : Nat, stamped : BOOLEAN]

TypeOK ==
    /\ \A u \in Uid : /\ \A k \in Key : db[u][k].ver \in Nat /\ db[u][k].val \in Seq(Op)
                      /\ DOMAIN vmap[u] \subseteq Key
                      /\ \A k \in DOMAIN vmap[u] : vmap[u][k] \in Cached
    /\ \A s \in Svr : \A id \in DOMAIN sess[s] :
          LET x == sess[s][id]
          IN  /\ x.op \in 1 .. nop /\ x.plan \in mix.plans /\ x.index \in DOMAIN x.plan
              /\ x.redo < MaxRedo
              /\ x.state = "query" => x.index = 1 /\ DOMAIN x.data # Uids(x)
              /\ x.state = "save" => DOMAIN x.data = Uids(x)
    /\ \A s \in Svr : curId[s] \in 0 .. nop
    /\ UNION {applied, saved, refused} \subseteq (1 .. nop) \X Uid

(* Handlers of all the logic servers and the data server together do       *)
(* atomic updates of records: a save never overwrites a change its handler *)
(* has not seen.                                                           *)
atomic == INSTANCE AtomicStore
             WITH store <- [u \in Uid |-> [k \in Key |-> db[u][k].val]]

NoLostUpdate == atomic!Spec

(* No handler execution updates a record twice, whatever answers were lost *)
(* or late and however often it computed again: nobody pays or is paid     *)
(* twice for one request.                                                  *)
UpdatesOnce == \A u \in Uid, k \in Key : IsInjective(db[u][k].val)

(* A version in _version_map is the one of the stored record: what the     *)
(* data server checks a save against is never behind or ahead of LevelDB.  *)
CacheIsCurrent ==
    \A u \in Uid : \A k \in DOMAIN vmap[u] : vmap[u][k].ver = db[u][k].ver

(* A handler that is told its save succeeded was saved: it answers its     *)
(* client, starts a game or pays on the strength of that.                  *)
SavedIsApplied == saved \subseteq applied

(* A handler that is told its save failed was not saved, so that the error *)
(* its client sees is true.                                                *)
RefusedIsNotApplied == refused \cap applied = {}

(* The same while no logic server was started again, which may confuse its *)
(* sessions, and no call of LevelDB failed, which the data server reports  *)
(* as a failure and a success at once.                                     *)
Undisturbed == \A f \in {"kill", "stop", "fail"} : faults[f] = 0
AnswersAreTrue == Undisturbed => SavedIsApplied /\ RefusedIsNotApplied

(* A session computes again only because another one has changed its       *)
(* user's records meanwhile, once for each such change: with fewer rivals  *)
(* than the redo limit no handler is refused.                              *)
RedoIsEarned ==
    Undisturbed => \A s \in Svr : \A id \in DOMAIN sess[s] :
       LET x == sess[s][id]
       IN  x.redo <= Cardinality({a \in applied : a[2] \in Uids(x) /\ a[1] # x.op})

(* Without lost messages and crashes every handler comes to its end by the *)
(* answers alone, without CheckTimeOut.                                    *)
EverySessionEnds == <>[](nop = mix.op => \A s \in Svr : DOMAIN sess[s] = {})
=============================================================================
