----------------------------- MODULE GameServer -----------------------------
(***************************************************************************)
(* What the two games of the server svr/lipsticksvr share: the server's    *)
(* queue of messages, its timers and the sessions that charge and pay the  *)
(* players.  The games are in LipstickMachine and H5Game.                  *)
(*                                                                         *)
(* The server is one thread that takes messages from one queue: requests   *)
(* of clients and of the web, answers of the data servers, and the         *)
(* messages it sends itself, among them those of expired timers.  A        *)
(* handler that needs a player's records asks a data server for them and   *)
(* goes on when the answer comes, on whatever the game has become by then. *)
(*                                                                         *)
(* The data servers keep a record's versions as DbSession has them and     *)
(* serve the requests about one user in order, and their answers arrive in *)
(* that order: answering and arriving are one step.  Time is left out: a   *)
(* timer may expire at any moment, so RefreshTimer, which puts a timer off *)
(* by a second, changes nothing.  What the player consumed and the chances *)
(* computed from it are left out too: what depends on them may go either   *)
(* way.  A game costs one coin.                                            *)
(***************************************************************************)
EXTENDS Naturals, Sequences, FiniteSets, FiniteSetsExt

CONSTANTS Player,       \* the players
          NoOne,        \* player_id of a machine nobody has logged in on
          Other,        \* the records of a machine and of its promoter
          Gold,         \* gold a player has at first
          MaxRedo,      \* EN_Max_DB_Redo_Time
          MaxRetry,     \* max_retry_time: lives that may be bought in a game
          Mixes,        \* bound: requests that may be sent, by kind; none if absent
          MaxPending    \* bound on messages and sessions a new request may meet

ASSUME PlayerAssumption ==
    IsFiniteSet(Player) /\ NoOne \notin Player /\ Other \notin Player \cup {NoOne}
ASSUME BoundAssumption == Gold \in Nat /\ MaxRedo \in Nat \ {0} /\ MaxPending \in Nat
ASSUME RetryAssumption == MaxRetry \in Nat
ASSUME MixAssumption == \A m \in Mixes : \A k \in DOMAIN m : m[k] \in Nat

VARIABLES obj,      \* the object the game is played on: a Machine, in H5 a Player
          timers,   \* TimerManager: the live timers and the messages they send
          queue,    \* _pmsg_pipe: messages to dispatch, oldest first
          sess,     \* session_id -> session waiting for answers
          dbq,      \* requests on their way to the data servers, by user
          db,       \* the players' login, gold and prize records
          left,     \* bound: requests that may still be sent, by kind
          conn,     \* the latest connection of the game's client
          games,    \* history: games started
          retries,  \* history: lives bought
          crashed   \* a handler used an object that is not there

counts == <<games, retries>>
vars == <<obj, timers, queue, sess, dbq, db, left, conn, counts, crashed>>

Uid == Player \cup {NoOne, Other}

(* DBBaseInfo, DBGoldInfo and DBPrizeInfo: gold, the buy-in at an arcade   *)
(* machine (whether there is one and what is left of it), gold consumed;   *)
(* the prizes.  For the properties they also say which games were refunded *)
(* and which won what.                                                     *)
Account(g) ==
    [base  |-> [ver |-> 0],
     gold  |-> [ver |-> 0, gold |-> g, held |-> FALSE, bet |-> 0, spent |-> 0, refunded |-> << >>],
     prize |-> [ver |-> 0, won |-> << >>]]

(* Init but for obj.                                                       *)
Starts == /\ timers = {} /\ queue = << >> /\ sess = << >>
          /\ dbq = [u \in Uid |-> << >>]
          /\ db = [u \in Uid |-> Account(IF u \in Player THEN Gold ELSE 0)]
          /\ left \in Mixes
          /\ conn = 1
          /\ games = 0 /\ retries = 0
          /\ crashed = FALSE

Pending == Len(queue) + Cardinality(DOMAIN sess)

Spend(k) == /\ ~crashed
            /\ Pending <= MaxPending
            /\ k \in DOMAIN left /\ left[k] > 0
            /\ left' = [left EXCEPT ![k] = @ - 1]

Without(f, i) == [j \in DOMAIN f \ {i} |-> f[j]]

-----------------------------------------------------------------------------
(* The queue and the timers.  A timer's message names the state it ends.   *)

Post(q) == queue' = q
Sends(ms) == Post(Tail(queue) \o ms)
Quiet == Sends(<< >>)

Timeout(st) == [k |-> "timeout", state |-> st]
GameRefund(p) == [k |-> "game_refund", p |-> p, game |-> games]

(* Mutant: the id is not looked up among the live timers.                  *)
FirstTimer(T) == 1

(* CreateTimer: an id that no live timer has and the object does not       *)
(* remember.                                                               *)
NewTimer(T) == CHOOSE i \in 1 .. Cardinality(T) + 2 :
                  i # obj.timer /\ \A t \in T : t.id # i
Release(T) == {t \in T : t.id # obj.timer}

(* Mutant: the object changes its state without a new timer.               *)
EnterUntimed(m, T, st) == obj' = [m EXCEPT !.state = st] /\ timers' = T

(* The game goes to state st with a timer of its own; with the timers T    *)
(* that are left when the handler creates it.                              *)
Enter(m, T, st) ==
    /\ obj' = [m EXCEPT !.state = st, !.timer = NewTimer(T)]
    /\ timers' = T \cup {[id |-> NewTimer(T), msg |-> Timeout(st)]}

Stay == UNCHANGED <<obj, timers>>

-----------------------------------------------------------------------------
(* Sessions.                                                               *)

InUse == DOMAIN sess \cup (UNION {{dbq[u][i].id : i \in DOMAIN dbq[u]} : u \in Uid})
         \cup {queue[i].id : i \in {j \in DOMAIN queue : queue[j].k = "answer"}}
NewId == CHOOSE i \in 1 .. Cardinality(InUse) + 1 : i \notin InUse

(* AddQueryKey and SendQueryToDBProxy.                                     *)
Query(id, U) == dbq' = [u \in Uid |-> IF u \in U THEN Append(dbq[u], [id |-> id, op |-> "query"])
                                                 ELSE dbq[u]]

(* CreateSession; the handler asks for the records of U.                   *)
Ask(m, p, U) ==
    /\ sess' = [i \in DOMAIN sess \cup {NewId} |->
                  IF i # NewId THEN sess[i]
                  ELSE [req |-> m, p |-> p, save |-> FALSE, wait |-> U, redo |-> 0,
                        rec |-> Account(0)]]
    /\ Query(NewId, U)

(* The message's session ends with its handler.                            *)
Done == UNCHANGED <<sess, dbq>>

(* The session ends after an answer.                                       *)
End(id) == sess' = Without(sess, id) /\ UNCHANGED dbq

(* SendSaveToDBProxy: the records K of x.p, their versions counted up.     *)
Save(id, x, K, new) ==
    /\ dbq' = [dbq EXCEPT ![x.p] =
                 Append(@, [id |-> id, op |-> "save",
                            rec |-> [k \in K |-> [new[k] EXCEPT !.ver = @ + 1]]])]
    /\ sess' = [sess EXCEPT ![id] = [x EXCEPT !.save = TRUE, !.wait = {x.p}]]

-----------------------------------------------------------------------------
(* What reaches the server, and what the data servers do.                  *)

ClientSend(k) ==
    /\ Spend(k)
    /\ \E b \in IF k \in {"end", "buy"} THEN BOOLEAN ELSE {FALSE} :
          Post(Append(queue, [k |-> k, conn |-> conn, yes |-> b]))
    /\ UNCHANGED <<obj, timers, sess, dbq, db, conn, counts, crashed>>

(* SessionManager::CheckTimeOut.                                           *)
TimeOut == /\ Spend("late")
           /\ \E id \in DOMAIN sess : sess' = Without(sess, id)
           /\ UNCHANGED <<obj, timers, queue, dbq, db, conn, counts, crashed>>

(* TimerManager::Tick: a timer expires.                                    *)
Tick == /\ ~crashed
        /\ \E t \in timers : timers' = timers \ {t} /\ Post(Append(queue, t.msg))
        /\ UNCHANGED <<obj, sess, dbq, db, left, conn, counts, crashed>>

(* HandlerSave::OnMessage: all records are one version ahead.              *)
Fits(old, rec) == \A k \in DOMAIN rec : rec[k].ver = old[k].ver + 1

(* A data server serves the next request about user u and answers with the *)
(* records asked for.                                                      *)
Serve(u) ==
    LET r  == Head(dbq[u])
        ok == r.op = "save" => Fits(db[u], r.rec)
    IN  /\ ~crashed
        /\ dbq[u] # << >>
        /\ dbq' = [dbq EXCEPT ![u] = Tail(@)]
        /\ db' = IF r.op = "save" /\ ok
                 THEN [db EXCEPT ![u] = [k \in DOMAIN @ |->
                                           IF k \in DOMAIN r.rec THEN r.rec[k] ELSE @[k]]]
                 ELSE db
        /\ Post(Append(queue, [k |-> "answer", id |-> r.id, u |-> u, ok |-> ok,
                               rec |-> [k \in DOMAIN db[u] |->
                                          IF r.op = "query" \/ k \in DOMAIN r.rec
                                          THEN db[u][k] ELSE Account(0)[k]]]))
        /\ UNCHANGED <<obj, timers, sess, left, conn, counts, crashed>>

-----------------------------------------------------------------------------
(* MessageHandlerBase::Process with an answer m.                           *)

(* Mutant: every answer to a save counts as a success.                     *)
Always(m) == TRUE

Succeeded(m) == m.ok

(* What the handler does next, and its session x then.  The answers to a   *)
(* query are collected until all users' are there.                         *)
QueryAnswer(m, x) ==
    LET rest == x.wait \ {m.u}
    IN  [next |-> IF rest = {} THEN "query" ELSE "wait",
         x |-> [x EXCEPT !.wait = rest, !.rec = IF m.u = x.p THEN m.rec ELSE @]]

(* A save refused for a version is computed again on what is there now.    *)
SaveAnswer(m, x) ==
    IF Succeeded(m) THEN [next |-> "save", x |-> x]
    ELSE [next |-> IF x.redo + 1 < MaxRedo THEN "query" ELSE "end",
          x |-> [x EXCEPT !.save = FALSE, !.redo = @ + 1, !.rec = m.rec]]

(* MessageHandlerBase::Process; the session may be gone.                   *)
Process(m) ==
    IF m.id \notin DOMAIN sess THEN [next |-> "none"]
    ELSE LET x == sess[m.id] IN IF x.save THEN SaveAnswer(m, x) ELSE QueryAnswer(m, x)

(* The handler does not go on: there is no session, it waits for other     *)
(* answers, or it has done its save too often.                             *)
Rests(id, a) ==
    /\ \/ a.next = "none" /\ Done
       \/ a.next = "wait" /\ sess' = [sess EXCEPT ![id] = a.x] /\ UNCHANGED dbq
       \/ a.next = "end"  /\ End(id)
    /\ Stay /\ UNCHANGED <<counts, crashed>>

(* The handler uses an object that is not there.                           *)
Crashes == crashed' = TRUE /\ Stay /\ Done /\ UNCHANGED counts

-----------------------------------------------------------------------------
(* What the handlers of both games do with the data.                       *)

(* DataCommon::PlayerAddPrize, which also adds up the prizes' worth.       *)
Won == {"gold", "prize"}
Win(rec, w) == [rec EXCEPT !.prize.won = Append(@, <<w, games>>)]

(* HandlerLottery: what it drew, a prize or gold.  (A prize of points,     *)
(* which asks the web to pay each time the save is made again, is left     *)
(* out.)                                                                   *)
QueryLottery(id, x) ==
    /\ Stay
    /\ IF obj.state # "wait_lottery" THEN End(id)
       ELSE IF x.req.yes THEN Save(id, x, Won, Win(x.rec, "lottery"))
       ELSE Save(id, x, {"gold"}, [x.rec EXCEPT !.gold.gold = @ + 1])

(* HandlerGameRefund and DataCommon::PlayerAddGold.                        *)
QueryGameRefund(id, x) ==
    /\ Stay
    /\ Save(id, x, {"gold"},
            [x.rec EXCEPT !.gold.gold = @ + 1,
                          !.gold.spent = IF @ = 0 THEN 0 ELSE @ - 1,
                          !.gold.refunded = Append(@, x.req.game)])

(* HandlerLogout, and a login's save of where its player or machine is.    *)
QueryBase(id, x) == Stay /\ Save(id, x, {"base"}, x.rec)

(* HandlerStartGame, HandlerRetryGame and their like in H5: the coin is    *)
(* paid and the game, or one more life of it, counts.                      *)
Count(from) == /\ games' = games + IF from = "wait_start" THEN 1 ELSE 0
               /\ retries' = retries + IF from = "wait_end" THEN 1 ELSE 0

-----------------------------------------------------------------------------
(* Properties.                                                             *)

(* Records count in natural numbers, no two live timers have one id, and a *)
(* session waits for somebody and is not done again without end.           *)
ServerTypeOK ==
    /\ obj.on \in BOOLEAN
    /\ \A s, t \in timers : s.id = t.id => s = t
    /\ \A u \in Uid : db[u].gold.gold \in Nat /\ db[u].gold.bet \in Nat
    /\ sess # << >> => \A i \in DOMAIN sess : sess[i].wait # {} /\ sess[i].redo < MaxRedo

(* Who is paid for a game: the players with what they won in which game.   *)
Prizes == UNION {{<<p, i>> : i \in DOMAIN db[p].prize.won} : p \in Player}
Refunds == UNION {{<<p, i>> : i \in DOMAIN db[p].gold.refunded} : p \in Player}

(* Nobody's record ever has the same prize of the same game twice, however *)
(* requests, answers and timers interleave (a doubled end of a game, a     *)
(* save refused and done again, a kick in between, two players at the      *)
(* machine); unless a session times out between a prize's save and its     *)
(* answer (HandlerEndGame, HandlerLottery, HandlerBuyPrize).               *)
NobodyTwice ==
    \A p \in Player : \A i, j \in DOMAIN db[p].prize.won :
        db[p].prize.won[i] = db[p].prize.won[j] => i = j

(* In the browser, however they interleave, a game's prize is won at most  *)
(* once by playing, once by lottery and once by buying, and by one player  *)
(* (HandlerEndGameH5, HandlerLotteryH5, HandlerBuyPrizeH5); again unless a *)
(* session times out.  An arcade machine promises it to one player only:   *)
(* HandlerEndGame asks on the answer for the machine's state, not for      *)
(* whose game it is, so the end of a player who was kicked may also win    *)
(* the next player's game.                                                 *)
OnePrize == \A a, b \in Prizes : db[a[1]].prize.won[a[2]] = db[b[1]].prize.won[b[2]] => a = b

(* An unfinished game is given back at most once, although a kick, a       *)
(* connection lost and the end's time-out all give it back                 *)
(* (HandlerEndTimeout, HandlerKickPlayer, LogoutMachine).                  *)
OneRefund ==
    \A a, b \in Refunds : db[a[1]].gold.refunded[a[2]] = db[b[1]].gold.refunded[b[2]] => a = b

(* Nobody plays for nothing: the games begun and the lives bought are at   *)
(* most the coins players spent, refunds included (HandlerStartGame and    *)
(* HandlerRetryGame begin only on a save that was made).                   *)
PaidFor ==
    games + retries <= MapThenSumSet(LAMBDA p : db[p].gold.spent + Len(db[p].gold.refunded), Player)

(* A message about a machine never finds a handler using a machine that    *)
(* has gone since it asked ("街机不在线", HandlerPlayerLogin::OnMessage).  *)
NoCrash == ~crashed

=============================================================================
