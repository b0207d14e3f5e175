------------------------------ MODULE H5Proofs ------------------------------
(***************************************************************************)
(* The game in the browser for any number of players, any gold and any     *)
(* bounds: the player's state and the server's are well-formed, nobody is  *)
(* left in the middle of a game without a timer that ends it, and a game   *)
(* that is interrupted is given back, and not twice; no game is played for *)
(* nothing, and one game has one prize of each kind.                       *)
(***************************************************************************)
EXTENDS H5Game, GameServerProofs

H5States == {"wait_player", "wait_start", "wait_end", "wait_lottery", "lottery_end", "wait_buy"}
PlayerSet == [on : BOOLEAN, conn : Nat, player : Player, loaded : BOOLEAN, state : H5States,
              timer : Nat, can : BOOLEAN, tries : Nat]

(* What begins a handler: the requests and what the server sends itself,   *)
(* and the second half of a login.                                         *)
ClientMsg == [k : Client, conn : Nat, yes : BOOLEAN]
LoginMsg  == [k : {"login"}, conn : Nat]
KickMsg   == [k : {"kick"}]
LogoutMsg == [k : {"m_logout"}, p : Player]
RefundMsg == [k : {"game_refund"}, p : Player, game : Nat]
TimerMsg  == [k : {"timeout"}, state : H5States]
Promoter  == [k : {"login_promoter"}, conn : Nat, yes : BOOLEAN]
             \cup [k : {"login_promoter"}, conn : Nat]
Request   == ClientMsg \cup LoginMsg \cup KickMsg \cup LogoutMsg \cup RefundMsg \cup TimerMsg
             \cup Promoter

PlayerOK == /\ obj \in PlayerSet
            /\ ~obj.on => obj = Absent(obj.player)
            /\ obj.state # "wait_player" => obj.loaded

(* Whoever asks for something is a player.                                 *)
OwnersOK == \A i \in DOMAIN sess : sess[i].p \in Player

IInv == ServerOK(Request) /\ PlayerOK /\ OwnersOK

(* What a step does to the player, and to the sessions.                    *)
PlayerKept == TimersOK(Request)' /\ PlayerOK' /\ (Timed => Timed')
SessKept == SessOK(Request)' /\ dbq' \in [Uid -> Seq(Asked \cup Change)] /\ OwnersOK'

-----------------------------------------------------------------------------
(* Messages.                                                               *)

LEMMA RequestKinds ==
    /\ \A m \in Request : m.k # "answer"
    /\ \A m \in Request \cup AnswerMsg : m.k = "answer" <=> m \in AnswerMsg
    /\ \A m \in Request : m.k \in Client <=> m \in ClientMsg \cup LoginMsg
    /\ \A m \in Request : m.k = "kick" <=> m \in KickMsg
    /\ \A m \in Request : m.k = "m_logout" <=> m \in LogoutMsg
    /\ \A m \in Request : m.k = "game_refund" <=> m \in RefundMsg
    /\ \A m \in Request : m.k = "timeout" <=> m \in TimerMsg
  BY DEF Request, ClientMsg, LoginMsg, KickMsg, LogoutMsg, RefundMsg, TimerMsg, Promoter,
         AnswerMsg, Client

LEMMA OwnMessages ==
    ASSUME IInv
    PROVE  /\ \A st \in H5States : Timeout(st) \in Request
           /\ GameRefund(obj.player) \in Request
           /\ [k |-> "m_logout", p |-> obj.player] \in Request
  BY DEF IInv, PlayerOK, PlayerSet, ServerOK, CountsOK, Timeout, GameRefund,
         Request, TimerMsg, RefundMsg, LogoutMsg

-----------------------------------------------------------------------------
(* What a step does to the player.                                         *)

(* He stays in his state, and the message taken was not its time-out.      *)
LEMMA StateKeeps ==
    ASSUME IInv, queue # << >>, NEW ms \in Seq(Request), Sends(ms), Stay,
           obj.state \notin {"wait_player", "wait_start"} => Head(queue) # Timeout(obj.state)
    PROVE  PlayerKept
<1>1. ms \in Seq(Request \cup AnswerMsg) /\ queue \in Seq(Request \cup AnswerMsg)
  BY WidenSeq DEF IInv, ServerOK, QueueOK
<1>2. \A e \in Items(queue) : e = Head(queue) \/ e \in Items(queue')
  BY <1>1, SentKeeps
<1>3. Timed => Timed'
  BY <1>2 DEF Timed, Items, Stay, Timeout
<1> QED BY <1>3 DEF PlayerKept, IInv, ServerOK, TimersOK, PlayerOK, Stay

LEMMA QuietStays ==
    ASSUME IInv, queue # << >>, Quiet, Stay,
           obj.state \notin {"wait_player", "wait_start"} => Head(queue) # Timeout(obj.state)
    PROVE  PlayerKept
<1>1. << >> \in Seq(Request)
  OBVIOUS
<1> QED BY <1>1, StateKeeps DEF Quiet

(* He is in a state of its own timer.                                      *)
LEMMA EnterKeeps ==
    ASSUME IInv, NEW o \in PlayerSet, o.on, o.loaded, NEW T, TimersLike(T, Request),
           NEW st \in H5States, Enter(o, T, st)
    PROVE  PlayerKept
<1>1. Timeout(st) \in Request
  BY OwnMessages
<1>2. /\ TimersOK(Request)' /\ NewTimer(T) \in Nat
      /\ obj' = [o EXCEPT !.state = st, !.timer = NewTimer(T)]
      /\ [id |-> NewTimer(T), msg |-> Timeout(st)] \in timers'
  BY <1>1, EnteredOK
<1>3. obj' \in PlayerSet /\ obj'.on /\ obj'.loaded /\ obj'.state = st
  BY <1>2 DEF PlayerSet
<1>4. Timed'
  <2>1. \E t \in timers' : t.msg = Timeout(obj'.state)
    BY <1>2, <1>3
  <2> QED BY <2>1 DEF Timed
<1> QED BY <1>2, <1>3, <1>4 DEF PlayerKept, PlayerOK

(* He is not in the middle of a game.                                      *)
LEMMA FreeKeeps ==
    ASSUME TimersLike(timers', Request), obj' \in PlayerSet,
           obj'.state \in {"wait_player", "wait_start"},
           ~obj'.on => obj' = Absent(obj'.player), obj'.state # "wait_player" => obj'.loaded
    PROVE  PlayerKept
  BY SameTimers DEF PlayerKept, PlayerOK, Timed

LEMMA TheTimers ==
    ASSUME IInv
    PROVE  /\ TimersLike(timers, Request) /\ TimersLike(Release(timers), Request)
           /\ TimersLike(LogoutTimers, Request)
           /\ LogoutSends \in Seq(Request) /\ LogoutBase \in Seq(Request)
           /\ LogoutSends \o LogoutBase \in Seq(Request)
<1>1. TimersLike(timers, Request)
  BY SameTimers DEF IInv, ServerOK
<1>2. TimersLike(Release(timers), Request)
  BY <1>1, ReleasedTimers
<1>3. LogoutSends \in Seq(Request) /\ LogoutBase \in Seq(Request)
  BY OwnMessages DEF LogoutSends, LogoutBase
<1>4. LogoutSends \o LogoutBase \in Seq(Request)
  BY <1>3, ConcatOf
<1> QED BY <1>1, <1>2, <1>3, <1>4 DEF LogoutTimers

LEMMA RestartKeeps ==
    ASSUME IInv, obj.on, obj.loaded, NEW T, TimersLike(T, Request), NEW n \in Nat, Restart(T, n)
    PROVE  PlayerKept
<1>1. obj' \in PlayerSet /\ obj'.on /\ obj'.loaded /\ obj'.state = "wait_start" /\ timers' = T
  BY DEF Restart, IInv, PlayerOK, PlayerSet, H5States
<1> QED BY <1>1, FreeKeeps

LEMMA NextGameKeeps ==
    ASSUME IInv, obj.on, obj.loaded, NextGame
    PROVE  PlayerKept
<1>1. obj.timer \in Nat
  BY DEF IInv, PlayerOK, PlayerSet
<1> QED BY <1>1, TheTimers, RestartKeeps DEF NextGame

LEMMA LeaveKeeps ==
    ASSUME IInv, Leave
    PROVE  PlayerKept
<1>1. obj' \in PlayerSet /\ obj' = Absent(obj'.player) /\ obj'.state = "wait_player"
  BY DEF Leave, Absent, Online, IInv, PlayerOK, PlayerSet, H5States
<1> QED BY <1>1, TheTimers, FreeKeeps DEF Leave

-----------------------------------------------------------------------------
(* What a step does to the sessions.                                       *)

LEMMA DoneKeeps == ASSUME IInv, Done PROVE SessKept
  BY DEF IInv, Done, SessKept, ServerOK, SessOK, DbOK, OwnersOK

LEMMA AskKeeps ==
    ASSUME IInv, NEW m \in Request, NEW p \in Player, NEW U \in SUBSET Uid, U # {}, Ask(m, p, U)
    PROVE  SessKept
<1>1. SessOK(Request)' /\ dbq' \in [Uid -> Seq(Asked \cup Change)]
  BY AskedOK DEF IInv, ServerOK, Uid
<1>2. OwnersOK'
  BY DEF OwnersOK, IInv, Ask
<1> QED BY <1>1, <1>2 DEF SessKept

LEMMA EndKeeps == ASSUME IInv, NEW id, End(id) PROVE SessKept
<1>1. SessOK(Request)' /\ dbq' \in [Uid -> Seq(Asked \cup Change)]
  BY EndedOK DEF IInv, ServerOK, End, DbOK
<1>2. OwnersOK'
  BY DEF OwnersOK, IInv, End, Without
<1> QED BY <1>1, <1>2 DEF SessKept

LEMMA SaveKeeps ==
    ASSUME IInv, NEW id \in DOMAIN sess, NEW x \in Ready(Request), x.p = sess[id].p, Saves(id, x)
    PROVE  SessKept
<1>1. PICK K \in {{"gold"}, {"base"}, Won}, new \in Rec : Save(id, x, K, new)
  BY DEF Saves
<1>2. SessOK(Request)' /\ dbq' \in [Uid -> Seq(Asked \cup Change)]
  BY <1>1, SavedOK DEF IInv, ServerOK
<1>3. sess' = [sess EXCEPT ![id] = [x EXCEPT !.save = TRUE, !.wait = {x.p}]]
  BY <1>1 DEF Save
<1>4. [x EXCEPT !.save = TRUE, !.wait = {x.p}].p = sess[id].p
  BY DEF Ready
<1>5. OwnersOK'
  BY <1>3, <1>4 DEF OwnersOK, IInv
<1> QED BY <1>2, <1>5 DEF SessKept

-----------------------------------------------------------------------------
(* The handlers that go on with an answer.                                 *)

LEMMA StayWithAnswer ==
    ASSUME IInv, queue # << >>, Head(queue).k = "answer", Post(Tail(queue)), Stay
    PROVE  PlayerKept
<1>1. Tail(queue) \o << >> = Tail(queue)
  BY HeadTail DEF IInv, ServerOK, QueueOK
<1>2. Quiet /\ Head(queue) # Timeout(obj.state)
  BY <1>1 DEF Quiet, Sends, Post, Timeout
<1> QED BY <1>2, QuietStays

LEMMA QueryLoginKeeps ==
    ASSUME IInv, NEW id \in DOMAIN sess, NEW x \in Ready(Request), x.p = sess[id].p,
           x.req.k = "login", QueryLogin(id, x)
    PROVE  SessKept /\ AsksAgain(id, x)
<1>1. [x.req EXCEPT !.k = "login_promoter"] \in Request
  <2>1. x.req \in Request /\ x.req.k \in Client
    BY DEF Ready, Client
  <2>2. x.req \in ClientMsg \cup LoginMsg
    BY <2>1, RequestKinds
  <2> QED BY <2>2 DEF ClientMsg, LoginMsg, Promoter, Request
<1> DEFINE y == [x EXCEPT !.req.k = "login_promoter", !.wait = {Other}]
<1>2. y = [x EXCEPT !.req = [x.req EXCEPT !.k = "login_promoter"], !.wait = {Other}]
  BY DEF Ready
<1>3. y \in Waits(Request)
  BY <1>1, <1>2 DEF Ready, Waits, Uid
<1>4. sess' = [sess EXCEPT ![id] = y] /\ Query(id, {Other})
  BY DEF QueryLogin
<1>5. AsksAgain(id, x)
  <2>1. [x.req EXCEPT !.k = "login_promoter"].k \notin {"game_refund"} \cup Charges
    <3>1. \A r \in Request : [r EXCEPT !.k = "login_promoter"].k = "login_promoter"
      BY DEF Request, ClientMsg, LoginMsg, KickMsg, LogoutMsg, RefundMsg, TimerMsg, Promoter
    <3> QED BY <3>1 DEF Ready, Charges
  <2> DEFINE r == [x.req EXCEPT !.k = "login_promoter"]
  <2>2. sess' = [sess EXCEPT ![id] = [x EXCEPT !.req = r, !.wait = {Other}]]
        /\ r.k \notin {"game_refund"} \cup Charges
    BY <1>2, <1>4, <2>1
  <2>3. {Other} \in SUBSET Uid
    BY DEF Uid
  <2> HIDE DEF r, y
  <2> QED BY <1>4, <2>2, <2>3 DEF AsksAgain
<1>8. y.p = sess[id].p
  BY DEF Ready
<1> HIDE DEF y
<1>6. SessOK(Request)' /\ OwnersOK'
  <2>1. OwnersOK'
    BY <1>4, <1>8 DEF IInv, OwnersOK
  <2> QED BY <2>1, <1>3, <1>4, UpdatedOK DEF IInv, ServerOK
<1>7. id \in Nat
  BY DEF IInv, ServerOK, SessOK
<1> QED BY <1>4, <1>5, <1>6, <1>7, QueriedOK DEF IInv, ServerOK, SessKept

(* The handler ends, it saves, or a login goes on to the promoter.         *)
Taken(id, x) == End(id) \/ Saves(id, x) \/ (x.req.k = "login" /\ QueryLogin(id, x))

LEMMA NextGameCalm ==
    ASSUME IInv, games' = games, NextGame
    PROVE  Calm(<< >>)
<1>1. obj'.state = "wait_start"
  BY DEF NextGame, Restart, IInv, PlayerOK, PlayerSet
<1> QED BY <1>1 DEF NextGame, Restart, Release, Calm

LEMMA QueryKeeps ==
    ASSUME IInv, queue # << >>, Head(queue).k = "answer", Post(Tail(queue)), UNCHANGED counts,
           NEW id \in DOMAIN sess, NEW x \in Ready(Request), x.p = sess[id].p,
           obj.on \/ ~Uses(x.req.k, "query"), OnQuerySuccess(id, x)
    PROVE  PlayerKept /\ Calm(<< >>) /\ Taken(id, x)
<1> DEFINE Goal == PlayerKept /\ Calm(<< >>) /\ Taken(id, x)
<1>1. x.rec \in Rec /\ x.p \in Uid /\ x.req \in Request /\ games' = games
  BY DEF Ready, counts
<1>2. /\ CountsOK /\ TimersLike(Release(timers), Request) /\ Release(timers) \subseteq timers
  BY TheTimers DEF IInv, ServerOK, Release
<1>3. Stay => PlayerKept /\ Calm(<< >>)
  BY <1>1, StayWithAnswer, StayCalm
<1>4. ASSUME x.req.k \notin Charges
      PROVE  \A new \in Alike(x.rec), K \in {{"gold"}, {"base"}, Won} : Save(id, x, K, new) => Saves(id, x)
  <2>1. \A new \in Alike(x.rec) : new \in Banked(x.rec) /\ new \in Rec /\ new.gold.bet <= x.rec.gold.bet
    BY AlikeRecords DEF Alike, AlikeGold
  <2> QED BY <1>4, <2>1 DEF Saves
<1>5. \A n \in Nat : ~(x.rec.gold.gold < n) => Pay(x, n) \in Alike(x.rec)
  <2> TAKE n \in Nat
  <2>1. x.rec.gold.gold \in Nat
    BY <1>1, AccountRecords
  <2>2. ~(x.rec.gold.gold < n) => x.rec.gold.gold >= n
    BY <2>1
  <2> QED BY <1>1, <2>2, PaidRecord DEF Pay
<1> HIDE DEF Goal
<1>6. ASSUME PlayerKept /\ Calm(<< >>), End(id) \/ Saves(id, x) PROVE Goal
  BY <1>6 DEF Goal, Taken
<1>7. ASSUME x.req.k = "login", QueryLogin(id, x) PROVE Goal
  BY <1>3, <1>7 DEF QueryLogin, Goal, Taken
<1>8. ASSUME NEW st \in H5States, QueryCharge(id, x, st) PROVE Goal
  <2>1. ~(x.rec.gold.gold < 1) => Pay(x, 1) \in Alike(x.rec)
    BY <1>5, 1 \in Nat
  <2>2. Pay(x, 1).gold.spent > x.rec.gold.spent
    BY <1>1, ChargeRecord DEF Pay
  <2>3. Charged(x, {"gold"}, Pay(x, 1))
    BY <2>2 DEF Charged, IInv, OwnersOK
  <2>4. \A new \in Alike(x.rec) : new \in Banked(x.rec) /\ new \in Rec /\ new.gold.bet <= x.rec.gold.bet
    BY AlikeRecords DEF Alike, AlikeGold
  <2>5. ~(x.rec.gold.gold < 1) /\ Save(id, x, {"gold"}, Pay(x, 1)) => Saves(id, x)
    BY <2>1, <2>3, <2>4 DEF Saves
  <2> QED BY <1>3, <1>6, <1>8, <2>5 DEF QueryCharge
<1>9. ASSUME x.req.k = "end", QueryEnd(id, x) PROVE Goal
  <2>1. obj.on /\ obj \in PlayerSet
    BY <1>9 DEF Uses, IInv, PlayerOK
  <2>2. CASE obj.state # "wait_end"
    BY <1>3, <1>6, <1>9, <2>2 DEF QueryEnd
  <2>3. CASE obj.state = "wait_end"
    <3>1. obj.loaded
      BY <2>3 DEF IInv, PlayerOK
    <3>2. CASE NextGame /\ End(id)
      BY <1>1, <1>6, <2>1, <3>1, <3>2, NextGameKeeps, NextGameCalm
    <3>3. ASSUME NEW st \in {"wait_lottery", "wait_buy"}, Enter(obj, Release(timers), st), End(id)
          PROVE  Goal
      <4>1. PlayerKept
        BY <1>2, <2>1, <3>1, <3>3, EnterKeeps DEF H5States
      <4>2. "state" \in DOMAIN obj
        BY <2>1 DEF PlayerSet
      <4>3. Calm(<< >>)
        BY <1>1, <1>2, <3>3, <4>2, EnterCalm
      <4> QED BY <1>6, <3>3, <4>1, <4>3
    <3>4. CASE Stay /\ Save(id, x, Won, Win(x.rec, "win"))
      <4>1. Win(x.rec, "win") \in Alike(x.rec)
        BY <1>1, <1>2, WinRecord
      <4> QED BY <1>3, <1>4, <1>6, <1>9, <3>4, <4>1 DEF Charges
    <3> QED BY <1>9, <2>3, <3>2, <3>3, <3>4 DEF QueryEnd
  <2> QED BY <2>2, <2>3
<1>10. ASSUME x.req.k = "buy", QueryBuy(id, x) PROVE Goal
  <2>1. PICK n \in {0, 1} : IF obj.state # "wait_buy" \/ x.rec.gold.gold < n THEN End(id)
                            ELSE Save(id, x, Won, Win(Pay(x, n), "buy"))
    BY <1>10 DEF QueryBuy
  <2>2. ~(x.rec.gold.gold < n) => Win(Pay(x, n), "buy") \in Alike(x.rec)
    <3>1. n \in Nat
      OBVIOUS
    <3>2. \A r \in Alike(x.rec) : Win(r, "buy") \in Alike(x.rec)
      BY <1>1, <1>2, AlikeRecords, WinRecord
    <3> QED BY <1>5, <3>1, <3>2
  <2> QED BY <1>3, <1>4, <1>6, <1>10, <2>1, <2>2 DEF QueryBuy, Charges
<1>11. ASSUME x.req.k = "lottery", QueryLottery(id, x) PROVE Goal
  <2>1. [x.rec EXCEPT !.gold.gold = @ + 1] \in Alike(x.rec)
    BY <1>1, AccountRecords, 1 \in Nat
  <2>2. Win(x.rec, "lottery") \in Alike(x.rec)
    BY <1>1, <1>2, WinRecord
  <2> QED BY <1>3, <1>4, <1>6, <1>11, <2>1, <2>2 DEF QueryLottery, Charges
<1>12. ASSUME x.req.k = "game_refund", QueryGameRefund(id, x) PROVE Goal
  <2>1. x.req.game \in Nat
    BY <1>1, <1>12, RequestKinds DEF RefundMsg
  <2>2. \A new \in Refunded(x.rec, x.req.game) : Save(id, x, {"gold"}, new) => Saves(id, x)
    BY <1>12, AlikeRecords DEF Saves, Charges, Refunded
  <2> QED BY <1>1, <1>3, <1>6, <1>12, <2>1, <2>2, RefundRecord DEF QueryGameRefund
<1>13. ASSUME x.req.k \in {"login_promoter", "m_logout"}, QueryBase(id, x) PROVE Goal
  BY <1>1, <1>3, <1>4, <1>6, <1>13, AlikeRecords DEF QueryBase, Charges
<1> QED BY <1>7, <1>8, <1>9, <1>10, <1>11, <1>12, <1>13 DEF Goal, OnQuerySuccess, H5States

LEMMA BeginKeeps ==
    ASSUME IInv, queue # << >>, Head(queue).k = "answer", Post(Tail(queue)),
           UNCHANGED conn, obj.on, NEW from \in {"wait_start", "wait_end"}, Begin(from)
    PROVE  PlayerKept /\ CountsOK' /\ Calm(<< >>)
<1>1. CASE Stay /\ UNCHANGED counts
  BY <1>1, StayWithAnswer, StayCalm DEF IInv, ServerOK, CountsOK, counts
<1>2. CASE /\ obj.loaded /\ obj.state = from
           /\ \E c \in BOOLEAN :
                 Enter([obj EXCEPT !.can = c, !.tries = IF from = "wait_end" THEN @ + 1 ELSE 0],
                       BeginTimers(from), "wait_end")
           /\ Count(from)
  <2>1. PICK c \in BOOLEAN :
                 Enter([obj EXCEPT !.can = c, !.tries = IF from = "wait_end" THEN @ + 1 ELSE 0],
                       BeginTimers(from), "wait_end")
    BY <1>2
  <2> DEFINE n == IF from = "wait_end" THEN obj.tries + 1 ELSE 0
             o == [obj EXCEPT !.can = c, !.tries = n]
  <2>2. n \in Nat
    BY DEF IInv, PlayerOK, PlayerSet
  <2>3. o \in PlayerSet /\ o.on /\ o.loaded /\ "state" \in DOMAIN o
    <3> HIDE DEF n
    <3> QED BY <1>2, <2>2 DEF IInv, PlayerOK, PlayerSet
  <2>4. TimersLike(BeginTimers(from), Request)
    BY TheTimers DEF BeginTimers
  <2>5. PlayerKept
    BY <2>1, <2>3, <2>4, EnterKeeps DEF H5States
  <2>6. CountsOK' /\ games' = games + IF from = "wait_start" THEN 1 ELSE 0
    BY <1>2 DEF IInv, ServerOK, CountsOK, Count
  <2>7. (games' = games /\ obj.state = "wait_end") \/ games' = games + 1
    BY <1>2, <2>6 DEF IInv, ServerOK, CountsOK
  <2>8. BeginTimers(from) \subseteq timers
    BY DEF BeginTimers, Release
  <2>9. Enter(o, BeginTimers(from), "wait_end")
    BY <2>1
  <2> HIDE DEF o
  <2>10. Calm(<< >>)
    BY <2>3, <2>7, <2>8, <2>9, EnterCalm
  <2> QED BY <2>5, <2>6, <2>10
<1> QED BY <1>1, <1>2 DEF Begin

LEMMA SaveSuccessKeeps ==
    ASSUME IInv, queue # << >>, Head(queue).k = "answer", Post(Tail(queue)),
           UNCHANGED conn, NEW id, NEW x,
           obj.on \/ ~Uses(x.req.k, "save"), OnSaveSuccess(id, x)
    PROVE  PlayerKept /\ SessKept /\ CountsOK' /\ Calm(<< >>)
<1>1. SessKept
  BY EndKeeps DEF OnSaveSuccess
<1>2. UNCHANGED counts => CountsOK' /\ games' = games
  BY DEF IInv, ServerOK, CountsOK, counts
<1>3. Stay /\ UNCHANGED counts => PlayerKept /\ Calm(<< >>)
  BY <1>2, StayWithAnswer, StayCalm
<1>4. obj.state # "wait_player" => obj.loaded
  BY DEF IInv, PlayerOK
<1>5. CASE x.req.k = "start" /\ Begin("wait_start")
  BY <1>1, <1>5, BeginKeeps DEF Uses
<1>6. CASE x.req.k = "retry" /\ Begin("wait_end")
  BY <1>1, <1>6, BeginKeeps DEF Uses
<1>7. CASE /\ \/ x.req.k = "end" /\ obj.state = "wait_end" /\ NextGame
              \/ x.req.k = "buy" /\ obj.state = "wait_buy" /\ NextGame
           /\ UNCHANGED counts
  BY <1>1, <1>2, <1>4, <1>7, NextGameKeeps, NextGameCalm DEF Uses
<1>8. CASE /\ x.req.k = "lottery" /\ obj.state = "wait_lottery"
           /\ Enter(obj, Release(timers), "lottery_end") /\ UNCHANGED counts
  <2>1. obj.on /\ obj \in PlayerSet /\ obj.loaded
    BY <1>4, <1>8 DEF Uses, IInv, PlayerOK
  <2>2. "state" \in DOMAIN obj /\ Release(timers) \subseteq timers
    BY <2>1 DEF PlayerSet, Release
  <2>3. Calm(<< >>)
    BY <1>2, <1>8, <2>2, EnterCalm
  <2> QED BY <1>1, <1>2, <1>8, <2>1, <2>3, TheTimers, EnterKeeps DEF H5States
<1>9. CASE x.req.k = "login_promoter" /\ LoggedIn /\ UNCHANGED counts
  <2>1. obj.on /\ obj \in PlayerSet
    BY <1>9 DEF Uses, IInv, PlayerOK
  <2>2. obj' \in PlayerSet /\ obj'.on /\ obj'.loaded /\ obj'.state = "wait_start" /\ timers' = timers
    BY <1>9, <2>1 DEF LoggedIn, PlayerSet, H5States
  <2>3. Calm(<< >>)
    BY <1>2, <1>9, <2>2 DEF Calm
  <2> QED BY <1>1, <1>2, <1>9, <2>2, <2>3, TheTimers, FreeKeeps
<1>10. CASE Stay /\ UNCHANGED counts
  BY <1>1, <1>2, <1>3, <1>10
<1> QED BY <1>5, <1>6, <1>7, <1>8, <1>9, <1>10 DEF OnSaveSuccess

LEMMA AnswerKeeps ==
    ASSUME IInv, queue # << >>, Head(queue) \in AnswerMsg, Post(Tail(queue)),
           UNCHANGED conn, Answer(Head(queue))
    PROVE  PlayerKept /\ SessKept /\ CountsOK' /\ Calm(<< >>) /\ AnswerTaken(Head(queue))
<1> DEFINE m == Head(queue)
           a == Process(m)
           lacks == ~obj.on /\ Uses(a.x.req.k, a.next)
<1>1. m.k = "answer"
  BY DEF AnswerMsg
<1>2. UNCHANGED <<counts, crashed>> => CountsOK' /\ games' = games
  BY DEF IInv, ServerOK, CountsOK, counts
<1>3. CASE Rests(m.id, a)
  <2>1. SessOK(Request)' /\ dbq' = dbq /\ Stay
    BY <1>3, RestsOK DEF IInv, Stay
  <2>2. UNCHANGED <<counts, crashed>>
    BY <1>3 DEF Rests
  <2>3. AnswerTaken(m)
    <3>1. a.next = "none" => m.id \notin DOMAIN sess
      BY DEF Process, SaveAnswer, QueryAnswer
    <3> QED BY <1>3, <3>1 DEF Rests, AnswerTaken
  <2>4. OwnersOK'
    <3>1. CASE Done
      BY <3>1 DEF Done, IInv, OwnersOK
    <3>2. CASE End(m.id)
      BY <3>2, EndKeeps DEF SessKept
    <3>3. CASE a.next = "wait" /\ sess' = [sess EXCEPT ![m.id] = a.x]
      <4>1. a.x.p = sess[m.id].p /\ m.id \in DOMAIN sess
        BY <3>3, ProcessOK DEF IInv, ServerOK
      <4> QED BY <3>3, <4>1 DEF IInv, OwnersOK
    <3> QED BY <1>3, <3>1, <3>2, <3>3 DEF Rests
  <2> QED BY <1>1, <1>2, <2>1, <2>2, <2>3, <2>4, StayWithAnswer, StayCalm
      DEF SessKept, IInv, ServerOK, DbOK
<1>4. CASE a.next \in {"query", "save"} /\ lacks /\ Crashes
  <2>1. m.id \in DOMAIN sess => sess[m.id].req.k # "game_refund"
    BY <1>4, ProcessOK DEF IInv, ServerOK, Uses
  <2>2. AnswerTaken(m)
    BY <1>4, <2>1 DEF Crashes, AnswerTaken
  <2> QED BY <1>1, <1>4, <2>2, StayWithAnswer, StayCalm, DoneKeeps
      DEF Crashes, IInv, ServerOK, CountsOK, counts
<1>5. CASE a.next = "query" /\ ~lacks /\ OnQuerySuccess(m.id, a.x) /\ UNCHANGED <<counts, crashed>>
  <2>1. m.id \in DOMAIN sess /\ a.x \in Ready(Request) /\ a.x.p = sess[m.id].p
    BY <1>5, ProcessOK DEF IInv, ServerOK
  <2> HIDE DEF a, m
  <2>2. obj.on \/ ~Uses(a.x.req.k, "query")
    BY <1>5
  <2>3. PlayerKept /\ Calm(<< >>) /\ Taken(m.id, a.x)
    BY <1>1, <1>5, <2>1, <2>2, QueryKeeps DEF m
  <2>4. SessKept /\ (End(m.id) \/ Saves(m.id, a.x) \/ AsksAgain(m.id, a.x))
    BY <2>1, <2>3, EndKeeps, SaveKeeps, QueryLoginKeeps DEF Taken
  <2>5. AnswerTaken(m)
    BY <1>5, <2>4 DEF AnswerTaken, a
  <2> QED BY <1>2, <1>5, <2>3, <2>4, <2>5 DEF m
<1>6. CASE a.next = "save" /\ ~lacks /\ OnSaveSuccess(m.id, a.x) /\ UNCHANGED crashed
  <2> HIDE DEF a
  <2>1. obj.on \/ ~Uses(a.x.req.k, "save")
    BY <1>6
  <2>2. AnswerTaken(m)
    BY <1>6 DEF OnSaveSuccess, AnswerTaken
  <2> QED BY <1>1, <1>6, <2>1, <2>2, SaveSuccessKeeps
<1> QED BY <1>3, <1>4, <1>5, <1>6 DEF Answer

-----------------------------------------------------------------------------
(* The messages that begin a handler.                                      *)

LEMMA NotItsTimeout ==
    ASSUME NEW m, m.k # "timeout"
    PROVE  m # Timeout(obj.state)
  BY DEF Timeout

LEMMA RefuseKeeps ==
    ASSUME IInv, queue # << >>, Refuse,
           obj.state \notin {"wait_player", "wait_start"} => Head(queue) # Timeout(obj.state)
    PROVE  PlayerKept /\ SessKept /\ QueueOK(Request)'
  BY QuietStays, QuietOK, DoneKeeps DEF Refuse, IInv, ServerOK

LEMMA AskingKeeps ==
    ASSUME IInv, queue # << >>, Head(queue).k # "timeout", Quiet, Stay,
           NEW m \in Request, NEW p \in Player, NEW U \in SUBSET Uid, U # {}, Ask(m, p, U)
    PROVE  PlayerKept /\ SessKept /\ QueueOK(Request)'
  BY NotItsTimeout, QuietStays, QuietOK, AskKeeps DEF IInv, ServerOK

LEMMA LeavingKeeps ==
    ASSUME IInv, queue # << >>, Leave, NEW ms \in Seq(Request), Sends(ms), Done
    PROVE  PlayerKept /\ SessKept /\ QueueOK(Request)'
  BY LeaveKeeps, DoneKeeps, SentOK DEF IInv, ServerOK

LEMMA PlayerLoginKeeps ==
    ASSUME IInv, queue # << >>, Head(queue) \in Request, Head(queue).k = "login",
           PlayerLogin(Head(queue))
    PROVE  PlayerKept /\ SessKept /\ QueueOK(Request)'
<1> DEFINE m == Head(queue)
<1>1. obj.player \in Player /\ obj.player \in Uid /\ {obj.player, Other} \in SUBSET Uid
  BY DEF IInv, PlayerOK, PlayerSet, Uid
<1>2. SessKept
  BY <1>1, AskKeeps DEF PlayerLogin
<1>3. CASE Stay /\ Quiet
  BY <1>2, <1>3, NotItsTimeout, QuietStays, QuietOK DEF IInv, ServerOK
<1>4. CASE obj' = Online(obj.player, m.conn) /\ IF obj.on THEN timers' = LogoutTimers /\ Sends(LogoutSends)
                                                         ELSE UNCHANGED timers /\ Quiet
  <2>1. m.conn \in Nat
    BY RequestKinds DEF Client, ClientMsg, LoginMsg
  <2>2. obj' \in PlayerSet /\ obj'.on /\ obj'.state = "wait_player"
    BY <1>1, <1>4, <2>1 DEF Online, PlayerSet, H5States
  <2>3. TimersLike(timers', Request) /\ QueueOK(Request)'
    BY <1>4, TheTimers, SentOK, QuietOK DEF IInv, ServerOK
  <2> QED BY <1>2, <2>2, <2>3, FreeKeeps
<1> QED BY <1>3, <1>4 DEF PlayerLogin

LEMMA ClientKeeps ==
    ASSUME IInv, queue # << >>, Head(queue) \in ClientMsg \cup LoginMsg, ClientRequest(Head(queue))
    PROVE  PlayerKept /\ SessKept /\ QueueOK(Request)'
<1> DEFINE m == Head(queue)
<1>1. m \in Request /\ m.k \in Client /\ m.k # "timeout"
  BY DEF Request, ClientMsg, LoginMsg, Client
<1>2. m.k # "login" => \A b \in BOOLEAN : [m EXCEPT !.yes = b] \in Request
  BY DEF Request, ClientMsg, LoginMsg
<1>3. CASE Refuse
  BY <1>1, <1>3, RefuseKeeps, NotItsTimeout
<1>4. obj \in PlayerSet /\ obj.player \in Player /\ (obj.state # "wait_player" => obj.loaded)
  BY DEF IInv, PlayerOK, PlayerSet, Uid
<1>5. ASSUME Quiet, Stay, NEW r \in Request, NEW U \in {{obj.player, Other}, {obj.player}},
             Ask(r, obj.player, U)
      PROVE  PlayerKept /\ SessKept /\ QueueOK(Request)'
  <2>1. U \in SUBSET Uid /\ U # {}
    BY <1>4, <1>5 DEF Uid
  <2> QED BY <1>1, <1>4, <1>5, <2>1, AskingKeeps
<1>6. ASSUME obj.on, obj.loaded, Quiet, Done,
             NextGame \/ \E st \in H5States : Enter(obj, Release(timers), st)
      PROVE  PlayerKept /\ SessKept /\ QueueOK(Request)'
  <2>1. PlayerKept
    BY <1>4, <1>6, TheTimers, EnterKeeps, NextGameKeeps
  <2> QED BY <1>6, <2>1, QuietOK, DoneKeeps DEF IInv, ServerOK
<1>7. CASE m.k = "login" /\ PlayerLogin(m)
  BY <1>1, <1>7, PlayerLoginKeeps
<1>8. CASE StartGame(m)
  BY <1>1, <1>5, <1>8 DEF StartGame
<1>9. CASE RetryGame(m)
  BY <1>1, <1>3, <1>5, <1>9 DEF RetryGame
<1>10. CASE EndGame(m)
  BY <1>1, <1>3, <1>5, <1>10 DEF EndGame
<1>11. CASE obj.on /\ m.k # "login" /\ Lottery(m)
  BY <1>1, <1>2, <1>3, <1>4, <1>5, <1>6, <1>11 DEF Lottery, H5States
<1>12. CASE obj.on /\ LotteryEnd(m)
  BY <1>3, <1>4, <1>6, <1>12 DEF LotteryEnd, H5States
<1>13. CASE obj.on /\ BuyPrize(m)
  BY <1>1, <1>3, <1>4, <1>5, <1>6, <1>13 DEF BuyPrize
<1>14. CASE PlayerLogout
  BY <1>14, TheTimers, LeavingKeeps DEF PlayerLogout
<1> QED BY <1>3, <1>7, <1>8, <1>9, <1>10, <1>11, <1>12, <1>13, <1>14 DEF ClientRequest

LEMMA TimerMessageKeeps ==
    ASSUME IInv, queue # << >>, Head(queue) \in TimerMsg, TimerMessage(Head(queue))
    PROVE  PlayerKept /\ SessKept /\ QueueOK(Request)'
<1> DEFINE m == Head(queue)
<1>1. m \in Request /\ m.state \in H5States
  BY DEF Request, TimerMsg
<1>2. CASE ~TimeIsUp(m)
  <2>1. obj.state \notin {"wait_player", "wait_start"} => m # Timeout(obj.state)
    <3>1. ~obj.on => obj.state = "wait_player"
      BY DEF IInv, PlayerOK, Absent, Online
    <3> QED BY <1>2, <3>1 DEF TimeIsUp, Timeout
  <2> QED BY <1>2, <2>1, RefuseKeeps DEF TimerMessage
<1>3. CASE TimeIsUp(m)
  <2>1. obj.on /\ obj \in PlayerSet /\ Done /\ (obj.state # "wait_player" => obj.loaded)
    BY <1>3 DEF TimeIsUp, TimerMessage, IInv, PlayerOK
  <2>2. CASE m.state = "wait_end" /\ Restart(timers, 0) /\ Sends(<<GameRefund(obj.player)>>)
    <3>1. <<GameRefund(obj.player)>> \in Seq(Request)
      BY OwnMessages
    <3>2. PlayerKept
      BY <1>3, <2>1, <2>2, TheTimers, RestartKeeps DEF TimeIsUp
    <3> QED BY <2>1, <2>2, <3>1, <3>2, SentOK, DoneKeeps DEF IInv, ServerOK
  <2>3. CASE /\ Quiet
             /\ \/ m.state \in {"wait_lottery", "lottery_end"} /\ Enter(obj, timers, "wait_buy")
                \/ m.state \in {"wait_lottery", "wait_buy"} /\ Restart(timers, 0)
                \/ m.state = "lottery_end" /\ NextGame
    <3>1. obj.loaded
      BY <1>3, <2>1, <2>3 DEF TimeIsUp
    <3>2. PlayerKept
      BY <2>1, <2>3, <3>1, TheTimers, EnterKeeps, RestartKeeps, NextGameKeeps DEF H5States
    <3> QED BY <2>1, <2>3, <3>2, QuietOK, DoneKeeps DEF IInv, ServerOK
  <2> QED BY <1>3, <2>2, <2>3 DEF TimerMessage
<1> QED BY <1>2, <1>3

LEMMA DispatchKeeps ==
    ASSUME IInv, Dispatch
    PROVE  IInv' /\ (Timed => Timed')
<1> DEFINE m == Head(queue)
<1>1. queue # << >> /\ m \in Request \cup AnswerMsg /\ UNCHANGED <<db, conn>>
  BY HeadTail DEF Dispatch, IInv, ServerOK, QueueOK
<1>2. CASE m.k = "answer"
  <2>1. m \in AnswerMsg
    BY <1>1, <1>2, RequestKinds
  <2>2. Post(Tail(queue)) /\ Answer(m)
    BY <1>2 DEF Dispatch, Client
  <2>3. PlayerKept /\ SessKept /\ CountsOK'
    BY <1>1, <2>1, <2>2, AnswerKeeps
  <2>4. QueueOK(Request)'
    BY <1>1, <2>2, HeadTail DEF Post, IInv, ServerOK, QueueOK
  <2> QED BY <1>1, <2>3, <2>4 DEF PlayerKept, SessKept, IInv, ServerOK, DbOK
<1>3. CASE m.k # "answer"
  <2>1. m \in Request
    BY <1>1, <1>3, RequestKinds DEF AnswerMsg
  <2>2. UNCHANGED <<counts, crashed>>
    BY <1>3 DEF Dispatch
  <2>3. PlayerKept /\ SessKept /\ QueueOK(Request)'
    <3>1. CASE m.k \in Client /\ ClientRequest(m)
      BY <1>1, <2>1, <3>1, RequestKinds, ClientKeeps
    <3>2. CASE m.k = "kick" /\ Kick
      <4>1. CASE Refuse
        BY <1>1, <3>2, <4>1, RefuseKeeps, NotItsTimeout
      <4>2. CASE Leave /\ Sends(LogoutSends) /\ Done
        BY <1>1, <4>2, TheTimers, LeavingKeeps
      <4> QED BY <3>2, <4>1, <4>2 DEF Kick
    <3>3. CASE m.k = "timeout" /\ TimerMessage(m)
      BY <1>1, <2>1, <3>3, RequestKinds, TimerMessageKeeps
    <3>4. CASE m.k \in {"game_refund", "m_logout"} /\ Internal(m)
      <4>1. m.p \in Player /\ m.k # "timeout"
        BY <2>1, <3>4, RequestKinds DEF LogoutMsg, RefundMsg
      <4> QED BY <1>1, <2>1, <3>4, <4>1, AskingKeeps DEF Internal, Uid
    <3> QED BY <1>3, <3>1, <3>2, <3>3, <3>4 DEF Dispatch
  <2> QED BY <1>1, <2>2, <2>3 DEF PlayerKept, SessKept, IInv, ServerOK, DbOK, CountsOK, counts
<1> QED BY <1>2, <1>3

-----------------------------------------------------------------------------
(* The other actions, and the theorems.                                    *)

LEMMA InitHolds == Init => IInv /\ Timed
<1> SUFFICES ASSUME Init PROVE IInv /\ Timed
  OBVIOUS
<1>1. obj \in PlayerSet /\ obj.on /\ obj.loaded /\ obj.state = "wait_start"
  <2>1. PICK p \in Player : obj = [Online(p, 1) EXCEPT !.loaded = TRUE, !.state = "wait_start"]
    BY DEF Init
  <2>2. obj = [on |-> TRUE, conn |-> 1, player |-> p, loaded |-> TRUE, state |-> "wait_start",
               timer |-> 0, can |-> FALSE, tries |-> 0]
    BY <2>1 DEF Online
  <2> QED BY <2>2 DEF PlayerSet, H5States
<1>2. ServerOK(Request)
  BY StartsOK DEF Init
<1>3. OwnersOK
  BY DEF Init, Starts, OwnersOK
<1> QED BY <1>1, <1>2, <1>3 DEF IInv, PlayerOK, Timed

(* A request comes: the player stays as he is.                             *)
LEMMA RequestComes ==
    ASSUME IInv, NEW m \in Request, Post(Append(queue, m)),
           UNCHANGED <<obj, timers, sess, dbq, db, games, retries>>, conn' \in Nat
    PROVE  IInv' /\ (Timed => Timed')
<1>1. QueueOK(Request)'
  BY PostedOK DEF IInv, ServerOK
<1>2. Append(queue, m) = queue \o <<m>> /\ <<m>> \in Seq(Request \cup AnswerMsg)
  BY DEF IInv, ServerOK, QueueOK
<1>3. Items(queue) \subseteq Items(queue')
  BY <1>2, AppendedKeeps DEF IInv, ServerOK, QueueOK, Post
<1>4. Timed => Timed'
  BY <1>3 DEF Timed, Items
<1> QED BY <1>1, <1>4 DEF IInv, ServerOK, TimersOK, SessOK, DbOK, CountsOK, PlayerOK, OwnersOK

LEMMA StepKeeps ==
    ASSUME IInv, Next
    PROVE  IInv' /\ (Timed => Timed')
<1>1. ASSUME NEW k \in Client, ClientSend(k) PROVE IInv' /\ (Timed => Timed')
  <2>1. PICK b \in BOOLEAN : Post(Append(queue, [k |-> k, conn |-> conn, yes |-> b]))
    BY <1>1 DEF ClientSend
  <2>2. [k |-> k, conn |-> conn, yes |-> b] \in Request
    BY DEF IInv, ServerOK, CountsOK, Request, ClientMsg
  <2> QED BY <1>1, <2>1, <2>2, RequestComes DEF ClientSend, counts, IInv, ServerOK, CountsOK
<1>2. CASE SendKick
  <2>1. [k |-> "kick"] \in Request
    BY DEF Request, KickMsg
  <2> QED BY <1>2, <2>1, RequestComes DEF SendKick, counts, IInv, ServerOK, CountsOK
<1>3. CASE Connect
  <2>1. conn + 1 \in Nat /\ [k |-> "login", conn |-> conn + 1] \in Request
    BY DEF IInv, ServerOK, CountsOK, Request, LoginMsg
  <2> QED BY <1>3, <2>1, RequestComes DEF Connect, counts
<1>4. CASE GoOffline
  <2>1. PlayerKept
    BY <1>4, LeaveKeeps DEF GoOffline
  <2>2. QueueOK(Request)'
    <3>1. /\ LogoutSends \in Seq(Request \cup AnswerMsg) /\ LogoutBase \in Seq(Request \cup AnswerMsg)
          /\ queue \in Seq(Request \cup AnswerMsg)
      BY TheTimers, WidenSeq DEF IInv, ServerOK, QueueOK
    <3>2. queue \o LogoutSends \in Seq(Request \cup AnswerMsg)
      BY <3>1, ConcatOf
    <3>3. queue \o LogoutSends \o LogoutBase \in Seq(Request \cup AnswerMsg)
      BY <3>1, <3>2, ConcatOf
    <3> QED BY <1>4, <3>3 DEF GoOffline, Post, QueueOK
  <2> QED BY <1>4, <2>1, <2>2
      DEF GoOffline, PlayerKept, counts, IInv, ServerOK, SessOK, DbOK, CountsOK, OwnersOK
<1>5. CASE TimeOut
  BY <1>5, TimeOutOK DEF TimeOut, IInv, PlayerOK, Timed, OwnersOK, Without
<1>6. CASE Tick
  <2>1. Timed => Timed'
    <3>1. PICK t \in timers : timers' = timers \ {t} /\ queue' = Append(queue, t.msg)
      BY <1>6 DEF Tick, Post
    <3>2. Items(queue) \subseteq Items(queue') /\ t.msg \in Items(queue')
      BY <3>1, TickedItems DEF IInv, ServerOK
    <3> QED BY <1>6, <3>1, <3>2 DEF Tick, Timed, Items
  <2> QED BY <1>6, <2>1, TickOK DEF Tick, IInv, PlayerOK, OwnersOK
<1>7. ASSUME NEW u \in Uid, Serve(u) PROVE IInv' /\ (Timed => Timed')
  <2>1. Items(queue) \subseteq Items(queue')
    BY <1>7, ServedItems DEF IInv, ServerOK
  <2> QED BY <1>7, <2>1, ServeOK DEF Serve, IInv, PlayerOK, OwnersOK, Timed, Items
<1> QED BY <1>1, <1>2, <1>3, <1>4, <1>5, <1>6, <1>7, DispatchKeeps DEF Next

LEMMA StutterKeeps == IInv /\ UNCHANGED vars => IInv' /\ (Timed => Timed')
  BY DEF IInv, vars, counts, ServerOK, TimersOK, QueueOK, SessOK, DbOK, CountsOK, PlayerOK, OwnersOK,
         Timed

(* The player, the timers, the queue and the sessions are well-formed      *)
(* whatever comes in which order: the invariant of the proofs below.       *)
THEOREM GameInductive == Spec => []IInv
<1>1. Init => IInv
  BY InitHolds
<1>2. IInv /\ [Next]_vars => IInv'
  BY StepKeeps, StutterKeeps
<1> QED BY <1>1, <1>2, PTL DEF Spec

(* The player and the records have their types: no balance is overdrawn,   *)
(* no state of the arcade machine comes up, nobody plays without the       *)
(* machine's data, and no save is done again without end.                  *)
THEOREM GameTyped == Spec => []TypeOK
<1>1. ASSUME IInv PROVE TypeOK
  <2>1. ServerTypeOK
    BY <1>1, ServerTyped DEF IInv, PlayerOK, PlayerSet
  <2>2. obj \in PlayerSet
    BY <1>1 DEF IInv, PlayerOK
  <2>3. obj.state \in H5States
    BY <2>2 DEF PlayerSet
  <2> QED BY <1>1, <2>1, <2>3 DEF IInv, PlayerOK, TypeOK, H5States
<1> QED BY <1>1, GameInductive, PTL

(* No order of requests, second logins, answers and expiring timers leaves *)
(* a player in the middle of a game without a timer that ends it           *)
(* (ReleaseTimer and CreateTimer in every change of state).                *)
THEOREM NeverAbandoned == Spec => []Timed
<1>1. Init => Timed
  BY InitHolds
<1>2. IInv /\ Timed /\ [Next]_vars => Timed'
  BY StepKeeps, StutterKeeps
<1> QED BY <1>1, <1>2, GameInductive, PTL DEF Spec

-----------------------------------------------------------------------------
(* A game given back.                                                      *)

Given == GameRefund(obj.player) \in {queue'[i] : i \in DOMAIN queue'}

(* What is sent is in the queue.                                           *)
LEMMA SentIsThere ==
    ASSUME NEW S, NEW q \in Seq(S), NEW t \in Seq(S), NEW e, queue' = q \o <<e>> \o t
    PROVE  e \in {queue'[i] : i \in DOMAIN queue'}
<1>1. Len(q) \in Nat /\ Len(q) + 1 \in DOMAIN (q \o <<e>> \o t) /\ (q \o <<e>> \o t)[Len(q) + 1] = e
  <2>1. q \o <<e>> \in Seq(S \cup {e}) /\ t \in Seq(S \cup {e})
    BY WidenSeq
  <2>2. Len(q \o <<e>>) = Len(q) + 1 /\ (q \o <<e>>)[Len(q) + 1] = e
    OBVIOUS
  <2> QED BY <2>1, <2>2
<1> QED BY <1>1

LEMMA SendsGive ==
    ASSUME IInv, queue # << >>, Sends(<<GameRefund(obj.player)>>)
    PROVE  Given
<1>1. Tail(queue) \in Seq(Request \cup AnswerMsg)
  BY HeadTail DEF IInv, ServerOK, QueueOK
<1>2. queue' = Tail(queue) \o <<GameRefund(obj.player)>> \o << >> /\ << >> \in Seq(Request \cup AnswerMsg)
  BY <1>1 DEF Sends, Post, GameRefund
<1> QED BY <1>1, <1>2, SentIsThere DEF Given

LEMMA LeavingGives ==
    ASSUME IInv, queue # << >>, obj.state = "wait_end",
           Sends(LogoutSends) \/ Sends(LogoutSends \o LogoutBase)
    PROVE  Given
<1>1. LogoutSends = <<GameRefund(obj.player)>>
  BY DEF LogoutSends
<1>2. CASE Sends(LogoutSends)
  BY <1>1, <1>2, SendsGive
<1>3. CASE Sends(LogoutSends \o LogoutBase)
  <2>1. Tail(queue) \in Seq(Request \cup AnswerMsg) /\ LogoutBase \in Seq(Request \cup AnswerMsg)
    BY HeadTail, TheTimers, WidenSeq DEF IInv, ServerOK, QueueOK
  <2>2. <<GameRefund(obj.player)>> \in Seq(Request \cup AnswerMsg)
    BY OwnMessages
  <2>3. queue' = Tail(queue) \o <<GameRefund(obj.player)>> \o LogoutBase
    BY <1>1, <1>3, <2>1, <2>2 DEF Sends, Post
  <2> QED BY <2>1, <2>3, SentIsThere DEF Given
<1> QED BY <1>2, <1>3

LEMMA DispatchGives ==
    ASSUME IInv, Dispatch, obj.state = "wait_end", obj'.state # "wait_end"
    PROVE  Answering({"end", "login_promoter"}) \/ Given
<1> DEFINE m == Head(queue)
           a == Process(m)
<1>1. /\ queue # << >> /\ m \in Request \cup AnswerMsg /\ ~Stay
      /\ obj.on /\ obj \in PlayerSet
  BY HeadTail DEF Dispatch, IInv, ServerOK, QueueOK, Stay, PlayerOK, Absent, Online
<1>2. CASE m.k = "answer"
  <2>1. m \in AnswerMsg /\ Answer(m)
    BY <1>1, <1>2, RequestKinds DEF Dispatch, Client
  <2>2. ~Rests(m.id, a) /\ ~Crashes
    BY <1>1 DEF Rests, Crashes
  <2>3. a.next # "none" => m.id \in DOMAIN sess /\ a.x.req = sess[m.id].req
    BY <2>1, ProcessOK DEF IInv, ServerOK
  <2>4. CASE a.next = "query" /\ OnQuerySuccess(m.id, a.x)
    <3>1. a.x.req.k = "end"
      BY <1>1, <2>4 DEF OnQuerySuccess, QueryLogin, QueryCharge, QueryLottery, QueryBuy,
                        QueryGameRefund, QueryBase
    <3> QED BY <1>1, <1>2, <2>3, <2>4, <3>1 DEF Answering
  <2>5. CASE a.next = "save" /\ OnSaveSuccess(m.id, a.x)
    <3>1. ~Begin("wait_start")
      BY <1>1 DEF Begin
    <3>2. ~Begin("wait_end")
      <4> SUFFICES ASSUME Begin("wait_end") PROVE FALSE
        OBVIOUS
      <4>1. PICK c \in BOOLEAN : Enter([obj EXCEPT !.can = c, !.tries = obj.tries + 1],
                                       BeginTimers("wait_end"), "wait_end")
        BY <1>1 DEF Begin
      <4>2. obj'.state = "wait_end"
        BY <1>1, <4>1 DEF Enter, PlayerSet
      <4> QED BY <4>2
    <3>3. a.x.req.k \in {"end", "login_promoter"}
      BY <1>1, <2>5, <3>1, <3>2 DEF OnSaveSuccess
    <3> QED BY <1>1, <1>2, <2>3, <2>5, <3>3 DEF Answering
  <2> QED BY <2>1, <2>2, <2>4, <2>5 DEF Answer
<1>3. CASE m.k # "answer"
  <2>1. m \in Request
    BY <1>1, <1>3, RequestKinds DEF AnswerMsg
  <2>2. ~Refuse
    BY <1>1 DEF Refuse
  <2>3. CASE m.k \in Client /\ ClientRequest(m)
    <3>1. CASE m.k = "login" /\ PlayerLogin(m)
      <4>1. Sends(LogoutSends)
        BY <1>1, <3>1 DEF PlayerLogin
      <4> QED BY <1>1, <4>1, LeavingGives
    <3>2. CASE PlayerLogout
      BY <1>1, <3>2, LeavingGives DEF PlayerLogout
    <3> QED BY <1>1, <2>2, <2>3, <3>1, <3>2
        DEF ClientRequest, StartGame, RetryGame, EndGame, Lottery, LotteryEnd, BuyPrize
  <2>4. CASE m.k = "kick" /\ Kick
    BY <1>1, <2>2, <2>4, LeavingGives DEF Kick
  <2>5. CASE m.k = "timeout" /\ TimerMessage(m)
    <3>1. m.state = "wait_end"
      BY <2>2, <2>5 DEF TimerMessage, TimeIsUp
    <3>2. Sends(<<GameRefund(obj.player)>>)
      BY <2>2, <2>5, <3>1 DEF TimerMessage
    <3> QED BY <1>1, <3>2, SendsGive
  <2>6. CASE m.k \in {"game_refund", "m_logout"} /\ Internal(m)
    BY <1>1, <2>6 DEF Internal
  <2> QED BY <1>3, <2>3, <2>4, <2>5, <2>6 DEF Dispatch
<1> QED BY <1>2, <1>3

(* A game that stops other than by the player's own end of it, or by a     *)
(* second login on its connection, is given back in the same step          *)
(* (LogoutPlayer, HandlerEndTimeout).                                      *)
THEOREM CoinGivenBack == Spec => GivenBack
<1>1. ASSUME IInv, Next, Playing, obj'.state # "wait_end"
      PROVE  Answering({"end", "login_promoter"}) \/ Given
  <2>1. ~UNCHANGED obj
    BY <1>1 DEF Playing
  <2>2. CASE GoOffline
    <3>1. /\ queue \in Seq(Request \cup AnswerMsg) /\ LogoutBase \in Seq(Request \cup AnswerMsg)
      BY <1>1, TheTimers, WidenSeq DEF IInv, ServerOK, QueueOK
    <3>2. queue' = queue \o <<GameRefund(obj.player)>> \o LogoutBase
      BY <1>1, <2>2 DEF GoOffline, Post, LogoutSends, Playing
    <3> QED BY <3>1, <3>2, SentIsThere DEF Given
  <2>3. CASE Dispatch
    BY <1>1, <2>3, DispatchGives DEF Playing
  <2> QED BY <1>1, <2>1, <2>2, <2>3 DEF Next, ClientSend, Connect, SendKick, TimeOut, Tick, Serve
<1>2. IInv /\ [Next]_vars => [Playing /\ obj'.state # "wait_end" =>
                                \/ Answering({"end", "login_promoter"})
                                \/ GameRefund(obj.player) \in {queue'[i] : i \in DOMAIN queue'}]_vars
  BY <1>1 DEF Given
<1> QED BY <1>2, GameInductive, PTL DEF Spec, GivenBack

-----------------------------------------------------------------------------
(* The way of a refund.                                                    *)

LEMMA RefundsBegin == Begins(Request)
  BY RequestKinds DEF Begins, RefundMsg

LEMMA TwoMessages ==
    ASSUME NEW S, NEW a \in S, NEW b \in S
    PROVE  LET q == <<a>> \o <<b>> IN DOMAIN q = {1, 2} /\ q[1] = a /\ q[2] = b
<1>1. <<a>> \in Seq(S) /\ <<b>> \in Seq(S) /\ Len(<<a>>) = 1 /\ Len(<<b>>) = 1
  OBVIOUS
<1>2. Len(<<a>> \o <<b>>) = 2 /\ <<a>> \o <<b>> \in Seq(S)
  BY <1>1
<1>3. DOMAIN (<<a>> \o <<b>>) = {1, 2}
  BY <1>2
<1>4. (<<a>> \o <<b>>)[1] = a /\ (<<a>> \o <<b>>)[2] = b
  OBVIOUS
<1> QED BY <1>3, <1>4

LEMMA OneMessage ==
    ASSUME NEW a
    PROVE  DOMAIN <<a>> = {1} /\ <<a>>[1] = a
OBVIOUS

(* What is sent when the player goes gives an unfinished game back.        *)
LEMMA LogoutGives ==
    ASSUME IInv, games' = games, obj'.state # "wait_end", timers' = LogoutTimers,
           NEW ms \in {LogoutSends, LogoutSends \o LogoutBase}
    PROVE  (Calm(ms) \/ GivesBack(ms)) /\ ms \in Seq(Request)
<1> DEFINE G == GameRefund(obj.player)
           L == [k |-> "m_logout", p |-> obj.player]
<1>1. timers' \subseteq timers
  BY DEF LogoutTimers, Release
<1>2. ms \in Seq(Request)
  BY TheTimers
<1>3. L.k = "m_logout" /\ G.game = games /\ LogoutBase = <<L>>
  BY DEF LogoutBase, GameRefund
<1>4. CASE obj.state = "wait_end"
  <2>1. LogoutSends = <<G>>
    BY <1>4 DEF LogoutSends
  <2>2. G \in Request /\ L \in Request
    BY OwnMessages
  <2> HIDE DEF G, L
  <2>3. ms = <<G>> \/ (DOMAIN ms = {1, 2} /\ ms[1] = G /\ ms[2] = L)
    <3>1. LET q == <<G>> \o <<L>> IN DOMAIN q = {1, 2} /\ q[1] = G /\ q[2] = L
      BY <2>2, TwoMessages
    <3> QED BY <1>3, <2>1, <3>1
  <2>4. \A i \in DOMAIN ms : ms[i].k = "game_refund" => i = 1 /\ ms[i].game = games
    <3>1. CASE ms = <<G>>
      <4>1. DOMAIN ms = {1} /\ ms[1] = G
        BY <3>1, OneMessage
      <4> QED BY <1>3, <4>1
    <3>2. CASE DOMAIN ms = {1, 2} /\ ms[1] = G /\ ms[2] = L
      BY <1>3, <3>2
    <3> QED BY <2>3, <3>1, <3>2
  <2>5. GivesBack(ms)
    <3>1. \A t \in timers' : t.msg.k = "game_refund" => t \in timers
      BY <1>1
    <3>2. \E n : \A i \in DOMAIN ms : ms[i].k = "game_refund" => i = n /\ ms[i].game = games
      BY <2>4
    <3> QED BY <1>4, <3>1, <3>2 DEF GivesBack
  <2> QED BY <1>2, <2>5
<1>5. CASE obj.state # "wait_end"
  <2>1. LogoutSends = << >>
    BY <1>5 DEF LogoutSends
  <2> HIDE DEF G, L
  <2>2. << >> \o <<L>> = <<L>>
    OBVIOUS
  <2>3. ms \in {<< >>, <<L>>}
    BY <1>3, <2>1, <2>2
  <2>4. \A i \in DOMAIN ms : ms[i].k # "game_refund"
    <3>1. DOMAIN <<L>> = {1} /\ <<L>>[1] = L /\ DOMAIN << >> = {}
      BY OneMessage
    <3> QED BY <1>3, <2>3, <3>1
  <2> QED BY <1>1, <1>2, <2>4 DEF Calm
<1> QED BY <1>4, <1>5

(* The message taken is handled without a refund, and with one.            *)
LEMMA CalmTaken ==
    ASSUME Quiet, Calm(<< >>), Done \/ Asks(Request, Head(queue))
    PROVE  RequestTaken(Request)
<1>1. << >> \in Seq(Request)
  OBVIOUS
<1> QED BY <1>1 DEF Quiet, RequestTaken

LEMMA EnterTaken ==
    ASSUME IInv, games' = games, Quiet, Done, NEW T, T \subseteq timers, NEW st, st # "wait_end",
           Enter(obj, T, st)
    PROVE  RequestTaken(Request)
<1>1. "state" \in DOMAIN obj
  BY DEF IInv, PlayerOK, PlayerSet
<1> QED BY <1>1, EnterCalm, CalmTaken

LEMMA RestartTaken ==
    ASSUME IInv, games' = games, Quiet, Done, NEW n, Restart(timers, n) \/ NextGame
    PROVE  RequestTaken(Request)
<1>1. obj'.state = "wait_start" /\ timers' \subseteq timers
  BY DEF NextGame, Restart, Release, IInv, PlayerOK, PlayerSet
<1> QED BY <1>1, CalmTaken DEF Calm

LEMMA AskingTaken ==
    ASSUME games' = games, Quiet, Stay, NEW n \in Request, n.k = "game_refund" => n = Head(queue),
           NEW p \in Uid, NEW U \in SUBSET Uid, Ask(n, p, U)
    PROVE  RequestTaken(Request)
  BY StayCalm, CalmTaken DEF Asks

LEMMA RefuseTaken == ASSUME games' = games, Refuse PROVE RequestTaken(Request)
  BY StayCalm, CalmTaken DEF Refuse

LEMMA LeaveTaken ==
    ASSUME IInv, games' = games, Leave, NEW ms \in {LogoutSends, LogoutSends \o LogoutBase},
           Sends(ms), Done
    PROVE  RequestTaken(Request)
<1>1. obj'.state # "wait_end" /\ timers' = LogoutTimers
  BY DEF Leave, Absent, Online
<1> QED BY <1>1, LogoutGives DEF RequestTaken

LEMMA PlayerLoginTaken ==
    ASSUME IInv, games' = games, Head(queue) \in Request, Head(queue).k = "login",
           PlayerLogin(Head(queue))
    PROVE  RequestTaken(Request)
<1> DEFINE m == Head(queue)
<1>1. obj.player \in Uid /\ {obj.player, Other} \in SUBSET Uid
  BY DEF IInv, PlayerOK, PlayerSet, Uid
<1>2. Asks(Request, m)
  BY <1>1 DEF PlayerLogin, Asks
<1>3. CASE Stay /\ Quiet
  BY <1>2, <1>3, StayCalm, CalmTaken
<1>4. CASE /\ obj' = Online(obj.player, m.conn)
           /\ IF obj.on THEN timers' = LogoutTimers /\ Sends(LogoutSends)
                        ELSE UNCHANGED timers /\ Quiet
  <2>1. obj'.state # "wait_end"
    BY <1>4 DEF Online
  <2>2. CASE timers' = LogoutTimers /\ Sends(LogoutSends)
    <3>1. (Calm(LogoutSends) \/ GivesBack(LogoutSends)) /\ LogoutSends \in Seq(Request)
      BY <2>1, <2>2, LogoutGives
    <3> QED BY <1>2, <2>2, <3>1 DEF RequestTaken
  <2>3. CASE UNCHANGED timers /\ Quiet
    BY <1>2, <2>1, <2>3, CalmTaken DEF Calm
  <2> QED BY <1>4, <2>2, <2>3
<1> QED BY <1>3, <1>4 DEF PlayerLogin

LEMMA ClientTaken ==
    ASSUME IInv, games' = games, Head(queue) \in ClientMsg \cup LoginMsg, ClientRequest(Head(queue))
    PROVE  RequestTaken(Request)
<1> DEFINE m == Head(queue)
<1>1. m \in Request /\ m.k # "game_refund"
  BY DEF Request, ClientMsg, LoginMsg, Client
<1>2. m.k # "login" => \A b \in BOOLEAN : [m EXCEPT !.yes = b] \in Request /\ [m EXCEPT !.yes = b].k = m.k
  BY DEF Request, ClientMsg, LoginMsg
<1>3. obj.player \in Uid /\ Other \in Uid
  BY DEF IInv, PlayerOK, PlayerSet, Uid
<1>4. ASSUME Quiet, Stay, NEW r \in Request, r.k # "game_refund",
             NEW U \in {{obj.player, Other}, {obj.player}}, Ask(r, obj.player, U)
      PROVE  RequestTaken(Request)
  BY <1>3, <1>4, AskingTaken
<1>5. ASSUME Quiet, Done, NEW st, st # "wait_end", Enter(obj, Release(timers), st)
      PROVE  RequestTaken(Request)
  BY <1>5, EnterTaken DEF Release
<1>6. ASSUME Quiet, Done, NextGame PROVE RequestTaken(Request)
  BY <1>6, RestartTaken
<1>7. CASE m.k = "login" /\ PlayerLogin(m)
  BY <1>1, <1>7, PlayerLoginTaken
<1>8. CASE StartGame(m)
  BY <1>1, <1>4, <1>8 DEF StartGame
<1>9. CASE RetryGame(m)
  BY <1>1, <1>4, <1>9, RefuseTaken DEF RetryGame
<1>10. CASE EndGame(m)
  BY <1>1, <1>4, <1>10, RefuseTaken DEF EndGame
<1>11. CASE m.k # "login" /\ Lottery(m)
  BY <1>1, <1>2, <1>4, <1>5, <1>11, RefuseTaken DEF Lottery
<1>12. CASE LotteryEnd(m)
  BY <1>5, <1>6, <1>12, RefuseTaken DEF LotteryEnd
<1>13. CASE BuyPrize(m)
  BY <1>1, <1>4, <1>6, <1>13, RefuseTaken DEF BuyPrize
<1>14. CASE PlayerLogout
  BY <1>14, LeaveTaken DEF PlayerLogout
<1> QED BY <1>7, <1>8, <1>9, <1>10, <1>11, <1>12, <1>13, <1>14, RefuseTaken DEF ClientRequest

LEMMA TimerMessageTaken ==
    ASSUME IInv, games' = games, Head(queue) \in TimerMsg, TimerMessage(Head(queue))
    PROVE  RequestTaken(Request)
<1> DEFINE m == Head(queue)
<1>1. CASE ~TimeIsUp(m)
  BY <1>1, RefuseTaken DEF TimerMessage
<1>2. CASE TimeIsUp(m) /\ Done /\ m.state = "wait_end" /\ Restart(timers, 0)
           /\ Sends(<<GameRefund(obj.player)>>)
  <2> DEFINE ms == <<GameRefund(obj.player)>>
  <2>1. obj.state = "wait_end" /\ obj'.state = "wait_start" /\ timers' = timers
    BY <1>2 DEF TimeIsUp, Restart, IInv, PlayerOK, PlayerSet
  <2>2. GameRefund(obj.player).game = games
    BY DEF GameRefund
  <2>3. \A i \in DOMAIN ms : ms[i].k = "game_refund" => i = 1 /\ ms[i].game = games
    BY <2>2
  <2>4. ms \in Seq(Request)
    BY OwnMessages
  <2> HIDE DEF ms
  <2>5. GivesBack(ms)
    BY <2>1, <2>3 DEF GivesBack
  <2> QED BY <1>2, <2>4, <2>5 DEF RequestTaken, ms
<1>3. CASE Done /\ Quiet /\ (Enter(obj, timers, "wait_buy") \/ Restart(timers, 0) \/ NextGame)
  BY <1>3, EnterTaken, RestartTaken
<1> QED BY <1>1, <1>2, <1>3 DEF TimerMessage

LEMMA DispatchTaken ==
    ASSUME IInv, Dispatch, Head(queue) \in Request
    PROVE  RequestTaken(Request)
<1> DEFINE m == Head(queue)
<1>1. m.k # "answer"
  BY RequestKinds
<1>2. games' = games
  BY <1>1 DEF Dispatch, counts
<1>3. CASE m.k \in Client /\ ClientRequest(m)
  BY <1>2, <1>3, RequestKinds, ClientTaken
<1>4. CASE m.k = "kick" /\ Kick
  BY <1>2, <1>4, RefuseTaken, LeaveTaken DEF Kick
<1>5. CASE m.k = "timeout" /\ TimerMessage(m)
  BY <1>2, <1>5, RequestKinds, TimerMessageTaken
<1>6. CASE m.k \in {"game_refund", "m_logout"} /\ Internal(m)
  <2>1. m.p \in Uid
    BY <1>6, RequestKinds DEF LogoutMsg, RefundMsg, Uid
  <2> QED BY <1>2, <1>6, <2>1, AskingTaken DEF Internal
<1> QED BY <1>1, <1>3, <1>4, <1>5, <1>6 DEF Dispatch

LEMMA DispatchRefunds ==
    ASSUME IInv, RefundsOK, Dispatch
    PROVE  RefundsOK'
<1> DEFINE m == Head(queue)
<1>1. queue # << >> /\ m \in Request \cup AnswerMsg /\ UNCHANGED <<db, conn>>
  BY HeadTail DEF Dispatch, IInv, ServerOK, QueueOK
<1>2. CASE m.k = "answer"
  <2>1. m \in AnswerMsg
    BY <1>1, <1>2, RequestKinds
  <2>2. Post(Tail(queue)) /\ Answer(m)
    BY <1>2 DEF Dispatch, Client
  <2>3. Calm(<< >>) /\ AnswerTaken(m)
    BY <1>1, <2>1, <2>2, AnswerKeeps
  <2> QED BY <1>1, <1>2, <2>2, <2>3, RefundsBegin, AnswerRefunds DEF IInv, Post
<1>3. CASE m.k # "answer"
  <2>1. m \in Request
    BY <1>1, <1>3, RequestKinds DEF AnswerMsg
  <2> QED BY <1>1, <1>3, <2>1, DispatchTaken, RefundsBegin, RequestRefunds DEF IInv
<1> QED BY <1>2, <1>3

LEMMA StepRefunds ==
    ASSUME IInv, RefundsOK, Next
    PROVE  RefundsOK'
<1>1. ASSUME NEW m \in Request, m.k # "game_refund", Post(Append(queue, m)),
             UNCHANGED <<obj, timers, sess, dbq, db, games>>
      PROVE  RefundsOK'
  <2>1. queue' = queue \o <<m>> /\ <<m>> \in Seq(Request)
    BY <1>1 DEF Post, IInv, ServerOK, QueueOK
  <2>2. Calm(<<m>>)
    BY <1>1 DEF Calm
  <2> QED BY <1>1, <2>1, <2>2, RefundsBegin, SentRefunds DEF IInv
<1>2. ASSUME NEW k \in Client, ClientSend(k) PROVE RefundsOK'
  <2>1. PICK b \in BOOLEAN : Post(Append(queue, [k |-> k, conn |-> conn, yes |-> b]))
    BY <1>2 DEF ClientSend
  <2>2. [k |-> k, conn |-> conn, yes |-> b] \in Request /\ k # "game_refund"
    BY DEF IInv, ServerOK, CountsOK, Request, ClientMsg, Client
  <2> QED BY <1>1, <1>2, <2>1, <2>2 DEF ClientSend, counts
<1>3. CASE SendKick
  <2>1. [k |-> "kick"] \in Request
    BY DEF Request, KickMsg
  <2> QED BY <1>1, <1>3, <2>1 DEF SendKick, counts
<1>4. CASE Connect
  <2>1. [k |-> "login", conn |-> conn + 1] \in Request
    BY DEF IInv, ServerOK, CountsOK, Request, LoginMsg
  <2> QED BY <1>1, <1>4, <2>1 DEF Connect, counts
<1>5. CASE GoOffline
  <2> DEFINE ms == LogoutSends \o LogoutBase
  <2>1. queue' = queue \o ms
    <3>1. /\ queue \in Seq(Request \cup AnswerMsg) /\ LogoutSends \in Seq(Request \cup AnswerMsg)
          /\ LogoutBase \in Seq(Request \cup AnswerMsg)
      BY TheTimers, WidenSeq DEF IInv, ServerOK, QueueOK
    <3>2. queue' = queue \o LogoutSends \o LogoutBase
      BY <1>5 DEF GoOffline, Post
    <3> QED BY <3>1, <3>2
  <2>2. obj'.state # "wait_end" /\ timers' = LogoutTimers /\ games' = games
        /\ UNCHANGED <<sess, dbq, db>>
    BY <1>5 DEF GoOffline, Leave, Absent, Online, counts
  <2>3. (Calm(ms) \/ GivesBack(ms)) /\ ms \in Seq(Request)
    BY <2>2, LogoutGives
  <2> HIDE DEF ms
  <2> QED BY <2>1, <2>2, <2>3, RefundsBegin, SentRefunds DEF IInv
<1>6. CASE TimeOut
  BY <1>6, TimeOutRefunds DEF IInv
<1>7. CASE Tick
  BY <1>7, RefundsBegin, TickRefunds DEF IInv
<1>8. ASSUME NEW u \in Uid, Serve(u) PROVE RefundsOK'
  BY <1>8, RefundsBegin, ServeRefunds DEF IInv
<1> QED BY <1>2, <1>3, <1>4, <1>5, <1>6, <1>7, <1>8, DispatchRefunds DEF Next

(* However kicks, lost connections, second logins, time-outs and refused   *)
(* saves interleave, an unfinished game is given back at most once: its    *)
(* refund is in the queue, with one session or in one record               *)
(* (HandlerEndTimeout, HandlerKickPlayer, LogoutPlayer,                    *)
(* HandlerGameRefund).                                                     *)
THEOREM RefundedOnce == Spec => []OneRefund
<1>1. Init => RefundsOK
  BY StartRefunds DEF Init
<1>2. IInv /\ RefundsOK /\ [Next]_vars => RefundsOK'
  BY StepRefunds, RefundsStutter, RefundsBegin DEF IInv
<1>3. IInv /\ RefundsOK => OneRefund
  BY RefundsOnce DEF IInv
<1> QED BY <1>1, <1>2, <1>3, GameInductive, PTL DEF Spec

-----------------------------------------------------------------------------
(* The way of a coin.                                                      *)

(* A game or a life is counted by the answer to its charge alone.          *)
LEMMA AnswerCounts ==
    ASSUME IInv, NEW m \in AnswerMsg, Answer(m)
    PROVE  Counted(m)
<1> DEFINE a == Process(m)
<1>1. CASE UNCHANGED counts
  BY <1>1 DEF Counted
<1>2. CASE a.next = "save" /\ OnSaveSuccess(m.id, a.x)
  <2>1. a.x.req = sess[m.id].req
    BY <1>2, ProcessOK DEF IInv, ServerOK
  <2>2. End(m.id)
    BY <1>2 DEF OnSaveSuccess
  <2> HIDE DEF a
  <2>3. \A from \in {"wait_start", "wait_end"} : Count(from) => games' + retries' = games + retries + 1
    <3> TAKE from \in {"wait_start", "wait_end"}
    <3>1. games \in Nat /\ retries \in Nat
      BY DEF IInv, ServerOK, CountsOK
    <3> QED BY <3>1 DEF Count
  <2>4. CASE \E from \in {"wait_start", "wait_end"} : Count(from) /\ a.x.req.k \in Charges
    <3>1. games' + retries' = games + retries + 1 /\ sess[m.id].req.k \in Charges
      BY <2>1, <2>3, <2>4
    <3>2. Process(m).next = "save"
      BY <1>2 DEF a
    <3> QED BY <2>2, <3>1, <3>2 DEF Counted
  <2> QED BY <1>1, <1>2, <2>4 DEF OnSaveSuccess, Begin, Charges
<1> QED BY <1>1, <1>2 DEF Answer, Rests, Crashes

LEMMA DispatchPaid ==
    ASSUME IInv, IInv', RefundsOK, PaidOK, Dispatch
    PROVE  PaidOK'
<1> DEFINE m == Head(queue)
<1>1. queue # << >> /\ m \in Request \cup AnswerMsg /\ UNCHANGED <<db, conn>> /\ CountsOK'
  BY HeadTail DEF Dispatch, IInv, ServerOK, QueueOK
<1>2. CASE m.k = "answer"
  <2>1. m \in AnswerMsg
    BY <1>1, <1>2, RequestKinds
  <2>2. Post(Tail(queue)) /\ Answer(m)
    BY <1>2 DEF Dispatch, Client
  <2>3. AnswerTaken(m) /\ Counted(m)
    BY <1>1, <2>1, <2>2, AnswerKeeps, AnswerCounts
  <2> QED BY <1>1, <1>2, <2>2, <2>3, RefundsBegin, AnswerPaid DEF IInv, Post
<1>3. CASE m.k # "answer"
  <2>1. UNCHANGED counts
    BY <1>3 DEF Dispatch
  <2>2. RequestTaken(Request)
    BY <1>1, <1>3, DispatchTaken, RequestKinds DEF AnswerMsg
  <2> QED BY <1>1, <1>3, <2>1, <2>2, RefundsBegin, RequestPaid DEF IInv
<1> QED BY <1>2, <1>3

LEMMA StepPaid ==
    ASSUME IInv, IInv', RefundsOK, PaidOK, Next
    PROVE  PaidOK'
<1>1. ASSUME NEW ms \in Seq(Request), Post(queue \o ms), UNCHANGED <<sess, dbq, db, counts>>
      PROVE  PaidOK'
  BY <1>1, RefundsBegin, SentPaid DEF IInv, ServerOK, Post
<1>2. ASSUME NEW m \in Request, Post(Append(queue, m)), UNCHANGED <<sess, dbq, db, counts>>
      PROVE  PaidOK'
  <2>1. <<m>> \in Seq(Request) /\ Append(queue, m) = queue \o <<m>>
    BY DEF IInv, ServerOK, QueueOK
  <2> QED BY <1>1, <1>2, <2>1
<1>3. ASSUME NEW k \in Client, ClientSend(k) PROVE PaidOK'
  <2>1. PICK b \in BOOLEAN : Post(Append(queue, [k |-> k, conn |-> conn, yes |-> b]))
    BY <1>3 DEF ClientSend
  <2>2. [k |-> k, conn |-> conn, yes |-> b] \in Request
    BY DEF IInv, ServerOK, CountsOK, Request, ClientMsg
  <2> QED BY <1>2, <1>3, <2>1, <2>2 DEF ClientSend
<1>4. CASE SendKick
  <2>1. [k |-> "kick"] \in Request
    BY DEF Request, KickMsg
  <2> QED BY <1>2, <1>4, <2>1 DEF SendKick
<1>5. CASE Connect
  <2>1. [k |-> "login", conn |-> conn + 1] \in Request
    BY DEF IInv, ServerOK, CountsOK, Request, LoginMsg
  <2> QED BY <1>2, <1>5, <2>1 DEF Connect
<1>6. CASE GoOffline
  <2>1. LogoutSends \o LogoutBase \in Seq(Request)
    BY TheTimers
  <2>2. queue \o LogoutSends \o LogoutBase = queue \o (LogoutSends \o LogoutBase)
    <3>1. /\ queue \in Seq(Request \cup AnswerMsg) /\ LogoutSends \in Seq(Request \cup AnswerMsg)
          /\ LogoutBase \in Seq(Request \cup AnswerMsg)
      BY TheTimers, WidenSeq DEF IInv, ServerOK, QueueOK
    <3> QED BY <3>1
  <2> QED BY <1>1, <1>6, <2>1, <2>2 DEF GoOffline
<1>7. CASE TimeOut
  BY <1>7, TimeOutPaid DEF IInv
<1>8. CASE Tick
  BY <1>8, RefundsBegin, TickPaid DEF IInv
<1>9. ASSUME NEW u \in Uid, Serve(u) PROVE PaidOK'
  BY <1>9, ServePaid DEF IInv
<1> QED BY <1>3, <1>4, <1>5, <1>6, <1>7, <1>8, <1>9, DispatchPaid DEF Next

(* Nobody plays for nothing: however refused saves, repeated answers,      *)
(* time-outs and leaving players interleave, the games begun and the lives *)
(* bought are at most the coins that all players together spent, refunds   *)
(* included (HandlerStartGameH5, HandlerRetryGameH5).                      *)
THEOREM NothingForNothing == Spec => []PaidFor
<1>1. Init => RefundsOK /\ PaidOK
  BY StartRefunds, StartPaid DEF Init
<1>2. IInv /\ IInv' /\ RefundsOK /\ PaidOK /\ [Next]_vars => RefundsOK' /\ PaidOK'
  BY StepRefunds, RefundsStutter, RefundsBegin, StepPaid, PaidStutter DEF IInv
<1>3. IInv /\ PaidOK => PaidFor
  BY PaidIsFor DEF IInv
<1> QED BY <1>1, <1>2, <1>3, GameInductive, PTL DEF Spec

-----------------------------------------------------------------------------
(* The way of a prize.                                                     *)

LEMMA StayOn == ASSUME IInv, games' = games, Stay PROVE Advances
  BY StayAdvances DEF IInv

LEMMA EnterOn ==
    ASSUME IInv, games' = games, NEW T, NEW st, Enter(obj, T, st),
           Stage(obj.state) <= Stage(st) \/ Stage(st) = 5
    PROVE  Advances
<1>1. obj'.state = st
  BY EntersState DEF IInv, PlayerOK, PlayerSet
<1> QED BY <1>1, OnAdvances

LEMMA RestartOn ==
    ASSUME IInv, games' = games, NEW T, NEW n, Restart(T, n) \/ NextGame
    PROVE  Advances
<1>1. obj'.state = "wait_start"
  BY DEF NextGame, Restart, IInv, PlayerOK, PlayerSet
<1> QED BY <1>1, StagesAre, OnAdvances

LEMMA LeaveOn ==
    ASSUME games' = games, Leave
    PROVE  Advances
<1>1. obj'.state = "wait_player"
  BY DEF Leave, Absent, Online
<1> QED BY <1>1, StagesAre, OnAdvances

(* No message that begins a handler takes the game back.                   *)
LEMMA ClientOn ==
    ASSUME IInv, games' = games, NEW m, ClientRequest(m)
    PROVE  Advances
<1>1. CASE PlayerLogin(m)
  <2>1. CASE obj' = Online(obj.player, m.conn)
    <3>1. obj'.state = "wait_player"
      BY <2>1 DEF Online
    <3> QED BY <3>1, StagesAre, OnAdvances
  <2> QED BY <1>1, <2>1, StayOn DEF PlayerLogin
<1>2. CASE Lottery(m)
  <2>1. CASE obj.state = "wait_lottery" /\ Enter(obj, Release(timers), "lottery_end")
    <3>1. Stage(obj.state) <= Stage("lottery_end")
      BY <2>1, StagesAre
    <3> QED BY <2>1, <3>1, EnterOn
  <2> QED BY <1>2, <2>1, StayOn DEF Lottery, Refuse
<1>3. CASE LotteryEnd(m)
  <2>1. CASE obj.state = "lottery_end" /\ Enter(obj, Release(timers), "wait_buy")
    <3>1. Stage(obj.state) <= Stage("wait_buy")
      BY <2>1, StagesAre
    <3> QED BY <2>1, <3>1, EnterOn
  <2> QED BY <1>3, <2>1, StayOn, RestartOn DEF LotteryEnd, Refuse
<1>4. CASE BuyPrize(m)
  BY <1>4, StayOn, RestartOn DEF BuyPrize, Refuse
<1>5. CASE PlayerLogout
  BY <1>5, LeaveOn DEF PlayerLogout
<1> QED BY <1>1, <1>2, <1>3, <1>4, <1>5, StayOn DEF ClientRequest, StartGame, RetryGame, EndGame, Refuse

LEMMA TimerMessageOn ==
    ASSUME IInv, games' = games, NEW m, TimerMessage(m)
    PROVE  Advances
<1>1. CASE Refuse
  BY <1>1, StayOn DEF Refuse
<1>2. CASE TimeIsUp(m) /\ m.state \in {"wait_lottery", "lottery_end"} /\ Enter(obj, timers, "wait_buy")
  <2>1. obj.state \in {"wait_lottery", "lottery_end"}
    BY <1>2 DEF TimeIsUp
  <2>2. Stage(obj.state) <= Stage("wait_buy")
    BY <2>1, StagesAre
  <2> QED BY <1>2, <2>2, EnterOn
<1> QED BY <1>1, <1>2, RestartOn DEF TimerMessage

LEMMA DispatchOn ==
    ASSUME IInv, Dispatch, Head(queue).k # "answer"
    PROVE  Advances
<1> DEFINE m == Head(queue)
<1>1. games' = games
  BY DEF Dispatch, counts
<1>2. CASE Kick
  BY <1>1, <1>2, StayOn, LeaveOn DEF Kick, Refuse
<1>3. CASE Internal(m)
  BY <1>1, <1>3, StayOn DEF Internal
<1> QED BY <1>1, <1>2, <1>3, ClientOn, TimerMessageOn DEF Dispatch

(* What a handler does with the data: a prize is saved in the state that   *)
(* it is won in, and the state is left only forward.                       *)
LEMMA QueryPrizes ==
    ASSUME IInv, UNCHANGED counts, NEW id, id \in DOMAIN sess, NEW x \in Ready(Request), x.p = sess[id].p,
           OnQuerySuccess(id, x)
    PROVE  Advances /\ (End(id) \/ SavesPrize(id, x) \/ AsksAgain(id, x))
<1> DEFINE Goal == Advances /\ (End(id) \/ SavesPrize(id, x) \/ AsksAgain(id, x))
<1>1. games' = games /\ CountsOK /\ x.rec \in Rec
  BY DEF counts, Ready, IInv, ServerOK
<1>2. \A K, new : "prize" \notin K /\ Save(id, x, K, new) => SavesPrize(id, x)
  BY OtherSaves
<1>3. ASSUME Stay, End(id) \/ \E K \in {{"gold"}, {"base"}} : \E new : Save(id, x, K, new) PROVE Goal
  BY <1>1, <1>2, <1>3, StayOn
<1>4. x.rec.prize \in PrizeInfo /\ DOMAIN x.rec = {"base", "gold", "prize"}
  BY <1>1 DEF Rec
<1>5. ASSUME NEW w \in Ways, NEW r, r.prize = x.rec.prize, "prize" \in DOMAIN r, Stay,
             Save(id, x, Won, Win(r, w)), x.req.k = WonBy(w), WonAt(w) = Stage(obj.state)
      PROVE  Goal
  BY <1>1, <1>4, <1>5, WinSaves, StayOn
<1>6. ASSUME x.req.k = "login", QueryLogin(id, x) PROVE Goal
  <2>1. AsksAgain(id, x) /\ Stay
    BY <1>6, QueryLoginKeeps DEF QueryLogin
  <2> QED BY <1>1, <2>1, StayOn
<1>7. ASSUME NEW st, QueryCharge(id, x, st) PROVE Goal
  BY <1>3, <1>7 DEF QueryCharge
<1>8. ASSUME x.req.k = "end", QueryEnd(id, x) PROVE Goal
  <2>1. CASE obj.state # "wait_end"
    BY <1>3, <1>8, <2>1 DEF QueryEnd
  <2>2. ASSUME obj.state = "wait_end", NEW st, Enter(obj, Release(timers), st), End(id) PROVE Goal
    <3>1. Stage(obj.state) <= Stage(st)
      BY <2>2, StagesAre, StageIs
    <3> QED BY <1>1, <2>2, <3>1, EnterOn
  <2>3. CASE obj.state = "wait_end" /\ Stay /\ Save(id, x, Won, Win(x.rec, "win"))
    <3>1. "win" \in Ways /\ x.req.k = WonBy("win") /\ WonAt("win") = Stage(obj.state)
      BY <1>8, <2>3, StagesAre DEF Ways, WonBy, WonAt
    <3> QED BY <1>4, <1>5, <2>3, <3>1
  <2>4. CASE NextGame /\ End(id)
    BY <1>1, <2>4, RestartOn
  <2> QED BY <1>8, <2>1, <2>2, <2>3, <2>4 DEF QueryEnd
<1>9. ASSUME x.req.k = "buy", QueryBuy(id, x) PROVE Goal
  <2>1. PICK n \in {0, 1} : IF obj.state # "wait_buy" \/ x.rec.gold.gold < n THEN End(id)
                            ELSE Save(id, x, Won, Win(Pay(x, n), "buy"))
    BY <1>9 DEF QueryBuy
  <2>2. Stay
    BY <1>9 DEF QueryBuy
  <2>3. CASE obj.state = "wait_buy" /\ Save(id, x, Won, Win(Pay(x, n), "buy"))
    <3>1. "buy" \in Ways /\ x.req.k = WonBy("buy") /\ WonAt("buy") = Stage(obj.state)
      BY <1>9, <2>3, StagesAre DEF Ways, WonBy, WonAt
    <3>2. Pay(x, n).prize = x.rec.prize /\ "prize" \in DOMAIN Pay(x, n)
      BY <1>4 DEF Pay
    <3> QED BY <1>5, <2>2, <2>3, <3>1, <3>2
  <2> QED BY <1>3, <2>1, <2>2, <2>3
<1>10. ASSUME x.req.k = "lottery", QueryLottery(id, x) PROVE Goal
  <2>1. CASE obj.state = "wait_lottery" /\ Save(id, x, Won, Win(x.rec, "lottery"))
    <3>1. "lottery" \in Ways /\ x.req.k = WonBy("lottery") /\ WonAt("lottery") = Stage(obj.state)
      BY <1>10, <2>1, StagesAre DEF Ways, WonBy, WonAt
    <3> QED BY <1>4, <1>5, <1>10, <2>1, <3>1 DEF QueryLottery
  <2> QED BY <1>3, <1>10, <2>1 DEF QueryLottery
<1>11. ASSUME QueryGameRefund(id, x) PROVE Goal
  BY <1>3, <1>11 DEF QueryGameRefund
<1>12. ASSUME QueryBase(id, x) PROVE Goal
  BY <1>3, <1>12 DEF QueryBase
<1> HIDE DEF Goal
<1> Goal
  BY <1>6, <1>7, <1>8, <1>9, <1>10, <1>11, <1>12 DEF OnQuerySuccess
<1> QED BY DEF Goal

(* What a handler does when it hears that the data are saved.              *)
LEMMA SaveSuccessPrizes ==
    ASSUME IInv, NEW m, m.id \in DOMAIN sess, NEW x, x.req = sess[m.id].req, OnSaveSuccess(m.id, x)
    PROVE  Advances /\ HeardOn(m)
<1> DEFINE k == x.req.k
<1>1. obj \in PlayerSet
  BY DEF IInv, PlayerOK
<1>2. ASSUME k \notin {"end", "lottery", "buy"} PROVE HeardOn(m)
  BY <1>2, HeardBeyond DEF IInv, WonBy, Ways
<1>3. ASSUME NEW w \in Ways, k = WonBy(w), games' = games,
             WonAt(w) <= Stage(obj.state) => WonAt(w) < Stage(obj'.state)
      PROVE  HeardOn(m)
  <2>1. \A v \in Ways : k = WonBy(v) => v = w
    BY <1>3 DEF Ways, WonBy
  <2> QED BY <1>3, <2>1, HeardBeyond DEF IInv
<1>4. ASSUME NEW from \in {"wait_start", "wait_end"}, Begin(from) PROVE Advances
  <2>1. CASE Stay /\ UNCHANGED counts
    BY <2>1, StayOn DEF counts
  <2>2. CASE obj.state = from /\ ~(Stay /\ UNCHANGED counts)
    <3>1. /\ Count(from)
          /\ \E c \in BOOLEAN :
               Enter([obj EXCEPT !.can = c, !.tries = IF from = "wait_end" THEN @ + 1 ELSE 0],
                     BeginTimers(from), "wait_end")
      BY <1>4, <2>2 DEF Begin
    <3>2. PICK c \in BOOLEAN :
               Enter([obj EXCEPT !.can = c, !.tries = IF from = "wait_end" THEN @ + 1 ELSE 0],
                     BeginTimers(from), "wait_end")
      BY <3>1
    <3> DEFINE o == [obj EXCEPT !.can = c, !.tries = IF from = "wait_end" THEN @ + 1 ELSE 0]
    <3>3. "state" \in DOMAIN o
      BY <1>1 DEF PlayerSet
    <3>4. (games' = games /\ from = "wait_end") \/ games' = games + 1
      BY <3>1 DEF Count, IInv, ServerOK, CountsOK
    <3>5. Stage(obj.state) <= Stage("wait_end") \/ from # "wait_end"
      BY <2>2, StagesAre
    <3> HIDE DEF o
    <3> QED BY <3>2, <3>3, <3>4, <3>5, EnterAdvances DEF IInv, o
  <2> QED BY <1>4, <2>1, <2>2 DEF Begin
<1>5. CASE k \in {"start", "retry"} /\ (Begin("wait_start") \/ Begin("wait_end"))
  BY <1>2, <1>4, <1>5
<1>6. ASSUME NEW w \in Ways, k = WonBy(w), games' = games, NEW from, Stage(from) = WonAt(w), NEW st,
             WonAt(w) < Stage(st), IF obj.state # from THEN Stay ELSE obj'.state = st,
             \A s : Stage(s) = WonAt(w) => s = from
      PROVE  Advances /\ HeardOn(m)
  <2>1. /\ Stage(obj.state) \in Nat /\ WonAt(w) \in Nat /\ Stage(st) \in Nat
    BY StageIs
  <2>2. CASE obj.state # from
    <3>1. Stay /\ Stage(obj.state) # WonAt(w)
      BY <1>6, <2>2
    <3>2. obj'.state = obj.state
      BY <3>1 DEF Stay
    <3>3. WonAt(w) <= Stage(obj.state) => WonAt(w) < Stage(obj'.state)
      BY <2>1, <3>1, <3>2
    <3> QED BY <1>3, <1>6, <3>1, <3>3, StayOn
  <2>3. CASE obj.state = from
    <3>1. obj'.state = st
      BY <1>6, <2>3
    <3>2. Stage(obj.state) <= Stage(st)
      BY <1>6, <2>1, <2>3
    <3> QED BY <1>3, <1>6, <3>1, <3>2, OnAdvances
  <2> QED BY <2>2, <2>3
<1>7. NextGame => obj'.state = "wait_start"
  BY <1>1 DEF NextGame, Restart, PlayerSet
<1>8. CASE UNCHANGED counts /\ k = "end" /\ IF obj.state = "wait_end" THEN NextGame ELSE Stay
  <2>1. "win" \in Ways /\ k = WonBy("win") /\ WonAt("win") = 0
    BY <1>8 DEF Ways, WonBy, WonAt
  <2> QED BY <1>6, <1>7, <1>8, <2>1, StagesAre DEF counts
<1>9. CASE UNCHANGED counts /\ k = "lottery" /\ IF obj.state # "wait_lottery" THEN Stay
                                                ELSE Enter(obj, Release(timers), "lottery_end")
  <2>1. "lottery" \in Ways /\ k = WonBy("lottery") /\ WonAt("lottery") = 1
    BY <1>9 DEF Ways, WonBy, WonAt
  <2>2. Enter(obj, Release(timers), "lottery_end") => obj'.state = "lottery_end"
    BY <1>1, EntersState DEF PlayerSet
  <2> QED BY <1>6, <1>9, <2>1, <2>2, StagesAre DEF counts
<1>10. CASE UNCHANGED counts /\ k = "buy" /\ IF obj.state = "wait_buy" THEN NextGame ELSE Stay
  <2>1. "buy" \in Ways /\ k = WonBy("buy") /\ WonAt("buy") = 4
    BY <1>10 DEF Ways, WonBy, WonAt
  <2> QED BY <1>6, <1>7, <1>10, <2>1, StagesAre DEF counts
<1>11. CASE UNCHANGED counts /\ k = "login_promoter" /\ LoggedIn
  <2>1. obj'.state = "wait_start"
    BY <1>1, <1>11 DEF LoggedIn, PlayerSet
  <2> QED BY <1>2, <1>11, <2>1, StagesAre, OnAdvances DEF counts
<1>12. CASE UNCHANGED counts /\ k \in {"game_refund", "m_logout"} /\ Stay
  BY <1>2, <1>12, StayOn DEF counts
<1> QED BY <1>5, <1>8, <1>9, <1>10, <1>11, <1>12 DEF OnSaveSuccess

LEMMA AnswerOn ==
    ASSUME IInv, NEW m \in AnswerMsg, Answer(m)
    PROVE  Advances /\ HeardOn(m) /\ PrizeTaken(m)
<1> DEFINE a == Process(m)
           lacks == ~obj.on /\ Uses(a.x.req.k, a.next)
<1>1. m.id \in DOMAIN sess /\ sess[m.id].save /\ m.ok => a.next = "save"
  BY DEF Process, SaveAnswer, Succeeded
<1>2. ASSUME a.next # "save" PROVE HeardOn(m)
  BY <1>1, <1>2 DEF HeardOn
<1>3. a.next \in {"query", "save"} => /\ m.id \in DOMAIN sess /\ a.x.req = sess[m.id].req
                                     /\ a.x.p = sess[m.id].p /\ a.x \in Ready(Request)
  BY ProcessOK DEF IInv, ServerOK
<1> HIDE DEF a
<1>4. CASE Rests(m.id, a)
  <2>1. Stay /\ games' = games /\ a.next # "save"
    BY <1>4 DEF Rests, counts
  <2>2. PrizeTaken(m)
    BY <1>4 DEF Rests, PrizeTaken, a
  <2> QED BY <1>2, <2>1, <2>2, StayOn
<1>5. CASE a.next \in {"query", "save"} /\ lacks /\ Crashes
  <2>1. Stay /\ Done /\ games' = games /\ ~obj.on
    BY <1>5 DEF Crashes, counts
  <2>2. obj'.state = "wait_player"
    BY <2>1 DEF Stay, IInv, PlayerOK, Absent, Online
  <2>3. Stage(obj'.state) = 5 /\ \A w \in Ways : WonAt(w) < Stage(obj'.state)
    BY <2>2, StagesAre, StageIs
  <2>4. HeardOn(m)
    BY <2>1, <2>3, HeardBeyond DEF IInv
  <2> QED BY <2>1, <2>4, StayOn DEF PrizeTaken
<1>6. CASE a.next = "query" /\ ~lacks /\ OnQuerySuccess(m.id, a.x) /\ UNCHANGED <<counts, crashed>>
  <2>1. Advances /\ (End(m.id) \/ SavesPrize(m.id, a.x) \/ AsksAgain(m.id, a.x))
    BY <1>3, <1>6, QueryPrizes
  <2> QED BY <1>2, <1>6, <2>1 DEF PrizeTaken, a
<1>7. CASE a.next = "save" /\ ~lacks /\ OnSaveSuccess(m.id, a.x)
  <2>1. End(m.id)
    BY <1>7 DEF OnSaveSuccess
  <2>2. Advances /\ HeardOn(m)
    BY <1>3, <1>7, SaveSuccessPrizes
  <2> QED BY <2>1, <2>2 DEF PrizeTaken
<1> QED BY <1>4, <1>5, <1>6, <1>7 DEF Answer, a

LEMMA DispatchPrizes ==
    ASSUME IInv, IInv', RefundsOK, PrizesOK, Dispatch
    PROVE  PrizesOK'
<1> DEFINE m == Head(queue)
<1>1. queue # << >> /\ m \in Request \cup AnswerMsg /\ UNCHANGED <<db, conn>> /\ CountsOK'
  BY HeadTail DEF Dispatch, IInv, ServerOK, QueueOK
<1>2. CASE m.k = "answer"
  <2>1. m \in AnswerMsg
    BY <1>1, <1>2, RequestKinds
  <2>2. Post(Tail(queue)) /\ Answer(m)
    BY <1>2 DEF Dispatch, Client
  <2>3. Advances /\ HeardOn(m) /\ PrizeTaken(m)
    BY <2>1, <2>2, AnswerOn
  <2> QED BY <1>1, <1>2, <2>2, <2>3, RefundsBegin, AnswerPrizes DEF IInv, Post
<1>3. CASE m.k # "answer"
  <2>1. Advances
    BY <1>3, DispatchOn
  <2>2. RequestTaken(Request)
    BY <1>1, <1>3, DispatchTaken, RequestKinds DEF AnswerMsg
  <2> QED BY <1>1, <1>3, <2>1, <2>2, RefundsBegin, RequestPrizes DEF IInv
<1> QED BY <1>2, <1>3

LEMMA StepPrizes ==
    ASSUME IInv, IInv', RefundsOK, PrizesOK, Punctual, Next
    PROVE  PrizesOK'
<1>0. CountsOK'
  BY DEF IInv, ServerOK
<1>1. ASSUME NEW ms \in Seq(Request), Post(queue \o ms), UNCHANGED <<sess, dbq, db>>, Advances
      PROVE  PrizesOK'
  BY <1>0, <1>1, RefundsBegin, SentPrizes DEF IInv, Post
<1>2. ASSUME NEW m \in Request, Post(Append(queue, m)), UNCHANGED <<obj, timers, sess, dbq, db, counts>>
      PROVE  PrizesOK'
  <2>1. <<m>> \in Seq(Request) /\ Append(queue, m) = queue \o <<m>>
    BY DEF IInv, ServerOK, QueueOK
  <2>2. Advances
    BY <1>2, StayOn DEF Stay, counts
  <2> QED BY <1>1, <1>2, <2>1, <2>2
<1>3. ASSUME NEW k \in Client, ClientSend(k) PROVE PrizesOK'
  <2>1. PICK b \in BOOLEAN : Post(Append(queue, [k |-> k, conn |-> conn, yes |-> b]))
    BY <1>3 DEF ClientSend
  <2>2. [k |-> k, conn |-> conn, yes |-> b] \in Request
    BY DEF IInv, ServerOK, CountsOK, Request, ClientMsg
  <2> QED BY <1>2, <1>3, <2>1, <2>2 DEF ClientSend
<1>4. CASE SendKick
  <2>1. [k |-> "kick"] \in Request
    BY DEF Request, KickMsg
  <2> QED BY <1>2, <1>4, <2>1 DEF SendKick
<1>5. CASE Connect
  <2>1. [k |-> "login", conn |-> conn + 1] \in Request
    BY DEF IInv, ServerOK, CountsOK, Request, LoginMsg
  <2> QED BY <1>2, <1>5, <2>1 DEF Connect
<1>6. CASE GoOffline
  <2>1. LogoutSends \o LogoutBase \in Seq(Request)
    BY TheTimers
  <2>2. queue \o LogoutSends \o LogoutBase = queue \o (LogoutSends \o LogoutBase)
    <3>1. /\ queue \in Seq(Request \cup AnswerMsg) /\ LogoutSends \in Seq(Request \cup AnswerMsg)
          /\ LogoutBase \in Seq(Request \cup AnswerMsg)
      BY TheTimers, WidenSeq DEF IInv, ServerOK, QueueOK
    <3> QED BY <3>1
  <2>3. Advances
    BY <1>6, LeaveOn DEF GoOffline, counts
  <2> QED BY <1>1, <1>6, <2>1, <2>2, <2>3 DEF GoOffline
<1>7. CASE TimeOut
  BY <1>7, NobodyLate
<1>8. CASE Tick
  <2>1. PICK t \in timers : timers' = timers \ {t} /\ Post(Append(queue, t.msg))
    BY <1>8 DEF Tick
  <2>2. t.msg \in Request /\ UNCHANGED <<obj, sess, dbq, db, games>>
    BY <1>8, <2>1 DEF Tick, counts, IInv, ServerOK, TimersOK
  <2>3. Stage(obj.state) <= Stage(obj'.state)
    BY <2>2, StageIs
  <2>4. <<t.msg>> \in Seq(Request) /\ Append(queue, t.msg) = queue \o <<t.msg>>
    BY <2>2 DEF IInv, ServerOK, QueueOK
  <2> QED BY <1>1, <2>1, <2>2, <2>3, <2>4, OnAdvances
<1>9. ASSUME NEW u \in Uid, Serve(u) PROVE PrizesOK'
  BY <1>9, ServePrizes DEF IInv
<1> QED BY <1>3, <1>4, <1>5, <1>6, <1>7, <1>8, <1>9, DispatchPrizes DEF Next

(* Whose requests may not time out stays so.                               *)
LEMMA PunctualStays == Next \/ UNCHANGED vars => DOMAIN left' = DOMAIN left
<1>1. \A k : Spend(k) => DOMAIN left' = DOMAIN left
  BY DEF Spend
<1> QED BY <1>1 DEF Next, ClientSend, SendKick, Connect, GoOffline, TimeOut, Tick, Serve, Dispatch, vars

(* However requests are doubled, saves refused and done again and players  *)
(* kicked in between, nobody is paid twice for the same: what a player won *)
(* in a game by playing, by lottery or by buying he won once, unless a     *)
(* session times out (HandlerEndGameH5, HandlerLotteryH5,                  *)
(* HandlerBuyPrizeH5).                                                     *)
THEOREM NothingTwice == Spec => [](Punctual => NobodyTwice)
<1> DEFINE Inv == Punctual => PrizesOK
<1>1. Init => RefundsOK /\ Inv
  BY StartRefunds, StartPrizes DEF Init
<1>2. IInv /\ IInv' /\ RefundsOK /\ Inv /\ [Next]_vars => RefundsOK' /\ Inv'
  <2> SUFFICES ASSUME IInv, IInv', RefundsOK, Inv, [Next]_vars PROVE RefundsOK' /\ Inv'
    OBVIOUS
  <2>1. RefundsOK'
    BY StepRefunds, RefundsStutter, RefundsBegin DEF IInv
  <2>2. ASSUME Punctual' PROVE PrizesOK'
    <3>1. Punctual
      BY <2>2, PunctualStays DEF Punctual
    <3> QED BY <3>1, StepPrizes, PrizesStutter
  <2> QED BY <2>1, <2>2
<1>3. Inv => (Punctual => NobodyTwice)
  BY TwiceByNobody
<1> QED BY <1>1, <1>2, <1>3, GameInductive, PTL DEF Spec

(* The player's prizes are asked for by himself, and nobody else has any.  *)
Winning == {"end", "lottery", "buy"}
Mine(s, p) == \A i \in DOMAIN s : s[i].req.k \in Winning => s[i].p = p
NotPaid(r) == r.op = "save" => "prize" \notin DOMAIN r.rec
Unpaid(d, b, p) ==
    \A u \in Uid \ {p} : b[u].prize.won = << >> /\ \A i \in DOMAIN d[u] : NotPaid(d[u][i])
OwnOK == Mine(sess, obj.player) /\ Unpaid(dbq, db, obj.player)

(* What a handler does to it.                                              *)
SamePlayer == obj'.player = obj.player
OwnKept == Mine(sess', obj.player) /\ Unpaid(dbq', db, obj.player)

LEMMA NextUnpaid ==
    ASSUME NEW S, NEW q \in Seq(S), \A i \in DOMAIN q : NotPaid(q[i]), NEW e, NotPaid(e)
    PROVE  \A i \in DOMAIN Append(q, e) : NotPaid(Append(q, e)[i])
<1>1. /\ DOMAIN Append(q, e) = 1 .. Len(q) + 1 /\ DOMAIN q = 1 .. Len(q) /\ Len(q) \in Nat
      /\ \A i \in 1 .. Len(q) : Append(q, e)[i] = q[i]
      /\ Append(q, e)[Len(q) + 1] = e
  OBVIOUS
<1>2. \A i \in 1 .. Len(q) + 1 : i \in 1 .. Len(q) \/ i = Len(q) + 1
  BY <1>1
<1> QED BY <1>1, <1>2

LEMMA QueryUnpaid ==
    ASSUME IInv, OwnOK, NEW id, NEW U, Query(id, U)
    PROVE  Unpaid(dbq', db, obj.player)
<1> SUFFICES ASSUME NEW u \in Uid \ {obj.player}
             PROVE  db[u].prize.won = << >> /\ \A i \in DOMAIN dbq'[u] : NotPaid(dbq'[u][i])
  BY DEF Unpaid
<1>1. /\ dbq[u] \in Seq(Asked \cup Change) /\ \A i \in DOMAIN dbq[u] : NotPaid(dbq[u][i])
      /\ db[u].prize.won = << >>
  BY DEF IInv, ServerOK, DbOK, OwnOK, Unpaid
<1>2. NotPaid([id |-> id, op |-> "query"])
  BY DEF NotPaid
<1>3. dbq'[u] = dbq[u] \/ dbq'[u] = Append(dbq[u], [id |-> id, op |-> "query"])
  BY DEF Query
<1> QED BY <1>1, <1>2, <1>3, NextUnpaid

LEMMA AskOwns ==
    ASSUME IInv, OwnOK, NEW m, NEW p, NEW U, Ask(m, p, U), m.k \in Winning => p = obj.player
    PROVE  OwnKept
  BY QueryUnpaid DEF Ask, Mine, OwnOK, OwnKept

(* What becomes of a session: it is gone, or it is still his who asked,    *)
(* and what it saves is its owner's.                                       *)
LEMMA SaveOwns ==
    ASSUME IInv, OwnOK, NEW id \in DOMAIN sess, NEW x \in Ready(Request),
           x.p = sess[id].p, x.req = sess[id].req,
           NEW K, NEW new, Save(id, x, K, new), "prize" \in K => x.p = obj.player
    PROVE  OwnKept
<1>1. Mine(sess', obj.player)
  <2>1. LET y == [x EXCEPT !.save = TRUE, !.wait = {x.p}] IN y.req = x.req /\ y.p = x.p
    BY DEF Ready
  <2> QED BY <2>1 DEF Save, Mine, OwnOK
<1>2. ASSUME NEW u \in Uid \ {obj.player}
      PROVE  db[u].prize.won = << >> /\ \A i \in DOMAIN dbq'[u] : NotPaid(dbq'[u][i])
  <2> DEFINE e == [id |-> id, op |-> "save", rec |-> [k \in K |-> [new[k] EXCEPT !.ver = @ + 1]]]
  <2>1. /\ dbq[u] \in Seq(Asked \cup Change) /\ \A i \in DOMAIN dbq[u] : NotPaid(dbq[u][i])
        /\ db[u].prize.won = << >> /\ u \in DOMAIN dbq
    BY DEF IInv, ServerOK, DbOK, OwnOK, Unpaid
  <2>2. u = x.p => NotPaid(e)
    BY DEF NotPaid
  <2>3. dbq'[u] = IF u = x.p THEN Append(dbq[u], e) ELSE dbq[u]
    BY <2>1 DEF Save
  <2> HIDE DEF e
  <2> QED BY <2>1, <2>2, <2>3, NextUnpaid
<1> QED BY <1>1, <1>2 DEF Unpaid, OwnKept

LEMMA EndOwns == ASSUME OwnOK, NEW id, End(id) PROVE OwnKept
  BY DEF OwnOK, End, Without, Mine, OwnKept

LEMMA DoneOwns == ASSUME OwnOK, Done PROVE OwnKept
  BY DEF OwnOK, Done, OwnKept

LEMMA ServeOwns ==
    ASSUME IInv, OwnOK, NEW u \in Uid, Serve(u)
    PROVE  OwnOK'
<1> DEFINE r == Head(dbq[u])
<1>1. UNCHANGED <<obj, sess>> /\ dbq[u] # << >> /\ dbq' = [dbq EXCEPT ![u] = Tail(@)]
  BY DEF Serve
<1>2. dbq \in [Uid -> Seq(Asked \cup Change)] /\ db \in [Uid -> Rec]
  BY DEF IInv, ServerOK, DbOK
<1>3. ASSUME NEW v \in Uid \ {obj.player}
      PROVE  db'[v].prize.won = << >> /\ \A i \in DOMAIN dbq'[v] : NotPaid(dbq'[v][i])
  <2>1. db[v].prize.won = << >> /\ \A i \in DOMAIN dbq[v] : NotPaid(dbq[v][i])
    BY DEF OwnOK, Unpaid
  <2>2. CASE v # u
    <3>1. db'[v] = db[v] /\ dbq'[v] = dbq[v]
      BY <1>1, <1>2, <2>2 DEF Serve
    <3> QED BY <2>1, <3>1
  <2>3. CASE v = u
    <3>1. /\ r = dbq[u][1] /\ 1 \in DOMAIN dbq[u] /\ DOMAIN Tail(dbq[u]) = 1 .. Len(dbq[u]) - 1
          /\ DOMAIN dbq[u] = 1 .. Len(dbq[u])
          /\ \A i \in 1 .. Len(dbq[u]) - 1 : Tail(dbq[u])[i] = dbq[u][i + 1] /\ i + 1 \in 1 .. Len(dbq[u])
      BY <1>1, <1>2, HeadTail
    <3>2. NotPaid(r)
      BY <2>1, <2>3, <3>1
    <3>3. "prize" \in DOMAIN db[u]
      BY <1>2 DEF Rec
    <3>4. db'[u].prize = db[u].prize
      BY <1>2, <3>2, <3>3 DEF Serve, NotPaid
    <3>5. dbq'[u] = Tail(dbq[u])
      BY <1>1, <1>2
    <3> QED BY <2>1, <2>3, <3>1, <3>4, <3>5
  <2> QED BY <2>2, <2>3
<1> QED BY <1>1, <1>3 DEF OwnOK, Unpaid

(* The player stays the same: no step puts another in his place.           *)
LEMMA EntersSame ==
    ASSUME NEW o, "player" \in DOMAIN o, NEW T, NEW st, Enter(o, T, st)
    PROVE  obj'.player = o.player
  BY DEF Enter

LEMMA MovesSame ==
    ASSUME IInv
    PROVE  /\ \A T, st : Enter(obj, T, st) => SamePlayer
           /\ \A T, n : Restart(T, n) => SamePlayer
           /\ NextGame => SamePlayer
           /\ Leave => SamePlayer
           /\ Stay => SamePlayer
<1>1. obj \in PlayerSet /\ "player" \in DOMAIN obj
  BY DEF IInv, PlayerOK, PlayerSet
<1>2. \A T, st : Enter(obj, T, st) => SamePlayer
  BY <1>1, EntersSame DEF SamePlayer
<1>3. \A T, n : Restart(T, n) => SamePlayer
  BY <1>1 DEF Restart, PlayerSet, SamePlayer
<1>4. Leave => SamePlayer
  BY DEF Leave, Absent, Online, SamePlayer
<1> QED BY <1>2, <1>3, <1>4 DEF NextGame, Stay, SamePlayer

LEMMA QueryOwns ==
    ASSUME IInv, OwnOK, NEW id \in DOMAIN sess, NEW x \in Ready(Request),
           x.p = sess[id].p, x.req = sess[id].req, OnQuerySuccess(id, x)
    PROVE  SamePlayer /\ OwnKept
<1>1. x.req.k \in Winning => x.p = obj.player
  BY DEF OwnOK, Mine
<1>2. \A K, new : Save(id, x, K, new) /\ ("prize" \in K => x.req.k \in Winning) => OwnKept
  BY <1>1, SaveOwns
<1>3. End(id) => OwnKept
  BY EndOwns
<1>4. ASSUME x.req.k = "login", QueryLogin(id, x) PROVE SamePlayer /\ OwnKept
  <2>1. [x EXCEPT !.req.k = "login_promoter", !.wait = {Other}].req.k = "login_promoter"
    <3>1. \A r \in Request : [r EXCEPT !.k = "login_promoter"].k = "login_promoter"
      BY DEF Request, ClientMsg, LoginMsg, KickMsg, LogoutMsg, RefundMsg, TimerMsg, Promoter
    <3> QED BY <3>1 DEF Ready
  <2>2. Mine(sess', obj.player)
    BY <1>4, <2>1 DEF QueryLogin, Mine, OwnOK, Winning
  <2> QED BY <1>4, <2>2, QueryUnpaid, MovesSame DEF QueryLogin, OwnKept
<1>5. ASSUME NEW st, QueryCharge(id, x, st) PROVE SamePlayer /\ OwnKept
  BY <1>2, <1>3, <1>5, MovesSame DEF QueryCharge
<1>6. ASSUME x.req.k = "end", QueryEnd(id, x) PROVE SamePlayer /\ OwnKept
  BY <1>2, <1>3, <1>6, MovesSame DEF QueryEnd, Winning
<1>7. ASSUME x.req.k = "buy", QueryBuy(id, x) PROVE SamePlayer /\ OwnKept
  BY <1>2, <1>3, <1>7, MovesSame DEF QueryBuy, Winning
<1>8. ASSUME x.req.k = "lottery", QueryLottery(id, x) PROVE SamePlayer /\ OwnKept
  BY <1>2, <1>3, <1>8, MovesSame DEF QueryLottery, Winning
<1>9. ASSUME QueryGameRefund(id, x) \/ QueryBase(id, x) PROVE SamePlayer /\ OwnKept
  BY <1>2, <1>9, MovesSame DEF QueryGameRefund, QueryBase
<1> QED BY <1>4, <1>5, <1>6, <1>7, <1>8, <1>9 DEF OnQuerySuccess

LEMMA SaveSuccessSame ==
    ASSUME IInv, NEW id, NEW x, OnSaveSuccess(id, x)
    PROVE  SamePlayer
<1>1. obj \in PlayerSet
  BY DEF IInv, PlayerOK
<1>2. ASSUME NEW from, Begin(from) PROVE SamePlayer
  <2>1. CASE Stay
    BY <2>1, MovesSame
  <2>2. ASSUME NEW c, NEW T,
               Enter([obj EXCEPT !.can = c, !.tries = IF from = "wait_end" THEN @ + 1 ELSE 0], T, "wait_end")
        PROVE  SamePlayer
    <3> DEFINE o == [obj EXCEPT !.can = c, !.tries = IF from = "wait_end" THEN @ + 1 ELSE 0]
    <3>1. "player" \in DOMAIN o /\ o.player = obj.player
      BY <1>1 DEF PlayerSet
    <3> HIDE DEF o
    <3> QED BY <2>2, <3>1, EntersSame DEF o, SamePlayer
  <2> QED BY <1>2, <2>1, <2>2 DEF Begin
<1>3. LoggedIn => SamePlayer
  BY <1>1 DEF LoggedIn, PlayerSet, SamePlayer
<1> QED BY <1>2, <1>3, MovesSame DEF OnSaveSuccess

LEMMA AnswerOwns ==
    ASSUME IInv, OwnOK, NEW m \in AnswerMsg, Answer(m)
    PROVE  SamePlayer /\ OwnKept
<1> DEFINE a == Process(m)
<1>1. a.next # "none" => m.id \in DOMAIN sess /\ a.x.req = sess[m.id].req /\ a.x.p = sess[m.id].p
  BY ProcessOK DEF IInv, ServerOK
<1>2. a.next = "query" => a.x \in Ready(Request)
  BY ProcessOK DEF IInv, ServerOK
<1> HIDE DEF a
<1>3. CASE Rests(m.id, a)
  <2>1. CASE a.next = "wait" /\ sess' = [sess EXCEPT ![m.id] = a.x] /\ UNCHANGED dbq
    <3>1. Mine(sess', obj.player)
      BY <1>1, <2>1 DEF OwnOK, Mine
    <3>2. Stay
      BY <1>3 DEF Rests
    <3> QED BY <2>1, <3>1, <3>2, MovesSame DEF OwnOK, OwnKept
  <2> QED BY <1>3, <2>1, DoneOwns, EndOwns, MovesSame DEF Rests
<1>4. CASE Crashes
  BY <1>4, DoneOwns, MovesSame DEF Crashes
<1>5. CASE a.next = "query" /\ OnQuerySuccess(m.id, a.x)
  BY <1>1, <1>2, <1>5, QueryOwns
<1>6. CASE OnSaveSuccess(m.id, a.x)
  BY <1>6, SaveSuccessSame, EndOwns DEF OnSaveSuccess
<1> QED BY <1>3, <1>4, <1>5, <1>6 DEF Answer, a

LEMMA ClientOwns ==
    ASSUME IInv, OwnOK, NEW m, ClientRequest(m)
    PROVE  SamePlayer /\ OwnKept
<1>1. \A r, U : Ask(r, obj.player, U) => OwnKept
  BY AskOwns
<1>2. Done => OwnKept
  BY DoneOwns
<1>3. CASE PlayerLogin(m)
  <2>1. Online(obj.player, m.conn).player = obj.player
    BY DEF Online
  <2> QED BY <1>1, <1>3, <2>1, MovesSame DEF PlayerLogin, SamePlayer
<1>4. CASE StartGame(m) \/ RetryGame(m) \/ EndGame(m)
  BY <1>1, <1>2, <1>4, MovesSame DEF StartGame, RetryGame, EndGame, Refuse
<1>5. CASE Lottery(m)
  BY <1>1, <1>2, <1>5, MovesSame DEF Lottery, Refuse
<1>6. CASE LotteryEnd(m) \/ BuyPrize(m)
  BY <1>1, <1>2, <1>6, MovesSame DEF LotteryEnd, BuyPrize, Refuse
<1>7. CASE PlayerLogout \/ Refuse
  BY <1>2, <1>7, MovesSame DEF PlayerLogout, Refuse
<1> QED BY <1>3, <1>4, <1>5, <1>6, <1>7 DEF ClientRequest

LEMMA DispatchOwns ==
    ASSUME IInv, OwnOK, Dispatch
    PROVE  OwnOK'
<1> DEFINE m == Head(queue)
<1>1. db' = db /\ m \in Request \cup AnswerMsg
  BY HeadTail DEF Dispatch, IInv, ServerOK, QueueOK
<1>2. ASSUME m.k = "answer", Answer(m) PROVE SamePlayer /\ OwnKept
  BY <1>1, <1>2, RequestKinds, AnswerOwns
<1>3. ASSUME ClientRequest(m) PROVE SamePlayer /\ OwnKept
  BY <1>3, ClientOwns
<1>4. ASSUME Kick \/ TimerMessage(m) PROVE SamePlayer /\ OwnKept
  BY <1>4, DoneOwns, MovesSame DEF Kick, TimerMessage, Refuse
<1>5. ASSUME m.k \in {"game_refund", "m_logout"}, Internal(m) PROVE SamePlayer /\ OwnKept
  BY <1>5, AskOwns, MovesSame DEF Internal, Winning
<1>6. SamePlayer /\ OwnKept
  BY <1>2, <1>3, <1>4, <1>5 DEF Dispatch
<1> QED BY <1>1, <1>6 DEF OwnOK, SamePlayer, OwnKept

LEMMA StepOwns ==
    ASSUME IInv, OwnOK, [Next]_vars
    PROVE  OwnOK'
<1>1. ASSUME SamePlayer, Done, db' = db PROVE OwnOK'
  BY <1>1, DoneOwns DEF OwnOK, OwnKept, SamePlayer
<1>2. ASSUME UNCHANGED <<obj, sess, dbq, db>> PROVE OwnOK'
  BY <1>2 DEF OwnOK, Mine, Unpaid
<1>3. CASE GoOffline
  BY <1>1, <1>3, MovesSame DEF GoOffline, Done
<1>4. CASE TimeOut
  <2>1. Mine(sess', obj.player) /\ UNCHANGED <<obj, dbq, db>>
    BY <1>4 DEF TimeOut, Without, Mine, OwnOK
  <2> QED BY <2>1 DEF OwnOK
<1>5. ASSUME NEW u \in Uid, Serve(u) PROVE OwnOK'
  BY <1>5, ServeOwns
<1> QED BY <1>2, <1>3, <1>4, <1>5, DispatchOwns
        DEF Next, ClientSend, Connect, SendKick, Tick, vars

LEMMA StartOwns == Init => OwnOK
<1> SUFFICES ASSUME Starts, NEW p \in Player,
                    obj = [Online(p, 1) EXCEPT !.loaded = TRUE, !.state = "wait_start"]
             PROVE  OwnOK
  BY DEF Init
<1>1. sess = << >> /\ \A u \in Uid : dbq[u] = << >> /\ db[u].prize.won = << >>
  BY DEF Starts, Account
<1> QED BY <1>1 DEF OwnOK, Mine, Unpaid

(* However requests are doubled, saves refused and done again, connections *)
(* replaced and players kicked in between, a game has one prize of each    *)
(* kind, unless a session times out (HandlerEndGameH5, HandlerLotteryH5,   *)
(* HandlerBuyPrizeH5).                                                     *)
THEOREM OnePrizeEach == Spec => [](Punctual => OnePrize)
<1>1. Init => OwnOK
  BY StartOwns
<1>2. IInv /\ OwnOK /\ [Next]_vars => OwnOK'
  BY StepOwns
<1>3. OwnOK /\ (Punctual => NobodyTwice) => (Punctual => OnePrize)
  <2> SUFFICES ASSUME OwnOK, NobodyTwice PROVE OnePrize
    OBVIOUS
  <2>1. \A p \in Player : p # obj.player => DOMAIN db[p].prize.won = {}
    BY DEF OwnOK, Unpaid, Uid
  <2> QED BY <2>1, OneWinner
<1> QED BY <1>1, <1>2, <1>3, NothingTwice, GameInductive, PTL DEF Spec
=============================================================================
