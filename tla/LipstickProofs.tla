--------------------------- MODULE LipstickProofs ---------------------------
(***************************************************************************)
(* The arcade machine for any number of players, any gold and any bounds:  *)
(* its state and the server's are well-formed, a machine with a player on  *)
(* it is never left without a timer that ends its state, no game is given  *)
(* back twice, none is played for nothing, and nobody wins the same in one *)
(* game twice.                                                             *)
(***************************************************************************)
EXTENDS LipstickMachine, GameServerProofs

MachineSet == [on : BOOLEAN, conn : Nat, loaded : BOOLEAN, state : States,
               player : Player \cup {NoOne}, timer : Nat, can : BOOLEAN,
               tries : Nat]

(* What begins a handler: the requests and what the server sends itself.   *)
ClientMsg == [k : Client, conn : Nat, yes : BOOLEAN]
WebMsg    == [k : Web, p : Player]
LoginMsg  == [k : {"m_login"}, conn : Nat]
LogoutMsg == [k : {"m_logout"}]
ClearMsg  == [k : {"clear_buy_in"}, p : Player \cup {NoOne}]
RefundMsg == [k : {"game_refund"}, p : Player \cup {NoOne}, game : Nat]
TimerMsg  == [k : {"timeout"}, state : States]
Request   == ClientMsg \cup WebMsg \cup LoginMsg \cup LogoutMsg \cup ClearMsg \cup RefundMsg
             \cup TimerMsg

MachineOK == obj \in MachineSet /\ (~obj.on => obj = Offline)

(* A player logs in on the machine and pays in by his own records.         *)
LoginsOK == \A i \in DOMAIN sess : sess[i].req.k \in {"login", "buyin"} => sess[i].p \in Player

IInv == ServerOK(Request) /\ MachineOK /\ LoginsOK

(* What a step does to the machine, and to the sessions.                   *)
MachineKept == TimersOK(Request)' /\ MachineOK' /\ (Watched => Watched')
SessKept == SessOK(Request)' /\ dbq' \in [Uid -> Seq(Asked \cup Change)] /\ LoginsOK'

-----------------------------------------------------------------------------
(* Messages.                                                               *)

LEMMA RequestKinds ==
    /\ \A m \in Request : m.k # "answer"
    /\ \A m \in Request \cup AnswerMsg : m.k = "answer" <=> m \in AnswerMsg
    /\ \A m \in Request : m.k \in Client <=> m \in ClientMsg
    /\ \A m \in Request : m.k \in Web <=> m \in WebMsg
    /\ \A m \in Request : m.k = "m_login" <=> m \in LoginMsg
    /\ \A m \in Request : m.k = "m_logout" <=> m \in LogoutMsg
    /\ \A m \in Request : m.k = "clear_buy_in" <=> m \in ClearMsg
    /\ \A m \in Request : m.k = "game_refund" <=> m \in RefundMsg
    /\ \A m \in Request : m.k = "timeout" <=> m \in TimerMsg
  BY DEF Request, ClientMsg, WebMsg, LoginMsg, LogoutMsg, ClearMsg, RefundMsg, TimerMsg,
         AnswerMsg, Client, Web

LEMMA OwnMessages ==
    ASSUME IInv
    PROVE  /\ \A st \in States : Timeout(st) \in Request
           /\ ClearBuyIn(obj.player) \in Request /\ GameRefund(obj.player) \in Request
           /\ [k |-> "m_logout"] \in Request
  BY DEF IInv, MachineOK, MachineSet, ServerOK, CountsOK, Timeout, ClearBuyIn, GameRefund,
         Request, TimerMsg, ClearMsg, RefundMsg, LogoutMsg

-----------------------------------------------------------------------------
(* What a step does to the machine.                                        *)

(* The machine stays in its state, and the message taken was not its       *)
(* time-out.                                                               *)
LEMMA StateKeeps ==
    ASSUME IInv, queue # << >>, Quiet, UNCHANGED timers,
           obj' \in MachineSet, ~obj'.on => obj' = Offline,
           obj'.on = obj.on, obj'.state = obj.state, obj'.timer = obj.timer,
           obj.on => Head(queue) # Timeout(obj.state)
    PROVE  MachineKept
<1>1. << >> \in Seq(Request \cup AnswerMsg)
  OBVIOUS
<1>2. \A e \in Items(queue) : e = Head(queue) \/ e \in Items(queue')
  BY <1>1, SentKeeps DEF IInv, ServerOK, QueueOK, Quiet
<1>3. Watched => Watched'
  BY <1>2 DEF Watched, Items
<1> QED BY <1>3 DEF MachineKept, IInv, ServerOK, TimersOK, MachineOK

LEMMA QuietStays ==
    ASSUME IInv, queue # << >>, Quiet, Stay, obj.on => Head(queue) # Timeout(obj.state)
    PROVE  MachineKept
  BY StateKeeps DEF Stay, IInv, MachineOK

(* The machine is in a state of its own timer.                             *)
LEMMA EnterKeeps ==
    ASSUME IInv, NEW o \in MachineSet, o.on, NEW T, TimersLike(T, Request), NEW st \in States,
           Enter(o, T, st)
    PROVE  MachineKept
<1>1. Timeout(st) \in Request
  BY OwnMessages
<1>2. /\ TimersOK(Request)' /\ NewTimer(T) \in Nat
      /\ obj' = [o EXCEPT !.state = st, !.timer = NewTimer(T)]
      /\ [id |-> NewTimer(T), msg |-> Timeout(st)] \in timers'
  BY <1>1, EnteredOK
<1>3. obj' \in MachineSet /\ obj'.on /\ obj'.timer = NewTimer(T) /\ obj'.state = st
  BY <1>2 DEF MachineSet
<1>4. Watched'
  <2>1. \E t \in timers' : t.id = obj'.timer /\ t.msg = Timeout(obj'.state)
    BY <1>2, <1>3
  <2> QED BY <2>1 DEF Watched
<1> QED BY <1>2, <1>3, <1>4 DEF MachineKept, MachineOK

(* Nobody is on the machine.                                               *)
LEMMA FreeKeeps ==
    ASSUME TimersLike(timers', Request), obj' \in MachineSet, obj'.state = "wait_player",
           ~obj'.on => obj' = Offline
    PROVE  MachineKept
  BY SameTimers DEF MachineKept, MachineOK, Watched

LEMMA RefundTimers ==
    ASSUME IInv, NEW T, TimersLike(T, Request)
    PROVE  TimersLike(WithRefund(T), Request)
  BY OwnMessages, OneMoreTimer DEF WithRefund

LEMMA TheTimers ==
    ASSUME IInv
    PROVE  /\ TimersLike(timers, Request) /\ TimersLike(Release(timers), Request)
           /\ TimersLike(LogoutTimers, Request)
           /\ LogoutSends \in Seq(Request)
<1>1. TimersLike(timers, Request)
  BY SameTimers DEF IInv, ServerOK
<1>2. TimersLike(Release(timers), Request)
  BY <1>1, ReleasedTimers
<1>3. LogoutSends \in Seq(Request)
  BY OwnMessages DEF LogoutSends
<1> QED BY <1>1, <1>2, <1>3, RefundTimers DEF LogoutTimers

-----------------------------------------------------------------------------
(* What a step does to the sessions.                                       *)

LEMMA DoneKeeps == ASSUME IInv, Done PROVE SessKept
  BY DEF IInv, Done, SessKept, ServerOK, SessOK, DbOK, LoginsOK

LEMMA AskKeeps ==
    ASSUME IInv, NEW m \in Request, NEW p \in Uid, NEW U \in SUBSET Uid, U # {},
           m.k \in {"login", "buyin"} => p \in Player, Ask(m, p, U)
    PROVE  SessKept
<1>1. SessOK(Request)' /\ dbq' \in [Uid -> Seq(Asked \cup Change)]
  BY AskedOK DEF IInv, ServerOK
<1>2. LoginsOK'
  BY DEF LoginsOK, IInv, Ask
<1> QED BY <1>1, <1>2 DEF SessKept

LEMMA EndKeeps == ASSUME IInv, NEW id, End(id) PROVE SessKept
<1>1. SessOK(Request)' /\ dbq' \in [Uid -> Seq(Asked \cup Change)]
  BY EndedOK DEF IInv, ServerOK, End, DbOK
<1>2. LoginsOK'
  BY DEF LoginsOK, IInv, End, Without
<1> QED BY <1>1, <1>2 DEF SessKept

LEMMA SaveKeeps ==
    ASSUME IInv, NEW id \in DOMAIN sess, NEW x \in Ready(Request), x.req = sess[id].req,
           x.p = sess[id].p, Saves(id, x)
    PROVE  SessKept
<1>1. PICK K \in {{"gold"}, {"base"}, Won}, new \in Rec : Save(id, x, K, new)
  BY DEF Saves
<1>2. SessOK(Request)' /\ dbq' \in [Uid -> Seq(Asked \cup Change)]
  BY <1>1, SavedOK DEF IInv, ServerOK
<1>3. sess' = [sess EXCEPT ![id] = [x EXCEPT !.save = TRUE, !.wait = {x.p}]]
  BY <1>1 DEF Save
<1>4. LET y == [x EXCEPT !.save = TRUE, !.wait = {x.p}] IN y.req = sess[id].req /\ y.p = sess[id].p
  BY DEF Ready
<1>5. LoginsOK'
  BY <1>3, <1>4 DEF LoginsOK, IInv
<1> QED BY <1>2, <1>5 DEF SessKept

-----------------------------------------------------------------------------
(* The handlers that go on with an answer.                                 *)

LEMMA QuietWithAnswer ==
    ASSUME IInv, queue # << >>, Head(queue).k = "answer", Post(Tail(queue))
    PROVE  Quiet /\ Head(queue) # Timeout(obj.state)
<1>1. Tail(queue) \o << >> = Tail(queue)
  BY HeadTail DEF IInv, ServerOK, QueueOK
<1> QED BY <1>1 DEF Quiet, Sends, Post, Timeout

LEMMA StayWithAnswer ==
    ASSUME IInv, queue # << >>, Head(queue).k = "answer", Post(Tail(queue)), Stay
    PROVE  MachineKept
  BY QuietWithAnswer, QuietStays

(* The handler ends, or it saves, and gives no game back.                  *)
LEMMA QueryKeeps ==
    ASSUME IInv, queue # << >>, Head(queue).k = "answer", Post(Tail(queue)), UNCHANGED counts,
           NEW id \in DOMAIN sess, NEW x \in Ready(Request), x.req = sess[id].req,
           x.p = sess[id].p, obj.on \/ ~Uses(x.req.k, "query"), OnQuerySuccess(id, x)
    PROVE  MachineKept /\ Calm(<< >>) /\ (End(id) \/ Saves(id, x))
<1> DEFINE Goal == MachineKept /\ Calm(<< >>) /\ (End(id) \/ Saves(id, x))
<1>1. x.rec \in Rec /\ x.p \in Uid /\ x.req \in Request /\ games' = games
  BY DEF Ready, counts
<1>2. /\ CountsOK /\ TimersLike(timers, Request) /\ TimersLike(Release(timers), Request)
      /\ Release(timers) \subseteq timers
  BY TheTimers DEF IInv, ServerOK, Release
<1>3. Stay => MachineKept /\ Calm(<< >>)
  BY <1>1, StayWithAnswer, StayCalm
<1>4. ASSUME NEW o \in MachineSet, o.on, NEW T, T \subseteq timers, TimersLike(T, Request),
             NEW st \in States, st # "wait_end", Enter(o, T, st)
      PROVE  MachineKept /\ Calm(<< >>)
  <2>1. "state" \in DOMAIN o
    BY DEF MachineSet
  <2> QED BY <1>1, <1>4, <2>1, EnterKeeps, EnterCalm
<1>5. ASSUME x.req.k \notin Charges
      PROVE  \A new \in Alike(x.rec), K \in {{"gold"}, {"base"}, Won} : Save(id, x, K, new) => Saves(id, x)
  <2>1. \A new \in Alike(x.rec) : new \in Banked(x.rec) /\ new \in Rec /\ new.gold.bet <= x.rec.gold.bet
    BY AlikeRecords DEF Alike, AlikeGold
  <2> QED BY <1>5, <2>1 DEF Saves
<1>6. \A n \in Nat : ~(x.rec.gold.bet < n) => Pay(x, n) \in Alike(x.rec)
  <2> TAKE n \in Nat
  <2>1. x.rec.gold.bet \in Nat
    BY <1>1, AccountRecords
  <2>2. ~(x.rec.gold.bet < n) => x.rec.gold.bet >= n
    BY <2>1
  <2> QED BY <1>1, <2>2, AccountRecords DEF Pay
<1>7. Back(x) \in Alike(x.rec)
  BY <1>1, AccountRecords, 0 \in Nat DEF Back
<1> HIDE DEF Goal
<1>8. ASSUME MachineKept /\ Calm(<< >>), End(id) \/ Saves(id, x) PROVE Goal
  BY <1>8 DEF Goal
<1>9. ASSUME x.req.k = "login", QueryLogin(id, x) PROVE Goal
  <2>1. obj.on /\ x.p \in Player
    BY <1>9 DEF Uses, IInv, LoginsOK
  <2>2. CASE obj.state # "wait_player"
    BY <1>3, <1>8, <1>9, <2>2 DEF QueryLogin
  <2>3. CASE obj.state = "wait_player"
    <3>1. [obj EXCEPT !.player = x.p] \in MachineSet /\ [obj EXCEPT !.player = x.p].on
      BY <2>1 DEF IInv, MachineOK, MachineSet
    <3>2. Enter([obj EXCEPT !.player = x.p], timers, "wait_start")
      BY <1>9, <2>3 DEF QueryLogin
    <3>3. MachineKept /\ Calm(<< >>)
      BY <1>2, <1>4, <3>1, <3>2 DEF States
    <3> QED BY <1>5, <1>7, <1>8, <1>9, <2>3, <3>3 DEF QueryLogin, Charges
  <2> QED BY <2>2, <2>3
<1>10. ASSUME x.req.k = "buyin", QueryBuyIn(id, x) PROVE Goal
  <2>1. x.rec.gold.gold \in Nat /\ Coins \in Nat
    BY <1>1, AccountRecords, CoinsAssumption, 0 \in Nat
  <2>2. ~(x.rec.gold.gold < Coins) => x.rec.gold.gold >= Coins
    BY <2>1
  <2>3. ~(x.rec.gold.gold < Coins) =>
          [x.rec EXCEPT !.gold.gold = @ - Coins, !.gold.bet = @ + Coins, !.gold.held = TRUE]
            \in Banked(x.rec)
    BY <1>1, <2>1, <2>2, AccountRecords
  <2>4. x.p \in Player /\ x.req.k \notin Charges
    BY <1>10 DEF IInv, LoginsOK, Charges
  <2>5. \A new \in Banked(x.rec) : Save(id, x, {"gold"}, new) => Saves(id, x)
    BY <2>4, AlikeRecords DEF Saves
  <2> QED BY <1>3, <1>8, <1>10, <2>3, <2>5 DEF QueryBuyIn
<1>11. ASSUME NEW st \in States, QueryCharge(id, x, st) PROVE Goal
  <2>1. ~(x.rec.gold.bet < 1) => Pay(x, 1) \in Alike(x.rec) /\ x.rec.gold.bet > 0
    <3>1. x.rec.gold.bet \in Nat /\ 1 \in Nat
      BY <1>1, AccountRecords, 1 \in Nat
    <3>2. ~(x.rec.gold.bet < 1) => x.rec.gold.bet > 0
      BY <3>1
    <3> QED BY <1>6, <3>1, <3>2
  <2>2. Pay(x, 1).gold.spent > x.rec.gold.spent
    BY <1>1, ChargeRecord DEF Pay
  <2>3. ~(x.rec.gold.bet < 1) => Charged(x, {"gold"}, Pay(x, 1))
    BY <2>1, <2>2 DEF Charged
  <2>4. \A new \in Alike(x.rec) : new \in Banked(x.rec) /\ new \in Rec /\ new.gold.bet <= x.rec.gold.bet
    BY AlikeRecords DEF Alike, AlikeGold
  <2>5. ~(x.rec.gold.bet < 1) /\ Save(id, x, {"gold"}, Pay(x, 1)) => Saves(id, x)
    BY <2>1, <2>3, <2>4 DEF Saves
  <2> QED BY <1>3, <1>8, <1>11, <2>5 DEF QueryCharge
<1>12. ASSUME x.req.k = "end", QueryEnd(id, x) PROVE Goal
  <2>1. obj.on /\ obj \in MachineSet
    BY <1>12 DEF Uses, IInv, MachineOK
  <2>2. CASE \E st \in {"wait_start", "wait_lottery", "wait_buy"} :
                End(id) /\ Enter(obj, Release(timers), st)
    BY <1>2, <1>4, <1>8, <2>1, <2>2 DEF States
  <2>3. CASE Stay /\ (End(id) \/ Save(id, x, Won, Win(x.rec, "win")))
    <3>1. Win(x.rec, "win") \in Alike(x.rec)
      BY <1>1, <1>2, WinRecord
    <3> QED BY <1>3, <1>5, <1>8, <1>12, <2>3, <3>1 DEF Charges
  <2> QED BY <1>12, <2>2, <2>3 DEF QueryEnd
<1>13. ASSUME x.req.k = "buy", QueryBuy(id, x) PROVE Goal
  <2>1. PICK n \in {0, 1} : IF obj.state # "wait_buy" \/ x.rec.gold.bet < n THEN End(id)
                            ELSE Save(id, x, Won, Win(Pay(x, n), "buy"))
    BY <1>13 DEF QueryBuy
  <2>2. ~(x.rec.gold.bet < n) => Win(Pay(x, n), "buy") \in Alike(x.rec)
    <3>1. n \in Nat
      OBVIOUS
    <3>2. \A r \in Alike(x.rec) : Win(r, "buy") \in Alike(x.rec)
      BY <1>1, <1>2, AlikeRecords, WinRecord
    <3> QED BY <1>6, <3>1, <3>2
  <2> QED BY <1>3, <1>5, <1>8, <1>13, <2>1, <2>2 DEF QueryBuy, Charges
<1>14. ASSUME x.req.k = "clear_buy_in", QueryClearBuyIn(id, x) PROVE Goal
  BY <1>3, <1>5, <1>7, <1>8, <1>14 DEF QueryClearBuyIn, Charges
<1>15. ASSUME x.req.k = "lottery", QueryLottery(id, x) PROVE Goal
  <2>1. [x.rec EXCEPT !.gold.gold = @ + 1] \in Alike(x.rec)
    BY <1>1, AccountRecords, 1 \in Nat
  <2>2. Win(x.rec, "lottery") \in Alike(x.rec)
    BY <1>1, <1>2, WinRecord
  <2> QED BY <1>3, <1>5, <1>8, <1>15, <2>1, <2>2 DEF QueryLottery, Charges
<1>16. ASSUME x.req.k = "game_refund", QueryGameRefund(id, x) PROVE Goal
  <2>1. x.req.game \in Nat
    BY <1>1, <1>16, RequestKinds DEF RefundMsg
  <2>2. \A new \in Refunded(x.rec, x.req.game) : Save(id, x, {"gold"}, new) => Saves(id, x)
    BY <1>16, AlikeRecords DEF Saves, Charges, Refunded
  <2> QED BY <1>1, <1>3, <1>8, <1>16, <2>1, <2>2, RefundRecord DEF QueryGameRefund
<1>17. ASSUME x.req.k \in {"m_login", "m_logout"}, QueryBase(id, x) PROVE Goal
  BY <1>1, <1>3, <1>5, <1>8, <1>17, AlikeRecords DEF QueryBase, Charges
<1> QED BY <1>9, <1>10, <1>11, <1>12, <1>13, <1>14, <1>15, <1>16, <1>17
        DEF Goal, OnQuerySuccess, States

LEMMA BeginKeeps ==
    ASSUME IInv, queue # << >>, Head(queue).k = "answer", Post(Tail(queue)),
           UNCHANGED conn, obj.on, NEW from \in {"wait_start", "wait_end"}, Begin(from)
    PROVE  MachineKept /\ CountsOK' /\ Calm(<< >>)
<1>1. CASE Stay /\ UNCHANGED counts
  BY <1>1, StayWithAnswer, StayCalm DEF IInv, ServerOK, CountsOK, counts
<1>2. CASE /\ obj.state = from
           /\ \E c \in BOOLEAN :
                 Enter([obj EXCEPT !.can = c, !.tries = IF from = "wait_end" THEN @ + 1 ELSE 0],
                       Release(timers), "wait_end")
           /\ Count(from)
  <2>1. PICK c \in BOOLEAN :
                 Enter([obj EXCEPT !.can = c, !.tries = IF from = "wait_end" THEN @ + 1 ELSE 0],
                       Release(timers), "wait_end")
    BY <1>2
  <2> DEFINE n == IF from = "wait_end" THEN obj.tries + 1 ELSE 0
             o == [obj EXCEPT !.can = c, !.tries = n]
  <2>0. n \in Nat
    BY DEF IInv, MachineOK, MachineSet
  <2>2. o \in MachineSet /\ o.on /\ "state" \in DOMAIN o
    <3> HIDE DEF n
    <3> QED BY <2>0 DEF IInv, MachineOK, MachineSet
  <2>7. Enter(o, Release(timers), "wait_end")
    BY <2>1
  <2> HIDE DEF o
  <2>3. MachineKept
    BY <2>7, <2>2, TheTimers, EnterKeeps DEF States
  <2>4. CountsOK' /\ games' = games + IF from = "wait_start" THEN 1 ELSE 0
    BY <1>2 DEF IInv, ServerOK, CountsOK, Count
  <2>5. (games' = games /\ obj.state = "wait_end") \/ games' = games + 1
    BY <1>2, <2>4 DEF IInv, ServerOK, CountsOK
  <2>6. Calm(<< >>)
    BY <2>2, <2>5, <2>7, EnterCalm DEF Release
  <2> QED BY <2>3, <2>4, <2>6
<1> QED BY <1>1, <1>2 DEF Begin

LEMMA SaveSuccessKeeps ==
    ASSUME IInv, queue # << >>, Head(queue).k = "answer", Post(Tail(queue)),
           UNCHANGED conn, NEW id, NEW x,
           obj.on \/ ~Uses(x.req.k, "save"), OnSaveSuccess(id, x)
    PROVE  MachineKept /\ SessKept /\ CountsOK' /\ Calm(<< >>)
<1>1. SessKept
  BY EndKeeps DEF OnSaveSuccess
<1>2. UNCHANGED counts => CountsOK'
  BY DEF IInv, ServerOK, CountsOK, counts
<1>3. Stay /\ UNCHANGED counts => MachineKept /\ Calm(<< >>)
  BY StayWithAnswer, StayCalm DEF counts
<1>4. ASSUME obj.on, UNCHANGED counts, NEW from \in States, NEW st \in States, st # "wait_end",
             Goes(from, st)
      PROVE  MachineKept /\ Calm(<< >>)
  <2>1. CASE Enter(obj, Release(timers), st)
    <3>1. obj \in MachineSet /\ "state" \in DOMAIN obj /\ Release(timers) \subseteq timers
      BY DEF IInv, MachineOK, MachineSet, Release
    <3>2. Calm(<< >>)
      BY <1>4, <2>1, <3>1, EnterCalm DEF counts
    <3> QED BY <1>4, <2>1, <3>1, <3>2, TheTimers, EnterKeeps
  <2> QED BY <1>3, <1>4, <2>1 DEF Goes
<1>5. CASE x.req.k = "start" /\ Begin("wait_start")
  BY <1>1, <1>5, BeginKeeps DEF Uses
<1>6. CASE x.req.k = "retry" /\ Begin("wait_end")
  BY <1>1, <1>6, BeginKeeps DEF Uses
<1>7. CASE /\ \/ x.req.k = "end"     /\ Goes("wait_end", "wait_start")
              \/ x.req.k = "lottery" /\ Goes("wait_lottery", "lottery_end")
              \/ x.req.k = "buy"     /\ Goes("wait_buy", "buy_ani")
           /\ UNCHANGED counts
  BY <1>1, <1>2, <1>4, <1>7 DEF Uses, States
<1>8. CASE x.req.k = "m_login" /\ obj' = [obj EXCEPT !.loaded = TRUE] /\ UNCHANGED <<timers, counts>>
  <2>1. obj.on /\ obj \in MachineSet
    BY <1>8 DEF Uses, IInv, MachineOK
  <2>2. /\ obj' \in MachineSet /\ obj'.on /\ obj'.state = obj.state /\ obj'.timer = obj.timer
    BY <1>8, <2>1 DEF MachineSet
  <2>3. Calm(<< >>)
    BY <1>8, <2>2 DEF Calm, counts
  <2> QED BY <1>1, <1>2, <1>8, <2>1, <2>2, <2>3, QuietWithAnswer, StateKeeps
<1>9. CASE Stay /\ UNCHANGED counts
  BY <1>1, <1>2, <1>3, <1>9
<1> QED BY <1>5, <1>6, <1>7, <1>8, <1>9 DEF OnSaveSuccess

LEMMA AnswerKeeps ==
    ASSUME IInv, queue # << >>, Head(queue) \in AnswerMsg, Post(Tail(queue)),
           UNCHANGED conn, Answer(Head(queue))
    PROVE  MachineKept /\ SessKept /\ CountsOK' /\ Calm(<< >>) /\ AnswerTaken(Head(queue))
<1> DEFINE m == Head(queue)
           a == Process(m)
           lacks == ~obj.on /\ Uses(a.x.req.k, a.next)
<1>1. m.k = "answer"
  BY DEF AnswerMsg
<1>2. UNCHANGED <<counts, crashed>> => CountsOK' /\ games' = games
  BY DEF IInv, ServerOK, CountsOK, counts
<1>3. CASE Rests(m.id, a)
  <2>1. SessOK(Request)' /\ dbq' = dbq /\ Stay
    BY <1>3, RestsOK DEF IInv, Stay
  <2>2. LoginsOK'
    <3>1. CASE Done
      BY <3>1 DEF Done, IInv, LoginsOK
    <3>2. CASE End(m.id)
      BY <3>2, EndKeeps DEF SessKept
    <3>3. CASE a.next = "wait" /\ sess' = [sess EXCEPT ![m.id] = a.x]
      <4>1. a.x.req = sess[m.id].req /\ a.x.p = sess[m.id].p /\ m.id \in DOMAIN sess
        BY <3>3, ProcessOK DEF IInv, ServerOK
      <4> QED BY <3>3, <4>1 DEF IInv, LoginsOK
    <3> QED BY <1>3, <3>1, <3>2, <3>3 DEF Rests
  <2>3. UNCHANGED <<counts, crashed>>
    BY <1>3 DEF Rests
  <2>4. AnswerTaken(m)
    <3>1. a.next = "none" => m.id \notin DOMAIN sess
      BY DEF Process, SaveAnswer, QueryAnswer
    <3> QED BY <1>3, <3>1 DEF Rests, AnswerTaken
  <2> QED BY <1>1, <1>2, <2>1, <2>2, <2>3, <2>4, StayWithAnswer, StayCalm
      DEF SessKept, IInv, ServerOK, DbOK
<1>4. CASE a.next \in {"query", "save"} /\ lacks /\ Crashes
  <2>1. m.id \in DOMAIN sess => sess[m.id].req.k # "game_refund"
    BY <1>4, ProcessOK DEF IInv, ServerOK, Uses
  <2>2. AnswerTaken(m)
    BY <1>4, <2>1 DEF Crashes, AnswerTaken
  <2> QED BY <1>1, <1>4, <2>2, StayWithAnswer, StayCalm, DoneKeeps
      DEF Crashes, IInv, ServerOK, CountsOK, counts
<1>5. CASE a.next = "query" /\ ~lacks /\ OnQuerySuccess(m.id, a.x) /\ UNCHANGED <<counts, crashed>>
  <2>1. /\ m.id \in DOMAIN sess /\ a.x \in Ready(Request)
        /\ a.x.req = sess[m.id].req /\ a.x.p = sess[m.id].p
    BY <1>5, ProcessOK DEF IInv, ServerOK
  <2> HIDE DEF a, m
  <2>2. obj.on \/ ~Uses(a.x.req.k, "query")
    BY <1>5
  <2>3. MachineKept /\ Calm(<< >>) /\ (End(m.id) \/ Saves(m.id, a.x))
    BY <1>1, <1>5, <2>1, <2>2, QueryKeeps DEF m
  <2>4. SessKept
    BY <2>1, <2>3, EndKeeps, SaveKeeps
  <2>5. AnswerTaken(m)
    BY <1>5, <2>3 DEF AnswerTaken, a
  <2> QED BY <1>2, <1>5, <2>3, <2>4, <2>5 DEF m
<1>6. CASE a.next = "save" /\ ~lacks /\ OnSaveSuccess(m.id, a.x) /\ UNCHANGED crashed
  <2> HIDE DEF a
  <2>2. obj.on \/ ~Uses(a.x.req.k, "save")
    BY <1>6
  <2>3. AnswerTaken(m)
    BY <1>6 DEF OnSaveSuccess, AnswerTaken
  <2> QED BY <1>1, <1>6, <2>2, <2>3, SaveSuccessKeeps
<1> QED BY <1>3, <1>4, <1>5, <1>6 DEF Answer

-----------------------------------------------------------------------------
(* The messages that begin a handler.                                      *)

LEMMA NotItsTimeout ==
    ASSUME NEW m, m.k # "timeout"
    PROVE  m # Timeout(obj.state)
  BY DEF Timeout

LEMMA RefuseKeeps ==
    ASSUME IInv, queue # << >>, Refuse, obj.on => Head(queue) # Timeout(obj.state)
    PROVE  MachineKept /\ SessKept /\ QueueOK(Request)'
  BY QuietStays, QuietOK, DoneKeeps DEF Refuse, IInv, ServerOK

LEMMA AskingKeeps ==
    ASSUME IInv, queue # << >>, Head(queue).k # "timeout", Quiet, Stay,
           NEW m \in Request, NEW p \in Uid, NEW U \in SUBSET Uid, U # {},
           m.k \in {"login", "buyin"} => p \in Player, Ask(m, p, U)
    PROVE  MachineKept /\ SessKept /\ QueueOK(Request)'
  BY NotItsTimeout, QuietStays, QuietOK, AskKeeps DEF IInv, ServerOK

LEMMA LeaveKeeps ==
    ASSUME IInv, queue # << >>, obj.on, NEW T, TimersLike(T, Request), NEW n \in Nat,
           Leave(T, n, <<ClearBuyIn(obj.player)>>)
    PROVE  MachineKept /\ SessKept /\ QueueOK(Request)'
<1>1. obj' \in MachineSet /\ obj'.on /\ obj'.state = "wait_player"
  BY DEF Leave, IInv, MachineOK, MachineSet, States
<1>2. timers' = T
  BY DEF Leave
<1>3. MachineKept
  BY <1>1, <1>2, FreeKeeps
<1>4. <<ClearBuyIn(obj.player)>> \in Seq(Request)
  BY OwnMessages
<1>5. QueueOK(Request)'
  BY <1>4, SentOK DEF Leave, IInv, ServerOK
<1> QED BY <1>3, <1>5, DoneKeeps DEF Leave

LEMMA MachineLoginKeeps ==
    ASSUME IInv, queue # << >>, Head(queue) \in LoginMsg, MachineLogin(Head(queue))
    PROVE  MachineKept /\ SessKept /\ QueueOK(Request)'
<1> DEFINE m == Head(queue)
<1>1. m \in Request /\ m.k = "m_login" /\ m.conn \in Nat
  BY DEF Request, LoginMsg
<1>2. obj' = [Offline EXCEPT !.on = TRUE, !.conn = m.conn]
  BY DEF MachineLogin
<1>3. obj' \in MachineSet /\ obj'.on /\ obj'.state = "wait_player"
  BY <1>1, <1>2 DEF Offline, MachineSet, States
<1>4. TimersLike(timers', Request) /\ QueueOK(Request)'
  <2>1. CASE obj.on
    BY <2>1, TheTimers, SentOK DEF MachineLogin, IInv, ServerOK
  <2>2. CASE ~obj.on
    BY <2>2, TheTimers, QuietOK DEF MachineLogin, IInv, ServerOK
  <2> QED BY <2>1, <2>2
<1>5. MachineKept
  BY <1>3, <1>4, FreeKeeps
<1>6. SessKept
  BY <1>1, AskKeeps DEF MachineLogin, Uid
<1> QED BY <1>4, <1>5, <1>6

LEMMA WebKeeps ==
    ASSUME IInv, queue # << >>, Head(queue) \in WebMsg,
           WebRequest(Head(queue)) \/ Kick(Head(queue))
    PROVE  MachineKept /\ SessKept /\ QueueOK(Request)'
<1> DEFINE m == Head(queue)
<1>1. m \in Request /\ m.k # "timeout" /\ m.p \in Player
  BY DEF Request, WebMsg, Web
<1>2. CASE Refuse
  BY <1>1, <1>2, RefuseKeeps, NotItsTimeout
<1>3. CASE Quiet /\ Stay /\ Ask(m, m.p, {m.p})
  BY <1>1, <1>3, AskingKeeps DEF Uid
<1>4. CASE obj.on /\ Leave(Release(WithRefund(timers)), obj.timer, <<ClearBuyIn(obj.player)>>)
  <2>1. TimersLike(Release(WithRefund(timers)), Request)
    BY TheTimers, RefundTimers, ReleasedTimers
  <2>2. obj.timer \in Nat
    BY DEF IInv, MachineOK, MachineSet
  <2> QED BY <1>4, <2>1, <2>2, LeaveKeeps
<1> QED BY <1>2, <1>3, <1>4 DEF WebRequest, Kick

LEMMA ClientKeeps ==
    ASSUME IInv, queue # << >>, Head(queue) \in ClientMsg, ClientRequest(Head(queue))
    PROVE  MachineKept /\ SessKept /\ QueueOK(Request)'
<1> DEFINE m == Head(queue)
<1>1. /\ m \in Request /\ m.k \in Client /\ m.k \notin {"timeout", "login", "buyin"}
      /\ \A b \in BOOLEAN : [m EXCEPT !.yes = b] \in Request /\ [m EXCEPT !.yes = b].k = m.k
  BY DEF Request, ClientMsg, Client
<1>2. CASE Refuse
  BY <1>1, <1>2, RefuseKeeps, NotItsTimeout
<1>3. ASSUME obj.on PROVE obj \in MachineSet /\ obj.player \in Uid /\ Other \in Uid /\ obj.timer \in Nat
  BY DEF IInv, MachineOK, MachineSet, Uid
<1>4. ASSUME obj.on, Quiet, Stay, NEW r \in Request, r.k \notin {"login", "buyin"},
             NEW U \in {{obj.player, Other}, {obj.player}}, Ask(r, obj.player, U)
      PROVE  MachineKept /\ SessKept /\ QueueOK(Request)'
  <2>1. obj.player \in Uid /\ U \in SUBSET Uid /\ U # {}
    BY <1>3, <1>4
  <2> QED BY <1>1, <1>4, <2>1, AskingKeeps
<1>5. ASSUME obj.on, Quiet, NEW st \in States, Enter(obj, Release(timers), st), Done
      PROVE  MachineKept /\ SessKept /\ QueueOK(Request)'
  <2>1. MachineKept
    BY <1>3, <1>5, TheTimers, EnterKeeps
  <2> QED BY <1>5, <2>1, QuietOK, DoneKeeps DEF IInv, ServerOK
<1>6. CASE obj.on /\ StartGame(m)
  BY <1>1, <1>4, <1>6 DEF StartGame
<1>7. CASE obj.on /\ RetryGame(m)
  BY <1>1, <1>2, <1>4, <1>7 DEF RetryGame
<1>8. CASE obj.on /\ EndGame(m)
  BY <1>1, <1>2, <1>4, <1>8 DEF EndGame
<1>9. CASE obj.on /\ Lottery(m)
  BY <1>1, <1>2, <1>4, <1>5, <1>9 DEF Lottery, States
<1>10. CASE obj.on /\ LotteryEnd(m)
  BY <1>2, <1>5, <1>10 DEF LotteryEnd, States
<1>11. CASE obj.on /\ BuyPrize(m)
  BY <1>1, <1>2, <1>4, <1>5, <1>11 DEF BuyPrize, States
<1>12. CASE obj.on /\ PlayerLogout(m)
  BY <1>2, <1>3, <1>12, TheTimers, LeaveKeeps DEF PlayerLogout
<1> QED BY <1>2, <1>6, <1>7, <1>8, <1>9, <1>10, <1>11, <1>12 DEF ClientRequest

LEMMA TimerMessageKeeps ==
    ASSUME IInv, queue # << >>, Head(queue) \in TimerMsg, TimerMessage(Head(queue))
    PROVE  MachineKept /\ SessKept /\ QueueOK(Request)'
<1> DEFINE m == Head(queue)
<1>1. m \in Request /\ m.state \in States
  BY DEF Request, TimerMsg
<1>2. CASE ~TimeIsUp(m)
  <2>1. obj.on => m # Timeout(obj.state)
    BY <1>2 DEF TimeIsUp, Timeout
  <2> QED BY <1>2, <2>1, RefuseKeeps DEF TimerMessage
<1>3. CASE TimeIsUp(m)
  <2>1. obj.on /\ obj \in MachineSet
    BY <1>3 DEF TimeIsUp, IInv, MachineOK
  <2>2. CASE Leave(WithRefund(timers), 0, <<ClearBuyIn(obj.player)>>)
    BY <2>1, <2>2, TheTimers, RefundTimers, LeaveKeeps
  <2>3. ASSUME Quiet, Done, NEW st \in States, Enter(obj, timers, st)
        PROVE  MachineKept /\ SessKept /\ QueueOK(Request)'
    <3>1. MachineKept
      BY <2>1, <2>3, TheTimers, EnterKeeps
    <3> QED BY <2>3, <3>1, QuietOK, DoneKeeps DEF IInv, ServerOK
  <2> QED BY <1>3, <2>2, <2>3 DEF TimerMessage, States
<1> QED BY <1>2, <1>3

LEMMA InternalKeeps ==
    ASSUME IInv, queue # << >>, Head(queue) \in ClearMsg \cup RefundMsg \cup LogoutMsg,
           Internal(Head(queue))
    PROVE  MachineKept /\ SessKept /\ QueueOK(Request)'
<1> DEFINE m == Head(queue)
<1>1. /\ m \in Request /\ m.k \notin {"timeout", "login", "buyin"}
      /\ m.k # "m_logout" => m.p \in Player \cup {NoOne}
  BY DEF Request, ClearMsg, RefundMsg, LogoutMsg
<1>2. Quiet /\ Stay
  BY DEF Internal
<1>3. CASE m.k = "m_logout"
  BY <1>1, <1>2, <1>3, AskingKeeps DEF Internal, Uid
<1>4. CASE m.k # "m_logout"
  BY <1>1, <1>2, <1>4, AskingKeeps DEF Internal, Uid
<1> QED BY <1>3, <1>4

LEMMA DispatchKeeps ==
    ASSUME IInv, Dispatch
    PROVE  IInv' /\ (Watched => Watched')
<1> DEFINE m == Head(queue)
<1>1. queue # << >> /\ m \in Request \cup AnswerMsg /\ UNCHANGED <<db, conn>>
  BY HeadTail DEF Dispatch, IInv, ServerOK, QueueOK
<1>2. CASE m.k = "answer"
  <2>1. m \in AnswerMsg
    BY <1>1, <1>2, RequestKinds
  <2>2. Post(Tail(queue)) /\ Answer(m)
    BY <1>2 DEF Dispatch, Client
  <2>3. MachineKept /\ SessKept /\ CountsOK'
    BY <1>1, <2>1, <2>2, AnswerKeeps
  <2>4. QueueOK(Request)'
    BY <1>1, <2>2, HeadTail DEF Post, IInv, ServerOK, QueueOK
  <2> QED BY <1>1, <2>3, <2>4 DEF MachineKept, SessKept, IInv, ServerOK, DbOK
<1>3. CASE m.k # "answer"
  <2>1. m \in Request
    BY <1>1, <1>3, RequestKinds DEF AnswerMsg
  <2>2. UNCHANGED <<counts, crashed>>
    BY <1>3 DEF Dispatch
  <2>3. MachineKept /\ SessKept /\ QueueOK(Request)'
    <3>1. CASE m.k \in Client /\ ClientRequest(m)
      BY <1>1, <2>1, <3>1, RequestKinds, ClientKeeps
    <3>2. CASE m.k = "m_login" /\ MachineLogin(m)
      BY <1>1, <2>1, <3>2, RequestKinds, MachineLoginKeeps
    <3>3. CASE m.k \in Web /\ (WebRequest(m) \/ Kick(m))
      BY <1>1, <2>1, <3>3, RequestKinds, WebKeeps
    <3>4. CASE m.k = "timeout" /\ TimerMessage(m)
      BY <1>1, <2>1, <3>4, RequestKinds, TimerMessageKeeps
    <3>5. CASE m.k \in {"clear_buy_in", "game_refund", "m_logout"} /\ Internal(m)
      BY <1>1, <2>1, <3>5, RequestKinds, InternalKeeps
    <3> QED BY <1>3, <3>1, <3>2, <3>3, <3>4, <3>5 DEF Dispatch, Web
  <2> QED BY <1>1, <2>2, <2>3 DEF MachineKept, SessKept, IInv, ServerOK, DbOK, CountsOK, counts
<1> QED BY <1>2, <1>3

-----------------------------------------------------------------------------
(* The other actions, and the theorems.                                    *)

LEMMA InitHolds == Init => IInv /\ Watched
<1> SUFFICES ASSUME Init PROVE IInv /\ Watched
  OBVIOUS
<1>1. obj \in MachineSet /\ obj.on /\ obj.state = "wait_player"
  BY DEF Init, Offline, MachineSet, States
<1>2. ServerOK(Request)
  BY StartsOK DEF Init
<1>3. LoginsOK
  BY DEF Init, Starts, LoginsOK
<1> QED BY <1>1, <1>2, <1>3 DEF IInv, MachineOK, Watched

(* A request comes: the machine stays as it is.                            *)
LEMMA RequestComes ==
    ASSUME IInv, NEW m \in Request \cup AnswerMsg, Post(Append(queue, m)),
           UNCHANGED <<obj, timers, sess, dbq, db, games, retries>>, conn' \in Nat
    PROVE  IInv' /\ (Watched => Watched')
<1>1. QueueOK(Request)'
  BY PostedOK DEF IInv, ServerOK
<1>2. Append(queue, m) = queue \o <<m>> /\ <<m>> \in Seq(Request \cup AnswerMsg)
  BY DEF IInv, ServerOK, QueueOK
<1>3. Items(queue) \subseteq Items(queue')
  BY <1>2, AppendedKeeps DEF IInv, ServerOK, QueueOK, Post
<1>4. Watched => Watched'
  BY <1>3 DEF Watched, Items
<1> QED BY <1>1, <1>4 DEF IInv, ServerOK, TimersOK, SessOK, DbOK, CountsOK, MachineOK, LoginsOK

LEMMA StepKeeps ==
    ASSUME IInv, Next
    PROVE  IInv' /\ (Watched => Watched')
<1>1. ASSUME NEW k \in Client, ClientSend(k) PROVE IInv' /\ (Watched => Watched')
  <2>1. PICK b \in BOOLEAN : Post(Append(queue, [k |-> k, conn |-> conn, yes |-> b]))
    BY <1>1 DEF ClientSend
  <2>2. [k |-> k, conn |-> conn, yes |-> b] \in Request
    BY DEF IInv, ServerOK, CountsOK, Request, ClientMsg
  <2> QED BY <1>1, <2>1, <2>2, RequestComes DEF ClientSend, counts, IInv, ServerOK, CountsOK
<1>2. ASSUME NEW k \in Web, WebSend(k) PROVE IInv' /\ (Watched => Watched')
  <2>1. PICK p \in Player : Post(Append(queue, [k |-> k, p |-> p]))
    BY <1>2 DEF WebSend
  <2>2. [k |-> k, p |-> p] \in Request
    BY DEF Request, WebMsg
  <2> QED BY <1>2, <2>1, <2>2, RequestComes DEF WebSend, counts, IInv, ServerOK, CountsOK
<1>3. CASE Connect
  <2>1. conn + 1 \in Nat /\ [k |-> "m_login", conn |-> conn + 1] \in Request
    BY DEF IInv, ServerOK, CountsOK, Request, LoginMsg
  <2> QED BY <1>3, <2>1, RequestComes DEF Connect, counts
<1>4. CASE GoOffline
  <2>1. obj' \in MachineSet /\ obj'.state = "wait_player" /\ obj' = Offline
    BY <1>4 DEF GoOffline, Offline, MachineSet, States
  <2>2. MachineKept
    BY <1>4, <2>1, TheTimers, FreeKeeps DEF GoOffline
  <2>3. QueueOK(Request)'
    <3>1. /\ LogoutSends \in Seq(Request \cup AnswerMsg) /\ <<[k |-> "m_logout"]>> \in Seq(Request \cup AnswerMsg)
          /\ queue \in Seq(Request \cup AnswerMsg)
      BY TheTimers, OwnMessages, WidenSeq DEF IInv, ServerOK, QueueOK
    <3>2. queue \o LogoutSends \in Seq(Request \cup AnswerMsg)
      BY <3>1, ConcatOf
    <3>3. queue \o LogoutSends \o <<[k |-> "m_logout"]>> \in Seq(Request \cup AnswerMsg)
      BY <3>1, <3>2, ConcatOf
    <3> QED BY <1>4, <3>3 DEF GoOffline, Post, QueueOK
  <2> QED BY <1>4, <2>2, <2>3
      DEF GoOffline, MachineKept, counts, IInv, ServerOK, SessOK, DbOK, CountsOK, LoginsOK
<1>5. CASE TimeOut
  <2>1. ServerOK(Request)'
    BY <1>5, TimeOutOK DEF IInv
  <2>2. LoginsOK'
    BY <1>5 DEF TimeOut, Without, IInv, LoginsOK
  <2> QED BY <1>5, <2>1, <2>2 DEF TimeOut, IInv, MachineOK, Watched
<1>6. CASE Tick
  <2>1. ServerOK(Request)'
    BY <1>6, TickOK DEF IInv
  <2>2. PICK t \in timers : timers' = timers \ {t} /\ queue' = Append(queue, t.msg)
    BY <1>6 DEF Tick, Post
  <2>3. Items(queue) \subseteq Items(queue') /\ t.msg \in Items(queue')
    BY <2>2, TickedItems DEF IInv, ServerOK
  <2>4. Watched => Watched'
    BY <1>6, <2>2, <2>3 DEF Tick, Watched, Items
  <2> QED BY <1>6, <2>1, <2>4 DEF Tick, IInv, MachineOK, LoginsOK
<1>7. ASSUME NEW u \in Uid, Serve(u) PROVE IInv' /\ (Watched => Watched')
  <2>1. ServerOK(Request)'
    BY <1>7, ServeOK DEF IInv
  <2>2. Items(queue) \subseteq Items(queue')
    BY <1>7, ServedItems DEF IInv, ServerOK
  <2> QED BY <1>7, <2>1, <2>2 DEF Serve, IInv, MachineOK, LoginsOK, Watched, Items
<1> QED BY <1>1, <1>2, <1>3, <1>4, <1>5, <1>6, <1>7, DispatchKeeps DEF Next

LEMMA StutterKeeps == IInv /\ UNCHANGED vars => IInv' /\ (Watched => Watched')
  BY DEF IInv, vars, counts, ServerOK, TimersOK, QueueOK, SessOK, DbOK, CountsOK, MachineOK,
         LoginsOK, Watched

(* The machine, its timers, the queue and the sessions are well-formed     *)
(* whatever comes in which order: the invariant of the proofs below.       *)
THEOREM MachineInductive == Spec => []IInv
<1>1. Init => IInv
  BY InitHolds
<1>2. IInv /\ [Next]_vars => IInv'
  BY StepKeeps, StutterKeeps
<1> QED BY <1>1, <1>2, PTL DEF Spec

(* The machine's fields and the records have their types: no balance is    *)
(* overdrawn, no two live timers have one id, and no save is done again    *)
(* without end.                                                            *)
THEOREM MachineTyped == Spec => []TypeOK
<1>1. ASSUME IInv PROVE TypeOK
  <2>1. obj \in MachineSet
    BY <1>1 DEF IInv, MachineOK
  <2>2. obj.on \in BOOLEAN /\ obj.state \in States /\ obj.player \in Player \cup {NoOne}
    BY <2>1 DEF MachineSet
  <2>3. ServerTypeOK
    BY <1>1, <2>2, ServerTyped DEF IInv
  <2> QED BY <1>1, <2>2, <2>3 DEF IInv, MachineOK, TypeOK
<1> QED BY <1>1, MachineInductive, PTL

(* No order of requests, answers and expiring timers leaves a machine      *)
(* occupied without a timer that ends its state (ReleaseTimer and          *)
(* CreateTimer in every change of state).                                  *)
THEOREM NeverAbandoned == Spec => []Watched
<1>1. Init => Watched
  BY InitHolds
<1>2. IInv /\ Watched /\ [Next]_vars => Watched'
  BY StepKeeps, StutterKeeps
<1> QED BY <1>1, <1>2, MachineInductive, PTL DEF Spec

-----------------------------------------------------------------------------
(* The way of a refund.                                                    *)

LEMMA RefundsBegin == Begins(Request)
  BY RequestKinds DEF Begins, RefundMsg

LEMMA LeavingGives ==
    ASSUME games' = games, obj'.state # "wait_end", NEW T, T \subseteq timers,
           timers' \subseteq WithRefund(T), NEW ms \in Seq(ClearMsg \cup LogoutMsg)
    PROVE  Calm(ms) \/ GivesBack(ms)
<1>1. \A i \in DOMAIN ms : ms[i].k # "game_refund"
  <2> TAKE i \in DOMAIN ms
  <2>1. ms[i] \in ClearMsg \cup LogoutMsg
    OBVIOUS
  <2> QED BY <2>1 DEF ClearMsg, LogoutMsg
<1>2. CASE obj.state = "wait_end"
  <2> DEFINE n == [id |-> NewTimer(T), msg |-> GameRefund(obj.player)]
  <2>1. n.msg.game = games /\ \A t \in timers' : t \in timers \/ t = n
    BY <1>2 DEF WithRefund, GameRefund
  <2> HIDE DEF n
  <2> QED BY <1>1, <1>2, <2>1 DEF GivesBack
<1>3. CASE obj.state # "wait_end"
  BY <1>1, <1>3 DEF WithRefund, Calm
<1> QED BY <1>2, <1>3

LEMMA LogoutGives ==
    ASSUME games' = games, obj'.state # "wait_end", timers' = LogoutTimers,
           NEW ms \in Seq(ClearMsg \cup LogoutMsg)
    PROVE  Calm(ms) \/ GivesBack(ms)
<1>1. CASE obj.state # "wait_player"
  <2>1. timers' = WithRefund(Release(timers)) /\ Release(timers) \subseteq timers
    BY <1>1 DEF LogoutTimers, Release
  <2> QED BY <2>1, LeavingGives
<1>2. CASE obj.state = "wait_player"
  <2>1. timers' = WithRefund(timers)
    BY <1>2 DEF LogoutTimers, WithRefund
  <2> QED BY <2>1, LeavingGives
<1> QED BY <1>1, <1>2

LEMMA LogoutMessages ==
    ASSUME IInv
    PROVE  /\ <<ClearBuyIn(obj.player)>> \in Seq(ClearMsg \cup LogoutMsg)
           /\ LogoutSends \in Seq(ClearMsg \cup LogoutMsg)
           /\ LogoutSends \o <<[k |-> "m_logout"]>> \in Seq(ClearMsg \cup LogoutMsg)
           /\ Seq(ClearMsg \cup LogoutMsg) \subseteq Seq(Request)
<1>1. ClearBuyIn(obj.player) \in ClearMsg /\ [k |-> "m_logout"] \in LogoutMsg
  BY DEF IInv, MachineOK, MachineSet, ClearBuyIn, ClearMsg, LogoutMsg
<1>2. LogoutSends \in Seq(ClearMsg \cup LogoutMsg)
  <2>1. <<ClearBuyIn(obj.player)>> \in Seq(ClearMsg \cup LogoutMsg)
        /\ << >> \in Seq(ClearMsg \cup LogoutMsg)
    BY <1>1
  <2> QED BY <2>1 DEF LogoutSends
<1>3. <<[k |-> "m_logout"]>> \in Seq(ClearMsg \cup LogoutMsg)
  BY <1>1
<1>4. LogoutSends \o <<[k |-> "m_logout"]>> \in Seq(ClearMsg \cup LogoutMsg)
  BY <1>2, <1>3, ConcatOf
<1>5. ClearMsg \cup LogoutMsg \subseteq Request
  BY DEF Request
<1> QED BY <1>1, <1>2, <1>4, <1>5, WidenSeq

(* The message taken is handled without a refund, and with one.            *)
LEMMA CalmTaken ==
    ASSUME Quiet, Calm(<< >>), Done \/ Asks(Request, Head(queue))
    PROVE  RequestTaken(Request)
<1>1. << >> \in Seq(Request)
  OBVIOUS
<1> QED BY <1>1 DEF Quiet, RequestTaken

LEMMA EnterTaken ==
    ASSUME IInv, games' = games, Quiet, Done, NEW T, T \subseteq timers, NEW st, st # "wait_end",
           obj.on, Enter(obj, T, st)
    PROVE  RequestTaken(Request)
<1>1. "state" \in DOMAIN obj
  BY DEF IInv, MachineOK, MachineSet
<1> QED BY <1>1, EnterCalm, CalmTaken

LEMMA AskingTaken ==
    ASSUME games' = games, Quiet, Stay, NEW n \in Request, n.k = "game_refund" => n = Head(queue),
           NEW p \in Uid, NEW U \in SUBSET Uid, Ask(n, p, U)
    PROVE  RequestTaken(Request)
  BY StayCalm, CalmTaken DEF Asks

LEMMA RefuseTaken == ASSUME games' = games, Refuse PROVE RequestTaken(Request)
  BY StayCalm, CalmTaken DEF Refuse

LEMMA LeaveTaken ==
    ASSUME IInv, games' = games, obj.on, NEW T, T \subseteq timers, NEW V, V \subseteq WithRefund(T),
           NEW n, Leave(V, n, <<ClearBuyIn(obj.player)>>)
    PROVE  RequestTaken(Request)
<1>1. obj'.state # "wait_end"
  BY DEF Leave, IInv, MachineOK, MachineSet
<1>2. Calm(<<ClearBuyIn(obj.player)>>) \/ GivesBack(<<ClearBuyIn(obj.player)>>)
  BY <1>1, LogoutMessages, LeavingGives DEF Leave
<1> QED BY <1>2, LogoutMessages DEF Leave, RequestTaken

LEMMA MachineLoginTaken ==
    ASSUME IInv, games' = games, Head(queue) \in LoginMsg, MachineLogin(Head(queue))
    PROVE  RequestTaken(Request)
<1> DEFINE m == Head(queue)
<1>1. obj'.state # "wait_end"
  BY DEF MachineLogin, Offline
<1>2. Asks(Request, m)
  BY DEF MachineLogin, Asks, Uid, Request
<1>3. CASE obj.on
  <2>1. timers' = LogoutTimers /\ Sends(LogoutSends)
    BY <1>3 DEF MachineLogin
  <2>2. Calm(LogoutSends) \/ GivesBack(LogoutSends)
    BY <1>1, <2>1, LogoutMessages, LogoutGives
  <2> QED BY <1>2, <2>1, <2>2, LogoutMessages DEF RequestTaken
<1>4. CASE ~obj.on
  <2>1. Quiet /\ timers' = timers
    BY <1>4 DEF MachineLogin
  <2> QED BY <1>1, <1>2, <2>1, CalmTaken DEF Calm
<1> QED BY <1>3, <1>4

LEMMA WebTaken ==
    ASSUME IInv, games' = games, Head(queue) \in WebMsg,
           WebRequest(Head(queue)) \/ Kick(Head(queue))
    PROVE  RequestTaken(Request)
<1> DEFINE m == Head(queue)
<1>1. m \in Request /\ m.p \in Uid
  BY DEF Request, WebMsg, Uid
<1>2. CASE Quiet /\ Stay /\ Ask(m, m.p, {m.p})
  BY <1>1, <1>2, AskingTaken
<1>3. CASE obj.on /\ Leave(Release(WithRefund(timers)), obj.timer, <<ClearBuyIn(obj.player)>>)
  <2>1. Release(WithRefund(timers)) \subseteq WithRefund(timers)
    BY DEF Release
  <2> QED BY <1>3, <2>1, LeaveTaken
<1> QED BY <1>2, <1>3, RefuseTaken DEF WebRequest, Kick

LEMMA ClientTaken ==
    ASSUME IInv, games' = games, Head(queue) \in ClientMsg, ClientRequest(Head(queue))
    PROVE  RequestTaken(Request)
<1> DEFINE m == Head(queue)
<1>1. /\ m \in Request /\ m.k # "game_refund"
      /\ \A b \in BOOLEAN : [m EXCEPT !.yes = b] \in Request /\ [m EXCEPT !.yes = b].k = m.k
  BY DEF Request, ClientMsg, Client
<1>2. obj.on => obj.player \in Uid /\ Other \in Uid
  BY DEF IInv, MachineOK, MachineSet, Uid
<1>3. ASSUME obj.on, Quiet, Stay, NEW r \in Request, r.k # "game_refund",
             NEW U \in {{obj.player, Other}, {obj.player}}, Ask(r, obj.player, U)
      PROVE  RequestTaken(Request)
  BY <1>2, <1>3, AskingTaken
<1>4. ASSUME obj.on, Quiet, Done, NEW st, st # "wait_end", Enter(obj, Release(timers), st)
      PROVE  RequestTaken(Request)
  BY <1>4, EnterTaken DEF Release
<1>5. CASE obj.on /\ StartGame(m)
  BY <1>1, <1>3, <1>5 DEF StartGame
<1>6. CASE obj.on /\ RetryGame(m)
  BY <1>1, <1>3, <1>6, RefuseTaken DEF RetryGame
<1>7. CASE obj.on /\ EndGame(m)
  BY <1>1, <1>3, <1>7, RefuseTaken DEF EndGame
<1>8. CASE obj.on /\ Lottery(m)
  BY <1>1, <1>3, <1>4, <1>8, RefuseTaken DEF Lottery
<1>9. CASE obj.on /\ LotteryEnd(m)
  BY <1>4, <1>9, RefuseTaken DEF LotteryEnd
<1>10. CASE obj.on /\ BuyPrize(m)
  BY <1>1, <1>3, <1>4, <1>10, RefuseTaken DEF BuyPrize
<1>11. CASE obj.on /\ PlayerLogout(m)
  <2>1. CASE Leave(Release(timers), obj.timer, <<ClearBuyIn(obj.player)>>)
    <3>1. Release(timers) \subseteq WithRefund(timers)
      BY DEF Release, WithRefund
    <3> QED BY <1>11, <2>1, <3>1, LeaveTaken
  <2> QED BY <1>11, <2>1, RefuseTaken DEF PlayerLogout
<1> QED BY <1>5, <1>6, <1>7, <1>8, <1>9, <1>10, <1>11, RefuseTaken DEF ClientRequest

LEMMA TimerMessageTaken ==
    ASSUME IInv, games' = games, Head(queue) \in TimerMsg, TimerMessage(Head(queue))
    PROVE  RequestTaken(Request)
<1>1. CASE Refuse
  BY <1>1, RefuseTaken
<1>2. CASE obj.on /\ Leave(WithRefund(timers), 0, <<ClearBuyIn(obj.player)>>)
  BY <1>2, LeaveTaken
<1>3. ASSUME obj.on, Quiet, Done, NEW st, st # "wait_end", Enter(obj, timers, st)
      PROVE  RequestTaken(Request)
  BY <1>3, EnterTaken
<1> QED BY <1>1, <1>2, <1>3 DEF TimerMessage, TimeIsUp

LEMMA InternalTaken ==
    ASSUME games' = games, Head(queue) \in ClearMsg \cup RefundMsg \cup LogoutMsg,
           Internal(Head(queue))
    PROVE  RequestTaken(Request)
<1> DEFINE m == Head(queue)
<1>1. m \in Request /\ (m.k # "m_logout" => m.p \in Uid)
  BY DEF Request, ClearMsg, RefundMsg, LogoutMsg, Uid
<1>2. Quiet /\ Stay
  BY DEF Internal
<1>3. CASE m.k = "m_logout"
  BY <1>1, <1>2, <1>3, AskingTaken DEF Internal, Uid
<1>4. CASE m.k # "m_logout"
  BY <1>1, <1>2, <1>4, AskingTaken DEF Internal
<1> QED BY <1>3, <1>4

LEMMA DispatchTaken ==
    ASSUME IInv, Dispatch, Head(queue) \in Request
    PROVE  RequestTaken(Request)
<1> DEFINE m == Head(queue)
<1>1. m.k # "answer"
  BY RequestKinds
<1>2. games' = games
  BY <1>1 DEF Dispatch, counts
<1>3. CASE m.k \in Client /\ ClientRequest(m)
  BY <1>2, <1>3, RequestKinds, ClientTaken
<1>4. CASE m.k = "m_login" /\ MachineLogin(m)
  BY <1>2, <1>4, RequestKinds, MachineLoginTaken
<1>5. CASE m.k \in Web /\ (WebRequest(m) \/ Kick(m))
  BY <1>2, <1>5, RequestKinds, WebTaken
<1>6. CASE m.k = "timeout" /\ TimerMessage(m)
  BY <1>2, <1>6, RequestKinds, TimerMessageTaken
<1>7. CASE m.k \in {"clear_buy_in", "game_refund", "m_logout"} /\ Internal(m)
  BY <1>2, <1>7, RequestKinds, InternalTaken
<1> QED BY <1>1, <1>3, <1>4, <1>5, <1>6, <1>7 DEF Dispatch, Web

LEMMA DispatchRefunds ==
    ASSUME IInv, RefundsOK, Dispatch
    PROVE  RefundsOK'
<1> DEFINE m == Head(queue)
<1>1. queue # << >> /\ m \in Request \cup AnswerMsg /\ UNCHANGED <<db, conn>>
  BY HeadTail DEF Dispatch, IInv, ServerOK, QueueOK
<1>2. CASE m.k = "answer"
  <2>1. m \in AnswerMsg
    BY <1>1, <1>2, RequestKinds
  <2>2. Post(Tail(queue)) /\ Answer(m)
    BY <1>2 DEF Dispatch, Client
  <2>3. Calm(<< >>) /\ AnswerTaken(m)
    BY <1>1, <2>1, <2>2, AnswerKeeps
  <2> QED BY <1>1, <1>2, <2>2, <2>3, RefundsBegin, AnswerRefunds DEF IInv, Post
<1>3. CASE m.k # "answer"
  <2>1. m \in Request
    BY <1>1, <1>3, RequestKinds DEF AnswerMsg
  <2> QED BY <1>1, <1>3, <2>1, DispatchTaken, RefundsBegin, RequestRefunds DEF IInv
<1> QED BY <1>2, <1>3

LEMMA StepRefunds ==
    ASSUME IInv, RefundsOK, Next
    PROVE  RefundsOK'
<1>1. ASSUME NEW m \in Request, m.k # "game_refund", Post(Append(queue, m)),
             UNCHANGED <<obj, timers, sess, dbq, db, games>>
      PROVE  RefundsOK'
  <2>1. queue' = queue \o <<m>> /\ <<m>> \in Seq(Request)
    BY <1>1 DEF Post, IInv, ServerOK, QueueOK
  <2>2. Calm(<<m>>)
    BY <1>1 DEF Calm
  <2> QED BY <1>1, <2>1, <2>2, RefundsBegin, SentRefunds DEF IInv
<1>2. ASSUME NEW k \in Client, ClientSend(k) PROVE RefundsOK'
  <2>1. PICK b \in BOOLEAN : Post(Append(queue, [k |-> k, conn |-> conn, yes |-> b]))
    BY <1>2 DEF ClientSend
  <2>2. [k |-> k, conn |-> conn, yes |-> b] \in Request /\ k # "game_refund"
    BY DEF IInv, ServerOK, CountsOK, Request, ClientMsg, Client
  <2> QED BY <1>1, <1>2, <2>1, <2>2 DEF ClientSend, counts
<1>3. ASSUME NEW k \in Web, WebSend(k) PROVE RefundsOK'
  <2>1. PICK p \in Player : Post(Append(queue, [k |-> k, p |-> p]))
    BY <1>3 DEF WebSend
  <2>2. [k |-> k, p |-> p] \in Request /\ k # "game_refund"
    BY DEF Request, WebMsg, Web
  <2> QED BY <1>1, <1>3, <2>1, <2>2 DEF WebSend, counts
<1>4. CASE Connect
  <2>1. [k |-> "m_login", conn |-> conn + 1] \in Request
    BY DEF IInv, ServerOK, CountsOK, Request, LoginMsg
  <2> QED BY <1>1, <1>4, <2>1 DEF Connect, counts
<1>5. CASE GoOffline
  <2> DEFINE ms == LogoutSends \o <<[k |-> "m_logout"]>>
  <2>1. ms \in Seq(ClearMsg \cup LogoutMsg) /\ ms \in Seq(Request)
    BY LogoutMessages
  <2>2. queue' = queue \o ms
    <3>1. /\ queue \in Seq(Request \cup AnswerMsg) /\ LogoutSends \in Seq(Request \cup AnswerMsg)
          /\ <<[k |-> "m_logout"]>> \in Seq(Request \cup AnswerMsg)
      BY TheTimers, OwnMessages, WidenSeq DEF IInv, ServerOK, QueueOK
    <3>2. queue' = queue \o LogoutSends \o <<[k |-> "m_logout"]>>
      BY <1>5 DEF GoOffline, Post
    <3> QED BY <3>1, <3>2
  <2>3. obj'.state # "wait_end" /\ timers' = LogoutTimers /\ games' = games
        /\ UNCHANGED <<sess, dbq, db>>
    BY <1>5 DEF GoOffline, Offline, counts
  <2> HIDE DEF ms
  <2>4. Calm(ms) \/ GivesBack(ms)
    BY <2>1, <2>3, LogoutGives
  <2> QED BY <2>1, <2>2, <2>3, <2>4, RefundsBegin, SentRefunds DEF IInv
<1>6. CASE TimeOut
  BY <1>6, TimeOutRefunds DEF IInv
<1>7. CASE Tick
  BY <1>7, RefundsBegin, TickRefunds DEF IInv
<1>8. ASSUME NEW u \in Uid, Serve(u) PROVE RefundsOK'
  BY <1>8, RefundsBegin, ServeRefunds DEF IInv
<1> QED BY <1>2, <1>3, <1>4, <1>5, <1>6, <1>7, <1>8, DispatchRefunds DEF Next

(* However kicks, lost connections, time-outs and refused saves            *)
(* interleave, an unfinished game is given back at most once: its refund   *)
(* is with one timer, in the queue, with one session or in one record      *)
(* (HandlerEndTimeout, HandlerKickPlayer, LogoutMachine,                   *)
(* HandlerGameRefund).                                                     *)
THEOREM RefundedOnce == Spec => []OneRefund
<1>1. Init => RefundsOK
  BY StartRefunds DEF Init
<1>2. IInv /\ RefundsOK /\ [Next]_vars => RefundsOK'
  BY StepRefunds, RefundsStutter, RefundsBegin DEF IInv
<1>3. IInv /\ RefundsOK => OneRefund
  BY RefundsOnce DEF IInv
<1> QED BY <1>1, <1>2, <1>3, MachineInductive, PTL DEF Spec

-----------------------------------------------------------------------------
(* The way of a coin.                                                      *)

(* A game or a life is counted by the answer to its charge alone.          *)
LEMMA AnswerCounts ==
    ASSUME IInv, NEW m \in AnswerMsg, Answer(m)
    PROVE  Counted(m)
<1> DEFINE a == Process(m)
<1>1. CASE UNCHANGED counts
  BY <1>1 DEF Counted
<1>2. CASE a.next = "save" /\ OnSaveSuccess(m.id, a.x)
  <2>1. a.x.req = sess[m.id].req
    BY <1>2, ProcessOK DEF IInv, ServerOK
  <2>2. End(m.id)
    BY <1>2 DEF OnSaveSuccess
  <2> HIDE DEF a
  <2>3. \A from \in {"wait_start", "wait_end"} : Count(from) => games' + retries' = games + retries + 1
    <3> TAKE from \in {"wait_start", "wait_end"}
    <3>1. games \in Nat /\ retries \in Nat
      BY DEF IInv, ServerOK, CountsOK
    <3> QED BY <3>1 DEF Count
  <2>4. CASE \E from \in {"wait_start", "wait_end"} : Count(from) /\ a.x.req.k \in Charges
    <3>1. games' + retries' = games + retries + 1 /\ sess[m.id].req.k \in Charges
      BY <2>1, <2>3, <2>4
    <3>2. Process(m).next = "save"
      BY <1>2 DEF a
    <3> QED BY <2>2, <3>1, <3>2 DEF Counted
  <2> QED BY <1>1, <1>2, <2>4 DEF OnSaveSuccess, Begin, Charges
<1> QED BY <1>1, <1>2 DEF Answer, Rests, Crashes

LEMMA DispatchPaid ==
    ASSUME IInv, IInv', RefundsOK, PaidOK, Dispatch
    PROVE  PaidOK'
<1> DEFINE m == Head(queue)
<1>1. queue # << >> /\ m \in Request \cup AnswerMsg /\ UNCHANGED <<db, conn>> /\ CountsOK'
  BY HeadTail DEF Dispatch, IInv, ServerOK, QueueOK
<1>2. CASE m.k = "answer"
  <2>1. m \in AnswerMsg
    BY <1>1, <1>2, RequestKinds
  <2>2. Post(Tail(queue)) /\ Answer(m)
    BY <1>2 DEF Dispatch, Client
  <2>3. AnswerTaken(m) /\ Counted(m)
    BY <1>1, <2>1, <2>2, AnswerKeeps, AnswerCounts
  <2> QED BY <1>1, <1>2, <2>2, <2>3, RefundsBegin, AnswerPaid DEF IInv, Post
<1>3. CASE m.k # "answer"
  <2>1. UNCHANGED counts
    BY <1>3 DEF Dispatch
  <2>2. RequestTaken(Request)
    BY <1>1, <1>3, DispatchTaken, RequestKinds DEF AnswerMsg
  <2> QED BY <1>1, <1>3, <2>1, <2>2, RefundsBegin, RequestPaid DEF IInv
<1> QED BY <1>2, <1>3

LEMMA StepPaid ==
    ASSUME IInv, IInv', RefundsOK, PaidOK, Next
    PROVE  PaidOK'
<1>1. ASSUME NEW ms \in Seq(Request), Post(queue \o ms), UNCHANGED <<sess, dbq, db, counts>>
      PROVE  PaidOK'
  BY <1>1, RefundsBegin, SentPaid DEF IInv, ServerOK, Post
<1>2. ASSUME NEW m \in Request, Post(Append(queue, m)), UNCHANGED <<sess, dbq, db, counts>>
      PROVE  PaidOK'
  <2>1. <<m>> \in Seq(Request) /\ Append(queue, m) = queue \o <<m>>
    BY DEF IInv, ServerOK, QueueOK
  <2> QED BY <1>1, <1>2, <2>1
<1>3. ASSUME NEW k \in Client, ClientSend(k) PROVE PaidOK'
  <2>1. PICK b \in BOOLEAN : Post(Append(queue, [k |-> k, conn |-> conn, yes |-> b]))
    BY <1>3 DEF ClientSend
  <2>2. [k |-> k, conn |-> conn, yes |-> b] \in Request
    BY DEF IInv, ServerOK, CountsOK, Request, ClientMsg
  <2> QED BY <1>2, <1>3, <2>1, <2>2 DEF ClientSend
<1>4. ASSUME NEW k \in Web, WebSend(k) PROVE PaidOK'
  <2>1. PICK p \in Player : Post(Append(queue, [k |-> k, p |-> p]))
    BY <1>4 DEF WebSend
  <2>2. [k |-> k, p |-> p] \in Request
    BY DEF Request, WebMsg
  <2> QED BY <1>2, <1>4, <2>1, <2>2 DEF WebSend
<1>5. CASE Connect
  <2>1. [k |-> "m_login", conn |-> conn + 1] \in Request
    BY DEF IInv, ServerOK, CountsOK, Request, LoginMsg
  <2> QED BY <1>2, <1>5, <2>1 DEF Connect
<1>6. CASE GoOffline
  <2>1. LogoutSends \o <<[k |-> "m_logout"]>> \in Seq(Request)
    BY LogoutMessages
  <2>2. queue \o LogoutSends \o <<[k |-> "m_logout"]>> = queue \o (LogoutSends \o <<[k |-> "m_logout"]>>)
    <3>1. /\ queue \in Seq(Request \cup AnswerMsg) /\ LogoutSends \in Seq(Request \cup AnswerMsg)
          /\ <<[k |-> "m_logout"]>> \in Seq(Request \cup AnswerMsg)
      BY TheTimers, OwnMessages, WidenSeq DEF IInv, ServerOK, QueueOK
    <3> QED BY <3>1
  <2> QED BY <1>1, <1>6, <2>1, <2>2 DEF GoOffline
<1>7. CASE TimeOut
  BY <1>7, TimeOutPaid DEF IInv
<1>8. CASE Tick
  BY <1>8, RefundsBegin, TickPaid DEF IInv
<1>9. ASSUME NEW u \in Uid, Serve(u) PROVE PaidOK'
  BY <1>9, ServePaid DEF IInv
<1> QED BY <1>3, <1>4, <1>5, <1>6, <1>7, <1>8, <1>9, DispatchPaid DEF Next

(* Nobody plays for nothing: however refused saves, repeated answers,      *)
(* time-outs and leaving players interleave, the games begun and the lives *)
(* bought are at most the coins that all players together spent, refunds   *)
(* included (HandlerStartGame, HandlerRetryGame).                          *)
THEOREM NothingForNothing == Spec => []PaidFor
<1>1. Init => RefundsOK /\ PaidOK
  BY StartRefunds, StartPaid DEF Init
<1>2. IInv /\ IInv' /\ RefundsOK /\ PaidOK /\ [Next]_vars => RefundsOK' /\ PaidOK'
  BY StepRefunds, RefundsStutter, RefundsBegin, StepPaid, PaidStutter DEF IInv
<1>3. IInv /\ PaidOK => PaidFor
  BY PaidIsFor DEF IInv
<1> QED BY <1>1, <1>2, <1>3, MachineInductive, PTL DEF Spec

-----------------------------------------------------------------------------
(* The way of a prize.                                                     *)

LEMMA StayOn == ASSUME IInv, games' = games, Stay PROVE Advances
  BY StayAdvances DEF IInv

LEMMA EnterOn ==
    ASSUME IInv, games' = games, NEW m \in MachineSet, NEW T, NEW st, Enter(m, T, st),
           Stage(obj.state) <= Stage(st) \/ Stage(st) = 5
    PROVE  Advances
<1>1. obj'.state = st
  BY EntersState DEF MachineSet
<1> QED BY <1>1, OnAdvances

LEMMA LeaveOn ==
    ASSUME IInv, games' = games, obj.on, NEW T, NEW n, NEW ms, Leave(T, n, ms)
    PROVE  Advances
<1>1. obj'.state = "wait_player"
  BY DEF Leave, IInv, MachineOK, MachineSet
<1> QED BY <1>1, StagesAre, OnAdvances

LEMMA ClientOn ==
    ASSUME IInv, games' = games, NEW m, ClientRequest(m)
    PROVE  Advances
<1>1. obj.on => obj \in MachineSet
  BY DEF IInv, MachineOK
<1>2. ASSUME obj.on, NEW T, Enter(obj, T, "wait_start") PROVE Advances
  BY <1>1, <1>2, StagesAre, EnterOn
<1>3. CASE obj.on /\ Lottery(m)
  <2>1. CASE obj.state = "wait_lottery" /\ Enter(obj, Release(timers), "lottery_end")
    <3>1. Stage(obj.state) <= Stage("lottery_end")
      BY <2>1, StagesAre
    <3> QED BY <1>1, <1>3, <2>1, <3>1, EnterOn
  <2> QED BY <1>3, <2>1, StayOn DEF Lottery, Refuse
<1>4. CASE obj.on /\ LotteryEnd(m)
  <2>1. CASE obj.state = "lottery_end" /\ Enter(obj, Release(timers), "lottery_ani")
    <3>1. Stage(obj.state) <= Stage("lottery_ani")
      BY <2>1, StagesAre
    <3> QED BY <1>1, <1>4, <2>1, <3>1, EnterOn
  <2> QED BY <1>4, <2>1, StayOn DEF LotteryEnd, Refuse
<1>5. CASE obj.on /\ BuyPrize(m)
  BY <1>2, <1>5, StayOn DEF BuyPrize, Refuse
<1>6. CASE obj.on /\ PlayerLogout(m)
  BY <1>6, LeaveOn, StayOn DEF PlayerLogout, Refuse
<1> QED BY <1>3, <1>4, <1>5, <1>6, StayOn DEF ClientRequest, StartGame, RetryGame, EndGame, Refuse

LEMMA TimerMessageOn ==
    ASSUME IInv, games' = games, NEW m, TimerMessage(m)
    PROVE  Advances
<1>1. obj.on => obj \in MachineSet
  BY DEF IInv, MachineOK
<1>2. CASE Refuse
  BY <1>2, StayOn DEF Refuse
<1>3. ASSUME TimeIsUp(m), Leave(WithRefund(timers), 0, <<ClearBuyIn(obj.player)>>) PROVE Advances
  BY <1>3, LeaveOn DEF TimeIsUp
<1>4. ASSUME TimeIsUp(m), NEW st, Enter(obj, timers, st),
             Stage(obj.state) <= Stage(st) \/ Stage(st) = 5
      PROVE  Advances
  BY <1>1, <1>4, EnterOn DEF TimeIsUp
<1>5. /\ TimeIsUp(m) => obj.state = m.state
      /\ Stage("wait_lottery") <= Stage("wait_buy") /\ Stage("lottery_ani") <= Stage("wait_buy")
      /\ Stage("lottery_end") <= Stage("lottery_ani") /\ Stage("wait_start") = 5
  BY StagesAre DEF TimeIsUp
<1>6. ASSUME TimeIsUp(m), m.state \in {"wait_lottery", "lottery_ani"},
             NEW st \in {"wait_buy", "wait_start"}, Enter(obj, timers, st)
      PROVE  Advances
  <2>1. Stage(obj.state) <= Stage(st) \/ Stage(st) = 5
    BY <1>5, <1>6
  <2> QED BY <1>4, <1>6, <2>1
<1>7. ASSUME TimeIsUp(m), m.state = "lottery_end", Enter(obj, timers, "lottery_ani") PROVE Advances
  BY <1>4, <1>5, <1>7
<1>8. ASSUME TimeIsUp(m), Enter(obj, timers, "wait_start") PROVE Advances
  BY <1>4, <1>5, <1>8
<1> QED BY <1>2, <1>3, <1>6, <1>7, <1>8 DEF TimerMessage

(* No message that begins a handler takes the game back.                   *)
LEMMA DispatchOn ==
    ASSUME IInv, Dispatch, Head(queue).k # "answer"
    PROVE  Advances
<1> DEFINE m == Head(queue)
<1>1. games' = games
  BY DEF Dispatch, counts
<1>2. CASE MachineLogin(m)
  <2>1. obj'.state = "wait_player"
    BY <1>2 DEF MachineLogin, Offline
  <2> QED BY <1>1, <2>1, StagesAre, OnAdvances
<1>3. CASE WebRequest(m)
  BY <1>1, <1>3, StayOn DEF WebRequest, Refuse
<1>4. CASE Kick(m)
  BY <1>1, <1>4, StayOn, LeaveOn DEF Kick, Refuse
<1>5. CASE Internal(m)
  BY <1>1, <1>5, StayOn DEF Internal
<1> QED BY <1>1, <1>2, <1>3, <1>4, <1>5, ClientOn, TimerMessageOn DEF Dispatch

(* What a handler does with the data: a prize is saved in the state that   *)
(* it is won in, and the state is left only forward.                       *)
LEMMA QueryPrizes ==
    ASSUME IInv, UNCHANGED counts, NEW id, NEW x \in Ready(Request),
           obj.on \/ ~Uses(x.req.k, "query"), OnQuerySuccess(id, x)
    PROVE  Advances /\ (End(id) \/ SavesPrize(id, x))
<1> DEFINE Goal == Advances /\ (End(id) \/ SavesPrize(id, x))
<1>1. /\ games' = games /\ CountsOK /\ x.rec \in Rec
      /\ obj.on => obj \in MachineSet
  BY DEF counts, Ready, IInv, ServerOK, MachineOK
<1>2. \A K, new : "prize" \notin K /\ Save(id, x, K, new) => SavesPrize(id, x)
  BY OtherSaves
<1>3. ASSUME Stay, End(id) \/ \E K \in {{"gold"}, {"base"}} : \E new : Save(id, x, K, new) PROVE Goal
  BY <1>1, <1>2, <1>3, StayOn
<1>4. x.rec.prize \in PrizeInfo /\ DOMAIN x.rec = {"base", "gold", "prize"}
  BY <1>1 DEF Rec
<1>5. ASSUME NEW w \in Ways, NEW r, r.prize = x.rec.prize, "prize" \in DOMAIN r, Stay,
             Save(id, x, Won, Win(r, w)), x.req.k = WonBy(w), WonAt(w) = Stage(obj.state)
      PROVE  Goal
  BY <1>1, <1>4, <1>5, WinSaves, StayOn
<1>6. ASSUME x.req.k = "login", QueryLogin(id, x) PROVE Goal
  <2>1. obj.on /\ obj \in MachineSet
    BY <1>1, <1>6 DEF Uses
  <2>2. CASE obj.state # "wait_player"
    BY <1>3, <1>6, <2>2 DEF QueryLogin
  <2>3. CASE obj.state = "wait_player"
    <3>1. /\ Enter([obj EXCEPT !.player = x.p], timers, "wait_start")
          /\ "state" \in DOMAIN [obj EXCEPT !.player = x.p]
      BY <1>6, <2>1, <2>3 DEF QueryLogin, MachineSet
    <3>2. obj'.state = "wait_start"
      BY <3>1, EntersState
    <3>3. Advances
      BY <1>1, <3>2, StagesAre, OnAdvances
    <3> QED BY <1>2, <1>6, <2>3, <3>3 DEF QueryLogin
  <2> QED BY <2>2, <2>3
<1>7. ASSUME QueryBuyIn(id, x) PROVE Goal
  BY <1>3, <1>7 DEF QueryBuyIn
<1>8. ASSUME NEW st, QueryCharge(id, x, st) PROVE Goal
  BY <1>3, <1>8 DEF QueryCharge
<1>9. ASSUME x.req.k = "end", QueryEnd(id, x) PROVE Goal
  <2>1. obj.on /\ obj \in MachineSet
    BY <1>1, <1>9 DEF Uses
  <2>2. CASE obj.state # "wait_end" \/ ~obj.loaded
    BY <1>3, <1>9, <2>2 DEF QueryEnd
  <2>3. ASSUME obj.state = "wait_end", NEW st, Enter(obj, Release(timers), st), End(id) PROVE Goal
    <3>1. Stage(obj.state) <= Stage(st)
      BY <2>3, StagesAre, StageIs
    <3> QED BY <1>1, <2>1, <2>3, <3>1, EnterOn
  <2>4. CASE obj.state = "wait_end" /\ Stay /\ Save(id, x, Won, Win(x.rec, "win"))
    <3>1. "win" \in Ways /\ x.req.k = WonBy("win") /\ WonAt("win") = Stage(obj.state)
      BY <1>9, <2>4, StagesAre DEF Ways, WonBy, WonAt
    <3> QED BY <1>4, <1>5, <2>4, <3>1
  <2> QED BY <1>9, <2>2, <2>3, <2>4 DEF QueryEnd
<1>10. ASSUME x.req.k = "buy", QueryBuy(id, x) PROVE Goal
  <2>1. PICK n \in {0, 1} : IF obj.state # "wait_buy" \/ x.rec.gold.bet < n THEN End(id)
                            ELSE Save(id, x, Won, Win(Pay(x, n), "buy"))
    BY <1>10 DEF QueryBuy
  <2>2. Stay
    BY <1>10 DEF QueryBuy
  <2>3. CASE obj.state = "wait_buy" /\ Save(id, x, Won, Win(Pay(x, n), "buy"))
    <3>1. "buy" \in Ways /\ x.req.k = WonBy("buy") /\ WonAt("buy") = Stage(obj.state)
      BY <1>10, <2>3, StagesAre DEF Ways, WonBy, WonAt
    <3>2. Pay(x, n).prize = x.rec.prize /\ "prize" \in DOMAIN Pay(x, n)
      BY <1>4 DEF Pay
    <3> QED BY <1>5, <2>2, <2>3, <3>1, <3>2
  <2> QED BY <1>3, <2>1, <2>2, <2>3
<1>11. ASSUME QueryClearBuyIn(id, x) PROVE Goal
  BY <1>3, <1>11 DEF QueryClearBuyIn
<1>12. ASSUME x.req.k = "lottery", QueryLottery(id, x) PROVE Goal
  <2>1. CASE obj.state = "wait_lottery" /\ Save(id, x, Won, Win(x.rec, "lottery"))
    <3>1. "lottery" \in Ways /\ x.req.k = WonBy("lottery") /\ WonAt("lottery") = Stage(obj.state)
      BY <1>12, <2>1, StagesAre DEF Ways, WonBy, WonAt
    <3> QED BY <1>4, <1>5, <1>12, <2>1, <3>1 DEF QueryLottery
  <2> QED BY <1>3, <1>12, <2>1 DEF QueryLottery
<1>13. ASSUME QueryGameRefund(id, x) PROVE Goal
  BY <1>3, <1>13 DEF QueryGameRefund
<1>14. ASSUME QueryBase(id, x) PROVE Goal
  BY <1>3, <1>14 DEF QueryBase
<1> HIDE DEF Goal
<1> Goal
  BY <1>6, <1>7, <1>8, <1>9, <1>10, <1>11, <1>12, <1>13, <1>14 DEF OnQuerySuccess
<1> QED BY DEF Goal

(* What a handler does when it hears that the data are saved.              *)
LEMMA SaveSuccessPrizes ==
    ASSUME IInv, NEW m, m.id \in DOMAIN sess, NEW x, x.req = sess[m.id].req,
           obj.on \/ ~Uses(x.req.k, "save"), OnSaveSuccess(m.id, x)
    PROVE  Advances /\ HeardOn(m)
<1> DEFINE k == x.req.k
<1>1. obj.on => obj \in MachineSet
  BY DEF IInv, MachineOK
<1>2. ASSUME k \notin {"end", "lottery", "buy"} PROVE HeardOn(m)
  BY <1>2, HeardBeyond DEF IInv, WonBy, Ways
<1>3. ASSUME NEW w \in Ways, k = WonBy(w), games' = games,
             WonAt(w) <= Stage(obj.state) => WonAt(w) < Stage(obj'.state)
      PROVE  HeardOn(m)
  <2>1. \A v \in Ways : k = WonBy(v) => v = w
    BY <1>3 DEF Ways, WonBy
  <2> QED BY <1>3, <2>1, HeardBeyond DEF IInv
<1>4. ASSUME NEW from \in {"wait_start", "wait_end"}, Begin(from), obj.on PROVE Advances
  <2>1. CASE Stay /\ UNCHANGED counts
    BY <2>1, StayOn DEF counts
  <2>2. CASE /\ obj.state = from /\ Count(from)
             /\ \E c \in BOOLEAN :
                  Enter([obj EXCEPT !.can = c, !.tries = IF from = "wait_end" THEN @ + 1 ELSE 0],
                        Release(timers), "wait_end")
    <3>1. PICK c \in BOOLEAN :
                  Enter([obj EXCEPT !.can = c, !.tries = IF from = "wait_end" THEN @ + 1 ELSE 0],
                        Release(timers), "wait_end")
      BY <2>2
    <3> DEFINE o == [obj EXCEPT !.can = c, !.tries = IF from = "wait_end" THEN @ + 1 ELSE 0]
    <3>2. "state" \in DOMAIN o
      BY <1>1, <1>4 DEF MachineSet
    <3>3. (games' = games /\ from = "wait_end") \/ games' = games + 1
      BY <2>2 DEF Count, IInv, ServerOK, CountsOK
    <3>4. Stage(obj.state) <= Stage("wait_end") \/ from # "wait_end"
      BY <2>2, StagesAre
    <3> HIDE DEF o
    <3> QED BY <3>1, <3>2, <3>3, <3>4, EnterAdvances DEF IInv, o
  <2> QED BY <1>4, <2>1, <2>2 DEF Begin
<1>5. CASE k \in {"start", "retry"} /\ (Begin("wait_start") \/ Begin("wait_end"))
  BY <1>2, <1>4, <1>5 DEF Uses
<1>6. ASSUME NEW w \in Ways, k = WonBy(w), games' = games,
             NEW from \in States, Stage(from) = WonAt(w), NEW st, WonAt(w) < Stage(st),
             Goes(from, st), \A s : Stage(s) = WonAt(w) => s = from
      PROVE  Advances /\ HeardOn(m)
  <2>1. obj.on /\ obj \in MachineSet /\ obj.state \in States
    BY <1>1, <1>6 DEF Uses, Ways, WonBy, MachineSet
  <2>2. /\ Stage(obj.state) \in Nat /\ WonAt(w) \in Nat /\ Stage(st) \in Nat
    BY StageIs
  <2>3. CASE obj.state # from
    <3>1. Stay /\ Stage(obj.state) # WonAt(w)
      BY <1>6, <2>1, <2>3 DEF Goes
    <3>2. obj'.state = obj.state
      BY <3>1 DEF Stay
    <3>3. WonAt(w) <= Stage(obj.state) => WonAt(w) < Stage(obj'.state)
      BY <2>2, <3>1, <3>2
    <3> QED BY <1>3, <1>6, <3>1, <3>3, StayOn
  <2>4. CASE obj.state = from
    <3>1. Enter(obj, Release(timers), st)
      BY <1>6, <2>4 DEF Goes
    <3>2. obj'.state = st
      BY <2>1, <3>1, EntersState DEF MachineSet
    <3>3. Stage(obj.state) <= Stage(st)
      BY <1>6, <2>2, <2>4
    <3> QED BY <1>3, <1>6, <2>1, <3>1, <3>2, <3>3, EnterOn
  <2> QED BY <2>3, <2>4
<1>7. CASE UNCHANGED counts /\ k = "end" /\ Goes("wait_end", "wait_start")
  <2>1. "win" \in Ways /\ k = WonBy("win") /\ WonAt("win") = 0
    BY <1>7 DEF Ways, WonBy, WonAt
  <2> QED BY <1>6, <1>7, <2>1, StagesAre DEF counts, States
<1>8. CASE UNCHANGED counts /\ k = "lottery" /\ Goes("wait_lottery", "lottery_end")
  <2>1. "lottery" \in Ways /\ k = WonBy("lottery") /\ WonAt("lottery") = 1
    BY <1>8 DEF Ways, WonBy, WonAt
  <2> QED BY <1>6, <1>8, <2>1, StagesAre DEF counts, States
<1>9. CASE UNCHANGED counts /\ k = "buy" /\ Goes("wait_buy", "buy_ani")
  <2>1. "buy" \in Ways /\ k = WonBy("buy") /\ WonAt("buy") = 4
    BY <1>9 DEF Ways, WonBy, WonAt
  <2> QED BY <1>6, <1>9, <2>1, StagesAre DEF counts, States
<1>10. CASE UNCHANGED counts /\ k = "m_login" /\ obj' = [obj EXCEPT !.loaded = TRUE]
  <2>1. obj'.state = obj.state /\ Stage(obj.state) <= Stage(obj.state)
    BY <1>1, <1>10, StageIs DEF Uses, MachineSet
  <2> QED BY <1>2, <1>10, <2>1, OnAdvances DEF counts
<1>11. CASE UNCHANGED counts /\ k \in {"login", "buyin", "clear_buy_in", "game_refund", "m_logout"} /\ Stay
  BY <1>2, <1>11, StayOn DEF counts
<1> QED BY <1>5, <1>7, <1>8, <1>9, <1>10, <1>11 DEF OnSaveSuccess

LEMMA AnswerOn ==
    ASSUME IInv, NEW m \in AnswerMsg, Answer(m)
    PROVE  Advances /\ HeardOn(m) /\ PrizeTaken(m)
<1> DEFINE a == Process(m)
           lacks == ~obj.on /\ Uses(a.x.req.k, a.next)
<1>1. m.id \in DOMAIN sess /\ sess[m.id].save /\ m.ok => a.next = "save"
  BY DEF Process, SaveAnswer, Succeeded
<1>2. ASSUME a.next # "save" PROVE HeardOn(m)
  BY <1>1, <1>2 DEF HeardOn
<1>3. a.next \in {"query", "save"} => /\ m.id \in DOMAIN sess /\ a.x.req = sess[m.id].req
                                     /\ a.x \in Ready(Request)
  BY ProcessOK DEF IInv, ServerOK
<1> HIDE DEF a
<1>4. CASE Rests(m.id, a)
  <2>1. Stay /\ games' = games /\ a.next # "save"
    BY <1>4 DEF Rests, counts
  <2>2. PrizeTaken(m)
    BY <1>4 DEF Rests, PrizeTaken, a
  <2> QED BY <1>2, <2>1, <2>2, StayOn
<1>5. CASE a.next \in {"query", "save"} /\ lacks /\ Crashes
  <2>1. Stay /\ Done /\ games' = games /\ ~obj.on
    BY <1>5 DEF Crashes, counts
  <2>2. obj'.state = "wait_player"
    BY <2>1 DEF Stay, IInv, MachineOK, Offline
  <2>3. Stage(obj'.state) = 5 /\ \A w \in Ways : WonAt(w) < Stage(obj'.state)
    BY <2>2, StagesAre, StageIs
  <2>4. HeardOn(m)
    BY <2>1, <2>3, HeardBeyond DEF IInv
  <2> QED BY <2>1, <2>4, StayOn DEF PrizeTaken
<1>6. CASE a.next = "query" /\ ~lacks /\ OnQuerySuccess(m.id, a.x) /\ UNCHANGED <<counts, crashed>>
  <2>1. Advances /\ (End(m.id) \/ SavesPrize(m.id, a.x))
    BY <1>3, <1>6, QueryPrizes
  <2> QED BY <1>2, <1>6, <2>1 DEF PrizeTaken, a
<1>7. CASE a.next = "save" /\ ~lacks /\ OnSaveSuccess(m.id, a.x)
  <2>1. End(m.id)
    BY <1>7 DEF OnSaveSuccess
  <2>2. Advances /\ HeardOn(m)
    BY <1>3, <1>7, SaveSuccessPrizes
  <2> QED BY <2>1, <2>2 DEF PrizeTaken
<1> QED BY <1>4, <1>5, <1>6, <1>7 DEF Answer, a

LEMMA DispatchPrizes ==
    ASSUME IInv, IInv', RefundsOK, PrizesOK, Dispatch
    PROVE  PrizesOK'
<1> DEFINE m == Head(queue)
<1>1. queue # << >> /\ m \in Request \cup AnswerMsg /\ UNCHANGED <<db, conn>> /\ CountsOK'
  BY HeadTail DEF Dispatch, IInv, ServerOK, QueueOK
<1>2. CASE m.k = "answer"
  <2>1. m \in AnswerMsg
    BY <1>1, <1>2, RequestKinds
  <2>2. Post(Tail(queue)) /\ Answer(m)
    BY <1>2 DEF Dispatch, Client
  <2>3. Advances /\ HeardOn(m) /\ PrizeTaken(m)
    BY <2>1, <2>2, AnswerOn
  <2> QED BY <1>1, <1>2, <2>2, <2>3, RefundsBegin, AnswerPrizes DEF IInv, Post
<1>3. CASE m.k # "answer"
  <2>1. Advances
    BY <1>3, DispatchOn
  <2>2. RequestTaken(Request)
    BY <1>1, <1>3, DispatchTaken, RequestKinds DEF AnswerMsg
  <2> QED BY <1>1, <1>3, <2>1, <2>2, RefundsBegin, RequestPrizes DEF IInv
<1> QED BY <1>2, <1>3

LEMMA StepPrizes ==
    ASSUME IInv, IInv', RefundsOK, PrizesOK, Punctual, Next
    PROVE  PrizesOK'
<1>0. CountsOK'
  BY DEF IInv, ServerOK
<1>1. ASSUME NEW ms \in Seq(Request), Post(queue \o ms), UNCHANGED <<sess, dbq, db>>, Advances
      PROVE  PrizesOK'
  BY <1>0, <1>1, RefundsBegin, SentPrizes DEF IInv, Post
<1>2. ASSUME NEW m \in Request, Post(Append(queue, m)), UNCHANGED <<obj, timers, sess, dbq, db, counts>>
      PROVE  PrizesOK'
  <2>1. <<m>> \in Seq(Request) /\ Append(queue, m) = queue \o <<m>>
    BY DEF IInv, ServerOK, QueueOK
  <2>2. Advances
    BY <1>2, StayOn DEF Stay, counts
  <2> QED BY <1>1, <1>2, <2>1, <2>2
<1>3. ASSUME NEW k \in Client, ClientSend(k) PROVE PrizesOK'
  <2>1. PICK b \in BOOLEAN : Post(Append(queue, [k |-> k, conn |-> conn, yes |-> b]))
    BY <1>3 DEF ClientSend
  <2>2. [k |-> k, conn |-> conn, yes |-> b] \in Request
    BY DEF IInv, ServerOK, CountsOK, Request, ClientMsg
  <2> QED BY <1>2, <1>3, <2>1, <2>2 DEF ClientSend
<1>4. ASSUME NEW k \in Web, WebSend(k) PROVE PrizesOK'
  <2>1. PICK p \in Player : Post(Append(queue, [k |-> k, p |-> p]))
    BY <1>4 DEF WebSend
  <2>2. [k |-> k, p |-> p] \in Request
    BY DEF Request, WebMsg
  <2> QED BY <1>2, <1>4, <2>1, <2>2 DEF WebSend
<1>5. CASE Connect
  <2>1. [k |-> "m_login", conn |-> conn + 1] \in Request
    BY DEF IInv, ServerOK, CountsOK, Request, LoginMsg
  <2> QED BY <1>2, <1>5, <2>1 DEF Connect
<1>6. CASE GoOffline
  <2>1. LogoutSends \o <<[k |-> "m_logout"]>> \in Seq(Request)
    BY LogoutMessages
  <2>2. queue \o LogoutSends \o <<[k |-> "m_logout"]>> = queue \o (LogoutSends \o <<[k |-> "m_logout"]>>)
    <3>1. /\ queue \in Seq(Request \cup AnswerMsg) /\ LogoutSends \in Seq(Request \cup AnswerMsg)
          /\ <<[k |-> "m_logout"]>> \in Seq(Request \cup AnswerMsg)
      BY TheTimers, OwnMessages, WidenSeq DEF IInv, ServerOK, QueueOK
    <3> QED BY <3>1
  <2>3. obj'.state = "wait_player" /\ games' = games
    BY <1>6 DEF GoOffline, Offline, counts
  <2>4. Advances
    BY <2>3, StagesAre, OnAdvances
  <2> QED BY <1>1, <1>6, <2>1, <2>2, <2>4 DEF GoOffline
<1>7. CASE TimeOut
  BY <1>7, NobodyLate
<1>8. CASE Tick
  <2>1. PICK t \in timers : timers' = timers \ {t} /\ Post(Append(queue, t.msg))
    BY <1>8 DEF Tick
  <2>2. t.msg \in Request /\ UNCHANGED <<obj, sess, dbq, db, games>>
    BY <1>8, <2>1 DEF Tick, counts, IInv, ServerOK, TimersOK
  <2>3. Stage(obj.state) <= Stage(obj'.state)
    BY <2>2, StageIs
  <2>4. <<t.msg>> \in Seq(Request) /\ Append(queue, t.msg) = queue \o <<t.msg>>
    BY <2>2 DEF IInv, ServerOK, QueueOK
  <2> QED BY <1>1, <2>1, <2>2, <2>3, <2>4, OnAdvances
<1>9. ASSUME NEW u \in Uid, Serve(u) PROVE PrizesOK'
  BY <1>9, ServePrizes DEF IInv
<1> QED BY <1>3, <1>4, <1>5, <1>6, <1>7, <1>8, <1>9, DispatchPrizes DEF Next

(* Whose requests may not time out stays so.                               *)
LEMMA PunctualStays == Next \/ UNCHANGED vars => DOMAIN left' = DOMAIN left
<1>1. \A k : Spend(k) => DOMAIN left' = DOMAIN left
  BY DEF Spend
<1> QED BY <1>1 DEF Next, ClientSend, WebSend, Connect, GoOffline, TimeOut, Tick, Serve, Dispatch, vars

(* However requests are doubled, saves refused and done again and players  *)
(* kicked in between, nobody is paid twice for the same: what a player won *)
(* in a game by playing, by lottery or by buying he won once, unless a     *)
(* session times out (HandlerEndGame, HandlerLottery, HandlerBuyPrize).    *)
THEOREM NothingTwice == Spec => [](Punctual => NobodyTwice)
<1> DEFINE Inv == Punctual => PrizesOK
<1>1. Init => RefundsOK /\ Inv
  BY StartRefunds, StartPrizes DEF Init
<1>2. IInv /\ IInv' /\ RefundsOK /\ Inv /\ [Next]_vars => RefundsOK' /\ Inv'
  <2> SUFFICES ASSUME IInv, IInv', RefundsOK, Inv, [Next]_vars PROVE RefundsOK' /\ Inv'
    OBVIOUS
  <2>1. RefundsOK'
    BY StepRefunds, RefundsStutter, RefundsBegin DEF IInv
  <2>2. ASSUME Punctual' PROVE PrizesOK'
    <3>1. Punctual
      BY <2>2, PunctualStays DEF Punctual
    <3> QED BY <3>1, StepPrizes, PrizesStutter
  <2> QED BY <2>1, <2>2
<1>3. Inv => (Punctual => NobodyTwice)
  BY TwiceByNobody
<1> QED BY <1>1, <1>2, <1>3, MachineInductive, PTL DEF Spec

(* And a machine that only one player plays on has one prize of each kind  *)
(* in a game.                                                              *)
THEOREM OnePrizeAlone ==
    ASSUME \A p, q \in Player : p = q
    PROVE  Spec => [](Punctual => OnePrize)
<1>1. NobodyTwice => OnePrize
  <2> SUFFICES ASSUME NobodyTwice PROVE OnePrize
    OBVIOUS
  <2>1. CASE Player = {}
    BY <2>1 DEF OnePrize, Prizes
  <2>2. CASE Player # {}
    <3>1. PICK o \in Player : TRUE
      BY <2>2
    <3>2. \A p \in Player : p = o
      OBVIOUS
    <3> QED BY <3>2, OneWinner
  <2> QED BY <2>1, <2>2
<1> QED BY <1>1, NothingTwice, PTL
=============================================================================
