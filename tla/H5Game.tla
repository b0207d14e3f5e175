------------------------------- MODULE H5Game -------------------------------
(***************************************************************************)
(* The game in the browser (H5) on the game server svr/lipsticksvr         *)
(* (GameServer): one player, whose Player object is also his machine.  He  *)
(* pays with gold, plays on one connection and is not made to leave: while *)
(* he waits to start a game no timer runs.  Left out: the number of his    *)
(* machine, its statistics and the record of the game.                     *)
(***************************************************************************)
EXTENDS GameServer

Client == {"login", "start", "retry", "end", "lottery", "lottery_end", "buy", "logout"}
Event  == {"connect", "offline", "kick", "late"}

ASSUME KindAssumption == \A m \in Mixes : DOMAIN m \subseteq Client \cup Event

(* A Player object of the player p, and one that is not there.             *)
Online(p, c) == [on |-> TRUE, conn |-> c, player |-> p, loaded |-> FALSE,
                 state |-> "wait_player", timer |-> 0, can |-> FALSE, tries |-> 0]
Absent(p) == [Online(p, 0) EXCEPT !.on = FALSE]

Init == /\ \E p \in Player : obj = [Online(p, 1) EXCEPT !.loaded = TRUE, !.state = "wait_start"]
        /\ Starts

-----------------------------------------------------------------------------
(* Message::LogoutPlayer: what it sends and which timers it leaves.        *)

(* Mutant: an unfinished game is not given back.                           *)
KeepCoin == << >>

LogoutSends == IF obj.state = "wait_end" THEN <<GameRefund(obj.player)>> ELSE << >>
LogoutTimers == IF obj.state # "wait_start" THEN Release(timers) ELSE timers
LogoutBase == <<[k |-> "m_logout", p |-> obj.player]>>

(* The object goes.                                                        *)
Leave == obj' = Absent(obj.player) /\ timers' = LogoutTimers

(* OnClientOffline, at once and ahead of what is queued, or the check of   *)
(* the player's heartbeat.                                                 *)
GoOffline ==
    /\ Spend("offline")
    /\ obj.on
    /\ Leave
    /\ Post(queue \o LogoutSends \o LogoutBase)
    /\ UNCHANGED <<sess, dbq, db, conn, counts, crashed>>

(* The player connects once more and logs in.                              *)
Connect ==
    /\ Spend("connect")
    /\ conn' = conn + 1
    /\ Post(Append(queue, [k |-> "login", conn |-> conn + 1]))
    /\ UNCHANGED <<obj, timers, sess, dbq, db, counts, crashed>>

(* Another server, on which he logged in, has him kicked.                  *)
SendKick ==
    /\ Spend("kick")
    /\ Post(Append(queue, [k |-> "kick"]))
    /\ UNCHANGED <<obj, timers, sess, dbq, db, conn, counts, crashed>>

-----------------------------------------------------------------------------
(* What the handlers do with the data: OnQuerySuccess.                     *)

(* HandlerLoginGameH5 goes on to the promoter's records, then saves where  *)
(* the player is.                                                          *)
QueryLogin(id, x) ==
    /\ Stay
    /\ sess' = [sess EXCEPT ![id] = [x EXCEPT !.req.k = "login_promoter", !.wait = {Other}]]
    /\ Query(id, {Other})

(* HandlerStartGameH5 and HandlerRetryGameH5 charge a coin in state st     *)
(* (DataCommon::PlayerSubGold).                                            *)
Pay(x, n) == [x.rec EXCEPT !.gold.gold = @ - n, !.gold.spent = @ + n]

QueryCharge(id, x, st) ==
    /\ Stay
    /\ IF obj.state # st \/ ~obj.loaded \/ x.rec.gold.gold < 1
       THEN End(id)
       ELSE Save(id, x, {"gold"}, Pay(x, 1))

(* Mutant: the state is not changed.                                       *)
RestartNot(T, timer) == obj' = [obj EXCEPT !.timer = timer] /\ timers' = T

(* Back to the start, without a timer.                                     *)
Restart(T, timer) == /\ obj' = [obj EXCEPT !.state = "wait_start", !.timer = timer]
                     /\ timers' = T
NextGame == Restart(Release(timers), obj.timer)

(* Mutant: the game's state is not looked at again.                        *)
EndAnytime(id, x) ==
    IF x.req.yes /\ obj.can THEN Stay /\ Save(id, x, Won, Win(x.rec, "win"))
    ELSE End(id) /\ NextGame

(* HandlerEndGameH5.  Without a prize the player gets a lottery, the sale  *)
(* of the prize or the next game, as the figures left out have it.         *)
QueryEnd(id, x) ==
    IF obj.state # "wait_end" THEN Stay /\ End(id)
    ELSE IF x.req.yes /\ obj.can THEN Stay /\ Save(id, x, Won, Win(x.rec, "win"))
    ELSE /\ End(id)
         /\ \/ NextGame
            \/ /\ ~x.req.yes
               /\ \E st \in {"wait_lottery", "wait_buy"} : Enter(obj, Release(timers), st)

(* HandlerBuyPrizeH5, at a price that may be nothing.                      *)
QueryBuy(id, x) ==
    /\ Stay
    /\ \E n \in {0, 1} : IF obj.state # "wait_buy" \/ x.rec.gold.gold < n THEN End(id)
                          ELSE Save(id, x, Won, Win(Pay(x, n), "buy"))

OnQuerySuccess(id, x) ==
    LET k == x.req.k
    IN  \/ k = "login"       /\ QueryLogin(id, x)
        \/ k = "start"       /\ QueryCharge(id, x, "wait_start")
        \/ k = "retry"       /\ QueryCharge(id, x, "wait_end")
        \/ k = "end"         /\ QueryEnd(id, x)
        \/ k = "lottery"     /\ QueryLottery(id, x)
        \/ k = "buy"         /\ QueryBuy(id, x)
        \/ k = "game_refund" /\ QueryGameRefund(id, x)
        \/ k \in {"login_promoter", "m_logout"} /\ QueryBase(id, x)

-----------------------------------------------------------------------------
(* What the handlers do when the data are saved: OnSaveSuccess.            *)

(* The machine's data are set, and the state, but no timer is released.    *)
LoggedIn == /\ obj' = [obj EXCEPT !.loaded = TRUE, !.state = "wait_start"]
            /\ UNCHANGED timers

(* A start forgets the timer there was, a retry releases it.               *)
BeginTimers(from) == IF from = "wait_end" THEN Release(timers) ELSE timers

(* Mutant: the game begins without a timer.                                *)
BeginUntimed(from) ==
    IF obj.state # from \/ ~obj.loaded THEN Stay /\ UNCHANGED counts
    ELSE /\ \E c \in BOOLEAN : obj' = [obj EXCEPT !.can = c, !.state = "wait_end"]
         /\ timers' = BeginTimers(from)
         /\ Count(from)

Begin(from) ==
    IF obj.state # from \/ ~obj.loaded THEN Stay /\ UNCHANGED counts
    ELSE /\ \E c \in BOOLEAN :
               Enter([obj EXCEPT !.can = c, !.tries = IF from = "wait_end" THEN @ + 1 ELSE 0],
                     BeginTimers(from), "wait_end")
         /\ Count(from)

OnSaveSuccess(id, x) ==
    LET k == x.req.k
    IN  /\ End(id)
        /\ \/ k = "start" /\ Begin("wait_start")
           \/ k = "retry" /\ Begin("wait_end")
           \/ /\ \/ k = "login_promoter" /\ LoggedIn
                 \/ k = "end"     /\ IF obj.state = "wait_end" THEN NextGame ELSE Stay
                 \/ k = "buy"     /\ IF obj.state = "wait_buy" THEN NextGame ELSE Stay
                 \/ k = "lottery" /\ IF obj.state # "wait_lottery" THEN Stay
                                     ELSE Enter(obj, Release(timers), "lottery_end")
                 \/ k \in {"game_refund", "m_logout"} /\ Stay
              /\ UNCHANGED counts

(* The handlers that use the Player without asking whether he is there.    *)
Uses(k, next) == k \in {"start", "retry", "end", "lottery", "buy"}
                       \cup IF next = "save" THEN {"login_promoter"} ELSE {}

(* MessageHandlerBase::Process goes on with an answer m.                   *)
Answer(m) ==
    LET a     == Process(m)
        lacks == ~obj.on /\ Uses(a.x.req.k, a.next)
    IN  \/ Rests(m.id, a)
        \/ a.next \in {"query", "save"} /\ lacks /\ Crashes
        \/ a.next = "query" /\ ~lacks /\ OnQuerySuccess(m.id, a.x) /\ UNCHANGED <<counts, crashed>>
        \/ a.next = "save"  /\ ~lacks /\ OnSaveSuccess(m.id, a.x) /\ UNCHANGED crashed

-----------------------------------------------------------------------------
(* Messages that begin a handler: OnMessage.                               *)

Refuse == Quiet /\ Stay /\ Done

(* Message::OnPlayerLogin replaces the object of another connection; a     *)
(* login once more on the same one leaves it as it is.  Then               *)
(* HandlerLoginGameH5 asks for the player's and the machine's records.     *)
PlayerLogin(m) ==
    /\ IF obj.on /\ obj.conn = m.conn THEN Stay /\ Quiet
       ELSE /\ obj' = Online(obj.player, m.conn)
            /\ IF obj.on THEN timers' = LogoutTimers /\ Sends(LogoutSends)
                         ELSE UNCHANGED timers /\ Quiet
    /\ Ask(m, obj.player, {obj.player, Other})

StartGame(m) == Quiet /\ Stay /\ Ask(m, obj.player, {obj.player, Other})

RetryGame(m) ==
    IF obj.state # "wait_end" \/ obj.tries >= MaxRetry THEN Refuse
    ELSE Quiet /\ Stay /\ Ask(m, obj.player, {obj.player, Other})

EndGame(m) ==
    IF obj.state # "wait_end" THEN Refuse
    ELSE Quiet /\ Stay /\ Ask(m, obj.player, {obj.player, Other})

(* HandlerLotteryH5 draws; only what was won takes the player's records.   *)
Lottery(m) ==
    IF obj.state # "wait_lottery" THEN Refuse
    ELSE /\ Quiet
         /\ \/ Stay /\ \E b \in BOOLEAN : Ask([m EXCEPT !.yes = b], obj.player, {obj.player})
            \/ Enter(obj, Release(timers), "lottery_end") /\ Done

LotteryEnd(m) ==
    IF obj.state # "lottery_end" THEN Refuse
    ELSE Quiet /\ Done /\ (Enter(obj, Release(timers), "wait_buy") \/ NextGame)

BuyPrize(m) ==
    IF obj.state # "wait_buy" THEN Refuse
    ELSE /\ Quiet
         /\ IF m.yes THEN Stay /\ Ask(m, obj.player, {obj.player}) ELSE NextGame /\ Done

(* HandlerPlayerLogoutH5.                                                  *)
PlayerLogout == Leave /\ Sends(LogoutSends \o LogoutBase) /\ Done

(* OnLoginCheck lets only the player's own connection through.             *)
ClientRequest(m) ==
    IF m.k = "login" THEN PlayerLogin(m)
    ELSE IF ~obj.on \/ obj.conn # m.conn THEN Refuse
    ELSE \/ m.k = "start"       /\ StartGame(m)
         \/ m.k = "retry"       /\ RetryGame(m)
         \/ m.k = "end"         /\ EndGame(m)
         \/ m.k = "lottery"     /\ Lottery(m)
         \/ m.k = "lottery_end" /\ LotteryEnd(m)
         \/ m.k = "buy"         /\ BuyPrize(m)
         \/ m.k = "logout"      /\ PlayerLogout

(* HandlerKickPlayer leaves the player's login data to who has him kicked. *)
Kick == IF ~obj.on THEN Refuse ELSE Leave /\ Sends(LogoutSends) /\ Done

(* HandlerEndTimeout and the others take the player's timer for the one    *)
(* that sent the message.  (Some hold his id in 32 bits, which is left     *)
(* out: there is one player here.)                                         *)
TimeIsUp(m) == obj.on /\ obj.state = m.state

TimerMessage(m) ==
    IF ~TimeIsUp(m) THEN Refuse
    ELSE /\ Done
         /\ \/ m.state = "wait_end" /\ Restart(timers, 0) /\ Sends(<<GameRefund(obj.player)>>)
            \/ /\ Quiet
               /\ \/ m.state \in {"wait_lottery", "lottery_end"} /\ Enter(obj, timers, "wait_buy")
                  \/ m.state \in {"wait_lottery", "wait_buy"} /\ Restart(timers, 0)
                  \/ m.state = "lottery_end" /\ NextGame

(* HandlerGameRefund and HandlerLogout.                                    *)
Internal(m) == Quiet /\ Stay /\ Ask(m, m.p, {m.p})

(* FrameServer::DispatchMessage takes the oldest message.                  *)
Dispatch ==
    /\ ~crashed
    /\ queue # << >>
    /\ LET m == Head(queue)
       IN  \/ /\ m.k = "answer"
              /\ Post(Tail(queue))
              /\ Answer(m)
           \/ /\ \/ m.k \in Client  /\ ClientRequest(m)
                 \/ m.k = "kick"    /\ Kick
                 \/ m.k = "timeout" /\ TimerMessage(m)
                 \/ m.k \in {"game_refund", "m_logout"} /\ Internal(m)
              /\ UNCHANGED <<counts, crashed>>
    /\ UNCHANGED <<db, left, conn>>

Next ==
    \/ \E k \in Client : ClientSend(k)
    \/ Connect
    \/ SendKick
    \/ GoOffline
    \/ TimeOut
    \/ Tick
    \/ \E u \in Uid : Serve(u)
    \/ Dispatch

Spec == Init /\ [][Next]_vars

(* The server's loop runs on, the timers expire and the data servers       *)
(* serve; nobody need ask for anything.                                    *)
FairSpec == Spec /\ WF_vars(Dispatch) /\ WF_vars(Tick) /\ \A u \in Uid : WF_vars(Serve(u))

-----------------------------------------------------------------------------
(* Properties.                                                             *)

(* A Player that is not there has no state, and no other state than those  *)
(* of the H5 game comes up.                                                *)
TypeOK ==
    /\ ServerTypeOK
    /\ obj.state \in {"wait_player", "wait_start", "wait_end", "wait_lottery", "lottery_end",
                      "wait_buy"}
    /\ ~obj.on => obj = Absent(obj.player)
    /\ obj.state # "wait_player" => obj.loaded

(* A player in the middle of a game has a timer that ends that state, or   *)
(* its message is in the queue: no order of requests, second logins,       *)
(* answers and expiring timers leaves him there forever.                   *)
Timed ==
    obj.state \notin {"wait_player", "wait_start"} =>
        \/ \E t \in timers : t.msg = Timeout(obj.state)
        \/ Timeout(obj.state) \in {queue[i] : i \in DOMAIN queue}

Playing == obj.state = "wait_end"

(* The message being handled is an answer to a request of one of kinds K.  *)
Answering(K) == LET m == Head(queue)
                IN  queue # << >> /\ m.k = "answer" /\ m.id \in DOMAIN sess /\ sess[m.id].req.k \in K

(* A game that stops other than by the player's own end of it is given     *)
(* back in the same step, whether its time is up, its connection is lost   *)
(* or replaced, or the player logs out or is kicked (LogoutPlayer,         *)
(* HandlerEndTimeout).  Only a login drops it, whose answer comes while    *)
(* the game goes on: a second one on the same connection, or one of an     *)
(* earlier connection that is answered late                                *)
(* (HandlerLoginGameH5::OnSaveSuccess).                                    *)
GivenBack ==
    [][Playing /\ obj'.state # "wait_end" =>
         \/ Answering({"end", "login_promoter"})
         \/ GameRefund(obj.player) \in {queue'[i] : i \in DOMAIN queue'}]_vars

(* When the requests stop, a game in progress comes to its end.            *)
GamesEnd == <>[](crashed \/ obj.state \in {"wait_player", "wait_start"})
=============================================================================
