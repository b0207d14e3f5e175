-------------------------- MODULE LipstickMachine ---------------------------
(***************************************************************************)
(* One arcade machine on the game server svr/lipsticksvr (GameServer): the *)
(* state of the game on the machine and the players who log in on it.      *)
(***************************************************************************)
EXTENDS GameServer

CONSTANT Coins    \* coins of one buy-in

Client == {"start", "retry", "end", "lottery", "lottery_end", "buy", "logout"}
Web    == {"login", "buyin", "kick"}
Event  == {"connect", "offline", "late"}

ASSUME CoinsAssumption == Coins \in Nat \ {0}
ASSUME KindAssumption == \A m \in Mixes : DOMAIN m \subseteq Client \cup Web \cup Event

Offline == [on |-> FALSE, conn |-> 0, loaded |-> FALSE, state |-> "wait_player",
            player |-> NoOne, timer |-> 0, can |-> FALSE, tries |-> 0]

Init == obj = [Offline EXCEPT !.on = TRUE, !.conn = 1, !.loaded = TRUE] /\ Starts

-----------------------------------------------------------------------------
(* The requests that reach the server.                                     *)

ClearBuyIn(p) == [k |-> "clear_buy_in", p |-> p]

(* The refund of an unfinished game is sent by a timer of its own.         *)
WithRefund(T) == IF obj.state = "wait_end"
                 THEN T \cup {[id |-> NewTimer(T), msg |-> GameRefund(obj.player)]}
                 ELSE T

WebSend(k) ==
    /\ Spend(k)
    /\ \E p \in Player : Post(Append(queue, [k |-> k, p |-> p]))
    /\ UNCHANGED <<obj, timers, sess, dbq, db, conn, counts, crashed>>

(* The machine connects once more and sends its login.                     *)
Connect ==
    /\ Spend("connect")
    /\ conn' = conn + 1
    /\ Post(Append(queue, [k |-> "m_login", conn |-> conn + 1]))
    /\ UNCHANGED <<obj, timers, sess, dbq, db, counts, crashed>>

(* Message::LogoutMachine: what it sends and which timers it leaves.       *)
LogoutSends == IF obj.state # "wait_player" THEN <<ClearBuyIn(obj.player)>> ELSE << >>
LogoutTimers == IF obj.state # "wait_player" THEN WithRefund(Release(timers)) ELSE timers

(* OnClientOffline, at once and ahead of what is queued, or the check of   *)
(* the machine's heartbeat.  internal_logout clears the machine's record.  *)
GoOffline ==
    /\ Spend("offline")
    /\ obj.on
    /\ obj' = Offline
    /\ timers' = LogoutTimers
    /\ Post(queue \o LogoutSends \o <<[k |-> "m_logout"]>>)
    /\ UNCHANGED <<sess, dbq, db, conn, counts, crashed>>

-----------------------------------------------------------------------------
(* What the handlers do with the data: OnQuerySuccess.  x is the session   *)
(* with the records of its player, x.p.                                    *)

Pay(x, n)   == [x.rec EXCEPT !.gold.bet = @ - n, !.gold.spent = @ + n]
Back(x)     == [x.rec EXCEPT !.gold.gold = @ + x.rec.gold.bet, !.gold.bet = 0, !.gold.held = FALSE]

(* HandlerPlayerLogin.  A buy-in of ten minutes ago is given back          *)
(* (CheckPlayerBuyInTimeout).  The player's login data is not modelled,    *)
(* and so neither is a save that changes nothing else.                     *)
QueryLogin(id, x) ==
    IF obj.state # "wait_player" THEN Stay /\ End(id)
    ELSE /\ Enter([obj EXCEPT !.player = x.p], timers, "wait_start")
         /\ \/ End(id)
            \/ x.rec.gold.held /\ Save(id, x, {"gold"}, Back(x))

(* HandlerPlayerBuyIn and DataCommon::PlayerAddBuyIn.                      *)
QueryBuyIn(id, x) ==
    /\ Stay
    /\ IF obj.state = "wait_player" \/ obj.player # x.p \/ x.rec.gold.gold < Coins
       THEN End(id)
       ELSE Save(id, x, {"gold"},
                 [x.rec EXCEPT !.gold.gold = @ - Coins, !.gold.bet = @ + Coins, !.gold.held = TRUE])

(* Mutant: a life is given without PlayerSubBuyIn.                         *)
FreeRetry(id, x, st) ==
    /\ Stay
    /\ IF obj.state # st \/ ~obj.loaded \/ x.rec.gold.bet < 1
       THEN End(id)
       ELSE Save(id, x, {"gold"}, IF st = "wait_end" THEN x.rec ELSE Pay(x, 1))

(* HandlerStartGame and HandlerRetryGame charge a coin in state st.        *)
QueryCharge(id, x, st) ==
    /\ Stay
    /\ IF obj.state # st \/ ~obj.loaded \/ x.rec.gold.bet < 1
       THEN End(id)
       ELSE Save(id, x, {"gold"}, Pay(x, 1))

(* Mutant: the machine's state is not looked at again.                     *)
EndAnytime(id, x) ==
    IF x.req.yes /\ obj.can THEN Stay /\ Save(id, x, Won, Win(x.rec, "win"))
    ELSE End(id) /\ Enter(obj, Release(timers), "wait_start")

(* HandlerEndGame.  Without a prize the machine offers a lottery, the sale *)
(* of the prize or the next game, as the figures left out have it.         *)
QueryEnd(id, x) ==
    IF obj.state # "wait_end" \/ ~obj.loaded THEN Stay /\ End(id)
    ELSE IF x.req.yes /\ obj.can THEN Stay /\ Save(id, x, Won, Win(x.rec, "win"))
    ELSE /\ End(id)
         /\ \E st \in {"wait_start"} \cup IF x.req.yes THEN {} ELSE {"wait_lottery", "wait_buy"} :
               Enter(obj, Release(timers), st)

(* HandlerBuyPrize, at a price that may be nothing.                        *)
QueryBuy(id, x) ==
    /\ Stay
    /\ \E n \in {0, 1} : IF obj.state # "wait_buy" \/ x.rec.gold.bet < n THEN End(id)
                          ELSE Save(id, x, Won, Win(Pay(x, n), "buy"))

(* HandlerClearBuyIn and DataCommon::PlayerClearBuyIn.                     *)
QueryClearBuyIn(id, x) ==
    /\ Stay
    /\ IF x.rec.gold.held THEN Save(id, x, {"gold"}, Back(x)) ELSE End(id)

OnQuerySuccess(id, x) ==
    LET k == x.req.k
    IN  \/ k = "login"        /\ QueryLogin(id, x)
        \/ k = "buyin"        /\ QueryBuyIn(id, x)
        \/ k = "start"        /\ QueryCharge(id, x, "wait_start")
        \/ k = "retry"        /\ QueryCharge(id, x, "wait_end")
        \/ k = "end"          /\ QueryEnd(id, x)
        \/ k = "lottery"      /\ QueryLottery(id, x)
        \/ k = "buy"          /\ QueryBuy(id, x)
        \/ k = "clear_buy_in" /\ QueryClearBuyIn(id, x)
        \/ k = "game_refund"  /\ QueryGameRefund(id, x)
        \/ k \in {"m_login", "m_logout"} /\ QueryBase(id, x)

-----------------------------------------------------------------------------
(* What the handlers do when the data are saved: OnSaveSuccess.            *)

(* The machine goes on to state st, if it is where the handler left it.    *)
Goes(from, st) == IF obj.state # from THEN Stay ELSE Enter(obj, Release(timers), st)

(* Mutant: the game begins on the timer that was released.                 *)
BeginUntimed(from) ==
    IF obj.state # from \/ ~obj.loaded THEN Stay /\ UNCHANGED counts
    ELSE /\ \E c \in BOOLEAN : obj' = [obj EXCEPT !.can = c, !.state = "wait_end"]
         /\ timers' = Release(timers)
         /\ Count(from)

(* HandlerStartGame and HandlerRetryGame: the coin is paid, the game, or   *)
(* one more life of it, begins, and the server draws whether it can be     *)
(* won.                                                                    *)
Begin(from) ==
    IF obj.state # from \/ ~obj.loaded THEN Stay /\ UNCHANGED counts
    ELSE /\ \E c \in BOOLEAN :
               Enter([obj EXCEPT !.can = c, !.tries = IF from = "wait_end" THEN @ + 1 ELSE 0],
                     Release(timers), "wait_end")
         /\ Count(from)

OnSaveSuccess(id, x) ==
    LET k == x.req.k
    IN  /\ End(id)
        /\ \/ k = "start" /\ Begin("wait_start")
           \/ k = "retry" /\ Begin("wait_end")
           \/ /\ \/ k = "end"     /\ Goes("wait_end", "wait_start")
                 \/ k = "lottery" /\ Goes("wait_lottery", "lottery_end")
                 \/ k = "buy"     /\ Goes("wait_buy", "buy_ani")
                 \/ k = "m_login" /\ obj' = [obj EXCEPT !.loaded = TRUE] /\ UNCHANGED timers
                 \/ k \in {"login", "buyin", "clear_buy_in", "game_refund", "m_logout"} /\ Stay
              /\ UNCHANGED counts

(* The handlers that use the machine without asking whether it is there.   *)
Uses(k, next) == k \in {"buyin", "start", "retry", "end", "lottery", "buy"}
                       \cup IF next = "save" THEN {"m_login"} ELSE {"login"}

(* MessageHandlerBase::Process goes on with an answer m.                   *)
Answer(m) ==
    LET a     == Process(m)
        lacks == ~obj.on /\ Uses(a.x.req.k, a.next)
    IN  \/ Rests(m.id, a)
        \/ a.next \in {"query", "save"} /\ lacks /\ Crashes
        \/ a.next = "query" /\ ~lacks /\ OnQuerySuccess(m.id, a.x) /\ UNCHANGED <<counts, crashed>>
        \/ a.next = "save"  /\ ~lacks /\ OnSaveSuccess(m.id, a.x) /\ UNCHANGED crashed

-----------------------------------------------------------------------------
(* Messages that begin a handler: OnMessage.                               *)

Refuse == Quiet /\ Stay /\ Done

(* Mutants: the state is not changed; the buy-in is not cleared.           *)
LeaveInState(T, timer, ms) ==
    obj' = [obj EXCEPT !.timer = timer] /\ timers' = T /\ Sends(ms) /\ Done
LeaveSilently(T, timer, ms) ==
    /\ obj' = [obj EXCEPT !.state = "wait_player", !.timer = timer]
    /\ timers' = T
    /\ Quiet
    /\ Done

(* The player leaves the machine; with the timers T that are left.         *)
Leave(T, timer, ms) ==
    /\ obj' = [obj EXCEPT !.state = "wait_player", !.timer = timer]
    /\ timers' = T
    /\ Sends(ms)
    /\ Done

(* Mutant: the object of the earlier connection is kept as it is.          *)
LoginInState(m) ==
    /\ obj' = [obj EXCEPT !.on = TRUE, !.conn = m.conn]
    /\ IF obj.on THEN timers' = LogoutTimers /\ Sends(LogoutSends)
                  ELSE UNCHANGED timers /\ Quiet
    /\ Ask(m, Other, {Other})

(* Message::OnMachineLogin replaces the object of an earlier connection;   *)
(* then HandlerMLoginGame asks for the machine's records.                  *)
MachineLogin(m) ==
    /\ obj' = [Offline EXCEPT !.on = TRUE, !.conn = m.conn]
    /\ IF obj.on THEN timers' = LogoutTimers /\ Sends(LogoutSends)
                  ELSE UNCHANGED timers /\ Quiet
    /\ Ask(m, Other, {Other})

(* HandlerPlayerLogin and HandlerPlayerBuyIn.                              *)
WebRequest(m) ==
    IF ~obj.on THEN Refuse ELSE Quiet /\ Stay /\ Ask(m, m.p, {m.p})

(* HandlerKickPlayer.                                                      *)
Kick(m) ==
    IF ~obj.on \/ obj.state = "wait_player" \/ obj.player # m.p THEN Refuse
    ELSE Leave(Release(WithRefund(timers)), obj.timer, <<ClearBuyIn(obj.player)>>)

(* HandlerStartGame, which leaves the state of the machine to the answer.  *)
StartGame(m) == Quiet /\ Stay /\ Ask(m, obj.player, {obj.player, Other})

(* HandlerRetryGame asks for the number of lives here and never again.     *)
RetryGame(m) ==
    IF obj.state # "wait_end" \/ ~obj.loaded \/ obj.tries >= MaxRetry THEN Refuse
    ELSE Quiet /\ Stay /\ Ask(m, obj.player, {obj.player, Other})

EndGame(m) ==
    IF obj.state # "wait_end" THEN Refuse
    ELSE Quiet /\ Stay /\ Ask(m, obj.player, {obj.player, Other})

(* HandlerLottery draws; only what was won takes the player's records.     *)
Lottery(m) ==
    IF obj.state # "wait_lottery" THEN Refuse
    ELSE /\ Quiet
         /\ \/ Stay /\ \E b \in BOOLEAN : Ask([m EXCEPT !.yes = b], obj.player, {obj.player})
            \/ Enter(obj, Release(timers), "lottery_end") /\ Done

LotteryEnd(m) ==
    IF obj.state # "lottery_end" THEN Refuse
    ELSE Quiet /\ Enter(obj, Release(timers), "lottery_ani") /\ Done

BuyPrize(m) ==
    IF obj.state # "wait_buy" THEN Refuse
    ELSE /\ Quiet
         /\ IF m.yes THEN Stay /\ Ask(m, obj.player, {obj.player})
                     ELSE Enter(obj, Release(timers), "wait_start") /\ Done

(* HandlerPlayerLogout.                                                    *)
PlayerLogout(m) ==
    IF obj.state \in {"wait_end", "wait_player"} THEN Refuse
    ELSE Leave(Release(timers), obj.timer, <<ClearBuyIn(obj.player)>>)

(* OnLoginCheck lets only the machine's own connection through.            *)
ClientRequest(m) ==
    IF ~obj.on \/ obj.conn # m.conn THEN Refuse
    ELSE \/ m.k = "start"       /\ StartGame(m)
         \/ m.k = "retry"       /\ RetryGame(m)
         \/ m.k = "end"         /\ EndGame(m)
         \/ m.k = "lottery"     /\ Lottery(m)
         \/ m.k = "lottery_end" /\ LotteryEnd(m)
         \/ m.k = "buy"         /\ BuyPrize(m)
         \/ m.k = "logout"      /\ PlayerLogout(m)

(* HandlerStartTimeout and the others: the state's time is up.  They take  *)
(* the machine's timer for the one that sent the message.                  *)
TimeIsUp(m) == obj.on /\ obj.state = m.state

TimerMessage(m) ==
    IF ~TimeIsUp(m) THEN Refuse
    ELSE \/ /\ m.state \in {"wait_start", "wait_end"}
            /\ Leave(WithRefund(timers), 0, <<ClearBuyIn(obj.player)>>)
         \/ /\ \/ m.state \in {"wait_lottery", "lottery_ani"}
                  /\ \E st \in {"wait_buy", "wait_start"} : Enter(obj, timers, st)
               \/ m.state = "lottery_end" /\ Enter(obj, timers, "lottery_ani")
               \/ m.state \in {"wait_buy", "buy_ani"} /\ Enter(obj, timers, "wait_start")
            /\ Quiet /\ Done

(* HandlerClearBuyIn, HandlerGameRefund and HandlerLogout.                 *)
Internal(m) ==
    /\ Quiet /\ Stay
    /\ IF m.k = "m_logout" THEN Ask(m, Other, {Other}) ELSE Ask(m, m.p, {m.p})

(* FrameServer::DispatchMessage takes the oldest message.                  *)
Dispatch ==
    /\ ~crashed
    /\ queue # << >>
    /\ LET m == Head(queue)
       IN  \/ /\ m.k = "answer"
              /\ Post(Tail(queue))
              /\ Answer(m)
           \/ /\ \/ m.k \in Client             /\ ClientRequest(m)
                 \/ m.k = "m_login"            /\ MachineLogin(m)
                 \/ m.k \in {"login", "buyin"} /\ WebRequest(m)
                 \/ m.k = "kick"               /\ Kick(m)
                 \/ m.k = "timeout"            /\ TimerMessage(m)
                 \/ m.k \in {"clear_buy_in", "game_refund", "m_logout"} /\ Internal(m)
              /\ UNCHANGED <<counts, crashed>>
    /\ UNCHANGED <<db, left, conn>>

Next ==
    \/ \E k \in Client : ClientSend(k)
    \/ \E k \in Web : WebSend(k)
    \/ Connect
    \/ GoOffline
    \/ TimeOut
    \/ Tick
    \/ \E u \in Uid : Serve(u)
    \/ Dispatch

Spec == Init /\ [][Next]_vars

(* The server's loop runs on, the timers expire and the data servers       *)
(* serve; nobody need ask for anything.                                    *)
FairSpec == Spec /\ WF_vars(Dispatch) /\ WF_vars(Tick) /\ \A u \in Uid : WF_vars(Serve(u))

-----------------------------------------------------------------------------
(* Properties.                                                             *)

States == {"wait_player", "wait_start", "wait_end", "wait_lottery", "lottery_end",
           "lottery_ani", "wait_buy", "buy_ani"}

(* The machine's fields and the records have their types, an offline       *)
(* machine has no state, and no two live timers have one id.               *)
TypeOK ==
    /\ ServerTypeOK
    /\ obj.state \in States /\ obj.player \in Player \cup {NoOne}
    /\ ~obj.on => obj = Offline

(* A machine with a player on it has a timer that ends its state, or that  *)
(* timer's message is in the queue: no order of requests, answers and      *)
(* expiring timers leaves it occupied forever (ReleaseTimer and            *)
(* CreateTimer in every change of state).                                  *)
Watched ==
    obj.on /\ obj.state # "wait_player" =>
        \/ \E t \in timers : t.id = obj.timer /\ t.msg = Timeout(obj.state)
        \/ Timeout(obj.state) \in {queue[i] : i \in DOMAIN queue}

(* Every coin a player has put in comes back to his gold or is spent: when *)
(* the requests stop, no buy-in is left at the machine (HandlerClearBuyIn  *)
(* after every way of leaving it).                                         *)
BetsComeBack == <>[](crashed \/ \A p \in Player : db[p].gold.bet = 0)

(* When the requests stop, the machine is free for the next player.        *)
ComesFree == <>[](crashed \/ obj.state = "wait_player")
=============================================================================
