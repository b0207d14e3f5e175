# gamesvr: models and proofs

TLA+ models of the game backend in `src/`, the runs that model-check them and
the theorems proved about them. `PROJECT.json` lists the parts of the system,
the runs, the deliberately broken variants each property is tried on, the source
lines of every definition, the findings, the hazards and the theorems.

## The system

The backend is a set of processes, each one thread with an endless loop. A
process that has clients or handlers is a `FrameServer` (`core/src`): every
round it checks its timers and sessions, takes messages from the connect
servers' pipes and from the proxies, and serves them from one queue.

| Part | State | Operations | Talks to |
|---|---|---|---|
| Shared-memory pipe (`core/src/shm_pipe.cpp`) | two indexes and a ring in a System V segment | `AppendOneData`, `GetOneData`, reuse after a restart | joins a connect server and a logic server in each direction; also a server's own queue |
| Server frame (`core/src/frame_server.cpp`) | the queue, pipes, sockets | the loop, post, dispatch, offline notice | everything |
| Proxy client (`core/src/proxy_manager.h`) and proxy server (`svr/proxysvr`) | sockets, buffers, who is registered | register, route (point, all, random, hash), buffer, reconnect | server to server over TCP |
| Connect servers (`svr/connectsvr`, `connectwssvr`) | client slots, logic index of each | accept, receive, heartbeat, close | clients; logic server by pipes |
| Sessions (`common/session_manager`, `message_handler_base`, `message_base`) | session by id: state, the users' records, redo count | create, query, save, redo, end, time out | data server, by proxies |
| Data server (`svr/dbproxysvr`) | LevelDB, a cache of versions | query, versioned save, expiry | logic servers |
| Arcade game (`svr/lipsticksvr`) | machine objects, timers, players' buy-ins | login, buy-in, start, retry, end, lottery, buy, logout, kick, time-outs, refund | machines, web, data server |
| H5 game (`svr/lipsticksvr`) | players, timers, machine numbers | as above, without a machine or buy-in | browsers, data server |
| Pools (`include/hpp/object_manager.hpp`, managers in `common`) | slots, indexes, a copy in shared memory over a restart | allocate, free, save, restore | all of the above |
| Web, machine, promoter servers | none of their own | handlers over sessions | web, data server |
| Event server | a database connection | write | gets UDP |

What is hard in it:

* **Shared memory without locks.** Writer and reader of a pipe each move one
  index and read the other's while it may move; either may die in the middle.
* **Handlers cut in pieces.** A handler asks, waits, computes, saves, waits and
  goes on. In between the record may change (hence versions and redo), and the
  machine it is about may change state, player or connection, or be gone.
* **Messages.** Answers are late, lost in a full proxy buffer, or delivered to
  the successor of the process that asked. Session ids start again.
* **Timers** put a message in the same queue as the request they race with.
* **Money.** Charging a coin and beginning a game, winning and leaving the
  state that can win, refunding and clearing the buy-in are separate saves.

What makes each part correct: a pipe is a FIFO queue of whole messages; the
handlers together make atomic updates and are told the truth about them; a game
is paid, won at most once, given back at most once, its machine comes free and
the buy-in comes back; a proxy delivers in order and reconnects; a closed
connection is reported; a pool neither loses nor shares a slot.

## Modules

| Module | What | Runs |
|---|---|---|
| `Fifo` | what a pipe promises: a queue | |
| `ShmPipe` | the pipe, one action per access to shared memory | `ShmPipe` |
| `ShmPipeProofs` | the pipe is that queue, for all constants | |
| `AtomicStore` | what handlers promise: atomic updates of a user's records | |
| `DbSession` | sessions, the paths of messages, the data server | `DbSession`, `DbSessionRestart`, `DbSessionUnversioned` |
| `DbSessionProofs` | types, and what each step does to sessions, messages and records | |
| `DbSessionSteady` | what holds while only the network and the clock interfere, for all constants; implements `AtomicStore` | |
| `ObjectPool` | a pool of objects with its index, and its passage over a restart | |
| `Gateway` | a connect server, its clients, and the logic server's side of its pipes; uses `ObjectPool` | `Gateway`, `GatewayWs` |
| `GatewayProofs` | the operations of a pool; slots, objects, addressees and notices, for all constants | |
| `Channel` | what a proxy promises: messages may be lost, none is repeated or overtaken | |
| `Proxy` | servers, proxies, and their connections; implements `Channel` | `Proxy`, `ProxyReconnect` |
| `ProxyProofs` | theorems about `Proxy` and its refinement of `Channel` | |
| `GameServer` | what the two games share: queue, timers, sessions, payments, their properties | |
| `GameServerProofs` | types, and the way of requests, answers and refunds, for all constants | |
| `LipstickMachine` | one arcade machine with its players, on `GameServer` | `Lipstick`, `LipstickDeep`, `LipstickOffline` |
| `LipstickProofs` | types, timers, and refunds made once, for all constants | |
| `H5Game` | the game in the browser, on `GameServer` | `H5Game` |
| `H5Proofs` | types, timers, and refunds made, and once, for all constants | |
| `MC...` | values of the constants for TLC | |

How they fit together: `ShmPipe` is the pipe that `Gateway` uses as a bounded queue
(its promise is `Fifo`); `Proxy` is the way on which `DbSession` keeps the order of the
messages about one user and loses some, as `Channel` allows; `DbSession` is the
protocol of queries and saves that `GameServer` uses with versions and redo.

### ShmPipe

`begin`, `end` and `buf` are the shared segment; `pstep` and `cstep` are where
the writer is in `AppendOneData` and the reader in `GetOneData`, the other
`p...`/`c...` variables their locals. A step is one access to the indexes or one
block copied. The length field of a message is `HeadLen` bytes, each of which
says which byte of which length it is, so that a misread length is seen.
`GetUsedSize` is as wrong as in the code when the data wraps (it exceeds the ring);
the model and the proof show that the reader does not depend on it. A crash
takes a side back to idle and leaves the segment, as `Reuse` does. `log`, the
history of the messages in the ring, maps to the queue of `Fifo`.

Assumed: one writer, one reader, stores seen in program order (x86-64; the code
has no barrier).

### DbSession

`QueryAllData` is the creation of a session and its query; `Receive` an answer
and the rest of the handler up to its next wait (`QueryResponse`,
`SaveResponse`, `OnQuerySuccess`, ...); `Serve` one request at the data server
(`HandlerQuery`, `HandlerSave`); `TimeOut` is `CheckTimeOut`. What a handler
computes is reduced to this: it appends itself to the records it chooses among
those it queried. Messages about one user and one server keep their order, the
others do not (the proxies hash by user). Faults are actions with a budget each:
`Kill` (a logic server loses its sessions and its ids, a `SIGKILL`), `Stop`
(sessions are kept, ids begin after the greatest kept), `DbRestart` (all cached
versions gone), `Lose` (a proxy empties its buffer) and a failing LevelDB call.
Comparing with a local that was never set is a choice from `Garbage`.

### ObjectPool, Gateway

`Gateway` has a connect server and a logic server with two pipes between. `sock` and
`free` are the slots (`stCliSocket`, `_free_list`), `cs` and `sc` the pipes, `queue`
the logic server's `_pmsg_pipe`, `pool` and `object` its `MachineManager` (for
websockets `PlayerManager`). The head of a message, slot and time of acceptance, is
all that either server knows a connection by; the model's messages also carry the
connection itself, which only properties look at. Actions are the functions of the two
loops: `Connect` (`AcceptConnect`), `Receive` (`DealNetwork`, `RecvClientData`, with
the handshake and frames of websockets), `SendClientData`, `CutOff` and `HeartBeat`
(the routine checks), `Fetch` (`GetClientMessage`; a notice of a closed connection is
acted upon ahead of the queue), `Dispatch` (login, second login, filter), and the
restart of each. The clock may stand still between two accepts, so that a slot can
be given twice in one millisecond. `ObjectPool` is `ObjectManager` with a manager's
index; `Restored` lets the objects come back from shared memory in any order of
slots, as `Init` places them.

The two connect servers differ in `kind`: a websocket's frame of 126 bytes or more
has its length read wrong and blocks the buffer; one that the pipe has no room for
is unmasked a second time; the notice's head is not where the messages' is. Left out: a handshake whose answer finds no
room until the retries are used up (the code goes on without it and does it once more with
the next bytes), and a socket that `fcntl` or `EpollAdd` refuses when it is accepted.
`ComesToRest` needs `heart_beat_check` switched on in the configuration.

### Channel, Proxy

`link[s][p]` are the TCP connections of server and proxy, oldest first, since a
server may connect again before the proxy has read the old one to its end; each
has two directions and an end on either side, open or closed. `out` and `reg` are the
send buffers of the two ends. A send (`Tries`) is taken, finds no room, takes a part,
or finds the other end gone; what is buffered goes first (`SendOneData`). `Accept` waits
for the registration, that may be late; `Transfer` passes a message on or buffers
it; `Cut`, `ProxyDies`, `ServerDies` are the faults, each with a budget. After a
torn send the rest of that connection cannot be read: the code reads it from the
middle of a message, and the model does not follow it there. A connection that both ends
have closed (not `Alive`) stays in the sequence, empty, and nothing happens to it.

`Channel` is a lane (a route by one proxy): its steps are send, deliver and lose, and
`Proxy` maps to it with what is in its buffers and connections as what is in flight.
`AllArrive` is about each message by its number, not about the latest: a lane on which number
`n` was the latest sent and that is never on `n` at the other end has skipped it. The one
thing that skips messages while nothing breaks is `ReserveData`, which empties a full buffer.
Left out: the descriptor that stays open when `connect()` fails.

### GameServer, LipstickMachine, H5Game

`obj` is the object the game is on: the `Machine`, in H5 the `Player`, who is his
own machine (`on` says whether there is one, `conn` which connection it has, `loaded`
whether its own records have come), `timers` the `TimerManager`, `queue` the server's
message queue, `sess` the sessions, `dbq` the requests under way to the data servers
by user, `db` their records. `Dispatch` takes one message and runs the whole handler
of it up to its next wait; `Tick` is an expiring timer, `Serve` a data server's next
request, `GoOffline` the lost connection, which overtakes the queue as in
`GetClientMessage`. `Process` in
`GameServer` is `MessageHandlerBase::Process`: it says whether an answer lets the handler
wait, end, or go on with the records or the save; each game's `Answer` then runs its
`OnQuerySuccess` or `OnSaveSuccess`, and `Uses` says which of these use the object without
asking whether it is there.

A version that does not fit is answered with the current record; faults of the data
servers are left to `DbSession`. Time is left out: a timer may expire at any moment,
which includes every moment the code's clock allows. A draw or a comparison with
statistics that are not modelled is a free choice. `crashed` says that a handler used
an object that is gone; nothing happens afterwards.

In `LipstickMachine` players come by the web, put a buy-in at the machine and may
be replaced by the next player; every way of leaving (logout, kick, time-out, lost or
second connection) must give the buy-in back. In `H5Game` the player pays from his
gold, is never put out, has no timer while he waits to start, may log in again on the
same connection or on another, and has an unfinished game given back when it stops.

Left out of both: `HandlerUpdateMachinePrize`, `HandlerGameRecord`, the login data of
players (and so the kick message to another server, which arrives as `kick` from
outside), other machines and their numbers (`H5MachineManager`), limits of the timers
(`CreateTimer` returns -1 when its pool is full, which leaves a state without one)
and of the queue, a lottery's prize of points (each time its save is made again the handler
asks the web once more to pay), and the width of the ids (the H5 time-outs hold a
player's in 32 bits).

## Runs

| Run | Bounds | Shows |
|---|---|---|
| `ShmPipe` | ring of 7, length of 2 bytes, messages of 0 to 2 bytes, one crash | a message, its length and the free byte each fall on every place of the ring, and two messages are in it while a third is written |
| `DbSession` | two servers, two users, two kinds of record; mixes: three interleaved executions (some about two users), two lost messages, a kill and a stop, a failing call; one redo | handlers make atomic updates, none twice, and are told the truth unless disturbed |
| `DbSessionRestart` | one server, two users, one restart of the data server, the code's limit of redos | every handler ends without its time-out |
| `DbSessionUnversioned` | one restart | violation of `NoLostUpdate` |
| `Gateway` | three connections of two clients (the first two of one), two slots, one object, pipes of two messages, a queue of one, a receive buffer of two; mixes for tcp and websockets, one with a restart of each server | slots and objects are neither lost nor shared, nothing reaches another connection, lost tcp clients are reported, all is free in the end |
| `GatewayWs` | one websocket | violation of `Told` |
| `Proxy` | two servers that send to each other by one proxy, buffers of two; up to three messages with seven mixes of faults | implements `Channel`; if nothing breaks each message arrives but those that lay in a full buffer; nothing is stuck |
| `ProxyReconnect` | two proxies, one dies | violation of `NothingStuck` |
| `Lipstick` | two players, two logins, a buy-in, a start, a logout, a kick | liveness and payments while players change |
| `LipstickDeep` | two players (alike: symmetry); mixes: two ends, lotteries and purchases; two logins, two ends and a kick; start, retry, reconnection, disconnection, a session timed out; two requests for one life, a kick, an end | all states of the machine with every winning request doubled, nobody paid twice for the same, also when kicked; payments and refunds when things are lost |
| `LipstickOffline` | one login, one disconnection | violation of `NoCrash` |
| `H5Game` | one player; mixes: doubled ends and lotteries; a start and two requests for a life with a second and a lost connection and a late session; two starts with a kick and a logout; a second login on the same connection | payments, refunds, single prizes, no game without a timer, an interrupted game is given back at once, and games end |

Each behaviour starts with one of its run's `Mixes`, a budget of requests and faults
by kind that the guards (`Spend`, `faults`) count down; these budgets, `MaxCrash` and
`MaxPending` are all the bounds in guards. `MaxPending` says how many messages and sessions
a new request of a client or the web may meet; timers and the server's own messages
are not limited. Three executions of `DbSession` are enough for a reader, a rival that
makes its save stale and a third that does so to the second try. With `MaxPending = 1`
a request meets one other at any point of its query and save, together with any timer
and any message these two cause; games with 2 were explored once and gave nothing new.
Two connections of one client and a third of another are enough for a second login,
a slot used again and a pool that is full; pipes of two and a queue of one fill up in
every mix. In `Proxy`, buffers of two overflow with the third message, when three sends find
no room: that mix is the one in which nothing breaks, and without the exception for a
full buffer `AllArrive` fails in it. Two breaks
leave an old connection at one end while the next is already lost. In `LipstickDeep` two
players are the ones who play before and after a kick; `MaxRetry = 1` is met by two requests.

`CHECK_DEADLOCK FALSE` is in every configuration whose requests are bounded: when they are
used up and served the system rightly rests. `ShmPipe` never rests and is checked.

The broken variants (marked as mutants in the modules, listed in
`PROJECT.json`) are plausible slips: a guard dropped, a timer not created, a byte not
reserved. Each property is violated by at least one, under its own run.

### Fairness

Weak fairness on what the processes' endless loops do without being asked: the
reader's polling (`FrameServer::Run`, `ConnectServer::Run`), serving a request or
an answer that has arrived, dispatching, the expiry of timers, the routine checks of
connections, and `CheckConnect` (`ProxyServer`'s and `ProxyManager`'s loops likewise). In
`Proxy` also that a process that died is started again (by hand, with `server.sh`): an
assumption about its operation, without which `NothingStuck` would mean nothing. None on requests,
crashes, losses or session time-outs. `FrameServer::Run` performs each of these in
every round, so weak fairness is what it gives.

### Findings

* `DbSessionUnversioned`: `HandlerSave` goes on after it found no version and
  compares an uninitialised local.
* `LipstickOffline`: the handlers that go on after a query dereference a machine
  that may have gone offline.
* `GatewayWs`: the notice that a websocket was closed names no connection, so the
  player stays online until the heart beat finds him.
* `ProxyReconnect`: `CheckConnect` returns at the first proxy that is connected, so what
  is buffered for a later one that was lost is never sent.

Seen in the models, but without a run of their own: a logic server that is stopped and
started again hands out the session id of a session that timed out, and the answer to
the old one makes the new one believe its save succeeded (`SavedIsApplied` of `DbSession`
with a mix of one stop and three executions on two records).

Seen without a text of the repository that promises otherwise (hazards with a note): a
game that is won may be refunded too when its end is being saved; a session timed out
after saving a prize leaves the machine able to win again; after a logout and a login a
start charges the earlier player; the end of a player who was put out may be paid with the
next player's prize; a coin charged while the player leaves begins no game;
two requests at once buy one life more than `max_retry_time`; a second login on the same
connection drops a game in progress without giving it back, which `GivenBack` excepts.

Seen by reading only: `H5MachineManager::Alloc` does not mark the number it hands out, so
players share machines; `HandlerUpdateMachinePrize` overwrites the income stored.

## Proofs

`ShmPipeProofs`, for every size of ring, length field, set of messages, reader's
buffer and number of crashes, from `SizeAssumption` and `MsgAssumption` alone:

* `TypeCorrect`: `[]TypeOK`.
* `NoOverwrite`: `[]WriteIsSafe`. The room is checked once and used later.
* `NoTornRead`: `[]ReadIsSafe`.
* `RingIsFifo`: `Spec => fifo!Spec`, the refinement.

They rest on `Inductive`, `Spec => []IInv`. The properties are not inductive:
that the reader copies published bytes depends on what lies in the ring and on
what it read two steps before. `IInv` adds `LogInv` (the messages follow each
other from `_begin` to `_end`), `Content` (the bytes spell them), `WriterInv` (since
the check the reader can only have made room) and `ReaderInv` (the end read first is
either `_begin`, or past the oldest message). The lemmas before them are
arithmetic on the ring (`Dist`, `Wrap`); then each action has a lemma that it
preserves `IInv`.

`GatewayProofs`, for every number of connections, clients, slots and objects and every
limit of the pipes and buffers, from the named assumptions of `Gateway`:

* Lemmas, for every size of a pool: `Create`, `Release` and `Restored` keep it `Sound`
  (free and used slots partition it, the index is one-to-one on the used ones).
* `GatewayTyped`: `[]TypeOK`; `NoSlotLost`: `[]SlotsKept`; `NoObjectLost`: `[]PoolKept`.
* `RightAddressee`: `[]RightOne`, nothing has its effect on another connection unless both
  had one slot in one millisecond.
* They rest on `Agreement`, `Spec => []IInv`. `RightOne` alone says nothing of what is
  still on its way: `IInv` adds that every slot in use (`ConnInv`), every message in a
  pipe or the queue (`CsInv`, `ScInv`, `QueueInv`) and every object (`PoolInv`) is of a
  connection that was accepted and carries the head that was given to it, or, in a
  websocket's notice, none; heads once given do not change (`Growing`). Each action has a
  lemma.

* `IndexKnown`: `[]Indexed`; `ToldByTcp`: `[]ToldTcp`. They rest on `Notices`, `Spec =>
  [](IInv /\ NoticeInv)`: what became of a connection after its login is a case for each
  place where the index or the notice may be (slot, pipe, lost to a full pipe, late
  because the login was not handled yet), and `NoticeInv` says that one of them holds of
  every connection that a client or an object of the logic server has.

`DbSessionProofs`, for every number of servers and users, set of record kinds, redo
limit and mix of faults, from the named assumptions of `DbSession`: `TypeCorrect`,
`[]TypeOK`, with all its faults. Its lemmas say of each handler which message it takes,
sends and answers and what becomes of its session (`SuccessIs`, `HandlerSaveIs`,
`ReceiveIs`, ...); later proofs use these and never expand the actions.

`DbSessionSteady`, for the same constants, under `Steady`: no logic server was killed or
stopped, no LevelDB call failed and the data server was not started again, while
messages may be lost and delayed, sessions time out and versions expire at any step.
`Steady` is a condition on the state reached so far, not on the constants.

* `CacheTrue`: `[](Steady => CacheIsCurrent)`; `PaysOnce`: `[](Steady => UpdatesOnce)`;
  `ToldTrue`: `[](Steady => AnswersAreTrue)`.
* `AtomicUpdates`: `Spec /\ []Steady => NoLostUpdate`, the refinement of `AtomicStore`.
* `RedoEarned`: `[](Steady => RedoIsEarned)`.
* The first four rest on `SteadyState`, `Spec => [](TInv /\ SteadyInv)`. That a save
  overwrites nothing unseen depends on what is in all the messages on their way: `SteadyInv`
  says that there is a one-to-one map from handler executions to sessions such that every
  save under way is made by its session's execution from a copy that was once stored
  (`SaveOk`), and that execution has been neither applied nor refused; that every answer
  carries such copies (`AnswerOk`); that a session has at most one message per user on its
  way and it is the one the session waits for (`LaneOk`, `Querying`, `Updating`); and that a record
  has as many values as its version says, each written once (`RecordOk`). A save is
  accepted when its version is the next one, so its copy is then the record itself.
  The map is needed because a session is gone after a time-out while its save lives on.
* `RedoEarned` adds `EarnInv`: for each session there is a set `T` of rivals' applied updates,
  at least as many as its redos, none of which lies beyond the version of what the session
  has under way. A refusal finds in the record an update at or beyond that version,
  hence a new member of `T`, by a rival since the session's own was not applied.

`Steady` leaves out what makes these false. After a kill or a stop session ids are given
again and an old answer reaches a new session (`AnswersAreTrue` has that as its condition);
a failed call answers a query with fewer records and a save with a failure and a success;
a restart of the data server lets saves through unversioned (`DbSessionUnversioned`).

* `SaidIsSaved`: `[](Trusty => SavedIsApplied)`. Of all that, a session told of success
  survives a restart of the data server and, unless a message was lost too, failing
  calls: `Trusty` leaves out only kills and stops, and a loss together with a failed
  call. It rests on an invariant of its own, `TruthInv`: a request is on its way once, of
  its answers the failures come first (`FailFirst`), and none comes to a session begun
  later. A failed save is reported as a failure and then as a success: the failure
  releases the session, so the success finds nobody, unless the failure alone was lost.

What TLC checks beyond the theorems is therefore `CacheIsCurrent`, `UpdatesOnce` and
`NoLostUpdate` with kills, stops and failing calls.

`ProxyProofs`, for every number of servers and proxies, set of routes, size of buffer and
mix of faults, from the named assumptions of `Proxy` (the servers are finitely many, at
least one, and no proxies):

* `ProxyTyped`: `[]TypeOK`. `ProxyImplements`: `Spec => InOrder`, the refinement of `Channel`.
* `OnceInOrder`: what that means, on every lane: what comes was sent, and no message comes
  twice or after a later one.
* They rest on `LanesInductive`, `Spec => []IInv`. That the numbers a server receives rise
  says nothing of the messages that will come. `IInv` says that of each lane the last
  one that came, what is on its way to the addressee, what the proxy holds, what is on each
  of the sender's connections, oldest first, what it has buffered, and the last one sent
  follow each other (`Sorted`); that a proxy has one connection of a server open and
  has shut all before it, and a server only its newest (`LinksOK`): otherwise a message of
  the connection before could come after one of the next; and that what is buffered for a
  server is for it. A send keeps what it is given and its order, whatever becomes of it
  (`SendIs`: `Flows`, `Keeps`). Every action is for each lane one of three moves: the proxy
  passes on (`ProxyMoves`), the server does (`ServerMoves`), or a message comes (`ServerTook`),
  each of which keeps the lane `Sorted` and is a step of `Channel`.

`LipstickProofs` and `H5Proofs`, for every number of players, gold, limit of redos and
retries, and every mix of requests and faults, from the named assumptions of
`GameServer` (the players are finitely many, a save may be redone at least once, as it
may four times in the code) and of the two games:

* `MachineTyped`, `GameTyped`: `[]TypeOK`. They rest on `MachineInductive` and
  `GameInductive`, `Spec => []IInv`: the timers, the queue, the sessions and what they
  hold, the requests at the data servers and the records are well-formed (`ServerOK` of
  `GameServerProofs`), and so is the machine or the player. That a balance is never
  overdrawn needs all of it: what a handler computes comes from a session's record,
  that from an answer, that from the records.
* `NeverAbandoned`: `[]Watched`, in H5 `[]Timed`. Every step that changes the state also gives it its
  timer (`EnterKeeps`), and a timer's message finds either the state it was made for or
  one made since. One lemma per handler, as for the others.
* `CoinGivenBack` (H5): `GivenBack`. An invariant does not say it: it speaks of
  what one step posts, so every handler has a lemma that it either leaves the game
  running, or answers one of the two requests the property excepts, or sends the refund.
* `RefundedOnce` (both): `[]OneRefund`. The records alone say nothing of the refunds
  still to come, and a refund passes through four hands: a timer, the queue, the session
  of its handler with its save, the player's record. `RefundsOK` says that of each game there
  is at most one of these (`Only`), that there is none of a game not yet begun, and none
  of the one in progress. A step moves it at most one further (`RefundsMove`); a
  game is given back only as it ends (`GivesBack`), so by one message or timer. The hard
  part is the session: its save may be applied while it still waits, be refused and
  be made again. Therefore `FlightsOK` says of all that is on its way that a session
  awaits every answer that may come to it (`Expected`), that of a session and a user at most one
  request or answer is under way (`Single`), and that who knows the present
  version of a record knows the refunds in it, and a save that can still be accepted leaves
  them as they are or adds one (`Viewed`).

* `NothingForNothing` (both): `[]PaidFor`. A game is counted when its handler hears that the
  charge was saved, and the coin left the record some steps before: what is paid is counted
  in the records, `Total(db)`, what is used in `games` and `retries`. `PaidOK` adds those in
  between (`Charging`): the sessions that make a charge and to which the
  answer is on its way. `games + retries + Cardinality(Charging) <= Total(db)` is kept
  because a save that can still be accepted takes nothing from what was paid and a
  charge's adds to it (`Pays`), which holds because who knows the present version of a
  record knows what was paid in it (`Known`). The sum over the players is a recursive
  function on sets: that it exists is proved with the library's well-founded recursion on
  finite sets, that one more at one player is one more of the sum, from its equation.

* `NothingTwice` (both): `[](Punctual => NobodyTwice)`, no record holds the same prize of the
  same game twice. A prize is saved while the game is still in the state it is won in, and only
  the answer to that save takes the game out of it: in between, a doubled request, a refused save
  or a kick comes upon a game that could be won again. The states of a game that win
  something have an order in which it never goes back (`Stage`, `Advances`), and a way to win
  has its stage (`WonAt`). `PrizesOK` says of a prize in a record, in an answer or with a session
  that its stage is past, or, before that, that the answer which tells its winner's session
  stands in the queue ahead of whoever knows of the prize (`Noted`). So a handler that has the
  record with the prize in it finds the game beyond it, and one with an older record has its
  save refused. A save on its way has no prize twice, and the new one only where its session waits
  to hear of it (`Awaited`). What a session's handler does when it hears (`HeardOn`) is the
  step that moves the game on.
* `OnePrizeEach` (H5): `[](Punctual => OnePrize)`. In the browser the player of an object stays
  who he is, and nobody else's records get a prize: `OwnOK`, an invariant of its own.
* `OnePrizeAlone` (arcade): the same where one player plays on the machine.

`Punctual` leaves out the time-outs of sessions ("late" in a mix): one whose session is given up
after its prize was saved leaves the machine able to win again. In the mixes of the
runs, too, no game with a prize meets a late session. Of the arcade machine `LipstickDeep`
therefore checks `NobodyTwice`, with two players and a kick, and `OnePrize` only `H5Game`. The
theorem `OnePrizeAlone` is for one player because of two it is not true: when the answer to the end of a game comes only after its player was
kicked and another has begun a game, the earlier player is paid the prize of the new game
(`HandlerEndGame::OnQuerySuccess` asks for the state of the machine, not for whose game it is),
and the new player may win it too (TLC finds such a course with two players, two games and
one kick; it takes 55 steps, beyond the bounds of the runs). Each of them has it once: `NothingTwice` is for any number.

All liveness (`Drains`, `EverySessionEnds`, `BetsComeBack`, `ComesFree`, `ComesToRest`,
`GamesEnd`, `AllArrive`, `NothingStuck`) is only model-checked: liveness under fairness and ENABLED are
beyond the prover.

## Plan

1. Done: `Fifo`, `ShmPipe`, its proofs; `AtomicStore`, `DbSession`; `ObjectPool`,
   `Gateway`, their proofs; `Channel`, `Proxy`; `GameServer`, `LipstickMachine`, `H5Game`.
2. Proofs done: `ShmPipe`, `ObjectPool`, `Gateway`, `DbSession`, `Proxy`, `GameServer` and its
   games. Left: what more of `DbSession` holds in spite of kills and failing calls
   (`UpdatesOnce` of the users that no failed call was for).
3. Then: machine statistics and `H5MachineManager`; the record of where a machine is
   (its logout's save after its next login's); a queue with a limit for `Tick`.

## Not modelled

The event server (output only), the web, machine and promoter servers (handlers
without state over the session protocol of `DbSession`), tools, configuration and message
definitions. The clocks, the start of a process and its configuration. Libraries:
`src/include` holds the headers of vendored ones (MySQL++, OpenSSL, protobuf, boost and
others), more than ten times the lines of the backend itself, about 13,500, which are
what the models are about.
