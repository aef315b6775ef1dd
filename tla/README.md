# A verification of the Open Tibia game server

The program in `src/engine/src` is a C++ server for a massively multiplayer
game (a fork of The Forgotten Server). This directory holds TLA+ models of the
parts of it whose correctness depends on the order in which things happen, the
TLC configurations that check them on small instances, and theorems about them
that the TLA+ proof system checks for every value of their constants.

All source paths below are relative to `src/engine/src`.

## 1. The system

### 1.1 Threads and parts

The server has four threads.

| thread | runs | state it owns |
|---|---|---|
| main | `main()`, then the network loop `ServiceManager::run` (boost asio) | sockets, connections, acceptors |
| dispatcher | `Dispatcher::threadMain` (`tasks.cpp`): all game logic, one task at a time | `taskList`; the whole of `Game`, players, map, scripts |
| scheduler | `Scheduler::threadMain` (`scheduler.cpp`): sleeps until the next timer | `eventList`, `eventIds`, `lastEventId` |
| database worker | `DatabaseTasks::threadMain` (`databasetasks.cpp`): asynchronous queries | `tasks`, its own `Database` handle |

They meet in three queues. The network thread turns packets into tasks of the
dispatcher; the dispatcher arms timers at the scheduler and adds queries at the
worker; the scheduler hands due timers, and the worker hands finished queries,
back to the dispatcher's list. Packets to the clients leave through
`OutputMessagePool` and `Connection`, which the dispatcher and the network
thread share under the connection's lock.

### 1.2 Inventory

| part | source | state | operations | interacts with |
|---|---|---|---|---|
| dispatcher | `tasks.*`, `thread_holder_base.h` | list of tasks, thread state | addTask, shutdown, stop, threadMain | everybody |
| scheduler | `scheduler.*` | timers, ids of the active ones | addEvent, stopEvent, shutdown, threadMain | dispatcher |
| database worker | `databasetasks.*` | list of queries | addTask, flush, shutdown, threadMain | dispatcher, database |
| database | `database.*`, `databasemanager.*` | one connection, its lock | executeQuery, storeQuery, transactions | worker, dispatcher, network thread |
| start and stop | `otserv.cpp`, `signals.*`, `Game::setGameState`, `Game::shutdown` | game state | mainLoader, signals, joins | all threads |
| network | `server.*`, `connection.*`, `outputmessage.*`, `protocol.*`, `networkmessage.*` | sockets, queues of messages | accept, read, send, close, time-outs | dispatcher |
| game protocol | `protocolgame*.cpp`, `protocollogin.cpp`, `protocolstatus.cpp`, `protocolspectator.cpp`, `protocolreplay.cpp`, `protocolcheck.*` | a session: player, connection | login, connect, logout, release, ~120 packets | network, game |
| waiting list | `waitlist.*` | queue of waiting accounts | clientLogin | game protocol |
| game | `game.*` | players, creatures, items in decay, trades, game state | every action of a player | all the rest of the game |
| creatures | `creature.*`, `monster.*`, `npc.*`, `player.*`, `condition.*`, `combat.*` | health, conditions, targets, walking | think, walk, attack, die | game, map |
| items and places | `item*.cpp`, `container.*`, `tile.*`, `map.*`, `cylinder.*`, `house.*`, `depot*.cpp` | who holds which item | add, remove, move, transform | game |
| parties, guilds, chat | `party.*`, `guild.*`, `groups.*`, `chat.*` | members, invitations, channels | invite, join, leave, talk | game |
| market, store | `iomarket.*`, `store.*`, `Game::playerCreateMarketOffer` ... | offers in the database, coins | create, cancel, accept, expire | database, game |
| persistence | `iologindata.*`, `iomap*.cpp`, `ban.*` | rows of the database | load, save | database |
| spawns, raids, quests | `spawn.*`, `raids.*`, `quests.*`, `globalevent.*` | what is spawned, what runs | start-up, checks, events | scheduler |
| scripts | `luascript.*`, `events.*`, `baseevents.*`, `script*.cpp` | Lua states | bindings and callbacks | game |
| tables | `monsters.*`, `items.*`, `vocation.*`, `mounts.*` ... | read at start-up | load, look up | game |

### 1.3 What is hard

* *Interleaving.* The three queues and their condition variables; the fields of
  a protocol that the network thread reads while the dispatcher writes them.
* *Ordering.* Timers go to the front of the dispatcher's list; a flush may
  overtake the worker; a timer that was stopped too late still runs.
* *Staleness.* A task carries ids or pointers of players, items and creatures
  that have gone by the time it runs; event ids outlive their events.
* *Shutdown.* Three threads must end in an order that neither loses accepted
  work nor touches what was deleted.
* *Sequences of legal calls.* Trades, parties, logins that replace a session:
  two players' interleaved requests, each of which is checked on its own.

PROJECT.json lists the hazards, each at its line, with the properties that
would catch it going wrong.

## 2. The modules

| module | models | composed of |
|---|---|---|
| `Dispatcher` | `Dispatcher` and its thread | |
| `Scheduler` | `Scheduler` and its thread | refines `TimerService` |
| `TimerService` | what the game expects of the scheduler | |
| `DatabaseTasks` | `DatabaseTasks` and its thread | |
| `ServerThreads` | the three threads, `main`, and the shutdown of the game | `Dispatcher`, `Scheduler`, `DatabaseTasks`; refines each of them |
| `Database` | the shared connection: lock, transactions, losses, retries | |
| `Session` | connection, login, replacement, logout, the life of a `Player` | |
| `WaitList` | the waiting list of a full server | |
| `Trade` | trades between players, and the moves of items that end them | |
| `Market` | market offers, store coins, the asynchronous expiry | |
| `Party` | parties, their invitations and their chat channel | |
| `Creatures` | players and monsters on the map: references, targets, summons, check lists | |
| `DispatcherProofs`, `SchedulerProofs`, `DatabaseTasksProofs`, `ServerThreadsProofs`, `DatabaseProofs`, `SessionProofs`, `TradeProofs`, `GameProofs` | theorems about the module they are named after; `SessionProofs` also about `WaitList`, `DatabaseProofs` about `Market`, and about sums over finite sets; `GameProofs` about `Party` and `Creatures` | `ServerThreadsProofs` instantiates the first three; `SessionProofs`, `DatabaseProofs` and `GameProofs` extend both of their modules, whose names differ for that |

An `MC...` module gives a specification its constants; a `.cfg` beside it names
the specification and what is checked. Operators with an underscore in their
name (`Push_AlwaysBack`) are plausible mistakes in the operator they are named
after. No specification uses them: they are there so that one can see that each
property notices the mistake it is about.

Two conventions hold in the modules of the threads. A critical section is one
step, because nothing else that takes the lock can be seen in the middle of it.
What the code does *outside* the lock is a step of its own: the test of
`threadState` at the head of a loop, a `notify_one`, the execution of a task.
A condition variable is a flag, `signalled`, that `notify_one` sets only while
the thread is in its wait; a wake-up without it (`WakeSpurious`) may happen at
any time and is never promised.

`Trade`, `Market`, `Party` and `Creatures` are of the game, all of which the
dispatcher's thread runs: there a handler, with every call it makes, is one
step. What is concurrent in them is what the code spreads over several tasks:
the requests of different players, and the database queries and timers that a
task leaves behind.

History variables (`fate`, `accepted`, `executed`, `dropped`, `posted`,
`stopped`, `shown`, `excused`, `upToDate`) record what became of a task, a timer, a query,
an offer or a save. Guards read them only to say which objects the environment
may still create: each task, event or query is created once.

### 2.1 Dispatcher

| model | code |
|---|---|
| `taskList`, `threadState`, `dispatcherCycle` | the fields of the same names |
| `pc` | `check`: head of the loop (`tasks.cpp:42`); `lock`: lock taken; `waiting`: in `taskSignal.wait`; `executing`: in `(*task)()` |
| `signalling` | threads between the unlock and the `notify_one` of `addTask` |
| `AddTask` = `AcceptTask` or `RefuseTask`, then `Notify` | `addTask`, `tasks.cpp:69-93` |
| `CheckState`, `Wait`, `Take`, `WakeUp`, `Finish` | `threadMain`, `tasks.cpp:37-67` |
| `Stop`, `Shutdown` | `ThreadHolder::stop`, `Dispatcher::shutdown` |

`Timer` are the tasks the scheduler hands over with `push_front`; `Expiring`
those created with an expiration, which `Take` may drop (the clock is left
out: whether an expiration has passed is a choice). `Shutdown` by the
dispatcher's own thread follows `Stop`, as in `Game::setGameState` and
`Game::shutdown`; by another thread it comes without it, as in `main` when the
server could not start.

### 2.2 Scheduler and TimerService

| model | code |
|---|---|
| `eventList` with `cycle` and `eventId` | the priority queue of `SchedulerTask*`; `Top` are the members it may return as `top()` |
| `eventIds`, `lastEventId` | the fields of the same names; `lastEventId` starts anywhere in `0 .. MaxEventId`, so that the wrap-around is near |
| `now`, `Tick` | `system_clock::now()` |
| `deadline` | the argument of `wait_until`, `NoDeadline` in `wait` |
| `call`, `arming` | what a caller still has to do of `addEvent` after the unlock (notify, then read the id from the task) or of `shutdown` (clear, then notify) |
| `AddEvent`, `AddEventSignal`, `AddEventReturn` | `addEvent`, `scheduler.cpp:61-99` |
| `StopEvent` | `stopEvent`, by a caller that was given the id |
| `CheckState`, `Wait`, `Timeout`, `WakeUp`, `HandOver` | `threadMain`, `scheduler.cpp:24-59` |

`TimerService` is the abstract specification: an event is armed, and then
either fired (once, not before it is due), or stopped, or discarded at
shutdown; stopping and firing exclude each other. `Scheduler!Status` is the
refinement mapping: an event in the list is *armed*, one whose `stopEvent`
returned true is *stopped* although it stays in the list until its time comes,
and one the thread has popped is *fired*.

### 2.3 DatabaseTasks

`tasks`, `threadState` and `pc` as above. `hand` is the query a thread has
popped and not finished: the worker in `threadMain`, the dispatcher in `flush`.
A query is executed in a step of its own (`Execute`), after which its callback
is posted (`PostCallback`). `shutdown` is `Shutdown` (terminated, start to
drain), the steps of a flush, and `ShutdownNotify`; while it drains the worker
may still hold a query, and go on taking others. The queries are opaque; the
database answers each.

### 2.4 ServerThreads

The three modules are instantiated with disjoint variables. `step` is how far
the dispatcher is in the task it executes, and every call of that task is a
step of the component's own module, which must have returned before the task
goes on (`At`): `SetGameState` is `Game::setGameState(GAME_STATE_SHUTDOWN)` for
the task of a signal, `ShutDown` is `Game::shutdown()`, `WorkStep` any other
task, which arms or stops a timer, adds a query, saves the game (a flush) or
does none of it. The scheduler's `HandOver` is the dispatcher's `AddTask` of
the same task, and a finished query's callback another. `main` serves the
network (`Post`) until `Game::shutdown` stops the services, and then joins the
scheduler, the worker and the dispatcher in that order (`otserv.cpp:107-109`).

### 2.5 Session

Clients log in to one character and race for it, on a server with
`replaceKickOnLogin` and without `allowClones`; that is the setting in which
sessions meet.

| model | code |
|---|---|
| `state`, `socket`, `pending` | `Connection::connectionState`, the socket, the asynchronous operations in progress (each keeps the object alive through its `shared_ptr`) |
| `net` | the completion handler the network thread is in, `connectionLock` held |
| `tasks` | the dispatcher's list, with the tasks that concern the session |
| `eventConnect` | the `connect()` that the scheduler is to hand over a second later |
| `player`, `client`, `accepts` | `ProtocolGame::player`, `Player::client`, `ProtocolGame::acceptPackets` |
| `refs`, `held`, `online`, `freed` | `Creature::referenceCounter`; whether the game holds its references; the players in its maps; the deleted ones |

`Expired(c)` is `Protocol::isConnectionExpired`: nothing holds the
`Connection` any more. A `Player` object is named after the client whose login
created it. `Kick` is `kickPlayer` from anywhere in the game, the ping time-out
included; `Death` is `Creature::onDeath`, which removes the player and leaves his
connection open, so that packets are parsed for a dead player until the client
disconnects. `Drop` is `decrementReferenceCounter` with its 32-bit wrap, because
`release()` of a login whose `preloadPlayer` failed decrements a counter that
was never incremented.

What is abstracted: the bodies of the game's packets (a packet's task carries
the pointer and reads it); exceptions of asio; live casts; the tests of the
game state and of bans at login, which are the choice between `LoginRefused`
and `LoginPlaced`. The references that the game's maps and its check list hold
are counted as one, `held`. `ProtocolGame::connect` sets `acceptPackets`, a
plain `bool` that the network thread reads, in one step with the rest.

### 2.6 WaitList

The two lists of `WaitListInfo`, entries with the player's guid and what is
left until their timeout in units of five seconds. `ClientLogin` is the whole
of `clientLogin`: clean both lists, go straight in if both were empty, else
find the client and let it in, have it wait longer, or enter it. `Place` is
what `ProtocolGame::login` does with an admitted player in the same task: place
it, or refuse it for another reason. `misplaced` counts the nodes that
`waitList.erase()` was given from the other list (`waitlist.cpp:128`), which in
libstdc++ moves one from one `size()` to the other; sizes choose only timeouts.
`CleanupList` keeps the live entries by their ranks, and `Erased` and `Renewed`
act on the slot that was found, as the code's iterator does.

### 2.7 Trade

| model | code |
|---|---|
| `loc`, `place` | `Item::getParent`, a player's tile; tiles are numbers, their difference is the distance |
| `tradeState`, `tradePartner`, `tradeItem` | the fields of `Player` |
| `tradeItems` | `Game::tradeItems` |
| `PlayerRequestTrade` with `InternalStartTrade` | `playerRequestTrade`, `internalStartTrade`, `game.cpp:3938-4110` |
| `AcceptFirst`, `Exchange`, `ExchangeRefused` | the three outcomes of `playerAcceptTrade`, `game.cpp:4112-4225` |
| `PlayerCloseTrade`, `InternalCloseTrade` | `playerCloseTrade`, `internalCloseTrade` |
| `Login`, `Logout`, `Walk` | `Player::onRemoveCreature`, `Player::onCreatureMove` |
| `MoveItem`, `MergeItem` with `OnRemoved`, `OnAdded`, `OnUpdated` | a move by hand and the notifications that end in `Player::checkTradeState` |

The state `TRADE_TRANSFER` lasts only inside `playerAcceptTrade`, where it keeps
the exchange from closing its own trade. `PlacesFor`, `FreePlace` and `StacksFor`
are `Player::queryDestination`: a free slot or a bag of the player's that is not
his own offer, or a stack to join; `RoomInAll` is `Player::queryMaxCount`. The
test before the exchange allows joining. The moves ask for a place of its own
(`FLAG_IGNOREAUTOSTACK`), but `internalMoveItem` forgets the flag when the place is
a bag (`game.cpp:1175-1178`), and `Container::queryDestination` then joins a like
stack that lies there (`Alike`, `Onto`): the item is released, and its `pieces`, the
stacks that have gone into it, go with it. The first item may so join the second,
which is then weighed with it; of such a stack the second move takes the second
item's own count and leaves the rest. The player who was asked may accept before he
has offered anything, as the code lets him; the exchange then fails. Weight and
scripts are `ExchangeRefused`, possible at every second acceptance. `shown`
records what the offered item contained when it was offered. `Around` is what an
item is in, bag in bag up to an owner or a tile: the least set that holds the
item's holder and with a bag its holder, which is where the code's loop over
`getParent` goes.

Moves by hand go where they join nothing, or join by `MergeItem`. Counts do not
split: stacks are small enough to merge whole, so that `Join` is all or nothing.

### 2.8 Market

| model | code |
|---|---|
| `offers`, `lastId` | the table `market_offers` and its `AUTO_INCREMENT` |
| `gold`, `items` | bank balance; depot and inbox, by kind |
| `coins`, `coinBalance` | `accounts.coins` in the database; `Player::coinBalance` as last read |
| `queue`, `results` | `DatabaseTasks::tasks`, and the callbacks with their rows that wait in the dispatcher's list |
| `CreateSale`, `CreatePurchase` | `playerCreateMarketOffer` |
| `CancelOffer`, `AcceptOffer` | `playerCancelMarketOffer`, `playerAcceptMarketOffer` |
| `TransferCoins`, `UpdateCoinBalance` | `playerTransferCoins`, `updateCoinBalance` |
| `CheckExpiredOffers`, `RunTask`, `ProcessExpiredOffers` | `IOMarket::checkExpiredOffers`, the worker's execution of the next query, and its callback |
| `Expire` | thirty days pass for an offer |

A request changes the table at once, because it queries the database in the
dispatcher; the coins of an account (`account.cpp`) and the search for expired
offers wait in the worker's queue. The rows that `ProcessExpiredOffers` works on
are those of the moment the worker read them. An account is signed in the database
(`database/schema.sql:37` of the repository), and `IOAccount::getCoinBalance` reads it as a `uint32_t`
(`GetCoinBalance`, modulo `Words`). `Player::coinBalance`, to which creating an offer
and a transfer are held (`game.cpp:7460`, `7643`), is an `int32_t` (`player.h:1940`) and
gets the sign back (`AsInt32`); accepting an offer compares the unsigned value
(`game.cpp:7829`), so that an account below zero can sell. `upToDate` is a history
variable: the players whose balance was right when it was last read, and who have
not sold coins since. Market exhaustion only spaces
requests out and is left out. The definitions are named `MarketInit`,
`MarketNext` and so on so that a module can extend this one and `Database`.

### 2.9 Party

The variable `game` holds the raw pointers by which players and parties know
each other: `party` and `invitations` of a player (`Player::party`,
`invitePartyList`), `leader`, `memberList` and `inviteList` of a party. The
operations of `party.cpp` (`RemoveInvite`, `JoinParty`, `PassPartyLeadership`,
`LeaveParty`, `Disband`, ...) are functions from one state of the pointers to
the next, because they call each other; the handlers of `game.cpp` are the
actions. `RemoveFirst` is the `std::find` and `erase` of the code. `PartyId` are addresses: a party is created at any that holds none, as
an allocator may do. `channels` and `users` are `Chat::partyChannels`, which is
keyed by the same addresses. `Logout` is `onRemoveCreature`, and `Reconnect` a
client that takes over the character.

Two facts about the channel show in the model and are forbidden by nothing in
the code: a channel outlives its party (`chat.cpp:362`), and a player who leaves
the party stays among the channel's users (`party.cpp:118`), because his party
is cleared before the channel is looked up by it.

### 2.10 Database

| model | code |
|---|---|
| `durable`, `view`, `open` | external: what the server has committed, what the session sees, whether it has a transaction |
| `alive`, `believes` | external: the connection is up; the client library's flag that it is in a transaction |
| `owner`, `depth` | the recursive `Database::databaseLock` |
| `pc`, `statement`, `tries`, `succeeded` | where the dispatcher is in the save of a player or of the houses |
| `ExecuteQuery`, `QueryAnswered`, `QueryRefused`, `QueryAnswerLost`, `QueryReturns`, `Retried` | `Database::executeQuery`, its loop included |
| `BeginTransaction`, `Commit`, `Rollback` | the methods and `~DBTransaction`; the lock of the transaction is taken after `BEGIN` (`database.cpp:65`) |
| `TryAgain`, `Return` | the callers' loops around a save |
| `network`, `StoreQuery` ... `StoreReturns` | `Database::storeQuery` by the network thread, which shares `Database::getInstance()` |

A connection that is lost rolls back at the server. The loop in `executeQuery`
then executes the rest of the save *without* a transaction, and says nothing:
`excused` names the kinds a save of which this has happened to, or of which a
row was refused where nobody looks (`iomapserialize.cpp:344`). `begin()` sets
the state of the transaction before `BEGIN` is executed (`database.h:234`), so
that the destructor of a refused one unlocks a mutex it does not hold. That is
undefined for a `std::recursive_mutex`; the model takes it to do nothing.

### 2.11 Creatures

The variable `world` is a record of what the objects keep: position and place
on the map, `isInternalRemoved`, health that is zero (`dying`), the reference
count, the check lists with `creatureCheck`, `ToReleaseCreatures`, a monster's
target and friend lists, `attackedCreature`, master and summons. The operators
are the methods, as functions of the world, since they call each other; they tell
the spectators one after the other, in any order (`order`, `InTurn`). Where the
code comes back to itself, the model says what comes of it without recursion. A
reference given back may delete, and a destructor gives others back: `Deleted` is
the least set of creatures whose last references are among those given back and
those the set itself has. An attack is passed on to summons and theirs: `Told` is
the least set that is told. A summon's removal removes its own: `Removal` is a
function of how long a row of summons may still be, as long as there are
creatures. The actions are what comes from outside:
`Appear`, `Summon`, `Leave`, `Move`, `ChangeMaster`, `Attack`, `Damage`,
`OnFollowCreatureComplete` (a summon forgets a target it finds no way to), and
`CheckCreature` or `Die`, the visit of `checkCreatures` to one creature with the
`cleanup` that follows the pass. Rooms stand for positions: creatures in one
room see each other.

## 3. What the runs show

| run | distinct states | what it checks |
|---|---|---|
| `dispatcher` | 10 535 | `NoLostWakeup`; `EachTaskOnce`: an accepted task is in the list or in hand exactly once; `ClosingIsLast`: nothing is queued behind the task that ends the thread; `AcceptedTaskHandled` |
| `scheduler` | 152 703 | `NeverOversleeps`, `NeverEarly`, `StoppedNeverFires`, `DueEventFires`; `TimerServiceSpec`: the abstract timer service is implemented |
| `database_tasks` | 30 186 | `EachQueryOnce` by the worker and a flush; `OnlyInHandIsOvertaken`; `NothingLostAtShutdown`; `AcceptedIsExecuted` |
| `server_threads` | 294 718 | `ReturnedEventIsAlive`: `addEvent` called in the dispatcher never reads a deleted event; `NothingLeftBehind` by a shutdown; `SignalEndsTheGame` |
| `signal_ends_server` | | the one disagreement, below |
| `session` | 2 777 771 | `ClientsMatch`: two clients never both control one player; `NoDanglingPlayer`, `ReaderIsSafe`: no protocol, map, parser or queued packet points to a deleted `Player`; `LoginIsDecided`: no login is forgotten between its replacement of another and its `connect()`; `OnlyALateConnectLeaks` |
| `waitlist` | 36 338 | `EachOnce`: a player holds one place; `PlacesAheadAreKept`; `OrderIsKept` |
| `trade` | 187 872 | `PartnersAgree`; `NothingIsOfferedTwice`; `OfferIsWhatWasShown`; `ExchangeIsFair`: each gets every piece the other gave and nobody else gains or loses one, but for a second move that fails |
| `market` | 280 746 | `NothingIsMadeOrLost`, but for one case; `OnlyAStaleBalanceIsOverspent`, requests going on while an account is below zero; `ExpiredOffersLeave` |
| `party` | 150 083 | `MembershipAgrees`, `InvitationsAgree`: the pointers agree and none dangles; `NoPartyIsIdle` |
| `database` | 135 271 | `SavesAreAtomic`; `NoDirtyRead`; `CallsReturn` |
| `creatures` | 279 463 | `CountsAreExact`; `AttackedIsHere`; `NobodyIsForgotten`: no dead or hunting monster drops out of the check lists |

The type invariant of a module is a conjunct of one of its properties; those of
`Dispatcher` and `Scheduler` are proved (section 4).

`signal_ends_server` is expected to fail (`scheduler.cpp:132`,
`databasetasks.cpp:104`). `shutdown()` sets `threadState` and notifies once, and
`threadMain` tests the state outside the lock and waits without a predicate.
When the state is set and notified between the test and the wait, the thread
sleeps forever and `main` never comes back from its `join`. `signals.cpp:90`
says that SIGINT "Shuts the server down". `SignalEndsTheGame` holds: the
dispatcher, for which shutting down is a task of its own list, has no such
window.

Several properties name the one case in which the code does not do what one
would wish, and the run shows that there is no other:

* `OnlyALateConnectLeaks` (`protocolgame.cpp:223-226`). `connect()` takes an
  existing `Connection` object to mean that `release()` is still to come. It is
  not when `release()` ran while something still held the object: a handler on
  its way out, or a write in progress after the packet limit closed the
  connection without force. The player then keeps a client that is gone. No
  other order of logins, kicks, failures and releases does that.
* `ExchangeIsFair` (`game.cpp:4182`). The second move's result is not looked at.
  It fails when the item, a stack, passed the test by joining another although
  there is no place for it on its own; or when the first item, a stack on the
  ground, has joined the second in the receiver's bag, and the two together are
  too heavy for the other. The receiver of the first then has both.
* `NothingIsMadeOrLost` (`iomarket.cpp:200`). An offer accepted in part between
  the search for expired offers and its callback is given back with the amount
  of the search.
* `OnlyAStaleBalanceIsOverspent` (`account.cpp:46`, `60`). A sale or a transfer is
  held to the balance that was last read, and overspends when that was too old
  when it was read, or when coins were sold from it since, which does not lower
  it. Coins sold to a standing offer are held to the database's balance of that
  moment, which is too large while an update that takes some is queued, and, read
  without its sign, once the account is below zero. Transfers, refunds and what
  others do never make a right balance too large.
* `SavesAreAtomic` (`database.cpp:104`, `iomapserialize.cpp:344`). The kinds in
  `excused`, see 2.10.

Two facts are in the models and no property is about them:
`Scheduler::shutdown` deletes the timers that are not due, unfired
(`scheduler.cpp:124`, where a comment says that the list "should already be
empty"); and an abandoned place of the waiting list is dropped only at the very
second of its timeout, the difference at `waitlist.cpp:49` being unsigned.

### Bounds

* Dispatcher: two timers, so that they can overtake each other; one task that
  may expire and one that may not; three threads, so that two can be between
  their unlock and their notification. `dispatcherCycle` is bounded by the
  number of tasks.
* Scheduler: two events and two ids, with any start of the counter, so that the
  ids wrap; two delays and `MaxNow` 2, so that a later event can be due before
  an earlier one.
* DatabaseTasks: three queries, one with a callback: one in each hand and one in
  the list. Two callers.
* ServerThreads: one timer with a delay of one unit, all the time there is
  (`MaxNow` 1), one query with a callback, one request and two signals (one, and
  no delay, in `signal_ends_server`). Each component has been checked with
  more on its own; the composition is about the order of the shutdown.
* Session: two clients for one character, which is every race the code
  distinguishes (a third meets the player with or without a client, like the
  second). `MaxRef` 7 is far above the references there are and is reached only
  by the wrap below zero. A client has at most one packet queued that is not yet
  run (the action's comment names it).
* WaitList: three players and room for two, so that somebody waits behind
  somebody in each list; time in units of five seconds, the unit of all of
  `getTime`'s values; `left` stays at -1 once it has passed zero, and
  `misplaced` at `MaxMisplaced` 4, which is beyond the first step of the table.
* Trade: three players, the third to come between two; a bag of two places
  (`BagSize`, of each bag) and three stacks that can join: one to give, one to be
  given for it and one to meet on the way; one slot, so that places run out; tiles
  0, 2 and 3, so that a step can leave the range of an item (1), of a partner (2),
  or both. Bags in bags are left to the proofs.
* Market: two players; one has two items and a coin, the other three of gold; two
  offers, price 1 and fee 1, so that gold runs out and an offer of two can be
  accepted in part; `MaxSearches` 1 search is under way. Requests are made with
  fewer than `MaxQueue` 2 queries queued and while `Drift`, the coins overspent and
  those by which the players' `coinBalance` is wrong, is at most `MaxDrift` 1 in
  all. So coins are spent from a stale balance, before a queued query, and from an
  account that is at -1, is read as 63 and has nothing queued: each of these
  happens in the run. `Words` is 64, far beyond the coins there are, as 2^32 is.
* Party: four players (a leader, a member, an invitee and a second leader) and
  three addresses.
* Database: saves of two statements, so that one can be lost between them;
  two numbers of saves, to tell the latest from the one before; `MaxTries` 2 (3
  in the code: a third try starts where a second one does); two losses of the
  connection and one refusal.
* Creatures: a player and two monsters, each object created once; two rooms; an
  attack begins while nobody else on the map attacks (`MaxAttackers` 1: an
  attack is passed on to summons nevertheless).

The runs of `Session`, `WaitList`, `Trade`, `Party` and `Creatures` use
symmetry; none of them checks liveness, and no constant singles out a member of
the permuted sets. Deadlock is checked in `Trade`, `Market`, `Party` and
`Database`. The others really may stop: threads end, finite sets of tasks,
clients and creatures run out.

### Fairness

Liveness of the threads is claimed under weak fairness of each thread's own
steps (`ThreadMain`, `WorkerMain`), of the second half of a call that has begun
(`Notify`, `Continue`), and of time (`Tick`): the operating system schedules
every runnable thread, a lock that is released is obtained in the end (all
critical sections are finite), a task of the dispatcher returns, and the
database answers. Nothing is assumed of the environment: no task, signal, stop
or spurious wake-up is ever promised. A notified thread wakes (`WakeNotified`);
a wait with a deadline ends once it has passed.

`server_threads` assumes less, and so shows more: under `EndingFairness` only
the dispatcher runs, and whoever has queued a task gives its notification; the
scheduler, the worker, `main` and time may stop anywhere else, and a signal
still ends the dispatcher. `signal_ends_server` has the fairness of all threads
and of time.

In `Database` the two threads compete for one lock, which each leaves and takes
again; that a waiting thread gets it in the end is strong fairness of
`DispatcherCall` and `NetworkCall`. `Library` is weakly fair: a server that is
gone comes back. In `Market` the periodic check, the worker and the callback are
weakly fair, as the scheduler's and the worker's own runs show them to be; no
request of a player is.

## 4. What is proved

All theorems hold for every value of the constants that satisfies the modules'
named assumptions (`DispatcherAssumption`, `SchedulerAssumption`,
`DatabaseTasksAssumption`, `ServerThreadsAssumption` with
`ComponentsAssumption`, `DatabaseAssumption`, `SessionAssumption`,
`WaitListAssumption`, `TradeAssumption`, `PartyAssumption`,
`MarketAssumption`, `CreaturesAssumption`): any numbers of tasks, timers, ids,
queries, statements, losses, clients, players, items, bags, parties, offers,
monsters and rooms. `CreaturesAssumption` says besides that there are finitely many
players and monsters, that these are different things, and that `None` is neither a
creature nor a room; no theorem uses the bound on attackers. `MarketAssumption`
says besides that there are finitely many players, that what they begin with and
the fee are natural numbers and that prices and `Words` are positive. `TradeAssumption` says besides that there are finitely many items,
that stacks are not bags, that players, tiles and items are different things and
that slots and each bag's places are natural numbers. TLC evaluates the assumptions
in the runs.

`DispatcherProofs`:

* `TypeCorrect`, and with it the argument of the others.
* `NoWakeupIsLost`: `NoLostWakeup` is inductive together with `TypeOK`. The
  list becomes non-empty only through a push that adds its thread to
  `signalling` or through `Shutdown`, which notifies at once; and the thread
  goes to wait only on an empty list.
* `TasksAreKept`: `EachTaskOnce` is inductive. `PushOnce` and `PopOnce` are the
  lemmas on the list: a new task is none of those in it, and the popped one is
  not in the rest.
* `TimersStayFirst`: a push to the back is of no timer, one to the front of a timer.
* `ClosingStaysLast`: in the state `CLOSING` nothing is pushed but `Closing`,
  once; it needs `EachTaskOnce`.

`SchedulerProofs`:

* The invariant is `TypeOK`, `Placed` (an event is in the list, in hand or gone
  as its history says), `Punctual` (who is in `shutdown` has set the state; the
  deadline the thread waits for is that of a listed event or later; and the two
  properties) and `Bookkeeping` (the active ids are exactly those of the queued
  events that nobody stopped).
* `ThreadNeverOversleeps` and `EventsAreNeverEarly` follow from `Punctual`. The
  second needs `DeadlineIsListed`, for the thread pops whatever is first when
  the deadline has passed, not what was first when it went to sleep.
* `StoppingIsExact` and `ImplementsTimerService` need `[]IdsDistinct`: with two
  events of one id in use, stopping one stops the other. Every step of the
  scheduler is then a step of `TimerService` or none (`NextTimers`).
* `IdsStayDistinct` discharges that hypothesis when no more events are created
  than there are ids, wherever the counter starts: the ids in use are among the
  last ones given out (`Recent`, by `Age`), so that the next one, the oldest,
  is not in use. `FewEventsAreSafe` puts the three together.

`DatabaseTasksProofs`:

* The invariant is `TypeOK`, `Backlog` (the list is what is left of `accepted`
  after the first `Taken`) and `Hands` (what was taken is executed, once, or in
  one hand). `QueriesAreKept` follows, and `BacklogKeepsItsOrder`, since a query
  that was accepted earlier has been taken earlier.
* `ShutdownLosesNothing` needs `Drained` besides: once terminated, somebody
  flushes the list or it is empty, and a query is in the hand only of one who
  will execute it and post its callback.
* `NoWakeupIsLost`, as for the dispatcher; it is the same loop.

`ServerThreadsProofs`:

* `ThreadsAreUsedAsSpecified`: every behaviour of the server is one of the
  dispatcher's, of the scheduler's and of the worker's specification. Each of
  the server's steps is a step of a component or leaves it alone
  (`SchedulerStep`, `DatabaseStep`, `DispatcherStep`; the last needs the worker's
  types, to know that a finished query's callback is a task). So the
  components' theorems hold of the server (`ServerDispatcherIsSound`,
  `ServerSchedulerIsSound`, `ServerDatabaseIsSound`) and are used below.
* `ShutdownLeavesNothing` and `ReturnedEventsAreAlive` follow from `Facts`: what
  the components' theorems say (`Sound`), that the event `addEvent` works on is
  the caller's (`Events`), that a terminated worker's list is drained
  (`Backlog`), how far the three threads are told to end at each step of the
  shutdown (`Order`, `Ending`), and that the event of an `addEvent` in progress
  is not yet executed, because the dispatcher is itself in that call (`Handed`).
* `FewEventsAreAlive` discharges the hypothesis on the ids, as above.

`DatabaseProofs`: the invariant is `TypeOK`, `Locks` (who holds the lock, and
how often), `Visible` (what the session sees and has not committed belongs to
the transaction whose lock the dispatcher holds), `Written` (the transaction of
a save that is not excused has all the rows written so far, or is lost) and
`Whole`. `SavesStayAtomic` is the last one; `ReadsAreCommitted` follows from the
first two.

`DatabaseProofs`, of `Market`:

* `MarketTypesHold` states the invariant `MarketInv`: the types, and
  that the rows of a search not yet handled agree with the offers still there in
  all but amount and age (`RowsAgree`); a new offer's id is in no such row.
* `NothingIsMadeOrLostHolds`: the totals are the `Wealth` of gold and of each
  good, what is in the players' hands and in the offers, coins with the updates
  still queued (`TotalsAreWealth`). Each action but one changes it at one or two
  players and one offer, and the changes add up to the fee of a new offer or to
  nothing (`WealthMoves`, `StepBalanced`); the worker turns what is owed into what is
  there (`RunTaskSettles`). When a search is handled, every owner gets what his
  rows hold (`OwnersPaid`, `HandsGivenBack`), and since the rows agree with the
  offers that is what the offers held and what is given a second time
  (`ProcessBalanced`). Under these lie facts about sums over finite sets:
  `SumFunction` is defined by recursion, so that every function has a sum on a
  finite set, found element by element (`SomeSum`), and it does not depend on the
  order (`TheSum`); `SumByOwner` is the sum of sums.
* `OverspendingIsStale`, from `BalancesHold`: a balance that is up to date is no
  more than what is settled. What a step takes of a player's coins and how far his
  balance follows is `CoinsStep`, one case for each action: a refund, a transfer to
  him and a sale to him add to what is settled, a transfer by him takes as much of
  the balance, the worker changes neither, and reading the balance makes it up to
  date only when it is what is settled. So a sale or transfer by a player who is up to
  date takes no more than he has; and coins sold to a purchase take at most what
  the database says (`BalanceRead`), so to end below zero that was negative or
  more than what is settled (`OverspentStep`).

`SessionProofs`:

* `OneClientControls`, `PlayersAreNotDangling` and `ReadersAreSafe` come from
  one invariant. A client enters once: its login task, the timer of its
  `connect()` and the task of that are never there twice, nor after it was let
  in (`Queue`, `Entrances`). So protocols and players point to each other in
  pairs (`Pairs`), and the counts count those and the game's reference
  (`Counts`). A release comes after the packets of its client (`Queue`), so that
  no packet follows a pointer that was let go.
* `EveryLoginIsDecided`: a client that is neither let in nor disconnected is
  named by a timer or by a task of the list, which only its own execution takes
  away.

* `OnlyLateConnectsLeak`: the task of a login comes before its client's release,
  and a connection that closes leaves a release in the list (`Orderly`), which
  only its own execution takes away. So a player that is given a closed client
  has its release to come (`ClosedAreReleased`), unless it was `connect()` that
  gave it: the one task that is queued by a timer and not by its connection.
* `NobodyHoldsTwoPlaces`, `TheOrderIsKept` and `PlacesAreKept`, of `WaitList`. A
  list is thought of as an order of players (`Ahead`), and no player is ahead of
  himself (`Distinct`). Whatever is done to one of the two lists puts nobody
  ahead of somebody it was not ahead of (`KeepsOrder`), the same holds then of
  both in a row (`TwoKeepOrder`), and one who joins was in neither. That the
  cleaned lists hold just the live entries in their order is
  `PlacesOfTheLive`: ranks grow with places, and by counting every place of the
  cleaned list is some entry's rank. `PlacesAreKept` counts with it: the live
  entries before a client have the places before the one it was found at.

`TradeProofs`:

* `TradesHaveTwoSides` is inductive. `ClosingKeepsPairs` is the lemma under all
  its steps: to close the trades of a set of players and of their partners leaves
  the others in pairs. `OffersStayRegistered` is the first conjunct of
  `NothingIsOfferedTwice`, from the same.
* `OffersStayAsShown` and `NothingIsEverOfferedTwice` come from the invariant
  `Offers`: every item has one end, an owner or a tile (`OneEnd`; there is no bag
  in itself, `NoCycle`), an offered item ends with the player who offers it or on
  the ground by his side, no offer is inside another, and what is in an offer is
  what was shown. The work is in the moves. Moving an item out of an offered bag
  passes a holder that is offered, and moving one in ends at one: both are
  noticed (`RemovalIsNoticed`, `AdditionIsNoticed`), at any depth, and close the
  trade; a move that is not noticed leaves every other offer's contents and end
  (`NoticedMoveKeepsOffers`). The exchange is one such move or two, of items that are
  apart (`ExchangeInMoves`, `FirstMove`, `SecondMove`, `ExchangeKeepsOffers`); an item
  that joins a stack has moved to it, and its bag's watchers are told of that
  (`MoveIsTold`).
* `ExchangesAreFair` counts pieces, and needs besides that no piece is in two
  stacks (`PiecesStayApart`). What a player has after a move is what he had before,
  with or without the moved load (`LoadAfterMove`); after a joining, what the stack
  had and the item's pieces (`LoadAfterJoin`). So the first move gives the receiver
  what was offered, no more (`FirstIsGiven`), and the second takes what was wanted
  and nothing of the first (`SecondIsTaken`), even when that has joined it, or
  nothing (`SecondIsWhole`). That the second move finds a place, but for the
  exception, is `NoPlaceBefore`: the place the first item leaves is not taken by it,
  and a bag that was not full before is not filled by it unless it left as much
  room (`RoomByOthersMove`, `RoomOfTheMoved`).

`GameProofs`, of `Party`: `MembershipsAgree`, `InvitationsStayAgreed` and `NoPartyStaysIdle`
come from `PartiesAreSound`, which holds before and after every action: players
and parties point to each other and a leader is no member (`Linked`),
invitations are known to both sides and come from parties there are
(`Invited`), who holds one is in no party with members, nor in the one that
invites him (`Courted`), a party has somebody besides its leader or invites
somebody (`Lasts`), and only who is in the game has any of it (`AllAreHere`). In the
middle of an operation it does not hold. What the operations of `party.cpp` do
to each other is therefore stated of each alone: revoking invitations may disband
parties whose leader is alone and changes no other (`Trimmed`), nobody gains
anything by somebody else's departure (`NoneGained`), and joining revokes the
invitations before the party is entered.

`GameProofs`, of `Creatures`: `CountsAreAlwaysExact`, `AttackedIsAlwaysHere` and
`NobodyIsEverForgotten` are read from one invariant, `CreaturesAreSound`
(`CreaturesAreAlwaysSound`). It says that every count is the number of pointers
that count (`Counts`), that masters and summons point to each other (`Serve`), that
who is deleted was removed, has no count and knows nobody (`Lives`), that the flag
`creatureCheck` is only on who is listed, that a dying or hunting monster has it
(`Watching`), that attacks are within sight (`Attacks`) and that only monsters have
a master (`Tame`).

* In the middle of an operation it does not hold: references are cut and not yet
  given back, a creature is off the map and not yet removed, a monster has
  learned or lost a target and not yet acted on it. `Sound(w, back, x)` and
  `Watching(w, m)` are the invariant with these three exceptions, and the lemma of
  each method (`ClearListsGood`, `OnCreatureFoundGood`, `SetMasterGood`,
  `RemoveAloneGood`, ...) says which of them it may start with and which it ends
  with.
* What a method may do to all the others meanwhile is `Calmer(w, v)`: creatures are
  at most removed, and with one all attacks on it within its sight; nobody attacks
  or serves anew. It holds from the first to the last of several calls
  (`CalmerTwice`), so that what one spectator makes of an event spoils nothing for
  the next (`InTurnKeeps`), and each of them has acted in the end
  (`InTurnReaches`, since an order reaches every spectator: `OrdersReachAll`).
* A deletion takes just those it leaves without a reference (`DeletedIs`, by
  the least set), and the counts of the others lose what those had of them
  (`PointersChange`), so that the counts are exact again (`GiveBackSound`).
* `RemoveCreatureGood` goes by the length of the row of summons still to remove.
  The functions that are defined by recursion, `InTurn` and `Removal`, are shown to
  exist step by step (`TurnsExist`, `RemovalsExist`).

Only model-checked is everything under fairness (`AcceptedTaskHandled`,
`DueEventFires`, `AcceptedIsExecuted`, `SignalEndsTheGame`, `ExpiredOffersLeave`,
`CallsReturn`), which is out of the prover's reach. Every other property that a
passing run checks is stated by a theorem.

## 5. The plan

Done, in this order: the threads and their composition, `Session`, `WaitList`,
`Trade`, `Market`, `Party`, `Database`, `Creatures`, and the proofs of section
4. What remains, the most important first:

1. `AutoSend` (`outputmessage.*`): one chain of `sendAll` timers while protocols
   are registered, none otherwise; and a protocol's buffered output against its
   release.
2. `Services` (`server.*`): acceptors, `running`, and the time-outs of players
   (`isConnecting`, pings); start-up (`mainLoader`) as another composition.
3. Decay: the buckets and their rounding, items that are removed or transformed
   while in one, as a part of `Creatures`' clock.
4. Spawns and raids, clients of the scheduler whose events are stopped and
   restarted; the reference a spawn takes of its monsters.
5. Containers and the movement of stacks that split, to widen what `Trade` says
   of moves; houses and beds.
6. The game states beyond shutdown (`GAME_STATE_MAINTAIN` in `saveGameState`),
   which need the scripts that set them.

## 6. What is not modelled, and why

`PROJECT.json` lists every part with its status. Much of the source is data
rather than control and will stay out: the binding of the scripting language,
the generated protobuf code, message formats and encryption, tables and
settings, persistence row by row; and so will the map, path finding and combat
formulas (geometry and arithmetic over large domains, sequential). The models
cover the parts of the rest in which the order of steps matters, which is a
small share of the lines.

Left out of what is modelled:

* The calls of `addEvent` from the network thread (`server.cpp:129`,
  `protocolreplay.cpp:69`): `ReturnedEventIsAlive` speaks of the dispatcher's
  calls only, and for a network thread's nothing would keep the event alive
  between the unlock and the read of its id.
* Scripts that veto what is under way. Where the code would go on with what it
  has just undone this hides a fault: `Game.createMonster` deletes a monster
  that a script refuses although it is placed (`luascript.cpp:4975`), and a
  spawn keeps the reference to one it removed (`spawn.cpp:326`). Both are in the
  list of hazards.
* Start-up and the other game states. `main` waits for the loader on a condition
  variable without a predicate (`otserv.cpp:95`), and `saveGameState` returns
  from `GAME_STATE_MAINTAIN` to the normal state whatever was set in between
  (`game.cpp:233`); what sets it is a script.
* The ping time-out, which `isConnecting` holds up when `connect()` returned
  early (`protocolgame.cpp:203`); `Kick` may come at any time instead.
* The decay of items, with the rounding of its buckets (`game.cpp:6635`).
* Crashes of the process: a market offer is in the database at once, what it
  was paid with only when the player is saved (`game.cpp:7683`); nothing in the
  code relates the two.
