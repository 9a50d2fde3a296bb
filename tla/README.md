# A TLA+ verification of InfinityCore

InfinityCore (a fork of OregonCore, itself of MaNGOS and TrinityCore) is the server of an online
role-playing game.  It consists of two programs: `authserver`, which logs accounts in and lists
the realms, and `worldserver`, which runs one world.  This directory specifies the concurrent core
of `worldserver` in TLA+, and those parts of the game that keep a protocol of their own; it checks them
with TLC, and proves theorems about them with TLAPS.

Paths below are relative to the repository; `game/` stands for `src/server/game/`.
Every module says in its opening comment what it models and what it leaves out; `PROJECT.json`
maps its definitions to lines of the source.


## 1. The system

### Threads

| thread | runs | touches |
|---|---|---|
| main | `Master::MainLoop` -> `World::Update` | sessions, queue, maps, results of the database |
| acceptor | `WorldSocketMgr`'s reactor 0 -> `WorldSocket::open` | new sockets |
| network, `Network.Threads` of them | `ReactorRunnable::svc`, the `handle_*` upcalls | sockets, makes sessions |
| map workers, `MapUpdate.Threads` of them | `DelayExecutor::svc` -> `Map::Update` | one map each, instances |
| delay thread, one per database | `SqlDelayThread::run` | the connection to MySQL |
| console, RA | text commands, queued for the main thread | |

They meet in: the reference-counted `WorldSocket` and its two mutexes; `World::addSessQueue`
(a `LockedQueue`); `WorldSession::_recvQueue`; the counter, mutex and condition of `MapUpdater`;
the queue and the two mutexes of `Database`; and the `SqlResultQueue`, through which answers of the
database come back to the main thread.

### Components

State, operations and neighbours of each component, what is hard about it, and what makes it
correct.  **M** marks those with a module; the rest is the plan or left out (section 5).

* **World: sessions and login queue (M)**, `game/World/World.cpp`, `game/Server/WorldSession.cpp`,
  `game/Handlers/CharacterHandler.cpp`.  State: `m_sessions`, `addSessQueue`, `m_QueuedPlayer`,
  `m_disconnects`, `m_playerLimit`, and per session `m_inQueue`, `m_playerLoading`, `_player`.
  Operations: `AddSession_`, `RemoveSession`, `RemoveQueuedPlayer`, `WorldSession::Update`, login
  and logout of a character, kicks, reload of the configuration, shutdown.
  Hard: raw pointers in three containers, answers to logins that come after their session has gone,
  counts that do or do not contain the session that leaves.
  Correct when no pointer dangles, the limit is kept, nobody waits without reason, positions are
  right, and no account is locked out without reason.
* **World socket (M)**, `game/Server/WorldSocket.cpp`, `WorldSocketMgr.cpp`.  State: `closing_`,
  `m_Session`, the reference count, the reactor's registration and masks, `m_OutBuffer`,
  `m_PacketQueue`.  Hard: three threads, four holders of a reference, two objects that point at
  each other, a destructor on one thread and upcalls on another; a full buffer.
  Correct when nothing is used after it was freed, all is freed, and all that was sent arrives.
* **Map update thread pool (M)**, `game/Maps/MapUpdater.cpp`, `MapManager.cpp`, `MapInstanced.cpp`,
  `src/server/shared/DelayExecutor.cpp`.  State: `pending_requests`, the executor's queue and threads.
  Hard: workers schedule more work while the main thread waits for the count to fall to zero.
  Correct when the main thread is alone outside the update and no map is in two threads.
* **Database and delay thread (M)**, `src/server/database/Database/`.  State: the transactions
  under construction, the delay queue, autocommit.  Hard: two mutexes, a bounded queue waited for
  with one of them held, errors in the middle of a transaction, crash, orderly end.
  Correct when transactions are atomic, order is kept, reads see earlier writes, nothing is lost.
* **Event processor**, `src/framework/Utilities/EventProcessor.cpp`: timed events that add, abort and
  delete events while they run.  Correct when each event is executed or aborted once and freed.
* **Auction house (M)**, `game/AuctionHouse/`, `game/Handlers/AuctionHouseHandler.cpp`.  State: `AuctionsMap` and
  `mAitems`, and the table `auctionhouse`.  Operations: sale, bid, buyout, cancellation, `Update`.  Hard: each moves gold and
  items between characters, auctions and mails, in memory at once and in the database by several delayed transactions.
  Correct when both are conserved, also across a crash.
* **Mail (M)**, `game/Mails/`.  State: the mails a character has loaded, and the table `mail`.  Operations: send, take items or
  money, delete, return.  Hard and correct as for the auction house.
* **Trade (M)**, `game/Handlers/TradeHandler.cpp`.  State: of each of two players the offer, the flag of acceptance, and the
  other.  Operations: begin, set and clear items and gold, accept, unaccept, cancel; a logout cancels.  Hard: nothing that is offered
  is reserved, and the two act in any order.  Correct when what is exchanged is what both accepted.
* **Groups and loot rolls (M, as far as they move binds)**, `game/Groups/`, `game/Loot/`.  Correct when there is one leader, a roll ends
  once, and a player is in one group at most.
* **Guilds**, `game/Guilds/`: ranks, and a bank with daily limits.
* **Battleground queue (M)**, `game/Battlegrounds/`.  State: the queued groups, what each is invited by, the battlegrounds with their
  counts of invited, `BGFreeSlotQueue`, the slots of a player and the removal events on him.  Operations: join, update
  (selection, creation, invitation), enter, leave, removal by an event, logout, start, end, deletion.  Hard: the place of an invitee is
  counted from the invitation until he leaves, by whichever of eight ways.  Correct when the counts are exact, no team is over its
  size, and an invitation ends.
* **Arena teams**, `game/Battlegrounds/ArenaTeam.cpp`: ratings and membership.
* **Instance saves and resets (M)**, `game/Instances/InstanceSaveMgr.cpp`, `Group.cpp`, `Player.cpp`, `Map.cpp`.  State: the binds of characters
  and groups in memory and in two tables, the saves with their lists of who is bound, the copies of the dungeon with who is inside, and
  a queue of resets.  Operations: enter, leave, form and end groups, change the leader, kill a boss, reset, unload, login and logout.  Hard:
  binds and saves point at each other, a save deletes itself with its last bind, and each of those operations moves binds by statements
  of its own.  Correct when a save lives as long as something is bound to it, and a bind for good is respected.
* **Pools, game events, weather, grid states**: spawning under limits, timers, and the loading of grids.
* **Threat, hostile references, motion master**: double-ended links and stacks that are changed
  by the callbacks of their own update.
* **Shutdown timer**, `World::ShutdownServ` and neighbours.
* **Authentication server**, `src/server/authserver/AuthSocket.cpp`: the order of the logon commands.
* **Chat channels, tickets, console and RA.**
* **Entities, spells, AI, scripts, collision, cryptography, tools, `dep/`.**


## 2. The modules

Names follow the source.  Properties stand at the end of each module, and an operator that is
introduced as a *mutant* is a plausible mistake in the definition after it: with the mistake, TLC
finds the property that is about it violated.

### WorldSessions (MCWorldSessions)

A `WorldSession` is an address that holds a record or `NULL`, so a dangling pointer can be seen.

* `phase` is the place of the main thread in `World::Update`: `accept` (first loop of
  `UpdateSessions`), `update` (second loop), `results` (`UpdateResultQueue`), `cli`
  (`ProcessCliCommands`), `kickall` and `stopped` (`Master::Run` after the main loop).
* `AddSession_` is `RejectSession` or `ListSession`, by whether the listed session of the account is
  loading a character.  `RemoveQueuedPlayer` is the pair `QueueAfter`, `HeapAfter`; both places
  that call it use the pair.
* `BeginUpdate`, `HandlePlayerLoginOpcode`, `LogoutPlayer`, `EndUpdate` are one
  `WorldSession::Update` with its packets, `cur` being the session.  A login packet may be too short: the exception leaves the handler
  after it has set `m_playerLoading`, and is caught in `Update` (`unread`, section 6).
* `HandlePlayerLoginCallback` takes whatever session the account has at that moment, as the code does.
* `AuthSession` and `SocketClosed` are the network threads; they may act between any two steps of
  the main thread.

Properties: `TableSound` (objects and pointers correspond), `QueueSound`, `PositionsTold`, `WorkConserving`,
`Capacity`, `FirstComeFirstServed`, and `LoadingHasReason`: `m_playerLoading`, for which `RemoveSession` turns away every new
connection of the account, stays set only for a login that is under way, on a session that was kicked and goes with the next `Update`, or
after a packet that could not be read.  `TableSound` says too that no session holds a character when the program has stopped.
`WorkConserving` counts as the code does; `WorkConservingAsDocumented` counts as the configuration file says, and is violated (section 6).

### SocketLifetime

One connection, with program counters `acc` (acceptor), `net` (its network thread), `world` (main
thread).  A step ends where another thread can interfere.  `refs` is the ACE reference count, and the
holders are the acceptor, `m_NewSockets`, `m_Sockets`, the reactor and each session.  `CloseSocket`
is two steps, `closing_` and then `m_Session` under `m_SessionLock`, and returns to the caller noted
in `ret`.

Properties: `RefsAccounted` (the count is the number of holders), `NothingDangles` (no thread uses the socket, its session or its
buffer when it is not there, the catch block of `ProcessIncoming` excepted, which takes no lock: `CatchUse`, section 6), and `ClosedIsFreed` (liveness).

### SocketOutput

The output buffer in units; a packet is a run of units with its number.  `SendPacket` is the
producer; `handle_output` is split into what the kernel may take of the buffer: `NothingToSend`,
`WouldBlock`, `SendPart`, `SendAll`.  `TellReactor` is the `cancel_wakeup` or `schedule_wakeup` call
that comes after the lock was released, so that a `SendPacket` may come between.

Properties: `NotStranded`, `AllAccountedFor`, `OvertakesDelayedOnly`, `AllSent` (liveness).

### MapTick and MapUpdater (MCMapUpdater)

`MapTick` is the abstract specification: what one `MapManager::Update` promises, however many threads
share the work.  `MapUpdater` is the code: the main thread (`main`, `toSchedule`), the counter, the
bounded queue, and workers (`step`, `job`, `todo`).  `schedule_update` is used by the main thread
(`Schedule`) and by a worker that visits the instances of a `MapInstanced` (`Visit`).  `Wait` is the
test in the loop of `MapUpdater::wait`; `update_finished` wakes the main thread and decreases the
count.  Initially the pool is activated or not, as `MapUpdate.Threads` says; without it
`UpdateInline` does the work.

Refinement: `exists` is `alive`, `ticking` is `main \in {"schedule", "check", "blocked"}`, and the
history variables `updated` and `skipped` are the same on both sides (`ImplementsMapTick`).

Properties: `PendingExact`, `MainAlone`, `NoTwoUpdates`, `NoDeadMap`, `ImplementsMapTick`, and `MainGoesOn` (liveness: every tick
ends, and the pool is joined).

### SqlDelay

A statement is its number in the order of the calls.  `Execute`, `BeginTransaction`, `CommitTransaction`,
`RollbackTransaction`, `DirectExecute` and `AsyncQuery` are the calls of the program.  `nMutex` and `waiting`
show a thread that waits in `Delay` for room.  `TestRunning`, `Dequeue`, `ExecuteStatement`, `ExecuteQuery`,
`StartTransaction`, `TransactionStatement` and `Commit` are the delay thread.  A query keeps the set of statements that the main
thread had delayed before it, and its result what had been executed by then.  The MySQL server is external and
is modelled by what the program can see of it: autocommit, what is staged, what is durable.  The connection may be lost at any moment
(`ConnectionLost`); the client library opens another one, in autocommit mode, as `MYSQL_OPT_RECONNECT` is set, and what was staged is in
`lost`.  So a failing statement may have been executed or not, and may have taken the connection with it (`TryStatement`); ROLLBACK and
`SET autocommit = 1` are taken to fail for no other reason.  A statement whose answer is lost counts as executed.

Properties: `ReadsOwnWrites`, `Atomic`, `InOrder`, `NoneMissed` (violated: section 6), `NoneMissedButLost`, which is what is left
of it (all is durable at the end but what went with a connection while autocommit was off, and nothing is staged while it is on), and
`CallsReturn` (liveness).

### CharacterDB, Trade, Mail, Auction and Economy (MCEconomy)

`CharacterDB` is what the other three share: gold and inventories of the characters in the world, the tables
of the database as records of functions (`db`), and the delayed transactions (`queue`), each a partial update of some tables
that `Commit` applies; `Committed[n]` is the database after `n` more of them, `Drained` after all.  A handler runs on the main thread and is one action; the transactions it delays are in the
order of the code, and one that the code does not put between `BeginTransaction` and `CommitTransaction` is a transaction by
itself.  A crash loses the queue and the memory, so what a crash leaves is `db`: properties about crashes speak of `db`, the others of
`Drained`, what `db` becomes when all is committed.

* `Trade`: one action per opcode.  `SendUpdateTrade` is what the session does that shows an offer: both flags are reset, and the
  client sees the items that are in the inventory at that time.  `shown` and `agreed` are history: what the client saw last, and
  what that was when he accepted.  `HandleAcceptTrade` has the code's tests for gold and room, and `Exchange`.
* `Mail`: `HandleSendMail`, `HandleMarkAsRead`, `HandleTakeItem`, `HandleTakeMoney`, `HandleMailDelete`, `HandleReturnToSender`,
  `HandleGetMail`.  The item that `HandleTakeItem` takes is looked for in all mails of the character, whichever is named: one that is
  taken by the name of another mail is `astray` from then on (sections 5 and 6).  `Required` is the sum of postage and gold as the `uint32` of the code, which
  wraps at `Wrap`.  `MailDraft` is `InsertMail` in the database and `SendMailTo` in the mailbox of a receiver who is online.
* `Auction`: `HandleAuctionSellItem`, `PlaceBid`, `Buyout`, `HandleAuctionRemoveItem`, `Update`; the mails of each are sequences in
  the order of the code.
* `Economy` composes them and adds `LoadFromDB` and `LogoutPlayer`.

Properties: `TradersPaired`, `AcceptedAsShown`, `SavedAsMade` (what a handler changed it also saves), `GoldConserved`, `ItemInOnePlace`,
`CrashLosesNothing`.

### BattlegroundQueue (MCBattlegroundQueue)

The queue of one type and range of levels.  `sameType` says whether the number of the queue is that of its battlegrounds' type, as it is
for all but the Eye of the Storm: two callers of `Update` pass the one where the other is expected, and then it does nothing
(`WithdrawInvited`).  `groups` is `m_QueuedGroups` (players, team, `IsInvitedToBGInstanceGUID`), `bgs` the battlegrounds
with `invited`, `players` and `deleteThis`, `slot` and `bgId` what a `Player` keeps, `events` the `BGQueueRemoveEvent`s on his own
list.  The functions of `BattlegroundQueue` call each other in the middle (`RemovePlayer` decreases the count, which may mark
the battleground, and `Update` follows): they are operators from a state of the queue to the next (`Queue`, `Becomes`), and the
handlers are actions that apply them in the order of the code.

Properties: `InvitedExact` (and a battleground with nobody is marked to be deleted), `TeamLimit`, `SlotsAgree`, `InvitationEnds`, and the
action properties `FairTeams` and `StaysQueued`.

### InstanceSaves (MCInstanceSaves)

The copies of one dungeon, all at one difficulty, which `heroic` chooses.  A bind is a record of an instance and `perm`; `bind` is what a
`Player` has for this dungeon, `gbind` what a `Group` has, `saves` the `InstanceSave`s with their two lists, `char`, `grp` and `inst` the
three tables.  `maps` are the copies that are loaded, `at` says whom `m_mapRefManager` of which of them lists, `expiring` those whose
`m_unloadTimer` runs, and `valid` is `m_InstanceValid`.  A far teleport is two handlers, as in the code: `TeleportIn` and `TeleportOut`
leave the old map, `WorldportIn` and `WorldportOut` arrive, and in between groups may change, bosses die and copies be reset.

The functions of the code call each other across four classes, so they are operators from a state of the dungeon to the next, with
the names of the code: `BindPlayer`, `BindGroup`, `ConvertInstancesToGroup`, `SetLeader`, `Disband`, `ResetGroup`, `ResetSave`,
`AddPlayerToMap`, `CreateInstanceForPlayer`.  Those that write to the database do to `char` and `grp` what their statements do to the
tables, a key that is there already included: `Written` (INSERT or UPDATE, with or without effect), `Copied` (INSERT ... SELECT, all
or nothing), and `SetLeader`, one transaction that a failure undoes.

Properties: `SavesSound` (binds, saves and their lists correspond, nothing dangles or is left behind, who is inside is in a map that
is loaded), `BoundForGoodSound` (who is bound for good is in no other copy, and his copy is not reset by players), and the action property
`BindForGoodKept` (only the reset of the dungeon takes a bind for good).

### How the modules meet

What one assumes of another is what the other shows:

* `WorldSessions` takes `SocketClosed` and the later disappearance of the socket as given, which is `ClosedIsFreed` of
  `SocketLifetime` (there the session is the object of the environment).  Its `results` phase takes answers one by one and in order,
  which is the queue of `SqlDelay`.
* `WorldSessions`, `Economy`, `BattlegroundQueue` and `InstanceSaves` have the maps for themselves in the main thread because of
  `MainAlone`.  A copy that is unloaded in `InstanceSaves` is an instance destroyed by a worker in `MapUpdater`.
* The transactions of `CharacterDB` are committed whole and in the order of the calls: `Atomic` and `InOrder` of `SqlDelay`.
  `LoadFromDB` of `Economy` waits for what the character's last session has written: `ReadsOwnWrites`.  For the same reason the
  tables of `InstanceSaves` are what they become when all is executed.
* Login and logout of `Economy`, `BattlegroundQueue` and `InstanceSaves` are the logins and logouts of `WorldSessions`, with accounts of one character.


## 3. The runs

| run | instance | states | shows |
|---|---|---|---|
| `sessions` | 3 accounts, one of a game master, 3 addresses, limit 1, tolerance on, one login under way | 4.2 M | the table, the queue, the flags and the shutdown together, with people leaving, coming back, replacing their own sessions and logging characters in |
| `socket_lifetime` | one socket, up to 3 sessions | 10 k | memory safety of the socket and its sessions in every interleaving, and that what is closed is freed |
| `socket_output` | a buffer of 3 units, packets of 1 to 3, 4 packets | 19 k | nothing lost, doubled, stranded or reordered without reason |
| `map_update` | 2 workers or none, 2 maps, 2 instances of one, queue of 2 | 3 k | mutual exclusion, the exact count, the refinement of `MapTick`, no hang |
| `sql_delay` | 2 threads, 3 statements or queries under way, queue of 2, failures of every statement and loss of the connection | 1.6 M | atomicity and order with failures and a crash anywhere, reads after writes, no deadlock on a full queue, orderly end |
| `economy` | 3 characters, 2 of them online, 2 items, room for 1, 3 mails, 1 auction, 5 handlers | 1.8 M | conservation in memory, in the database and across crashes; trades execute what was accepted |
| `battleground` | teams of 3 and 2, who come alone or (2 of them) as a group, 1 to 2 players per team, 6 handlers, both values of `sameType` | 846 k | exact counts, sizes of teams, one place per player, invitations that end |
| `instances` | 4 players, 2 groups, 2 copies, 8 handlers | 295 k | binds and saves stay consistent through groups, bosses, resets, logins; binds for good are kept |
| `sessions_v_limit`, `sql_v_missed`, `auction_v_winner`, `battleground_v_deleted` | small | | the findings of section 6 |

Why the bounds are enough to see the interesting cases:

* Three addresses for three accounts: all three may be listed, or two while one of them is replaced, or rejected, by a newcomer of its own
  account.  Limit 1 with three accounts makes two wait, so that positions, order and an admission out of the middle occur.
  The limit is not reloaded in this run: a reload, also to -1, which the code casts to `uint32`, is a matter of the theorems,
  which are for any set of limits (`TableIsSound`, `QueueIsSound`, `PositionsAreTold`; `Capacity` and `WorkConserving` say nothing of a
  limit that changes).
* `MaxSessions = 3` is above the two sessions a socket can really make, so it bounds nothing.
* Packets of 1, 2 and 3 units in a buffer of 3 give every kind of fit; 4 packets give a queue that is longer
  than what one refill moves.
* A queue of 2 in front of 2 workers, with 4 maps, runs full both from the main thread and from a
  worker.
* With 3 statements one transaction of two and a statement of another thread, or the other way
  round, are interleaved.  A queue of 2 is full while a third item waits, and leaves room for a query behind a statement.
* `economy`: two traders and a third who may be offline and own the mail or the auction; a trade that is executed takes five
  handlers (initiate, an offer, a change, two acceptances), as does a sale with a bid, an end, and two mails that are taken.  `Wrap` is 4: the gold
  of a mail with its postage stays below it, two of them do not.  A new
  handler waits until at most one transaction is left, which lets a handler of several transactions be cut by a crash
  anywhere, and lets two handlers overlap.  A bag of one makes "no room" frequent.
* `battleground`: with six handlers two battlegrounds are opened, a group is too large for a place that is left, and invitees answer,
  stay silent or come back.  What the server does by itself is not bounded.
* `instances`: a bind of a group is made by four handlers (invitation accepted, teleport, arrival, boss), which leaves four for what goes
  wrong with it: a leader change, a log out and in again, a second group founded by a member, a teleport into the other copy.  Four
  players are two full groups, or a group and one who is outside it; two copies are the one he is bound to and another.  Nine handlers
  (807 k states) show nothing else.  Resets and unloading are not bounded.

Deadlock is checked everywhere except in `socket_output`, where a connection that is closed has no
more steps, and in `economy`, `battleground` and `instances`, where the clients' handlers are bounded.  Elsewhere the end of the program is a
step of its own (`Stopped`, `Over`), and the loop of the network thread goes round.  `SYMMETRY` is used in `sessions`, over
addresses and over accounts of equal rank, and in `economy`, over characters and items, and in `instances`, over characters and over groups; these runs have no liveness property.

### Fairness

* `SocketLifetime`: every thread goes on.  The peer of a half-closed connection is assumed to close its side
  (or the kernel to give up on it), as the reactor notices only then.
* `SocketOutput`: the network thread goes on, and the kernel takes the whole buffer time and again: the peer reads.
* `MapUpdater`: threads go on, and `Map::Update` ends.  Nothing is assumed of map creation or of shutdown.
* `SqlDelay`: threads go on and the server answers.  A thread that waits for room gets it when room is there time and
  again (strong fairness): only `AsyncQuery`, of which few are under way at once, can take it first.
* `WorldSessions`, `Economy`, `BattlegroundQueue` and `InstanceSaves` state no fairness: there is no clock, and nothing obliges a player to answer.  That the place of an
  invitee is not held for ever is the invariant `InvitationEnds`: an event on him will end the invitation.

TLC checks these; fairness is never part of a safety argument.


## 4. The proofs

One module proves all the safety properties of `MapUpdater`, for any set of maps and instances, any finite
number of workers and any size of the queue.  The others prove every invariant that the runs check of `SocketLifetime`, for any number of
sessions that one socket makes, of `SocketOutput`, for any buffer, any sizes and number of packets, of `SqlDelay`, for any threads, number of statements and size of the delay queue, and of
`WorldSessions`, for any finite sets of accounts and sessions and any limits, with its action property; of `Economy`, for any finite sets of
characters, items and ids of mails and auctions, any slots, prices and amounts, any length of the queue and any number of
handlers; of `BattlegroundQueue`, with its action properties, for any finite set of players, any groups, any sizes of teams and any
number of handlers; and of `InstanceSaves`, with its action property, for any finite set of characters, any groups, and any number of copies and
handlers.  No theorem assumes fairness.

Each proof assumes what the modules assume of their constants, and nothing else: for `MapUpdater`, a map is a base
map or an instance and not both, each instance has a base map as its parent, there are finitely many
workers, the size of the queue is a natural number, and `NULL` is no map; for `SocketLifetime`, the number of sessions is a natural
number; for `SocketOutput`, capacity and sizes are positive numbers (`NobodyIsStranded` has the hypothesis that no size exceeds
the capacity: with a larger packet the property is false, see `hazards`); for `SqlDelay`, the main thread is a thread, the bounds are numbers, there is room for one item at least, and `NULL` is neither a
thread nor something that a pointer points to; for `WorldSessions`, accounts and sessions are finitely many, limits are integers,
and `NULL` is neither an account, an address nor a session object; for `Economy`, the sets are finite where they are counted, ids are numbers, `NULL` is none of
their elements, no row and no mailbox, amounts are natural numbers, the gold that is sent with a mail and its postage are
together below the width of the code's sum (`AmountAssumption`; `Mail.cpp:123` wraps), and `CutFactor` is 0 or 1
(the house keeps nothing or the whole bid); for `BattlegroundQueue`, players are finitely many, a group that
joins is of one team and not empty, the sizes of teams are numbers, and `NULL` is neither a number nor a battleground; for `InstanceSaves`,
characters are finitely many, there may be one copy at least, and `NULL` is neither a character, a group, a bind nor a save.  `ItemsInOnePlace` and `CrashIsHarmless` have the hypothesis that
`GM.LogTrade` is on: without it the properties are false, as the finding of `auction_v_winner` shows.

| theorem | states | module |
|---|---|---|
| `TypeCorrect` | `Spec => []TypeOK` | `MapUpdaterProofs` |
| `PendingIsExact` | `Spec => []PendingExact` | `MapUpdaterProofs` |
| `MainIsAlone` | `Spec => []MainAlone` | `MapUpdaterProofs` |
| `NoMapTwice` | `Spec => []NoTwoUpdates` | `MapUpdaterProofs` |
| `NoMapDead` | `Spec => []NoDeadMap` | `MapUpdaterProofs` |
| `MapTickImplemented` | `Spec => ImplementsMapTick` | `MapUpdaterProofs` |
| `TradersArePaired` | `Spec => []TradersPaired` | `EconomyProofs` |
| `AcceptedIsShown` | `Spec => []AcceptedAsShown` | `EconomyProofs` |
| `MemoryIsSaved` | `Spec => []SavedAsMade` | `EconomyProofs` |
| `ItemsInOnePlace` | `GmLogTrade = TRUE => (Spec => []ItemInOnePlace)` | `EconomyProofs` |
| `CrashInvariant` | `Spec => []CrashInv` | `EconomyProofs` |
| `GoldIsConserved` | `Spec => []GoldConserved` | `EconomyProofs` |
| `GoldSurvivesCrashes` | `Spec => []CrashLosesNoGold` | `EconomyProofs` |
| `CrashIsHarmless` | `GmLogTrade = TRUE => (Spec => []CrashLosesNothing)` | `EconomyProofs` |
| `RefsExact` | `Spec => []RefsAccounted` | `SocketLifetimeProofs` |
| `PointersSafe` | `Spec => []NothingDangles` | `SocketLifetimeProofs` |
| `NothingIsLost` | `Spec => []AllAccountedFor` | `SocketOutputProofs` |
| `OnlyDelayedAreOvertaken` | `Spec => []OvertakesDelayedOnly` | `SocketOutputProofs` |
| `NobodyIsStranded` | `Spec => []NotStranded`, if `\A z \in Sizes : z <= Capacity` | `SocketOutputProofs` |
| `TransactionsAtomic` | `Spec => []Atomic` | `SqlDelayProofs` |
| `CallsInOrder` | `Spec => []InOrder` | `SqlDelayProofs` |
| `WritesRead` | `Spec => []ReadsOwnWrites` | `SqlDelayProofs` |
| `NothingMissed` | `Spec => []NoneMissedButLost` | `SqlDelayProofs` |
| `TableIsSound` | `Spec => []TableSound` | `WorldSessionsProofs` |
| `QueueIsSound` | `Spec => []QueueSound` | `WorldSessionsProofs` |
| `PositionsAreTold` | `Spec => []PositionsTold` | `WorldSessionsProofs` |
| `FirstComesFirst` | `Spec => FirstComeFirstServed` | `WorldSessionsProofs` |
| `NobodyWaitsForRoom` | `Spec /\ [][UNCHANGED m_playerLimit]_vars => []WorkConserving` | `WorldSessionsProofs` |
| `LimitIsKept` | `Spec /\ [][UNCHANGED m_playerLimit]_vars => []Capacity` | `WorldSessionsProofs` |
| `QueueInvariant` | `Spec => []QueueInv` | `BattlegroundQueueProofs` |
| `CountsAreExact` | `Spec => []InvitedExact` | `BattlegroundQueueProofs` |
| `TeamsAreLimited` | `Spec => []TeamLimit` | `BattlegroundQueueProofs` |
| `SlotsAgreeAlways` | `Spec => []SlotsAgree` | `BattlegroundQueueProofs` |
| `InvitationsHaveEvents` | `Spec => []InvitationEnds` | `BattlegroundQueueProofs` |
| `InvitationsAreFair` | `Spec => FairTeams` | `BattlegroundQueueProofs` |
| `WaitingIsKept` | `Spec => StaysQueued` | `BattlegroundQueueProofs` |
| `DungeonInvariant` | `Spec => []DungeonInv` | `InstanceSavesProofs` |
| `SavesAreSound` | `Spec => []SavesSound` | `InstanceSavesProofs` |
| `ForGoodIsSound` | `Spec => []BoundForGoodSound` | `InstanceSavesProofs` |
| `ForGoodIsKept` | `Spec => BindForGoodKept` | `InstanceSavesProofs` |

The invariants are built on each other, each with one lemma for the start, one for the steps of the main
thread and one for those of the workers:

* `CountInv` is `TypeOK`, `PendingExact`, `MainAlone` and `Inactive`.  The main thread concludes that it is alone from the
  count it sees, so `MainAlone` needs `PendingExact` at that moment, and afterwards that nobody but the main thread can
  schedule while no worker is busy.  When there is no pool it does not look at the count, and `Inactive` says that there is nobody to
  wait for.  `PendingExact` counts with `Cardinality(Busy)`, which steps by one as a worker takes or leaves a
  request (`FiniteSetTheorems`).
* `ExclusionInv` adds `Apart`, `NoTwoUpdates` and `NoDeadMap`.  Neither the iteration over `i_maps` nor that over the instances
  of a `MapInstanced` asks whether a map was scheduled already; that none is scheduled twice is due to the order of the
  work.  `Apart` says it: whatever is still to be scheduled (the rest of each iteration, and the instances of the maps
  *ahead*, those not yet visited) has no request.  `AppendRequest` and `TailRequest` say what
  the two operations of the queue do to its set of requests.
* `RefinementInv` adds `Parents` and `Complete`: inside a tick, the maps that are neither begun nor passed over are exactly those in
  `ToDo` (in the queue, in the rest of an iteration, or instances of a map ahead).  By `ProgressStep` a step that
  takes maps out of `ToDo` is a step of `MapTick`, by `SameWorkStep` one that only hands them on stutters, and by
  `EndTickStep` nothing is left to do when the main thread finds the count at zero.

* `TradeInv` is `TradeTypeOK`, `TradersPaired`, `ShownIsOffered`, `NothingLeft` and `AcceptedAsShown`.  `AcceptedAsShown` speaks of the
  moment of the acceptance, so it needs that what is shown is the present offer (or no item, where the item was not in the
  inventory) at every moment, also when nobody has accepted: `ShownIsOffered`.  `NothingLeft` says that who does not trade offers
  nothing, so that a trade begins with what the clients see, an empty table.  `TwoOfATrade` is the fact that makes every
  change local: the two of a trade are different, and no third points at them.  Mail and auction house leave all of it
  alone and nobody leaves the world by them (`MailKeepsOnline`, `AuctionKeepsOnline`).
* `EconomyInv` is `StateTyped`, `SavedAsMade`, `BoxesOwned`, `SendersKnown`, `ItemsSafe`, `MailsSafe` and `ItemsPlaced`.  It speaks of the drained
  queue, so a commit changes nothing it says (`CommitShifts`), and a handler is judged by the transactions it delays.  `Queued`
  says what that does to the rows when none of them writes a row twice (`Delayed`); the lemmas on the handlers say which rows each
  of the handlers' transactions writes, and that the ids of new mails are nobody's.  What makes `SavedAsMade` more than that is the
  return of a character: `LoadFromDB` reads the committed state, not the drained one.  `ItemsSafe` says that from the last delayed save of a
  character who has left on, his items stay as they are, though others go on trading and mailing with what he gave; and `MailsSafe` that a
  mail to a character whose mailbox is not loaded, once committed, stays until he loads it, which is why `_LoadMail` may read past the queue.
  `BoxesOwned` is why nobody else deletes it meanwhile, and `SendersKnown` why only a player's mail is paid for or returned.
  `ItemsPlaced` is `ItemInOnePlace` without the count, by pairs of places; its last part is the only one that needs `GM.LogTrade`.
  Items that were given up are nowhere, and so are in the model those that are astray (`Gone`): of the latter the properties on items say nothing.  The exchange of
  a trade needs `TradeInv`: the two are different and both in the world.  Each operation has a lemma of its own; the four of the auction
  house that send mails go by `HouseKeeps`, after `AllSent` (all mails, then the house's own transaction).
* `CrashInv` is `GoldConserved`, `UnbidIsFree` (an auction without a bidder holds no bid), `GoldOnTheWay` and `ItemsOnTheWay`.  A
  crash leaves what is committed now, and the next commit makes that one transaction more; so `CrashLosesNothing` by itself is not
  inductive, and the last two say of *every* state that the database passes through until the queue is empty (`Committed[k]`) that it has all the
  gold, or the next transaction returns what is missing, and every item, or a player's mail with it follows after nothing but removals from inventories.
  A commit then takes the first of these states away (`CommitLosesNothing`), and a handler adds some at the end, of which the last one is a matter
  of `GoldConserved` and those before it of `Halfway` (`GoldMoved`).  A handler that delays one transaction has none of those; the house first inserts
  its mails (`InsertsAreHalfway`); mail that is sent or returned is where the exceptions come from.
  Gold is a sum over three tables by the library's `FoldFunction`: `IsSum` is what a sum is, one element after the other, and `TotalIs`
  that the fold is one, whatever the order, by the least size of a set where it is not; `GoldShift` then says that a step changes the
  gold by what it changes in the rows it writes.  With it each handler has a lemma that its rows balance, `spent` included.
  That the house pays out what it holds, to the bidder or the owner or as its cut, needs `UnbidIsFree` where nobody has bid.
  TLC has checked `CrashInv`, on the instance of `economy`, before it was proved.
* `SocketInv` is `RefsAccounted`, `Safe` (what `NothingDangles` says) and `Places`: what the place that each thread has reached says of
  the containers, the pointers and the close flag.  That no pointer dangles needs the exact count, as the last release is what
  frees, and the count needs `Places`, as a thread gives up what it has from its place alone.  The argument that two threads
  do not close the same session twice is `ClosedOnce`: while the socket is open it has had one session at most, and `m_Session`
  points to it, so `CloseSocket` clears the pointer to the session it was called for, or `handle_close` has done so before.
* `OutputInv` sees wire, buffer and queue as one line in which `x` may come before `y` if it was sent before, or if `y` was
  delayed and `x` was not (`Before`).  `WireInOrder`, `BufferInOrder` and `QueueLast` say so of every two packets of the line,
  `QueueInOrder` that delayed ones keep their order, `BufferInRuns` that a packet's units are together, and `Kept` that each packet is
  somewhere.  Two lemmas carry the steps: `SentInOrder`, what the kernel completes by taking `k` units (each packet once, in
  order, and only when none of its units is left), and `RefilledUnits`, what `iFlushPacketQueue` puts into the empty buffer (the
  packets that fit, from the first on, in order).  They rest on `Enumeration`, that a finite set of numbers can be listed by rank,
  and on `TotalSteps` and `TotalGrows`, what the recursive function `Total` computes.  These are inductions over the naturals, done
  by a least counterexample (`Least`, from the well-foundedness of `<`), as the induction rule itself has an operator as its parameter.
* `SqlDelayInv` follows each statement on its way: open transaction, line (the queue, and what waits for room), job of the delay
  thread, staged, durable.  `Known` and `Apart` say that a statement is on one way only, and that a transaction's statements
  are nowhere but in it; `Ordered` that whatever is further on its way comes first among the calls of its thread; `Accounted`
  that none is lost in between, and that what a query is to see has been done or is before it in the line; `LinePlace` and
  `WorkerPlace` what the line and the place of the delay thread have to do with each other, above all that what is staged is a
  prefix of the transaction it works on, and that autocommit is off then.  `InOrder` is a part of it.  `Atomic` is inductive
  beside it: a COMMIT makes durable what was staged before, if autocommit was left off, and after it the transaction as one run.
  `ReadsOwnWrites` and `NoneMissedButLost` are read off `Accounted` when a query is executed and when the thread ends.

* `SessionsInv` is `TypeOK`, `Structure` (each session object is known in one place; queue, flags and positions agree) and
  `Places`.  `Structure` needs `Places` where a step takes something for granted: `Fresh`, that a newcomer neither waits nor plays
  when it is listed; `LoopPlace`, that the iteration over `m_sessions` meets only sessions that are still listed, though it erases
  while it iterates; `Kicked`, that after `KickAll` whoever has a character in the world is closed and still to be visited, which is why
  none is left when the server has stopped.  Sessions leave by one way, `RemoveQueuedPlayer` and `delete`; `Left` says what
  it leaves of the heap and the queue, and `RemovedSound` that it does so, in two cases: somebody is let in and all positions are
  sent again, or only those behind the gap are sent, and those before it are still right.  `FirstComesFirst` rests on what erasing
  and taking the first do to the order of a sequence (`ShrunkSound`).  `NobodyWaitsForRoom` and `LimitIsKept` are about
  the number of sessions `N` and the length of the queue `Q`: with `WorkConserving` before the step, one session is let in exactly
  when the one that goes was in and the limit was just met (`AcceptsExactly`), so one is enough and never too many; a newcomer
  who is neither a game master nor exempt enters only below the limit (`EntersBelow`).  Both hold as long as the limit is not
  reloaded, which is their hypothesis: a new limit neither admits nor kicks anybody.

* `QueueInv` is `Sound` of the present queue, and `Sound` is a predicate of a state `q` of the queue (what `Queue` bundles), of `bgId`
  and of `at`, because one handler goes through several such states before it is done: `Update`, for instance, fills the battlegrounds that have room,
  one after the other, and then opens new ones.  `GroupsApart` says that nobody is in two groups, `Known` that
  only instances that exist or existed are spoken of, `FreeAlive` that `BGFreeSlotQueue` lists each battleground once and none that is gone,
  `SlotSound` what the slot of a player means, `InsideSound` that `m_Players` and `GetBattlegroundId` agree, `CountsExact` that
  `m_InvitedAlliance` and `m_InvitedHorde` count invitees, those under way and those inside (`CountedIn`) and stay within the
  limit, `EventsSound` that each invitation has its event.  `EmptyDeleted` needs care: a battleground is empty and not marked
  in the moment between its creation and the invitations, so `SoundBut` makes an exception for one (`CreatedSound`).
  Each function of the queue has a lemma that it leads from a sound state to a sound state and how far: `Reached` says that groups are only
  invited, battlegrounds only filled and nobody loses a slot, `Shrinks` that nobody is invited.  What an invitation does to the
  count is the number of new invitees of each team (`InvitesSound`); that it never exceeds the
  room goes by `FreeSlots` (`GetFreeSlotsForTeam` leaves the count of a running match at most one above the
  other's) and by `PoolPart` (a pool of the selection holds no more than `MaxPlayersPerTeam`).  Then `FairStep` and
  `WaitsOn`, of which the two action properties are read off, hold between the states before and after each action.
  The code's iterations are folds over sequences and finite sets: `KeptBySteps` and `FoldExists` say that a relation between
  states that holds over nothing, over one step and over two in a row holds over all of them, by the least place where it fails (`Least`).
  TLC has checked `QueueInv`, on the instance of `battleground`, before it was proved.

* `DungeonInv` is `Sound` of the present state, with the types of what the functions do not touch.  `Sound` is a predicate of a state `q` of the dungeon
  (what `Dungeon` bundles) and of who is online, because a handler goes through several such states: `Arrive`, for instance, unbinds,
  creates a map and a save, and binds again.  `Listed` says that the lists of the saves are the binds, in both directions, `Needed` that
  each save is somebody's, `Placed` that who is bound or inside is online, in a loaded map, and that a group with a bind or members has a
  leader, `ForGood` what `BoundForGoodSound` says, and `Heroic` that binds for good exist in a heroic dungeon only, and events only in another.  In
  the middle of a function the save of one instance may list somebody who is not bound to it any more, or nobody yet: `SoundBut` makes the exception
  for that one, and `UnloadIfEmpty` ends it.  A save that `AddInstanceSave` makes on arrival lists nobody, and would never be deleted, so it
  must get its first bind in the same handler: `MayJoinOrSaved` says why it does, or was there before.
  Each function has a lemma that it leads from a sound state to a sound state; `Kept` says that it takes no bind for good and none of its rows, `Still` that
  nobody moves.  What makes `Kept` true of `ResetPlayer` and `ResetGroup` is `NobodyForGood`: a save that may be reset has
  nobody who is bound for good, and a group that disbands clears the rows of groups only when it has.  `Heroic` is why `ResetInstance`, which
  unbinds everybody, takes no bind for good; and a character who returns was bound to nothing and nowhere (`Placed`), so `LoadBinds` rebuilds his
  bind from his rows, of which the permanent ones survive a group (`Loaded`).  At last each action has a lemma (`StepSound`).
  The iterations of `BindInside` and `LoadBinds` are recursive functions, over sequences that `SetAsSequence` says exist, and over ids.
  TLC has checked `DungeonInv`, on the instance of `instances`, before it was proved.

Only model-checked, and why: the liveness properties, as TLAPS does not reason about `ENABLED` here.  `InvitedByLive`, of the queue of battlegrounds, `NoneMissed` and `WorkConservingAsDocumented` are
false (section 6).


## 5. The plan

In this order, each with its module, the abstract specification where one helps, its runs and its theorems.

1. *Done*: `WorldSessions`, `SocketLifetime`, `SocketOutput`, `MapTick`/`MapUpdater`, `SqlDelay`, and the
   proofs about all of them.
2. *Done*: `CharacterDB`, `Trade`, `Mail`, `Auction`, `Economy`, and the proofs of all safety properties of `Economy`: trades,
   what is saved, where items are, gold, and crashes.
3. *Done*: `BattlegroundQueue`, and the proofs of all its properties.
4. *Done*: `InstanceSaves`, and the proofs of all its properties.
5. `EventProcessor`: `Update`, `AddEvent`, `KillAllEvents` with events that call back.  `KillAllEvents` sets `m_aborting` to "prevent event
   insertions", which `AddEvent` does not look at.
6. `ShutdownTimer` (`World.cpp:2608-2715`), composed with the end of `WorldSessions`.
7. `AuthSocket` (`AuthSocket.cpp:153-160, 219`): the table of commands and states.
8. `GroupRolls`, `HostileRefs`, `MotionMaster`, `PoolMgr`, `GridStates`, as far as they keep a protocol of their own.

Runs of components that share a question are merged as the project grows, so that each run remains a question of its own.

Theorems proved: all safety properties of `MapUpdater` with its refinement, of `SocketLifetime`, `SocketOutput`, `SqlDelay`,
`WorldSessions`, `Economy`, `BattlegroundQueue` and `InstanceSaves`, as far as they hold.  To prove next: those of the modules that the
plan adds.

### Not modelled, and why

* `Map::Update` itself, entities, spells, AI, conditions, quests, scripts, outdoor PvP: game rules and data of hundreds of
  thousands of lines; a bounded model would not be faithful.  What they share across map threads is a hazard that these
  models do not cover.
* Collision, path finding, cryptography, DBC and configuration files: numbers, geometry, formats.
* `dep/`, `src/tools/`, the SQL data: other projects' code, and data.
* In `Economy`: the auction house bot, houses other than one, lists; mails from quests and creatures, their texts, the limit of 100
  mails and `ReturnOrDeleteOldMails`; a second character of an account; enchantments in the slot that is not exchanged.  Gold is a
  natural number: the clamp of `Player::ModifyMoney` is not met with the amounts here.  The sum of a mail's gold and postage is taken as the
  code takes it, modulo the width, but the amounts are such that it does not wrap (`AmountAssumption`): with larger ones the sender is asked for less
  than he sends, and `GoldConserved` is false.  An item that was taken by the name of another mail is not
  followed: the properties on items leave it out from then on.  The cut of the house
  is `uint32(0.05)` times the bid, zero at the default rates, so `CutFactor` is 0 in the
  runs; the theorems also cover the other whole rate, 1.  The mail of a player and a mail on its way
  back are inserted after the transaction that took their items or gold from their last place, so a crash
  may lose them: `CrashLosesNothing` makes that exception and no other.  An item of an offer that was not in the inventory when it was
  shown is not shown, and may be there again when the trade is executed: `AcceptedAsShown` allows it.
* In `BattlegroundQueue`: arenas and ratings, the test mode, the debuff of deserters, reminders, the premature finish.  Modelled as they
  are, without a property: `Update` returns out of the loop over the Horde's groups without inviting the Alliance
  (`BattlegroundMgr.cpp:728-735`); a removal event and the end of a battleground pass the type of the queue where the type of the
  battleground is expected (`BattlegroundMgr.cpp:522, 962`), which for the Eye of the Storm, queue 4 and type 7, is another one (`sameType`);
  `BGEndedRemoveInvites` stops at the first of a group who is in a far teleport; an old event cuts
  short a new invitation to the same battleground.  `BGQueueRemoveEvent` runs on map threads without a lock; the actions here are atomic.
* In `InstanceSaves`: the change of difficulty, with which a character has binds of two kinds; raid dungeons, which want a raid
  group; game masters, whom most tests let pass; warnings before a reset; the limits on players and on copies per hour; and the start
  of the server (`CleanupInstances`, `PackInstances`, `LoadGroups`, which renumber and load the tables).  `UpdateHomebindTime` sends who is
  invalid home after a minute: `TeleportOut` is possible at any time.  A copy that is unloaded and reset loses its creatures' respawn times,
  which are not modelled.  The bind of a group whose new leader is offline is as the code leaves it.
* Console and RA: their effects on sessions (kick, reload, shutdown) are actions of `WorldSessions`.
* Warden, statistics, protected opcodes and the packets other than login and logout, in `WorldSessions`; the contents
  of packets, in the socket modules; prepared statements as such, in `SqlDelay`; `WorldSocketMgr::StopNetwork`.


## 6. Findings

Places where the code does other than the repository says of it, each with a run that shows it.

* **Game masters take places** (`sessions_v_limit`).  `PlayerLimit` is the "Maximum number of players in the world. Excluding Mods, GMs and
  Admins" (`oregoncore.conf.dist:95-96`), but `AddSession_` compares it with `GetActiveAndQueuedSessionCount`, which counts every
  session (`World.cpp:231-240`): an ordinary player waits while fewer of them than the limit are in.  `Capacity` and `WorkConserving` hold
  with the count of the code.
* **Autocommit stays off** (`sql_v_missed`).  When START TRANSACTION or COMMIT fails, `ExecuteTransaction` returns without setting
  autocommit again (`Database.cpp:606-629`); what is executed after that, up to the next transaction, is lost at the end, or with the
  connection, when it is lost and the client library opens another (`Database.cpp:170-175`).
* **The winner's item is gone** (`auction_v_winner`).  `SendAuctionWonMail` looks for the account of the winner only if `GM.LogTrade` is set, and without
  an account sends nothing to a winner who is offline (`AuctionHouseMgr.cpp:140-165`); `Update` removes auction and item all the same.
* **A battleground is deleted under an invitation** (`battleground_v_deleted`).  When its last invitee leaves, `m_SetDeleteThis` is set for good,
  but the `Update` that follows still invites to it (`BattlegroundMgr.cpp:303, 1032`).  The group that is invited then waits for ever.

Smaller ones, which the models contain and no run shows by itself:

* The tolerance for disconnected players never ends: `HasRecentlyDisconnected` compares a negative difference of times with it
  (`World.cpp:277`).  In `WorldSessions` an entry of `m_disconnects` is good however old it is.
* `HandlePlayerLoginOpcode` sets `m_playerLoading` before it reads the packet (`CharacterHandler.cpp:482-487`).  If the packet is too
  short, the exception ends in `WorldSession::Update` (`WorldSession.cpp:289`), and the flag stays set on an open session that loads nothing:
  as long as that connection lasts, `RemoveSession` turns away new ones of the account.  `LoadingHasReason` makes the exception (`unread`).
* `HandleTakeItem` looks for the item in all mails of the character, and for the payment only in the mail that is named (`Mail.cpp:441-448`),
  next to a comment that speaks of the check of the payment (`Mail.cpp:433`).  The mail that held the item goes on listing it, and with it the
  item's row is deleted later (`Player.cpp:17126-17132`).  Such an item is `astray` in `Mail`, and not followed.
* `HandleMarkAsRead` gives a deleted mail the state "changed", and so undeletes it (`Mail.cpp:299-306`).  Gold and a payment may be sent in
  one mail.  `Mail` does both.
* The answer to a login is given to whatever session the account has by then (`CharacterHandler.cpp:131-140`).  When its
  successor logs in too, the first `Player` is replaced while in the world.
* The catch block of `ProcessIncoming` follows `m_Session` without `m_SessionLock` (`WorldSocket.cpp:651`): `CatchTest` and `CatchUse` of
  `SocketLifetime`, which `NothingDangles` leaves out: there a session that is gone may be used.

* Of `InstanceSaves`, found while its properties were written; each has a comment in the code that says otherwise:
  the reset of a normal dungeon is to be scheduled only when nobody is inside (`Map.cpp:2647`), but `SetResetSchedule(false)` comes
  after `Player::SetMap` has listed the player, sees a player and cancels nothing, so `ResetInstance` may come with players inside;
  "if the same group invites the player back, cancel the homebind timer" (`Group.cpp:1169`) is done by any group bound to the copy, so
  two groups may share one, both valid;
  "when changing leader it's assumed the character will not have any solo binds" (`Player.cpp:16486`), but a member may have one, and then the
  group changes its copy, or the transaction of `_setLeader` fails on a key that is there already and the tables keep the old leader;
  "solo saves should be reset when entering a group" (`Map.cpp:2404`), but who joins while inside his own copy keeps the bind and is refused
  when he comes again, until his group has a copy;
  a save that is loaded by a temporary bind may be reset though a character who is offline is bound to it for good (`canReset` is
  cached in the save, which was unloaded since).
  Two players who leave a copy by teleports that overlap both count as inside when the other leaves, and `m_unloadTimer` is not
  started (`Map.cpp:2489`): the copy stays loaded until somebody enters and leaves again.


## 7. Running it

    tlc -config Map_update.cfg MCMapUpdater.tla
    tlapm MapUpdaterProofs.tla
    tlapm EconomyProofs.tla
    tlapm SocketLifetimeProofs.tla
    tlapm SocketOutputProofs.tla
    tlapm SqlDelayProofs.tla
    tlapm WorldSessionsProofs.tla
    tlapm BattlegroundQueueProofs.tla
    tlapm InstanceSavesProofs.tla

`PROJECT.json` lists every run with its module and configuration, and every theorem with its module.
