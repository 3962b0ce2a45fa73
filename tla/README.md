# A verification of the SteerStone Darkorbit server

TLA+ modules of the parts of the server in which threads, timers, connections and
shared objects meet, the TLC runs that check them, and theorems about them that TLAPS
proves for every value of their parameters. Paths below are those of the repository
(`src/Game/...` is `src/src/Game/...` in `PROJECT.json`).

## 1. The system

Three programs share one engine: the **game** server, the **chat** server and the
**policy** server (which answers one request of a Flash client). There are no tests.

Threads of the game server:

* the **world thread** (`Game/main.cpp`) ticks `World::Base::Update`: new players, their
  packets, the removal of players, then all zones;
* the **zone threads** update the maps of one zone each (`ZoneUpdater::WorkerThread`),
  while the world thread waits for them;
* the **network threads** run the `io_service` of their sockets, and handle logins and web
  requests themselves;
* the **listener**, the **database worker** and the **optimizer** of the task manager.

| component | state | operations | talks to |
|---|---|---|---|
| Zone pool (`ZoneUpdater`, `ZoneProducer`, `Manager::Update`) | queue of requests, pending counter, cancellation token | ScheduleUpdate, Wait, WorkerThread, WaitAndPop, Finished, Deactivate, ~ZoneUpdater | world thread and zone threads, by two mutexes and conditions |
| Connection pool (`Database::Base`, `PreparedStatements`, `PreparedStatement`, `PreparedResultSet`) | mutex and `m_Prepared` per connection | Prepare, ExecuteStatement, GetNextRow, Clear, Free | every thread that loads or saves |
| Maps and grids (`Map::Base`, `Grid`, `Object`, `ZoneManager`) | `m_Grids`, `m_RadiationGrid`, objects and players per grid, grid state, `m_PlayersToJump` | Add, Move, Remove, jumps, death, respawn, sleep | zone threads, world thread between ticks |
| Sessions (`World::Base`, `GameSocket`, `Player`) | `m_PlayerQueue`, `m_Players`, `m_PlayerRemovalQueue`, packet queue, logout timer | login, logout, cancel, disconnect, reconnect, save | network, world and zone threads |
| Combat (`Unit`, `Player`, `Mob`) | target, attackers, tag, attack type, death state | select, shoot, abort, kill, mines, jumps, despawns | objects of one map, by plain pointers |
| Sockets (`Core::Network::Socket`) | two output buffers, write state, flush timer, reads | Write, FlushOut, OnWriteComplete, ForceSendAndClose, CloseSocket, OnRead | its network thread, and every thread with the Player |
| Task manager (`Engine/Threading`) | tasks, inclusive, exclusive and critical workers | PushTask, PopTask, Optimize | owns all threads above |
| Listener (`Listener`, `NetworkThread`) | sockets per network thread | BeginAccept, SelectWorker, CreateSocket | creates sockets |
| Quests (`Player`, `Quest`, their rows) | quests and progress in memory, their rows, the reward in credits | accept, load, count, finish, cancel, save | zone thread, web requests on network threads, database |
| Player data (`Player`, `Inventory`) | credits, experience, boosters, laboratory, items, and rows | load, save, reward, trade, buy, web updates | database, network threads |
| Tick of a map (`PoolManager`, `Grid`, `SurroundingObject`, `BonusBox`, `Ore`, `Mine`) | pools per map, schedule for deletion, what each player sees | loot, explode, spawn, see, forget, delete | grids, players, by plain pointers |
| Chat (`ChatManager`, `Room`, `Player`) | rooms, members, bans | join, leave, private rooms, messages, ban | network threads and main thread of the chat |

What is hard here: objects are freed by one thread while others hold plain pointers or
GUIDs of them; the same decision is taken in two threads with a queue between them; a
player may die, jump, log out, lose its connection and come back within a few ticks;
data is saved in several statements without a transaction; buffers are switched while
the system sends from them; and threads wait for each other's connections. The hazards in
`PROJECT.json` name the lines.

## 2. Modules

| module | models | checked by | proofs |
|---|---|---|---|
| `ZoneBarrier` | the promise of a tick: fork and join | as a property of `zone_pool` | `TickProofs` |
| `Ships` | the promise of the sessions: who is in the world | as a property of `session_login` | `SessionProofs` |
| `Rewards` | the promise of the quests: what is earned, on record, paid, lost | as a property of `quests_saved` | `QuestsProofs` |
| `MessageStream` | the promise of a connection: what was given comes, in order | as a property of `socket_stream` | `SocketProofs` |
| `ZoneUpdater` | the zone pool, one action per critical section | `zone_pool` | `TickProofs` |
| `ConnectionPool` | connections, statements and nested queries | `pool_six` | `EngineProofs` |
| `TaskManager` | the threads all others are taken from, start and end of the server | `tasks_shutdown` | `EngineProofs` |
| `MapGrid` | where every object is | `grid_safety`, `grid_respawn` | `MapGridProofs` |
| `Surroundings` | the tick of the maps: who still points at what | `map_tick` | `TickProofs` |
| `Session` | the life of a Player object | `session_login`, `session_reconnect` | `SessionProofs` |
| `Combat` | who attacks whom | `combat_fight` | `CombatProofs` |
| `Quests` | quests in memory and in rows, with crashes | `quests_saved` | `QuestsProofs` |
| `Socket` | one connection | `socket_stream` | `SocketProofs` |
| `Chat` | rooms and players of the chat server | `chat_rooms` | `ChatProofs` |

The `MC*` modules give the constants their values. Operators whose comment begins with
`Slip:` are wrong variants of the definition that follows: the mutants of `PROJECT.json`
put one in the place of that definition, and TLC then finds the named property violated.
They take no part in the specifications.

`EngineProofs` and `TickProofs` each extend two modules that share no variable. The names
that both would have carry a prefix in one of them: `TM` in `TaskManager`, `Map` in
`Surroundings` (`TMSpec`, `MapSpec`, ...). Each theorem there is about one of the two.

### ZoneUpdater

`world` is where the world thread is in `Manager::Update` and `Wait`; `queue`, `pending`,
`token` and `shutDown` are the members of the pool; `pc` and `task` are the worker threads
with their local `l_ZoneUpdaterTask`. Every critical section is one step: no code of this
component holds two mutexes in different orders, and `ScheduleUpdate` holds its own around
the whole of `Push`. A condition may wake a waiter without a notification
(`SpuriousWakeups`); a woken worker takes the mutex again in a later step, and another one
may have emptied the queue before. The server crashes when a worker calls through the null
pointer it then has: `Alive` ends every behaviour there.

The pool has two ends. `Deactivate` cancels, waits and shuts the producer down, which wakes
all workers. `~ZoneUpdater` (`Destroy`, `ZoneUpdater.cpp:86`) cancels and waits too, but
wakes nobody: a worker that sleeps in `WaitAndPop` stays there, and what becomes of a thread
that touches the deleted members is outside of the model (`Exists`). So `WaitsEnd` claims
that workers return after `Deactivate` only, and `CancelLosesNothing` that neither end loses
a request. Neither has a caller at this commit: nothing calls `Manager::UnloadAll`
(`ZoneManager.cpp:103`), nor `SingletonGarbageCollector::Clear` (`Singleton.cpp:95`), which
would delete the updater. The models let each end happen and require none.

`ImplementsBarrier` is refinement: `phase` is whose turn it is, and a zone is due while it
is still to schedule, queued or popped, running while it is updated, and done otherwise.
The other modules rely on it: they take the steps of the world and of the zones as
alternating.

### ConnectionPool

A thread that asks for a statement goes round the connections (`TryLock`) until it gets a
free mutex, prepares, executes, and gives the connection back in `Clear` and `Free` when
the result is destroyed. A thread that reads rows may ask for another statement before
that, up to `Depth`: in a login four are open (`LoadFromDB`, `LoadQuests`, `LoadProgress`,
`GetConditionAttributes`), in the web's cancelling of a quest three. Parameters and rows
have no control in them and are left out. Also left out is the error path of the
constructor of `PreparedResultSet` (`PreparedResultSet.cpp:83`), on which a failed bind gives
the connection back and the caller may do so again: the columns are bound to buffers of the
types the statement itself reports.

### TaskManager

A zone worker is a Normal task, which runs until the updater is deactivated; the
`io_service` of a listener or of a network thread is a Moderate one, which gets an
exclusive worker of its own or, when there is none, becomes Critical and gets a thread.
`main` pushes them in `PushOrder`. The zones may be deactivated while the server runs
(`Deactivate`, phase `stopped`); when `main` returns, the destructors of the network stop
and pop the services in `PopOrder`, and `~ZoneUpdater` (`Destroy`, phase `cancelled`) comes
last and pops the zone tasks without waking them. None of these ends is begun at this
commit: nothing sets `s_StopWorld` (`World.cpp:49`), so the loop of `main` does not end
(`Game/main.cpp:89`). A zone worker that `~ZoneUpdater` has cancelled sleeps in `WaitAndPop`
for ever, and keeps its thread: such a thread (`Asleep`) has no fairness, `PoppedTasksEnd`
speaks of tasks popped by `Deactivate` or with their service, and `CallsReturn` says that
`Optimize`, which joins those threads, ends once `Deactivate` has stopped the zone workers.
The database worker and its exclusive worker are left out, for they never change. A worker
executes a copy of its list (`copy`), so it may be inside a task that is popped.
`Optimize` suspends the workers one by one (`PreSuspend` for all, then for each `TellToStop`
and the join of its thread), takes all their tasks,
and deals them out again; it holds the manager's lock in between only where the code does.
`raced` are the tasks that were pushed between a worker's `PopAll` and its refill. The
average times by which `PushTask` chooses a worker are a choice; so is whether a task of
period -1, whose timer is compared with a member nobody set, is due (`MayBeLater`).

### MapGrid

`objects` and `players` are the two containers of all grids, `map`, `index`, `radiation`
and `death` the members of the objects, `jump` the queue of `Map::Base`. One step is one
call with all it does: a Move also wakes the grid it enters, a death leaves the grid in
the next update, a jump removes, assigns and adds. `Radiation` stands for the grid
outside of the cells and for every index outside of the array. The auxiliary `strayed`
are the objects that have been outside of the cells: for them the code does not keep the
index (section 4), and `ExactlyWhereItIs` is about the others.

A packet to the grids near an object (`SendNearBy`) reads `m_Grids` at its index
(`Map.cpp:554`) before anything is tested, and returns early only for a player in the
radiation zone. The auxiliary `wild` are the objects for which that read was out of bounds. A
mob gets there: killed outside, it is updated by the radiation zone, respawns with the index
of the place where it died, and its next `Map::Move` sends from there (section 4); `IndexIsRight` says that it happens for no player and for no mob that stayed in the
cells, and that the grid which `Map::Move` itself takes out of the array is always a cell.

### Surroundings

A step is a call of the tick of a map: `UpdatePools`, the jumps, and for each cell its
head (`GridHead`: what players come to see, what is deleted, the copy) and its loop over
the copy. Packets of a player come when the loop has reached it (`who`). Boxes, ores and
mines are freed in `GridHead`, players between the ticks; `pool`, `near`, `loop`, `jump`
and `owner` are the containers and members that hold plain pointers. Code that follows one
to a freed object ends the server or finds the object as it was left (`FollowsFreed`).

Cells are one row instead of a square, and positions are cells: a player in the radiation
zone is not in `GetPlayers`, so it is not told of what goes and keeps pointers to freed
objects; that is outside of the properties. Distances, timers, hit points and contents of boxes
are choices. A mob is seen by what it does (`UnitKills`). An idle cell may be skipped, but
none with a player in it, which is `PlayerIsServed` of `MapGrid`. Two maps are not in
their cells at the same time: what one does there touches nothing of the other, and the
jumps, which do, come at any moment. Each Player logs in once, as each is an object of its
own.

### Session

A Player has the name of its connection. `net` is what the network thread does between its
calls: it finds the old Player, saves and closes it, loads the new one, gives it to the
world, and queues its packet. `phase`, `todo` and `busy` are the loops of
`World::Base::Update`, one player at a time, so that network threads run in between. The
filters by which the world takes some packets and the map thread others look at the front
of the queue only. Freed Players keep their fields, and any use of one sets `crashed`,
where behaviours end. What a player owns is the set of Players whose earnings it includes;
it is loaded, earned and saved as a whole. `overlapped` are the users that logged in before
their last Player was gone.

`ImplementsShips` is refinement: the ship of a connection is `coming` while its Player is
alive and not in `m_Players`, `here` while `m_Players` has it, and `gone` when it is freed,
also while a freed Player is still in `m_Players`. A new Player then enters the world by
taking the place of a freed one.

### Combat

The record `fight` holds the members the attack system changes; the operators on it are
the member functions of `Unit`, `Mob` and `Player`, nested as in the code, and a step is a
handler or an update of one object with all its calls. Hit points, shields, ammunition,
distances, cloaks and portals are choices. Two Players of one user share a GUID and are
different objects.

### Quests

A statement of the database is a step. `progress` and `completed` are the objects in
memory, `rows` and `steps` the two tables, `purse` and `account` the reward in memory and
in the table of the users. A handler is under way as `job`, with the quests it has still to
visit; the server may crash before any statement, and the player logs in again with what
the rows say. `played` counts what happened since the quest was accepted, `broken` are the
quests whose cancelling was cut short by a crash, `lost` the rewards that went with one.
The web site, which inserts the rows of a quest, is not in the repository: it accepts each
quest once. Which event counts for which condition is a choice, within its kind: so the
map of `VISIT_MAP`, which the code compares with itself where the attribute is a number
(`Player.cpp:989`), and the target of `TIMER` (`Player.cpp:1032`) are not modelled. The web's requests run on a network thread without a lock and are taken between the
handlers of the zone; from the first overlap on a container of C++ has no state. As in
the code, `KILL_NPC` ignores which mob it was, an empty progress counts as completed, one
event may advance two conditions of an ordered quest, and `FailQuest` has no caller.

`ImplementsRewards` is refinement: the reward of a quest is `earned` while only the memory
has it, `promised` from the row that says completed, `paid` when the table of the users has
it, and `lost` by a crash in between. That two handlers write the row and the credits is
what makes it more than one step.

### Socket

`out` and `second` are the two buffers, one number per message in the order of `Write`;
`writes` the `async_write_some` that are under way, of which the system takes any part
(`Transmit`) or none (`Fail`); `at` where the network thread and the threads of the game
are. A handler that tests `IsClosed` before it takes the lock is two steps. `CloseSocket`
keeps the lock while the close handler takes the socket out of its network thread. The
contents of what is read are a choice: nothing, a login, an answer with or without force,
an error, or a packet that is skipped, after which two reads are under way. A socket
lives as long as its network thread, a Player or a handler refers to it.

`ImplementsStream` is refinement: the two buffers, the writes under way and the timer are
together one stream. A message after a forced write breaks the agreement of `MessageStream`:
from then on it allows anything to come, but not that what has come changes.

### Chat

A connection logs in once and stands for its player. Handlers run on the network thread of
the connection, `Base::Update` on the main thread; they share rooms and players without a
lock. A step writes one container or one field of one object, with what is read and sent on
the way to it; so every call that writes two is several steps, and the other threads run
in between:

| call | steps |
|---|---|
| login | `Login`, `Join`, `AddPlayer` |
| `/invite` (`InvitePlayer`, `AddRoom` of the player invited) | `Invite`, `Enter` (`Player.cpp:146`), `Join` (163) |
| `/create` | `Create`, `Publish` (`Handler.cpp:316`), `Enter`, `Join` |
| `/close` | `Close` (`Room.cpp:149`), `Schedule` |
| `/leave`, and each room in `~Player` | `Leave` or `LeaveNext`, for an owner `Schedule`, `ForgetRoom` (`Player.cpp:187`) |
| deleting a player | `DeletePlayer`, `LeaveNext` ..., `FreePlayer`, `ErasePlayer` |
| deleting a room | `DeleteRoom`, `TakeFrom` ..., `FreeRoom`, `EraseRoom` |

`busy` is the call a thread is in, `deleting` and `todo` the loops of `Update` and `~Player`.
A player that is found by name, and a room that is found by id, are used in a step after the
search. When a deleted object is used the behaviour ends (`crashed`); the containers are taken
as intact. `members` has a player per account, `mine` a room per id, as in the code, and both
keys are used again: a `Room` object is allocated once, but a later one may draw its id as
soon as the manager has let it go, while players still have the first by it.

Three races break the agreement of rooms and players, and nothing repairs it. Two variables
of history name whom they struck, and the properties leave out exactly those:

* `torn`, pairs of a player and a room: somebody brought the player into the room while it
  was leaving a room of that id, or being deleted. `Player::AddRoom` on the inviter's thread
  writes `m_Rooms` of the player at 146 and `m_RoomPlayers` at 163; a `/leave` in between
  takes the room from the player and not the player from the room.
* `spoiled`, rooms: `Update` came upon the room before its owner was in it, and deletes it;
* `spoiled` also, rooms whose id a second creator drew before the manager knew of the first.

Section 4 has the traces.

The rooms of the companies are like `Global`; the room of a clan is a private copy for each
member, and is left out, with the lists of ignored players, the bans and the names.
`RemoveRoom` of the manager has no caller.

## 3. Runs

| run | expected | bounds | shows |
|---|---|---|---|
| `zone_pool` | pass | 2 workers, 3 zones, spurious wake-ups | the counter of requests is exact and nobody waits for a notification that was given before (`WaitsAreRight`), world and zones never overlap and a zone has one worker, a cancel loses nothing, ticks end and workers return after `Deactivate`, the pool is a barrier |
| `pool_six` | pass | 2 threads (nesting 4 and 3), 6 connections | connections change hands clean and are worked on by their owner; an idle thread holds none, and the threads that wait never hold them all (`NoneHeldInVain`); nobody starves |
| `tasks_shutdown` | pass | 2 inclusive and 1 exclusive worker, 2 zone workers, 2 services | an exclusive worker has one task and a task one thread unless it raced with `Optimize` (`OneToOne`), no task is dropped; every `PopTask` returns, and `Optimize` once `Deactivate` has stopped the zone workers; tasks end that were popped by `Deactivate` or with their service |
| `grid_safety` | pass | 1 player, 1 mob, 2 maps of 2 cells and their radiation zones; at most one of the two strays | the index leads to the grid that holds the object, packets of players and of mobs that stayed inside stay in the array, grids with players do not sleep |
| `grid_respawn` | violation | 1 map of 2 cells, no radiation zone | a mob that died is never updated again |
| `map_tick` | pass | 2 players, a box, an ore, a mine (2 of them at most), 2 maps of 2 cells, 2 packets, kills or logouts | surroundings hold nothing that left the map, no loop meets a freed object, pools and cells agree |
| `session_login` | pass | 2 connections of one user, one of which sends 2 packets | the sessions are `Ships`: one ship per user in the world, and what left stays away; removals find their player, no loss without overlap, logouts start afresh, disconnected players leave, logins arrive |
| `session_reconnect` | violation | the same | a freed Player stays in the removal queue |
| `combat_fight` | pass | 2 users, a second Player of one of them, a mob, 2 maps, 3 orders or accidents | attackers are known to their targets, a logout ends attacks, mobs attack who tagged them |
| `quests_saved` | pass | an ordered quest of 3 conditions, one with a timer | what is paid was fulfilled, half-written rows keep the order, the credits are the account of `Rewards`: each reward is on record before it is paid, once, and only a crash takes one back |
| `socket_stream` | pass | 2 threads besides the network thread, 3 messages, 2 reads at once | the connection is a `MessageStream`; completeness, asserted states, flushing, closing, destruction |
| `chat_rooms` | pass | 2 connections of 2 accounts on 2 threads, a third one of the first account after its first has closed, 2 private rooms that draw 1 id (`Bounds`) | but for `torn` and `spoiled`: members live and have the room, open rooms keep their owners, nobody alone misses a room, who disconnects leaves, closed rooms go |

Why the bounds are enough to be of interest. Two workers and two zones are the least in
which a request is stolen; the third zone makes the queue longer than the workers. Six
connections are the bound 4 + 3 - 1 of the nesting. Two inclusive workers and two zone
tasks are the least between which `Optimize` can move one; of the two services the first gets the
exclusive worker and the second becomes critical. In the grid a second map is
needed for jumps, a second cell for moves, and one stray object for the radiation zone; that
both objects stray adds nothing, since they share no grid entry, and is excluded by
`OneStray`. In `map_tick` one player loots or leaves while the other sees it, in an earlier
or a later cell; two of box, ore and mine may exist together, and two events are a loot
and a jump, a kill and a logout, or a mine and its move. Maps, cells of `MapGrid` and players are
interchangeable there, so the symmetries are sound, and these runs check no liveness.
Two connections are the least for a reconnect; the one that sends packets may log in first
or second. With four events instead of three `combat_fight` has some millions of states and
holds too. An ordered quest of three conditions has a condition with one before and one
after it, and `q2` shares its kind of event. Three messages fill both buffers while one is
sent. In the chat two connections are an owner and a guest,
each on a thread of its own next to the main thread, and the least for both races; two rooms
of one id are the least in which an id is drawn twice, at once or one after the other. The
third connection comes back for the account of the first while rooms may still hold that
one, the least in which a room has the wrong one of two players. `Bounds` cuts what
multiplies states and shows nothing new: the use of a deleted object, a second spoiled room
(nothing would be left to say anything about), messages while there are two rooms, and
races during the third connection. `MembersAreLive` is proved without any of these bounds.

The type invariants (`TypeOK` of each module) were checked by TLC on these instances and
are proved for every value of the constants; the runs do not repeat them. Nor do they repeat
the invariants that are theorems and part of something a run checks: `OneShipPerUser` of
`ImplementsShips`, `InOrder` of `ImplementsStream`, `RewardedOnce` of `ImplementsRewards`. `CHECK_DEADLOCK FALSE` is said where the
system may stop: after the end or a crash of the zone pool, when all tasks are
popped, when all players of `MapGrid` or `Surroundings` are freed or the server is down,
when the connections of `Session` or `Chat` are used up. The socket ends in the step
`Destroyed`; the connection pool, the fights and the quests never end.

**Fairness.** Zone pool: each worker that can go on does, and so does the world thread
inside a tick; nothing obliges the world to begin a tick, to deactivate or to delete the
updater. Connection pool:
each thread runs, and a loop over rows comes to its end (a strong fairness, because rows
open further statements in between). Task manager: every thread runs, except one that nobody
wakes (`Asleep`), and an owner that has stopped a task goes on to pop it; nobody is obliged to push, to stop or to begin an
optimization. Grid: the zone threads update the objects of active
grids for ever. Session: the world and the network threads run, and a logout timer that
is counted again and again passes. Socket: the system carries out or fails a write, the
threads inside a call go on, and an `io_service` runs its handlers in the order in which
they get ready, so it passes none over for ever; a read need not end while the socket is
open, a client may be silent. Chat: the main thread updates, and a handler that has begun
goes on. Clients, logins, kicks and reconnects are never obliged to happen. `Combat`,
`Quests` and `Surroundings` state no fairness: they claim no liveness.

## 4. Findings

Each is a violation run whose property quotes the code.

1. **Mobs never respawn** (`Mob.cpp:87`): a dead mob leaves the grid that updates it.
2. **Reconnect during a logout** (`World.cpp:200`): the freed Player stays in
   `m_PlayerRemovalQueue`, whose loop then reads it.

The models show three more. Their configurations are beside the others, TLC ends each with a
trace, and the properties of the passing runs name whom it concerns and leave them out:

* **Packets outside of the array** (`Map.cpp:554`, `grid_packets.cfg` of `MCMapGrid`): "If we
  are in radiation zone, we don't send packet to other grids" (528) holds for players only; a
  mob that respawned outside of the cells makes its move read `m_Grids` at an index of -1 or
  8 (`PacketsStayInTheArray`).
* **Invited while leaving** (`Chat/Entity/Player.cpp:163`, `chat_invite.cfg` of `MCChat`): a
  player that leaves the room between the two writes of `AddRoom` becomes a member of a room
  it does not have. The two `IsInRoom` disagree (`IsInRoomAgrees`), it cannot leave any more,
  and `~Player` leaves it in the room.
* **Rooms deleted while they are created** (`Handler.cpp:316`, `chat_create.cfg` of `MCChat`):
  the manager lists the room before its owner is in it, and `UpdateRooms` deletes as an
  empty room one whose owner has come meanwhile (`RemovedIsEmpty`).

Further behaviour of the code that shaped the models, without a run of its own:

* `WaitAndPop` guards its wait with an `if` (`ZoneProducer.hpp:79`): a woken worker whose
  request was taken calls through a null pointer (`ZoneUpdater.cpp:154`). In `ZoneUpdater`
  every behaviour ends there.
* The default pool of five connections can be used up by a login and a web request that each wait
  for one more (`PreparedStatements.cpp:70`): with `PoolSize = 5`, `PoolProgress` fails.
* "Amount of map threads to spawn" (`game.conf.dist.in:79`) is not what the task manager
  does: zone workers are tasks of inclusive workers that never return, `PushTask` puts them
  all on one worker while averages are zero (`ThrTaskManager.cpp:108`), and only the first
  runs. `Optimize` joins that worker and waits until the zone pool is deactivated.
* `Map::Remove` uses the index only: what leaves the map from the radiation zone stays in
  `m_RadiationGrid`; a jump does not clear the flag; a player freed in the jump queue stays
  in it, and one that died there comes back dead on the other map, after its surroundings,
  from which nobody took what was freed, are cleared. `ProcessJumpQueue` of
  one zone thread adds to a map that another one may be updating.
* An ore or a box that is looted by a player of an earlier cell is deleted in the same
  tick, and the pool, which looks at the schedule in its next update, reads the freed object
  (`MapHandler.cpp:502`, `OrePool.cpp:44`). A mine keeps its owner by a plain pointer that
  a logout does not reset. A box of type BONUS stays in its cell until it is updated again
  and is paid to everybody who loots it before. `BonusBox::RewardCredit` takes what
  does not fit instead of what fits, and as `Unit::SetResource` adds, a box that is not
  emptied grows. `HandleLootOre` counts the ore for a quest before it knows that there is
  space. `BuildSurroundingObjects` compares the object's y with itself
  (`BuildObjectData.cpp:61`).
* A unit killed twice is paid for twice: "Cancel attack if target is dead" (`Unit.cpp:499`)
  tests for `DEAD` only, and a mob is `JUST_DIED`, with its old hit points, until its own update.
  `CancelAttack` does nothing for a unit that does not attack, so that a mob that only
  follows keeps the pointer to a freed player (`Unit.hpp:175`).
* `HandleLogout` inserts into `m_PlayerRemovalQueue` from any zone thread without a lock;
  `FindPlayer` reads `m_Players` from the network threads without one. A login that
  overlaps the last Player of its user loses what that one earns afterwards.
* `GameSocket::m_Player` is not reset when the world frees the Player.
* A dead player never comes back to life; a mob that respawns keeps its hit points.
* A crash between finishing a quest and the next save of the player loses the reward
  (`Quest.cpp:197`); a crash inside its cancelling leaves a quest without conditions, which
  is paid at the next event (`Quest.cpp:150`). `UpdateBoosters` erases a booster and then
  removes the next one from the database (`Player.cpp:1200`).
* After a forced write the write state is `Idle`, so a further `Write` goes into the buffer
  that is being sent, and all of it is sent again; a forced write while the state is not
  `Idle` closes nothing. `MessageStream` allows anything to come after the first of these, and
  `ClosingEnds` excludes the second.
* Of a read only the first packet is handled (`Game/Server/Socket.cpp:144`). `KickPlayer`
  and `~Player` write their last packet into a buffer that waits 60 ms, and close at once:
  it is never sent.
* A closed chat room forgets its players (`Room.cpp:149`) and so is deleted as an empty one
  (`ChatManager.cpp:176`) while they still hold it: their next use of it ends the
  behaviour. Of two connections of an account a room sends to the later one, and to neither
  when one of them has left. Two creators may draw one id: `Publish` of the second
  makes the manager forget the first room, which nobody deletes then.

## 5. Proofs

Every theorem is `Spec => []P` (or an action property, or refinement), for every value of
the constants that satisfies the module's `ASSUME`. The argument is the same everywhere:
an inductive invariant `IInv`, one lemma per action, and `PTL` at the end. TLC checked
each `IInv` before.

* **TickProofs**, the zone pool (any workers, finitely many zones). That `pending` counts the
  requests is not inductive: one must know that no request is in two places (`Distinct`),
  which workers hold one (`Holding`), and that nothing is outstanding outside a tick
  (`Quiet`). From these follow `TypeCorrect`, `PendingCorrect`, `UpdatesExclusive`,
  `CancelSafe`, and `BarrierImplemented`: each step is a fork, a start or
  an end of a zone, a join, or a stutter of `ZoneBarrier`.
  `NoLostWakeUp` is the safety half of `WaitsEnd`: whenever the world sleeps a request is
  pending, and whenever one is queued a worker is up that comes back to the queue. It is
  inductive together with `GivesUp` (a worker returns only when it is cancelled, by either
  end), because
  each `Push` wakes a waiter and the last worker never sleeps on a queue that is not empty.
  `NobodyWaitsInVain` adds the counter.
* **TickProofs**, the maps (any maps, cells and objects): `MapTypeCorrect`, `SurroundingsStayHere`,
  `PoolsAgree`, `LoopsStayLive`. What a player sees is on its map only because a freed
  object is in no cell (`FreedAreOut`), a player in the jump queue is on the map it leaves
  or has died there (`JumpsAreHere`), and a Player that has not logged in sees nothing
  (`FreshSeeNothing`). That the loop of a cell meets no freed object needs where the loops
  are (`LoopsAreShut`, `LoopsAreHere`) and that a mine in the loop is not yet scheduled
  (`MinesAreSet`), since mines alone are scheduled by their own update.
* **EngineProofs**, the connection pool (any pool, threads and nesting): `TypeCorrect`, `NeverInUse`,
  `UseStaysExclusive`, `AllReturned`, from what a thread with rows or about to free holds.
  `NoCircleOfThreads` is the safety half of `PoolProgress`: a thread that asks holds fewer
  connections than its depth (`Asking`), so if all of them asked and no connection were free
  the connections could be mapped into `Nested`, the pairs of a thread and a level below
  its last, without two on one pair; but these are fewer than the connections
  (`PoolSuffices`). A login (4) and a web request (3) need a sixth connection for that; the
  default is five. `ConnectionsComeBack` adds that an idle thread holds none.
* **EngineProofs**, the task manager (any workers and tasks, any order of pushing and popping):
  `TMTypeCorrect`, `PrivateWorkers`, `TasksStayOnWorkers`, `ThreadsAreApart`,
  `ThreadsAndTasksPair`. The invariant says who may have to do with a task:
  nobody before it is pushed (`NewIsNowhere`), a worker of its kind (`Places`), one worker
  unless it raced (`OnOneWorker`), what the manager knows and once (`Kept`); what the
  manager knows is on a worker or about to be (`NoneDropped`), and a worker of its own has
  one task, or one that was popped besides (`Private`). What makes it inductive is where the
  threads are (`ThreadsRest`) and that a worker emptied by `Optimize` has no thread and
  only raced tasks (`EmptiedRest`).
* **MapGridProofs** (any maps, cells and objects): `TypeCorrect`, `MembershipExact`,
  `IndexStaysRight`, `PlayersAreServed`, `SleepingGridIsEmpty`. The invariant adds where an
  object on a map may be, stray or not (`Located`), and what the respawn relies on. That no
  player makes a packet read outside of the array is part of it: a player sends at an index
  outside only while it is flagged as in the radiation zone, and never respawns.
* **SessionProofs** (any connections, users and packets): `TypeCorrect`, `OneShip`, `RemovalsFind`,
  `NothingIsLost`, `LogoutsAreWhole`. The invariant says where a Player may be in each
  phase of the world and of its network thread: `PlayersAreLoaded`, `QueueIsFresh`,
  `PlayersAreTheirs`, what the loops hold (`LoopsAreSound`), that a Player without a
  logout has its whole timer (`TimersAreReset`), and that the Player of a login that did
  not overlap is alone (`AloneIfClean`).
  `ShipsImplemented` maps each step to one of `Ships`: loading is coming, `InsertNew` entering
  (the one `m_Players` had for the user is freed by then), `Delete` leaving, a login packet
  taking off, a death crashing, and all else a stutter; taking a freed Player out of
  `m_Players` changes nothing, as the ship is gone since it was freed.
* **CombatProofs** (any units, maps, GUIDs and events): `TypeCorrect`, `AttacksAreKnown`,
  `TagsMatchTargets`, `LogoutsEndAttacks`. The operators are functions of
  `fight`, so each has a lemma that it preserves `Good`, and the actions compose them.
* **SocketProofs** (any threads, messages and reads): `TypeCorrect`, `AssertionsHold`,
  `StreamInOrder`, `StreamIsSent`, `StreamImplemented`. Messages are numbered by `Write`; the key
  (`StreamIsWhole`) is that the position of a message in the two buffers is its number
  less what the client has, so that what is sent next is what comes next. It rests on what
  the write state says of the handlers that are to come (`StateIsNext`), on a pending write
  staying inside its buffer (`WritesAreParts`), and on a forced write being alone
  (`ForcedIsFirst`). That each step is one of `MessageStream` follows from the order in the
  next state (`StreamInOrder`): what the client has grows, and stays a beginning of what was written.
* **ChatProofs** (any connections, accounts, threads, rooms and ids): `TypeCorrect`,
  `RoomsReachTheLiving`. The second says `MembersAreLive` of all pairs that are not `torn`, in
  all rooms that are not `spoiled`: the member lives, is listed under its account, and has
  the room, so that `~Player` will find it. It is not inductive, because with one write per
  step the room and the player disagree in the middle of each call. What holds there: who is
  brought into a room has it already and is not leaving (`JoinersStay`, `JoinersHave`), who
  is leaving is out of the room (`LeaversAreOut`), and what `~Player` has still to leave is
  every room that holds the player (`TodoIsComplete`). `Objects` says what objects and calls
  are: a player has a room by its id (`RoomsKeepIds`), the calls are about rooms in use
  (`JobsAreSound`), `Update` deletes what the manager has (`DeletingIsKnown`), and two rooms
  that go by one id at a time are spoiled (`TwinsAreSpoiled`).
* **QuestsProofs** (any quests, conditions and crashes): `TypeCorrect`, `PaidOnlyFulfilled`,
  `QuestsRewardOnce`, `RewardsImplemented`, `OrderIsKept`. The rows are behind the memory, condition by
  condition (`RowsAreBehind`), the memory is behind what happened (`Counted`), and the
  reward in memory and in the table is one of a few pairs for each state of the rows
  (`RewardIsOne`). From it the steps of `Rewards` follow: finishing a quest is earning, the
  first statement of its saving the promise, a save of the player paying all promises, since
  no handler saves while another one finishes a quest; a logout is a stutter because it
  begins with a save.

Assumptions on the constants are of the kind "the null value is none of the objects" and
"each quest template has a condition"; the runs evaluate them.

**Only model-checked**: all liveness (`WaitsEnd`, `PoolProgress`, `CallsReturn`,
`PoppedTasksEnd`, `DisconnectedLeaves`, `LoginReachesMap`, `FlushesOut`, `ClosingEnds`,
`DisconnectedLeave`, `ClosedRoomsGo`), since TLAPS has no rules for fairness (of two of
them the safety half is proved: that whoever waits can be woken, or gets a connection);
of the safety properties `OpenRoomsHaveOwners` and `AloneIsHeard` of the chat, which need
the table of the rooms and the owners besides the invariant of `ChatProofs`; and the
violations. Every other safety property of a passing run is a theorem.

## 6. Not modelled

* The listener: accepting is boost's, and the choice of a network thread does not change
  what the socket does afterwards.
* The rest of the player data (experience, boosters, laboratory, inventory, drones) and the
  web requests about them: amounts, rows and packets, one field at a time.
* Mobs as members of surroundings, and players in the radiation zone, in `Surroundings`; the
  movement of mobs other than their choice of a target.
* Movement along a spline (floating-point), portals and stations (static), packets and
  opcodes (formatting without state), the commands of the game masters (a table of calls),
  tables of game data (read only after the start), clans, the policy server (one answer, by a
  `Socket`), configuration, logger and clocks.
* Asynchronous queries: nothing in the repository queues one.
* Data races as such: two unsynchronised accesses are steps in some order here. Where the
  outcome of a race is beyond that (a container changed by two threads), the hazard says so.
* The JSON library (`src/dep`) is third-party code.

## 7. What is left

1. Mobs and the radiation zone in `Surroundings`, as one module with `MapGrid` on the same
   objects, so that `PlayerIsServed` is used and not assumed.
2. A composition of `Session` and `Surroundings` on one Player object: the world frees
   between the ticks what `Session` says it frees, instead of any player.
3. The boosters and the laboratory, memory against rows, in the manner of `Quests`.
4. Further promises as abstract specifications with proofs of refinement: rooms with
   their members above `Chat`, the place of each object above `MapGrid`.
