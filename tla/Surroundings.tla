---------------------------- MODULE Surroundings ----------------------------
(***************************************************************************)
(* The tick of the maps as the objects of the cells see it: Base::Update   *)
(* goes through the pools, the jump queue and the cells in turn, a cell    *)
(* builds the surroundings of its players, frees what is scheduled for     *)
(* deletion and then updates a copy of its objects.  Boxes, ores and mines *)
(* are freed there while plain pointers to them are kept by the pool, by   *)
(* the surroundings of the players and by the copies.                      *)
(*                                                                         *)
(* Each map is updated by a thread of its own.  Players log in and are     *)
(* freed between the ticks (modules Session and ZoneUpdater).  Positions   *)
(* are cells: what the radiation zone does to the grids is module MapGrid. *)
(* Distances, timers, hit points and cargo are choices.  A mob is seen     *)
(* only by what it does: it kills.                                         *)
(*                                                                         *)
(* Code that follows a pointer to a freed object brings the server down or *)
(* finds the object as it was left.                                        *)
(***************************************************************************)
EXTENDS Naturals, FiniteSets

CONSTANTS Players,   \* the Player objects of one run of the server
          Boxes, Ores, Mines,
          Maps,
          LastCell,  \* the cells of a map, in the order of its loops
          MaxThings, \* bound on the boxes, ores and mines there ever are
          MaxEvents, \* bound on packets, kills and logouts
          Null

Cells   == 0..LastCell
Objects == Players \cup Boxes \cup Ores \cup Mines

ASSUME SurroundingsAssumption ==
    /\ LastCell \in Nat /\ MaxThings \in Nat /\ MaxEvents \in Nat
    /\ Players \cap (Boxes \cup Ores \cup Mines) = {}
    /\ Boxes \cap Mines = {} /\ Ores \cap Mines = {}
    /\ Null \notin Objects
    /\ Null \notin Maps \X Cells
    /\ Null \notin Maps \X Maps

VARIABLES
    place,      \* the map and the cell that hold the object, Null in none
    death,      \* Unit::m_DeathState of the players
    near,       \* Player::m_Surroundings
    jump,       \* m_PlayersToJump: the map of the queue and the map to go to
    owner,      \* Mine::m_Owner
    scheduled,  \* Object::m_ScheduleForDelete
    freed,      \* the objects that are deleted
    pool,       \* the bonus boxes and ores of PoolManager::m_Pool, per map
    at,         \* where each map is in its tick; "down" when the server is
    cell,       \* the cell its loop is at
    loop,       \* l_Copy of Grid::Update: what is left to update
    who,        \* the player whose packets are handled
    events      \* how many packets, kills and logouts there were

bodies  == <<place, death, near, owner, scheduled, freed>>
clock   == <<at, cell, loop, who>>
mapVars == <<bodies, jump, pool, clock, events>>

MapTypeOK ==
    /\ place \in [Objects -> (Maps \X Cells) \cup {Null}]
    /\ death \in [Players -> {"ALIVE", "JUST_DIED", "DEAD"}]
    /\ near \in [Players -> SUBSET Objects]
    /\ jump \in [Players -> (Maps \X Maps) \cup {Null}]
    /\ owner \in [Mines -> Players \cup {Null}]
    /\ scheduled \subseteq Objects \ Players
    /\ freed \subseteq Objects
    /\ pool \in [Maps -> SUBSET (Boxes \cup Ores)]
    /\ at \in [Maps -> {"done", "pools", "jumps", "head", "loop", "down"}]
    /\ cell \in [Maps -> Cells]
    /\ loop \in [Maps -> SUBSET Objects]
    /\ who \in [Maps -> Players \cup {Null}]
    /\ events \in 0..MaxEvents

-----------------------------------------------------------------------------
In(m, c) == {x \in Objects : place[x] = <<m, c>>}
On(m)    == {x \in Objects : place[x] # Null /\ place[x][1] = m}

Things   == Boxes \cup Ores \cup Mines
Born     == {x \in Things : place[x] # Null \/ x \in freed}

(* GetNearbyGrids; the cells of the model are one row of the map.          *)
Nearby(c) == {d \in Cells : d <= c + 1 /\ c <= d + 1}

(* Map::Remove: every player in the cells of the map forgets the objects.  *)
Forget(m, X) ==
    [p \in Players |-> IF p \in On(m) THEN near[p] \ X ELSE near[p]]

\* Slip: the box is added to the map and not to its pool.
KillUnpooled(m, V, B, drop) ==
    /\ death' = [p \in Players |-> IF p \in V THEN "JUST_DIED" ELSE death[p]]
    /\ place' = [x \in Objects |-> IF x \in B THEN place[drop[x]] ELSE place[x]]
    /\ UNCHANGED pool

(* Unit::Kill, whoever kills: the victims V die, whatever their death was, *)
(* and drop cargo boxes B, which go to the map and to its pool.            *)
Kill(m, V, B, drop) ==
    /\ death' = [p \in Players |-> IF p \in V THEN "JUST_DIED" ELSE death[p]]
    /\ place' = [x \in Objects |-> IF x \in B THEN place[drop[x]] ELSE place[x]]
    /\ pool' = [pool EXCEPT ![m] = @ \cup B]

Killing(m, V) ==
    \E B \in SUBSET (Boxes \ Born) : \E drop \in [B -> V] :
        /\ Cardinality(B \cup Born) <= MaxThings
        /\ Kill(m, V, B, drop)

Victims(m) == {p \in Players \cap On(m) : death[p] # "DEAD"}

-----------------------------------------------------------------------------
(* Map::Load fills the pools, by chance.  MaxThings leaves room for a box  *)
(* or a mine that comes later.                                             *)
MapInit ==
    /\ place \in [Objects -> (Maps \X Cells) \cup {Null}]
    /\ \A x \in Players \cup Mines : place[x] = Null
    /\ Cardinality({x \in Things : place[x] # Null}) < MaxThings
    /\ death = [p \in Players |-> "ALIVE"]
    /\ near = [p \in Players |-> {}]
    /\ jump = [p \in Players |-> Null]
    /\ owner = [x \in Mines |-> Null]
    /\ scheduled = {} /\ freed = {}
    /\ pool = [m \in Maps |-> (Boxes \cup Ores) \cap On(m)]
    /\ at = [m \in Maps |-> "done"]
    /\ cell = [m \in Maps |-> 0]
    /\ loop = [m \in Maps |-> {}]
    /\ who = [m \in Maps |-> Null]
    /\ events = 0

Between == \A m \in Maps : at[m] = "done"

(* GameSocket::HandleLogin: Map::Add.                                      *)
Login(p, m, c) ==
    /\ Between /\ p \notin freed /\ place[p] = Null /\ death[p] = "ALIVE"
    /\ place' = [place EXCEPT ![p] = <<m, c>>]
    /\ UNCHANGED <<death, near, owner, scheduled, freed, jump, pool, clock>>

(* The destructor of a player, from World::Update: out of its map.         *)
Delete(p) ==
    /\ Between /\ p \notin freed
    /\ place[p] # Null \/ death[p] = "DEAD"
    /\ freed' = freed \cup {p}
    /\ near' = IF place[p] = Null THEN near ELSE Forget(place[p][1], {p})
    /\ place' = [place EXCEPT ![p] = Null]
    /\ UNCHANGED <<death, owner, scheduled, jump, pool, clock>>

BeginTick ==
    /\ Between
    /\ at' = [m \in Maps |-> "pools"]
    /\ UNCHANGED <<bodies, jump, pool, cell, loop, who>>

(* PoolManager::Update: the pools let go of what is scheduled.             *)
UpdatePools(m) ==
    /\ at[m] = "pools"
    /\ pool' = [pool EXCEPT ![m] = @ \ scheduled]
    /\ at' = [at EXCEPT ![m] = "jumps"]
    /\ UNCHANGED <<bodies, jump, cell, loop, who>>

\* Slip: the player that jumps keeps its surroundings.
ProcessJumpKeeps(m, p, c) ==
    /\ at[m] = "jumps"
    /\ jump[p] # Null /\ p \notin freed /\ jump[p][1] = m
    /\ near' = Forget(m, {p})
    /\ place' = [place EXCEPT ![p] = <<jump[p][2], c>>]
    /\ jump' = [jump EXCEPT ![p] = Null]
    /\ UNCHANGED <<death, owner, scheduled, freed, pool, clock>>

(* Map::ProcessJumpQueue for a player whose timer has passed: out of the   *)
(* map, ClearSurroundings, and into the other map.                         *)
ProcessJump(m, p, c) ==
    /\ at[m] = "jumps"
    /\ jump[p] # Null /\ p \notin freed /\ jump[p][1] = m
    /\ near' = [Forget(m, {p}) EXCEPT ![p] = {}]
    /\ place' = [place EXCEPT ![p] = <<jump[p][2], c>>]
    /\ jump' = [jump EXCEPT ![p] = Null]
    /\ UNCHANGED <<death, owner, scheduled, freed, pool, clock>>

(* One map at a time is in its cells and none while another is at its      *)
(* pools: what one does there touches nothing of the other, so that they   *)
(* commute.  The jumps, which do, come anywhere in between.                *)
JumpsDone(m) ==
    /\ at[m] = "jumps"
    /\ \A n \in Maps : at[n] \in {"jumps", "done"}
    /\ at' = [at EXCEPT ![m] = "head"]
    /\ cell' = [cell EXCEPT ![m] = 0]
    /\ UNCHANGED <<bodies, jump, pool, loop, who>>

NextCell(m) ==
    IF cell[m] = LastCell
    THEN at' = [at EXCEPT ![m] = "done"] /\ UNCHANGED cell
    ELSE at' = [at EXCEPT ![m] = "head"] /\ cell' = [cell EXCEPT ![m] = @ + 1]

(* A cell may be idle when it has no players, and never when it has some   *)
(* (PlayerIsServed of module MapGrid).                                     *)
GridSkips(m) ==
    /\ at[m] = "head" /\ Players \cap In(m, cell[m]) = {}
    /\ NextCell(m)
    /\ UNCHANGED <<bodies, jump, pool, loop, who>>

(* CheckForScheduleForDeletion: what a cell deletes.                       *)
Expired(m) == scheduled \cap In(m, cell[m])

(* Grid::Update up to its loop: BuildSurroundingObjects adds what a player *)
(* of the cell comes to see in the cells nearby, and never the dead; what  *)
(* is scheduled for deletion is deleted, by a destructor that calls        *)
(* Map::Remove; the copy.                                                  *)
GridHead(m) ==
    LET players == Players \cap On(m)
        here    == Players \cap In(m, cell[m])
        visible == UNION {In(m, d) : d \in Nearby(cell[m])}
                     \ {p \in Players : death[p] = "DEAD"}
        sights  == {px \in here \X visible : px[2] \notin near[px[1]] \cup {px[1]}}
    IN
    /\ at[m] = "head"
    /\ \E seen \in SUBSET sights :
          near' = [p \in Players |->
                     (near[p] \cup {x \in visible : <<p, x>> \in seen})
                        \ (IF p \in players THEN Expired(m) ELSE {})]
    /\ freed' = freed \cup Expired(m)
    /\ place' = [x \in Objects |-> IF x \in Expired(m) THEN Null ELSE place[x]]
    /\ loop' = [loop EXCEPT ![m] = In(m, cell[m]) \ Expired(m)]
    /\ at' = [at EXCEPT ![m] = "loop"]
    /\ UNCHANGED <<death, owner, scheduled, jump, pool, cell, who>>

(* The loop of Grid::Update takes the objects of its copy in any order.    *)
Takes(m, x) ==
    /\ at[m] = "loop" /\ who[m] = Null
    /\ x \in loop[m]
    /\ loop' = [loop EXCEPT ![m] = @ \ {x}]
    /\ UNCHANGED <<at, cell>>

BeginPlayer(m, p) ==
    /\ Takes(m, p)
    /\ who' = [who EXCEPT ![m] = p]
    /\ UNCHANGED <<bodies, jump, pool>>

-----------------------------------------------------------------------------
(* The packets of the player p whose turn it is on map m.                  *)

(* HandleObjectMove, and the movement that follows: into any cell.         *)
Move(m, p, c) ==
    /\ who[m] = p
    /\ place' = [place EXCEPT ![p] = <<m, c>>]
    /\ UNCHANGED <<death, near, owner, scheduled, freed, jump, pool, clock>>

\* Slip: the box that is emptied is deleted at once.
LootCargoDeletes(m, p, b) ==
    /\ who[m] = p /\ place[b] = place[p]
    /\ freed' = freed \cup {b}
    /\ near' = Forget(m, {b})
    /\ place' = [place EXCEPT ![b] = Null]
    /\ UNCHANGED <<death, owner, scheduled, jump, pool, clock>>

(* HandleLootCargo and BonusBox::RewardCredit of a box in the cell of the  *)
(* player that leaves it empty.  A box that is scheduled is still found.   *)
LootCargo(m, p, b) ==
    /\ who[m] = p /\ place[b] = place[p]
    /\ scheduled' = scheduled \cup {b}
    /\ UNCHANGED <<place, death, near, owner, freed, jump, pool, clock>>

(* HandleLootOre and Ore::RewardCredit: FindObject goes over all cells.    *)
LootOre(m, p, o) ==
    /\ who[m] = p /\ o \in On(m)
    /\ scheduled' = scheduled \cup {o}
    /\ UNCHANGED <<place, death, near, owner, freed, jump, pool, clock>>

(* HandleChangeMisc, a mine or a smart bomb: Map::Add where the player is. *)
DropMine(m, p, x) ==
    /\ who[m] = p /\ x \notin Born /\ Cardinality(Born) < MaxThings
    /\ place' = [place EXCEPT ![x] = place[p]]
    /\ owner' = [owner EXCEPT ![x] = p]
    /\ UNCHANGED <<death, near, scheduled, freed, jump, pool, clock>>

(* HandleInitializeOpponent adds whatever object the client names, which   *)
(* may be the player itself or a dead one.                                 *)
InitializeOpponent(m, p, x) ==
    /\ who[m] = p /\ x \in On(m)
    /\ near' = [near EXCEPT ![p] = @ \cup {x}]
    /\ UNCHANGED <<place, death, owner, scheduled, freed, jump, pool, clock>>

(* AddToJumpQueue from a portal or a jump chip.                            *)
AddToJumpQueue(m, p, to) ==
    /\ who[m] = p /\ jump[p] = Null
    /\ jump' = [jump EXCEPT ![p] = <<m, to>>]
    /\ UNCHANGED <<bodies, pool, clock>>

-----------------------------------------------------------------------------
(* Player::Update of a player that is alive: UpdateSurroundings drops what *)
(* is out of sight and always the dead.  Its attack is in UnitKills.       *)
UpdateAlive(m, p) ==
    /\ who[m] = p /\ death[p] = "ALIVE"
    /\ \E kept \in SUBSET (near[p] \ {q \in Players : death[q] = "DEAD"}) :
          near' = [near EXCEPT ![p] = kept]
    /\ who' = [who EXCEPT ![m] = Null]
    /\ UNCHANGED <<place, death, owner, scheduled, freed, jump, pool, at, cell, loop>>

(* Player::Update of one that has just died takes it out of its map and    *)
(* leaves its own surroundings alone.                                      *)
UpdateJustDied(m, p) ==
    /\ who[m] = p /\ death[p] = "JUST_DIED"
    /\ death' = [death EXCEPT ![p] = "DEAD"]
    /\ near' = Forget(m, {p})
    /\ place' = [place EXCEPT ![p] = Null]
    /\ who' = [who EXCEPT ![m] = Null]
    /\ UNCHANGED <<owner, scheduled, freed, jump, pool, at, cell, loop>>

UpdateDead(m, p) ==
    /\ who[m] = p /\ death[p] = "DEAD"
    /\ who' = [who EXCEPT ![m] = Null]
    /\ UNCHANGED <<bodies, jump, pool, at, cell, loop>>

(* Mine::Explode hits the players of the cell but its owner, and the mine  *)
(* is scheduled for deletion.                                              *)
Explode(m, x) ==
    /\ Takes(m, x)
    /\ \E V \in SUBSET ((Players \cap In(m, cell[m])) \ {owner[x]}) : Killing(m, V)
    /\ scheduled' = scheduled \cup {x}
    /\ UNCHANGED <<near, owner, freed, jump, who>>

(* Mine::Update while the timer of the mine runs.                          *)
Tick(m, x) ==
    /\ Takes(m, x)
    /\ UNCHANGED <<bodies, jump, pool, who>>

(* Unit::Update, the last thing that Mob::Update and Player::Update do for *)
(* one that is alive, may kill its target.                                 *)
UnitKills(m, v) ==
    /\ at[m] = "loop" /\ who[m] = Null
    /\ Killing(m, {v})
    /\ UNCHANGED <<near, owner, scheduled, freed, jump, clock>>

(* Only boxes and ores are left, whose update changes nothing here.        *)
EndOfLoop(m) ==
    /\ at[m] = "loop" /\ who[m] = Null
    /\ loop[m] \cap (Players \cup Mines) = {}
    /\ loop' = [loop EXCEPT ![m] = {}]
    /\ NextCell(m)
    /\ UNCHANGED <<bodies, jump, pool, who>>

(* The next thing the thread of map m reads is a freed object: one of a    *)
(* pool, a player that waits for its jump, an object of the surroundings   *)
(* that are cleared or updated, the owner of a mine.                       *)
FollowsFreed(m) ==
    /\ \/ at[m] = "pools" /\ pool[m] \cap freed # {}
       \/ \E p \in Players : /\ at[m] = "jumps" /\ jump[p] # Null
                             /\ jump[p][1] = m
                             /\ ({p} \cup near[p]) \cap freed # {}
       \/ \E p \in Players : /\ who[m] = p /\ death[p] = "ALIVE"
                             /\ near[p] \cap freed # {}
       \/ who[m] = Null /\ \E x \in loop[m] \cap Mines : owner[x] \in freed
    /\ at' = [n \in Maps |-> "down"]
    /\ UNCHANGED <<bodies, jump, pool, cell, loop, who>>

Packet(m, p) ==
    /\ at[m] # "down"
    /\ \/ \E c \in Cells : Move(m, p, c)
       \/ \E b \in Boxes : LootCargo(m, p, b)
       \/ \E o \in Ores : LootOre(m, p, o)
       \/ \E x \in Mines : DropMine(m, p, x)
       \/ \E x \in Objects : InitializeOpponent(m, p, x)
       \/ \E to \in Maps : AddToJumpQueue(m, p, to)

UpdatePlayer(m, p) ==
    /\ at[m] # "down"
    /\ UpdateAlive(m, p) \/ UpdateJustDied(m, p) \/ UpdateDead(m, p)

(* What the thread of map m does whatever the clients do.                  *)
Step(m) ==
    /\ \/ UpdatePools(m) \/ JumpsDone(m)
       \/ GridSkips(m) \/ GridHead(m) \/ EndOfLoop(m)
       \/ \E p \in Players : BeginPlayer(m, p) \/ UpdatePlayer(m, p)
       \/ \E x \in Mines : Explode(m, x) \/ Tick(m, x)
    /\ UNCHANGED events

StartTick == BeginTick /\ UNCHANGED events

(* What is bounded by MaxEvents.                                           *)
Event ==
    /\ events < MaxEvents
    /\ events' = events + 1
    /\ \/ \E p \in Players : Delete(p)
       \/ \E m \in Maps, p \in Players : Packet(m, p)
       \/ \E m \in Maps : \E v \in Victims(m) : UnitKills(m, v)

MapNext ==
    \/ \E m \in Maps : Step(m)
    \/ StartTick
    \/ Event
    \/ /\ \/ \E p \in Players, m \in Maps, c \in Cells :
                Login(p, m, c) \/ ProcessJump(m, p, c)
          \/ \E m \in Maps : FollowsFreed(m)
       /\ UNCHANGED events

MapSpec == MapInit /\ [][MapNext]_mapVars

-----------------------------------------------------------------------------
(* The surroundings of a player that is on a map hold nothing but objects  *)
(* that are on the same map: whoever leaves it, by a jump, a death, a      *)
(* logout, or because it was looted or has exploded, leaves them too, and  *)
(* who comes to another map has left its surroundings behind.              *)
SurroundingsAreHere ==
    \A m \in Maps : \A p \in Players \cap On(m) : near[p] \subseteq On(m)

(* The pool of a map and its cells agree on the boxes and ores that nobody *)
(* has looted, so that what is pooled and not scheduled is never freed.    *)
PoolAgrees ==
    \A m \in Maps : pool[m] \ scheduled = (On(m) \cap (Boxes \cup Ores)) \ scheduled

(* The copy that Grid::Update goes through holds raw pointers.  Nothing    *)
(* that it has still to update is freed by the packets, the explosions and *)
(* the jumps in between, whichever map they are on; and no mine that has   *)
(* exploded is updated again.                                              *)
LoopIsLive ==
    \A m \in Maps :
        /\ (loop[m] \cup {who[m]}) \cap freed = {}
        /\ loop[m] \cap Mines \cap scheduled = {}
=============================================================================
