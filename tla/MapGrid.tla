------------------------------ MODULE MapGrid ------------------------------
(***************************************************************************)
(* Where the objects of the world are: Map::Base, Map::Grid and the calls  *)
(* of Map::Manager, Player::Update, Mob::Update and World::Base that put   *)
(* an object into a map, move it between the cells of the map, take it to  *)
(* another map and take it out again.                                      *)
(*                                                                         *)
(* A map is a square of cells, each a Grid, surrounded by one more Grid,   *)
(* the radiation zone.  An object remembers the cell it was last put into  *)
(* (m_GridIndex) and whether it is outside (m_InRadiationZone); the grids  *)
(* remember their objects.  Nothing else ties the three together.          *)
(*                                                                         *)
(* The spline of an object changes its position only in Spline::Move,      *)
(* which calls Map::Move at once, so a position is a parameter of Move.    *)
(***************************************************************************)
EXTENDS Naturals, FiniteSets

CONSTANTS Players,    \* the Player objects of one run of the server
          Mobs,
          Maps,
          Cells,      \* the normal grids of a map
          Radiation,  \* the grid outside of the cells
          Positions,  \* the grids a position can fall into
          NoMap,      \* m_Map = nullptr
          NoJump      \* not in the jump queue

Objects == Players \cup Mobs
Grids   == Cells \cup {Radiation}

ASSUME GridAssumption ==
    /\ Radiation \notin Cells
    /\ Positions \subseteq Grids
    /\ NoMap \notin Maps
    /\ NoJump \notin Maps \X Cells
    /\ Players \cap Mobs = {}

VARIABLES
    map,        \* Object::m_Map
    index,      \* Object::m_GridIndex, Radiation for any index outside of the cells
    radiation,  \* Unit::m_InRadiationZone
    death,      \* Unit::m_DeathState
    jump,       \* m_PlayersToJump: the destination of each waiting player
    objects,    \* m_Objects of every grid, as triples <<map, grid, object>>
    players,    \* m_Players of every grid
    active,     \* the grids whose m_State is Active
    onMap,      \* auxiliary: objects whose last map call was Add, not Remove
    strayed,    \* auxiliary: objects that have been outside of the cells
    deleted,    \* auxiliary: players whose object is freed
    wild        \* auxiliary: objects for which m_Grids was read out of its bounds

vars == <<map, index, radiation, death, jump, objects, players, active,
          onMap, strayed, deleted, wild>>

TypeOK ==
    /\ map \in [Objects -> Maps \cup {NoMap}]
    /\ index \in [Objects -> Grids]
    /\ radiation \in [Objects -> BOOLEAN]
    /\ death \in [Objects -> {"ALIVE", "JUST_DIED", "DEAD"}]
    /\ jump \in [Players -> (Maps \X Cells) \cup {NoJump}]
    /\ objects \subseteq Maps \X Grids \X Objects
    /\ players \subseteq Maps \X Grids \X Players
    /\ active \subseteq Maps \X Grids
    /\ onMap \subseteq Objects
    /\ strayed \subseteq Objects
    /\ deleted \subseteq Players
    /\ wild \subseteq Objects

-----------------------------------------------------------------------------
(* Grid::Remove from the grids of "from" and Grid::Add to those of "to";   *)
(* a player wakes the grid it enters.                                      *)
Regrid(o, from, to) ==
    LET In(S) == {<<mg[1], mg[2], o>> : mg \in S} IN
    /\ objects' = (objects \ In(from)) \cup In(to)
    /\ IF o \in Players
       THEN /\ players' = (players \ In(from)) \cup In(to)
            /\ active' = active \cup to
       ELSE UNCHANGED <<players, active>>

(* SendPacketToNearByGridsIfInSurrounding for an object of index i reads   *)
(* the grid at i and those around it out of m_Grids, unless the object is  *)
(* a player in the radiation zone; only the read at i is not guarded.  A   *)
(* read out of bounds may crash or yield another grid: the packet changes  *)
(* nothing here, so the model goes on and remembers the read.              *)
SendNearBy(o, i, outside) ==
    wild' = IF i = Radiation /\ ~(o \in Players /\ outside)
            THEN wild \cup {o} ELSE wild

Stray(o, g) == strayed' = IF g = Radiation THEN strayed \cup {o} ELSE strayed

-----------------------------------------------------------------------------
(* Map::Load puts the mobs into cells; nobody is logged in.                *)
Init ==
    \E home \in [Mobs -> Maps \X Cells] :
        /\ map = [o \in Objects |-> IF o \in Mobs THEN home[o][1] ELSE NoMap]
        /\ index \in [Objects -> Cells]
        /\ \A o \in Mobs : index[o] = home[o][2]
        /\ radiation = [o \in Objects |-> FALSE]
        /\ death = [o \in Objects |-> "ALIVE"]
        /\ jump = [p \in Players |-> NoJump]
        /\ objects = {<<home[o][1], home[o][2], o>> : o \in Mobs}
        /\ players = {} /\ active = {}
        /\ onMap = Mobs /\ strayed = {} /\ deleted = {} /\ wild = {}

(* A grid is updated when a player woke it; the radiation grid always is.  *)
Updated(o) ==
    \E m \in Maps, g \in Grids :
        /\ <<m, g, o>> \in objects
        /\ g = Radiation \/ <<m, g>> \in active

(* Map::Add for an object whose position falls into grid g; "from" are the *)
(* grids it has just been removed from.                                    *)
Add(o, from, m, g) ==
    /\ index' = [index EXCEPT ![o] = g]
    /\ radiation' = [radiation EXCEPT ![o] = @ \/ g = Radiation]
    /\ Regrid(o, from, {<<m, g>>})
    /\ onMap' = onMap \cup {o}

(* GameSocket::HandleLogin of a loaded player: Map::Add at its position,   *)
(* which the database may have kept from the radiation zone.               *)
HandleLogin(p, m, g) ==
    /\ map[p] = NoMap /\ p \notin deleted
    /\ map' = [map EXCEPT ![p] = m]
    /\ Add(p, {}, m, g)
    /\ Stray(p, g)
    /\ UNCHANGED <<death, jump, deleted, wild>>

(* Map::Move of an object whose position left the cells.                   *)
MoveOut(o) ==
    /\ radiation' = [radiation EXCEPT ![o] = TRUE]
    /\ IF radiation[o]
       THEN UNCHANGED <<objects, players, active>>
       ELSE Regrid(o, {<<map[o], index[o]>>}, {<<map[o], Radiation>>})
    /\ UNCHANGED index

\* Slip: who comes back leaves the radiation grid but enters only a new cell.
MoveInLeaves(o, c) ==
    /\ radiation' = [radiation EXCEPT ![o] = FALSE]
    /\ index' = [index EXCEPT ![o] = c]
    /\ Regrid(o, IF radiation[o] THEN {<<map[o], Radiation>>}
                 ELSE IF c = index[o] THEN {} ELSE {<<map[o], index[o]>>},
                 IF c = index[o] THEN {} ELSE {<<map[o], c>>})

(* Map::Move of an object whose position is in cell c: only a new cell     *)
(* moves it, and it leaves the radiation grid or its old cell.             *)
MoveIn(o, c) ==
    /\ radiation' = [radiation EXCEPT ![o] = FALSE]
    /\ index' = [index EXCEPT ![o] = c]
    /\ IF c = index[o]
       THEN UNCHANGED <<objects, players, active>>
       ELSE Regrid(o, {<<map[o], IF radiation[o] THEN Radiation ELSE index[o]>>},
                      {<<map[o], c>>})

(* Spline::Move, from a packet of a player or from Mob::UpdateMovement.    *)
(* Packets of a dead player that is still in a grid are processed as well. *)
(* The move is then told to the grids around the index (Grid::Move).       *)
Move(o, g) ==
    /\ Updated(o) /\ o \notin deleted
    /\ o \in Mobs => death[o] = "ALIVE"
    /\ IF g = Radiation THEN MoveOut(o) ELSE MoveIn(o, g)
    /\ SendNearBy(o, index'[o], radiation'[o])
    /\ Stray(o, g)
    /\ UNCHANGED <<map, death, jump, onMap, deleted>>

(* Unit::Kill, by whoever attacks it, with a packet in the name of the     *)
(* killed.  The shots before it send theirs the same way.                  *)
Kill(o) ==
    /\ o \in onMap /\ death[o] = "ALIVE"
    /\ death' = [death EXCEPT ![o] = "JUST_DIED"]
    /\ SendNearBy(o, index[o], radiation[o])
    /\ UNCHANGED <<map, index, radiation, jump, objects, players, active,
                   onMap, strayed, deleted>>

(* Map::Remove looks only at the remembered index.                         *)
Remove(o) ==
    /\ Regrid(o, {<<map[o], index[o]>>}, {})
    /\ onMap' = onMap \ {o}

(* Mob::Update and Player::Update of an object that has just died.         *)
UpdateJustDied(o) ==
    /\ Updated(o) /\ o \notin deleted
    /\ death[o] = "JUST_DIED"
    /\ death' = [death EXCEPT ![o] = "DEAD"]
    /\ Remove(o)
    /\ UNCHANGED <<map, index, radiation, jump, strayed, deleted, wild>>

(* Mob::Update of a dead mob whose respawn timer has passed: Map::Add at   *)
(* the position where it died, which Kill has brought up to date.          *)
UpdateRespawn(o, g) ==
    /\ Updated(o)
    /\ death[o] = "DEAD"
    /\ death' = [death EXCEPT ![o] = "ALIVE"]
    /\ Add(o, {}, map[o], g)
    /\ Stray(o, g)
    /\ UNCHANGED <<map, jump, deleted, wild>>

(* Map::AddToJumpQueue from a portal, a jump chip or a command.            *)
AddToJumpQueue(p, m, c) ==
    /\ Updated(p) /\ p \notin deleted
    /\ jump[p] = NoJump
    /\ jump' = [jump EXCEPT ![p] = <<m, c>>]
    /\ UNCHANGED <<map, index, radiation, death, objects, players, active,
                   onMap, strayed, deleted, wild>>

\* Slip: the new map is assigned before the player leaves the old one.
ProcessJumpQueueMapFirst(p) ==
    /\ jump[p] # NoJump /\ p \notin deleted
    /\ jump' = [jump EXCEPT ![p] = NoJump]
    /\ map' = [map EXCEPT ![p] = jump[p][1]]
    /\ Add(p, {<<jump[p][1], index[p]>>}, jump[p][1], jump[p][2])
    /\ SendNearBy(p, index[p], radiation[p])
    /\ UNCHANGED <<death, strayed, deleted>>

(* Map::ProcessJumpQueue for a player whose timer has passed: out of the   *)
(* old map with a packet, SetMap, SetPosition, and into the new one.       *)
ProcessJumpQueue(p) ==
    /\ jump[p] # NoJump /\ p \notin deleted
    /\ jump' = [jump EXCEPT ![p] = NoJump]
    /\ map' = [map EXCEPT ![p] = jump[p][1]]
    /\ Add(p, {<<map[p], index[p]>>}, jump[p][1], jump[p][2])
    /\ SendNearBy(p, index[p], radiation[p])
    /\ UNCHANGED <<death, strayed, deleted>>

(* World::RemovePlayer or ProcessPlayer frees the object; the destructor   *)
(* calls CleanupsBeforeDelete, which takes it out of its map.              *)
Delete(p) ==
    /\ map[p] # NoMap
    /\ deleted' = deleted \cup {p}
    /\ map' = [map EXCEPT ![p] = NoMap]
    /\ Remove(p)
    /\ SendNearBy(p, index[p], radiation[p])
    /\ UNCHANGED <<index, radiation, death, jump, strayed>>

(* Grid::CheckForPlayer, when its interval has passed.                     *)
CheckForPlayer(m, g) ==
    /\ <<m, g>> \in active
    /\ ~ \E p \in Players : <<m, g, p>> \in players
    /\ active' = active \ {<<m, g>>}
    /\ UNCHANGED <<map, index, radiation, death, jump, objects, players,
                   onMap, strayed, deleted, wild>>

Next ==
    \/ \E p \in Players, m \in Maps, g \in Positions : HandleLogin(p, m, g)
    \/ \E o \in Objects, g \in Positions : Move(o, g)
    \/ \E o \in Objects : Kill(o)
    \/ \E o \in Objects : UpdateJustDied(o)
    \/ \E o \in Mobs, g \in Positions : UpdateRespawn(o, g)
    \/ \E p \in Players, m \in Maps, c \in Cells : AddToJumpQueue(p, m, c)
    \/ \E p \in Players : ProcessJumpQueue(p)
    \/ \E p \in Players : Delete(p)
    \/ \E m \in Maps, g \in Grids : CheckForPlayer(m, g)

(* The zone threads update the maps for ever (module ZoneUpdater).         *)
Fairness ==
    /\ \A o \in Objects : WF_vars(UpdateJustDied(o))
    /\ \A o \in Mobs : WF_vars(\E g \in Positions : UpdateRespawn(o, g))
    /\ \A p \in Players : WF_vars(ProcessJumpQueue(p))

Spec == Init /\ [][Next]_vars
FairSpec == Spec /\ Fairness

-----------------------------------------------------------------------------
Where(o) == {mg \in Maps \X Grids : <<mg[1], mg[2], o>> \in objects}

(* An object that never left the cells is, while it is on a map, in the    *)
(* one grid its m_GridIndex names and in no other of any map, and          *)
(* afterwards in none: through moves, deaths, jumps and logouts.           *)
ExactlyWhereItIs ==
    \A o \in Objects \ strayed :
        Where(o) = IF o \in onMap THEN {<<map[o], index[o]>>} ELSE {}

(* The two sets of a grid agree: m_Players holds the players of m_Objects. *)
PlayersAgree == players = {t \in objects : t[3] \in Players}

(* "Grid is in Idle mode, there's no players" (Grid.hpp): a grid that is   *)
(* not updated holds no player.                                            *)
IdleHasNoPlayers ==
    \A t \in players : <<t[1], t[2]>> \in active

(* A player on a map is in a grid that is updated, wherever its moves,     *)
(* deaths and jumps took it; otherwise no packet of it would be handled    *)
(* any more, not even its logout.                                          *)
PlayerIsServed == \A p \in Players \cap onMap : Updated(p)

(* Map::Move takes the grid at m_GridIndex out of m_Grids only for an      *)
(* object that is not in the radiation zone: the index is then a cell.     *)
MoveLeavesACell == \A o \in Objects : ~radiation[o] => index[o] \in Cells

(* A packet reads m_Grids out of its bounds for no player, and for no mob  *)
(* that stayed in the cells.                                               *)
WildReadsAreOfMobs == wild \subseteq Mobs \cap strayed

(* The index of an object leads Map::Move and Map::Remove to the grid that *)
(* holds it, if it stayed in the cells, and Map::Move to a grid of the     *)
(* array for anybody; the packets of whoever is not a mob that has been    *)
(* outside stay in the array as well.                                      *)
IndexIsRight == ExactlyWhereItIs /\ MoveLeavesACell /\ WildReadsAreOfMobs

(* "If we are in radiation zone, we don't send packet to other grids"      *)
(* (SendPacketToNearByGridsIfInSurrounding): no object outside of the      *)
(* cells makes a packet look for a grid where the array has none.  The     *)
(* return there is for players only, so a mob does (grid_packets.cfg).     *)
PacketsStayInTheArray == wild = {}

(* A dead mob comes back when its respawn timer passes (Mob::Update).      *)
MobsRespawn == \A o \in Mobs : death[o] = "DEAD" ~> death[o] = "ALIVE"
=============================================================================
