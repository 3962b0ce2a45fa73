--------------------------- MODULE MapGridProofs ---------------------------
(***************************************************************************)
(* What holds of MapGrid for any number of maps, cells, mobs and players.  *)
(* The inductive invariant adds to the checked properties where an object  *)
(* may be (Located), that only freed players have grids without a map      *)
(* (Placed), and the two facts about mobs that the respawn relies on.      *)
(***************************************************************************)
EXTENDS MapGrid, TLAPS

Located ==
    \A o \in onMap :
        /\ map[o] \in Maps
        /\ \/ <<map[o], index[o], o>> \in objects
           \/ <<map[o], Radiation, o>> \in objects

Placed ==
    \A m \in Maps, g \in Grids, o \in Objects :
        <<m, g, o>> \in objects => o \in deleted \/ map[o] \in Maps

Exact ==
    \A o \in Objects \ strayed :
        /\ ~radiation[o]
        /\ \A m \in Maps, g \in Grids :
               <<m, g, o>> \in objects <=>
                   (o \in onMap /\ m = map[o] /\ g = index[o])

MobsKnown ==
    \A o \in Mobs : map[o] \in Maps /\ (death[o] = "DEAD" => o \notin onMap)

IInv == /\ TypeOK /\ PlayersAgree /\ IdleHasNoPlayers /\ MoveLeavesACell
        /\ Located /\ Placed /\ Exact /\ MobsKnown /\ WildReadsAreOfMobs

-----------------------------------------------------------------------------
(* What Regrid does to the three containers, element by element.           *)
Regridded(o, from, to) ==
    /\ objects' \subseteq Maps \X Grids \X Objects
    /\ players' \subseteq Maps \X Grids \X Players
    /\ active' \subseteq Maps \X Grids
    /\ PlayersAgree' /\ IdleHasNoPlayers'
    /\ \A m \in Maps, g \in Grids, x \in Objects :
           <<m, g, x>> \in objects' <=>
               \/ <<m, g, x>> \in objects /\ (x = o => <<m, g>> \notin from)
               \/ x = o /\ <<m, g>> \in to

LEMMA RegridEffect ==
    ASSUME TypeOK, PlayersAgree, IdleHasNoPlayers,
           NEW o \in Objects,
           NEW from \in SUBSET ((Maps \cup {NoMap}) \X Grids), NEW to \in SUBSET (Maps \X Grids),
           Regrid(o, from, to)
    PROVE  Regridded(o, from, to)
<1> DEFINE In(S) == {<<mg[1], mg[2], o>> : mg \in S}
<1>1. In(to) \subseteq Maps \X Grids \X {o}
  OBVIOUS
<1>2. \A m \in Maps, g \in Grids, x \in Objects :
        <<m, g, x>> \in In(to) <=> x = o /\ <<m, g>> \in to
  OBVIOUS
<1>3. \A m \in Maps, g \in Grids, x \in Objects :
        <<m, g, x>> \in In(from) <=> x = o /\ <<m, g>> \in from
  OBVIOUS
<1>4. objects' = (objects \ In(from)) \cup In(to)
  BY DEF Regrid
<1>5. o \in Players => /\ players' = (players \ In(from)) \cup In(to)
                       /\ active' = active \cup to
  BY DEF Regrid
<1>6. o \notin Players => players' = players /\ active' = active
  BY DEF Regrid
<1> HIDE DEF In
<1>7. /\ objects \subseteq Maps \X Grids \X Objects
      /\ players \subseteq Maps \X Grids \X Players
      /\ active \subseteq Maps \X Grids
      /\ o \in Objects /\ Players \subseteq Objects
  BY DEF TypeOK, Objects
<1>8. objects' \subseteq Maps \X Grids \X Objects
  BY <1>1, <1>4, <1>7
<1>9. active' \subseteq Maps \X Grids
  BY <1>5, <1>6, <1>7
<1>10. players' \subseteq Maps \X Grids \X Players
  BY <1>1, <1>5, <1>6, <1>7
<1>11. PlayersAgree'
  <2>1. CASE o \in Players
    BY <1>1, <1>4, <1>5, <1>7, <2>1 DEF PlayersAgree
  <2>2. CASE o \notin Players
    <3>1. \A t \in In(from) : t[3] = o
      BY DEF In
    <3>2. {t \in objects' : t[3] \in Players} = {t \in objects : t[3] \in Players}
      BY <1>1, <1>4, <1>7, <2>2, <3>1
    <3> QED BY <1>6, <2>2, <3>2 DEF PlayersAgree
  <2> QED BY <2>1, <2>2
<1>12. IdleHasNoPlayers'
  <2>1. CASE o \in Players
    <3>1. \A t \in In(to) : <<t[1], t[2]>> \in to
      BY DEF In
    <3> QED BY <1>5, <1>7, <2>1, <3>1 DEF IdleHasNoPlayers
  <2> QED BY <1>6, <2>1 DEF IdleHasNoPlayers
<1>13. \A m \in Maps, g \in Grids, x \in Objects :
         <<m, g, x>> \in objects' <=>
             \/ <<m, g, x>> \in objects /\ (x = o => <<m, g>> \notin from)
             \/ x = o /\ <<m, g>> \in to
  <2> SUFFICES ASSUME NEW m \in Maps, NEW g \in Grids, NEW x \in Objects
               PROVE  <<m, g, x>> \in objects' <=>
                        \/ <<m, g, x>> \in objects /\ (x = o => <<m, g>> \notin from)
                        \/ x = o /\ <<m, g>> \in to
    OBVIOUS
  <2>1. <<m, g, x>> \in In(from) <=> x = o /\ <<m, g>> \in from
    BY <1>3
  <2>2. <<m, g, x>> \in In(to) <=> x = o /\ <<m, g>> \in to
    BY <1>2
  <2> QED BY <1>4, <2>1, <2>2
<1> QED BY <1>8, <1>9, <1>10, <1>11, <1>12, <1>13 DEF Regridded

(* A packet reads out of bounds only for the index of an object that has   *)
(* been outside, and is then in the radiation zone.                        *)
LEMMA SendNearByEffect ==
    ASSUME TypeOK, WildReadsAreOfMobs, NEW o \in Objects, NEW i, NEW outside,
           SendNearBy(o, i, outside), strayed \subseteq strayed',
           i = Radiation => outside /\ o \in strayed'
    PROVE  wild' \subseteq Objects /\ WildReadsAreOfMobs'
<1>1. wild' \subseteq wild \cup {o}
  BY DEF SendNearBy
<1>2. o \in wild' => o \in wild \/ (o \in strayed' /\ o \notin Players)
  BY DEF SendNearBy
<1> QED BY <1>1, <1>2 DEF TypeOK, WildReadsAreOfMobs, Objects

(* The index of an object that stayed in the cells is one of them.         *)
LEMMA RadiationIndex ==
    ASSUME IInv, NEW o \in Objects, index[o] = Radiation
    PROVE  radiation[o] /\ o \in strayed
BY GridAssumption DEF IInv, MoveLeavesACell, Exact

-----------------------------------------------------------------------------
LEMMA InitiallyIInv == Init => IInv
<1> SUFFICES ASSUME Init PROVE IInv
  OBVIOUS
<1>1. PICK home \in [Mobs -> Maps \X Cells] :
        /\ map = [o \in Objects |-> IF o \in Mobs THEN home[o][1] ELSE NoMap]
        /\ objects = {<<home[o][1], home[o][2], o>> : o \in Mobs}
        /\ \A o \in Mobs : index[o] = home[o][2]
  BY DEF Init
<1>2. /\ index \in [Objects -> Cells]
      /\ radiation = [o \in Objects |-> FALSE]
      /\ death = [o \in Objects |-> "ALIVE"]
      /\ jump = [p \in Players |-> NoJump]
      /\ players = {} /\ active = {} /\ onMap = Mobs /\ strayed = {} /\ deleted = {} /\ wild = {}
  BY DEF Init
<1>3. \A o \in Mobs : /\ o \in Objects /\ map[o] = home[o][1] /\ map[o] \in Maps
                      /\ index[o] = home[o][2] /\ index[o] \in Cells
  BY <1>1 DEF Objects
<1>4. \A m \in Maps, g \in Grids, o \in Objects :
        <<m, g, o>> \in objects <=> o \in Mobs /\ m = home[o][1] /\ g = home[o][2]
  BY <1>1
<1>5. objects \subseteq Maps \X Grids \X Mobs
  BY <1>1 DEF Grids
<1>6. TypeOK
  <2>1. map \in [Objects -> Maps \cup {NoMap}]
    BY <1>1
  <2>2. index \in [Objects -> Grids]
    BY <1>2 DEF Grids
  <2>3. objects \subseteq Maps \X Grids \X Objects
    BY <1>5 DEF Objects
  <2> QED BY <1>2, <2>1, <2>2, <2>3 DEF TypeOK, Objects
<1>7. PlayersAgree
  BY <1>2, <1>5, GridAssumption DEF PlayersAgree
<1>8. IdleHasNoPlayers
  BY <1>2 DEF IdleHasNoPlayers
<1>9. MoveLeavesACell
  BY <1>2 DEF MoveLeavesACell
<1>10. Exact
  BY <1>2, <1>3, <1>4 DEF Exact
<1>11. Located
  BY <1>2, <1>3, <1>4 DEF Located, Grids
<1>12. Placed
  BY <1>3, <1>4 DEF Placed
<1>13. MobsKnown
  BY <1>2, <1>3 DEF MobsKnown
<1>14. WildReadsAreOfMobs
  BY <1>2 DEF WildReadsAreOfMobs
<1> QED BY <1>6, <1>7, <1>8, <1>9, <1>10, <1>11, <1>12, <1>13, <1>14 DEF IInv

-----------------------------------------------------------------------------
(* Each action preserves the invariant.                                    *)
LEMMA HandleLoginStep ==
    ASSUME IInv, NEW p \in Players, NEW m \in Maps, NEW g \in Positions,
           HandleLogin(p, m, g)
    PROVE  IInv'
<1>1. /\ p \in Objects /\ p \notin Mobs /\ g \in Grids
      /\ <<m, g>> \in Maps \X Grids
      /\ Regrid(p, {}, {<<m, g>>})
  BY GridAssumption DEF HandleLogin, Add, Objects
<1>2. /\ map[p] = NoMap /\ p \notin deleted
      /\ map' = [map EXCEPT ![p] = m]
      /\ index' = [index EXCEPT ![p] = g]
      /\ radiation' = [radiation EXCEPT ![p] = @ \/ g = Radiation]
      /\ strayed' = IF g = Radiation THEN strayed \cup {p} ELSE strayed
      /\ onMap' = onMap \cup {p}
      /\ UNCHANGED <<death, jump, deleted, wild>>
  BY DEF HandleLogin, Add, Stray
<1>3. /\ objects' \subseteq Maps \X Grids \X Objects
      /\ players' \subseteq Maps \X Grids \X Players
      /\ active' \subseteq Maps \X Grids
      /\ PlayersAgree' /\ IdleHasNoPlayers'
      /\ \A n \in Maps, h \in Grids, x \in Objects :
             <<n, h, x>> \in objects' <=>
                 \/ <<n, h, x>> \in objects
                 \/ x = p /\ n = m /\ h = g
  <2>1. Regridded(p, {}, {<<m, g>>})
    BY <1>1, RegridEffect DEF IInv
  <2> QED BY <2>1 DEF Regridded
<1>4. TypeOK /\ MoveLeavesACell /\ Located /\ Placed /\ Exact /\ MobsKnown
      /\ WildReadsAreOfMobs
  BY DEF IInv
<1>5. TypeOK'
  BY <1>1, <1>2, <1>3, <1>4 DEF TypeOK
<1>6. p \notin onMap
  BY <1>2, <1>4, GridAssumption DEF Located
<1>7. MoveLeavesACell'
  BY <1>1, <1>2, <1>4 DEF MoveLeavesACell, TypeOK, Grids
<1>8. Located'
  <2> SUFFICES ASSUME NEW x \in onMap'
               PROVE  /\ map'[x] \in Maps
                      /\ \/ <<map'[x], index'[x], x>> \in objects'
                         \/ <<map'[x], Radiation, x>> \in objects'
    BY DEF Located
  <2>1. CASE x = p
    BY <1>1, <1>2, <1>3, <1>4, <2>1 DEF TypeOK
  <2>2. CASE x # p
    <3>1. x \in onMap /\ x \in Objects /\ map'[x] = map[x] /\ index'[x] = index[x]
      BY <1>2, <1>4, <2>2 DEF TypeOK
    <3> QED BY <1>3, <1>4, <3>1 DEF Located, TypeOK, Grids
  <2> QED BY <2>1, <2>2
<1>9. Placed'
  BY <1>1, <1>2, <1>3, <1>4 DEF Placed, TypeOK
<1>10. Exact'
  <2> SUFFICES ASSUME NEW x \in Objects, x \notin strayed'
               PROVE  /\ ~radiation'[x]
                      /\ \A n \in Maps, h \in Grids :
                           <<n, h, x>> \in objects' <=>
                             (x \in onMap' /\ n = map'[x] /\ h = index'[x])
    BY DEF Exact
  <2>1. x \notin strayed
    BY <1>2
  <2>2. CASE x = p
    BY <1>1, <1>2, <1>3, <1>4, <1>6, <2>1, <2>2 DEF Exact, TypeOK
  <2>3. CASE x # p
    BY <1>1, <1>2, <1>3, <1>4, <2>1, <2>3 DEF Exact, TypeOK
  <2> QED BY <2>2, <2>3
<1>11. MobsKnown'
  BY <1>1, <1>2, <1>4 DEF MobsKnown, TypeOK, Objects
<1>12. WildReadsAreOfMobs'
  BY <1>2, <1>4 DEF WildReadsAreOfMobs
<1> QED BY <1>3, <1>5, <1>7, <1>8, <1>9, <1>10, <1>11, <1>12 DEF IInv

(* An object that is updated and not freed is on a map it knows; one that  *)
(* never left the cells is then where its index says.                      *)
LEMMA UpdatedPlaced ==
    ASSUME IInv, NEW o \in Objects, Updated(o), o \notin deleted
    PROVE  map[o] \in Maps /\ (o \notin strayed => o \in onMap)
<1>1. PICK m \in Maps, g \in Grids : <<m, g, o>> \in objects
  BY DEF Updated
<1> QED BY <1>1 DEF IInv, Placed, Exact

(* A move keeps everything but what it says of the reads of m_Grids ...    *)
LEMMA MoveRegrids ==
    ASSUME IInv, NEW o \in Objects, NEW g \in Positions, Move(o, g),
           wild' \subseteq Objects
    PROVE  /\ TypeOK' /\ PlayersAgree' /\ IdleHasNoPlayers' /\ MoveLeavesACell'
           /\ Located' /\ Placed' /\ Exact' /\ MobsKnown'
<1>1. /\ Updated(o) /\ o \notin deleted
      /\ strayed' = IF g = Radiation THEN strayed \cup {o} ELSE strayed
      /\ UNCHANGED <<map, death, jump, onMap, deleted>>
      /\ IF g = Radiation THEN MoveOut(o) ELSE MoveIn(o, g)
  BY DEF Move, Stray
<1>2. TypeOK /\ PlayersAgree /\ IdleHasNoPlayers /\ MoveLeavesACell
      /\ Located /\ Placed /\ Exact /\ MobsKnown
  BY DEF IInv
<1>3. map[o] \in Maps /\ (o \notin strayed => o \in onMap) /\ index[o] \in Grids
  BY <1>1, <1>2, UpdatedPlaced DEF TypeOK
<1>4. MobsKnown' /\ radiation' \in [Objects -> BOOLEAN] /\ index' \in [Objects -> Grids]
  <2>1. radiation' \in [Objects -> BOOLEAN]
    BY <1>1, <1>2 DEF TypeOK, MoveOut, MoveIn
  <2>2. index' \in [Objects -> Grids]
    BY <1>1, <1>2, GridAssumption DEF TypeOK, MoveOut, MoveIn
  <2> QED BY <1>1, <1>2, <2>1, <2>2 DEF MobsKnown
<1>5. CASE g = Radiation /\ radiation[o]
  <2>1. UNCHANGED <<objects, players, active, index, radiation>>
    BY <1>1, <1>2, <1>5 DEF MoveOut, TypeOK
  <2>2. strayed' \subseteq Objects /\ strayed \subseteq strayed'
    BY <1>1, <1>2 DEF TypeOK
  <2>3. TypeOK'
    BY <1>1, <1>2, <2>1, <2>2 DEF TypeOK
  <2>4. PlayersAgree' /\ IdleHasNoPlayers' /\ MoveLeavesACell' /\ Located' /\ Placed'
    BY <1>1, <1>2, <2>1 DEF PlayersAgree, IdleHasNoPlayers, MoveLeavesACell, Located, Placed
  <2>5. Exact'
    BY <1>1, <1>2, <2>1, <2>2 DEF Exact
  <2> QED BY <1>4, <2>3, <2>4, <2>5
<1>6. CASE g = Radiation /\ ~radiation[o]
  <2>1. /\ Regrid(o, {<<map[o], index[o]>>}, {<<map[o], Radiation>>})
        /\ index' = index /\ radiation' = [radiation EXCEPT ![o] = TRUE]
        /\ strayed' = strayed \cup {o}
    BY <1>1, <1>6 DEF MoveOut
  <2>2. Regridded(o, {<<map[o], index[o]>>}, {<<map[o], Radiation>>})
    <3>1. Radiation \in Grids
      BY DEF Grids
    <3> QED BY <1>2, <1>3, <2>1, <3>1, RegridEffect
  <2>3. TypeOK' /\ PlayersAgree' /\ IdleHasNoPlayers'
    BY <1>1, <1>2, <1>4, <2>1, <2>2 DEF TypeOK, Regridded
  <2>4. \A m \in Maps, h \in Grids, x \in Objects :
          <<m, h, x>> \in objects' <=>
              \/ <<m, h, x>> \in objects /\ ~(x = o /\ m = map[o] /\ h = index[o])
              \/ x = o /\ m = map[o] /\ h = Radiation
    BY <2>2 DEF Regridded
  <2>5. MoveLeavesACell'
    BY <1>2, <2>1 DEF MoveLeavesACell, TypeOK
  <2>6. Located'
    BY <1>1, <1>2, <1>3, <2>1, <2>4 DEF Located, TypeOK, Grids
  <2>7. Placed'
    BY <1>1, <1>2, <1>3, <2>4 DEF Placed
  <2>8. Exact'
    BY <1>1, <1>2, <2>1, <2>4 DEF Exact, TypeOK
  <2> QED BY <1>4, <2>3, <2>5, <2>6, <2>7, <2>8
<1>7. CASE g # Radiation
  <2>1. /\ g \in Cells /\ g \in Grids
        /\ MoveIn(o, g) /\ strayed' = strayed
        /\ index' = [index EXCEPT ![o] = g]
        /\ radiation' = [radiation EXCEPT ![o] = FALSE]
    BY <1>1, <1>7, GridAssumption DEF MoveIn, Grids
  <2>2. MoveLeavesACell'
    BY <1>2, <2>1 DEF MoveLeavesACell, TypeOK
  <2>3. CASE g = index[o]
    <3>1. UNCHANGED <<objects, players, active, index>>
      BY <1>2, <2>1, <2>3 DEF MoveIn, TypeOK
    <3>2. TypeOK'
      BY <1>1, <1>2, <1>4, <2>1, <3>1 DEF TypeOK
    <3>3. PlayersAgree' /\ IdleHasNoPlayers' /\ Located' /\ Placed'
      BY <1>1, <1>2, <3>1 DEF PlayersAgree, IdleHasNoPlayers, Located, Placed
    <3>4. Exact'
      BY <1>1, <1>2, <2>1, <3>1 DEF Exact, TypeOK
    <3> QED BY <1>4, <2>2, <3>2, <3>3, <3>4
  <2>4. CASE g # index[o]
    <3>1. PICK old \in Grids : /\ old = IF radiation[o] THEN Radiation ELSE index[o]
                               /\ Regrid(o, {<<map[o], old>>}, {<<map[o], g>>})
      BY <1>3, <2>1, <2>4 DEF MoveIn, Grids
    <3>2. Regridded(o, {<<map[o], old>>}, {<<map[o], g>>})
      BY <1>2, <1>3, <2>1, <3>1, RegridEffect
    <3>3. TypeOK' /\ PlayersAgree' /\ IdleHasNoPlayers'
      BY <1>1, <1>2, <1>4, <2>1, <3>2 DEF TypeOK, Regridded
    <3>4. \A m \in Maps, h \in Grids, x \in Objects :
            <<m, h, x>> \in objects' <=>
                \/ <<m, h, x>> \in objects /\ ~(x = o /\ m = map[o] /\ h = old)
                \/ x = o /\ m = map[o] /\ h = g
      BY <3>2 DEF Regridded
    <3>5. Located'
      BY <1>1, <1>2, <1>3, <2>1, <3>4 DEF Located, TypeOK, Grids
    <3>6. Placed'
      BY <1>1, <1>2, <1>3, <3>4 DEF Placed
    <3>7. Exact'
      BY <1>1, <1>2, <1>3, <2>1, <3>1, <3>4 DEF Exact, TypeOK
    <3> QED BY <1>4, <2>2, <3>3, <3>5, <3>6, <3>7
  <2> QED BY <2>3, <2>4
<1> QED BY <1>5, <1>6, <1>7

(* ... and that follows from the index it leaves behind.                   *)
LEMMA MoveStep ==
    ASSUME IInv, NEW o \in Objects, NEW g \in Positions, Move(o, g)
    PROVE  IInv'
<1>1. SendNearBy(o, index'[o], radiation'[o]) /\ strayed \subseteq strayed'
  BY DEF Move, Stray
<1>2. wild' \subseteq Objects
  BY <1>1 DEF SendNearBy, IInv, TypeOK
<1>3. /\ TypeOK' /\ PlayersAgree' /\ IdleHasNoPlayers' /\ MoveLeavesACell'
      /\ Located' /\ Placed' /\ Exact' /\ MobsKnown'
  BY <1>2, MoveRegrids
<1>4. index'[o] = Radiation => radiation'[o] /\ o \in strayed'
  BY <1>3, GridAssumption DEF MoveLeavesACell, Exact
<1>5. WildReadsAreOfMobs'
  BY <1>1, <1>4, SendNearByEffect DEF IInv
<1> QED BY <1>3, <1>5 DEF IInv

LEMMA KillStep ==
    ASSUME IInv, NEW o \in Objects, Kill(o)
    PROVE  IInv'
<1>1. /\ death' = [death EXCEPT ![o] = "JUST_DIED"]
      /\ SendNearBy(o, index[o], radiation[o])
      /\ UNCHANGED <<map, index, radiation, jump, objects, players, active,
                     onMap, strayed, deleted>>
  BY DEF Kill
<1>5. wild' \subseteq Objects /\ WildReadsAreOfMobs'
  BY <1>1, RadiationIndex, SendNearByEffect DEF IInv
<1>2. TypeOK'
  BY <1>1, <1>5 DEF IInv, TypeOK
<1>3. PlayersAgree' /\ IdleHasNoPlayers' /\ MoveLeavesACell' /\ Located' /\ Placed' /\ Exact'
  BY <1>1 DEF IInv, PlayersAgree, IdleHasNoPlayers, MoveLeavesACell, Located, Placed, Exact
<1>4. MobsKnown'
  BY <1>1 DEF IInv, MobsKnown, TypeOK, Objects
<1> QED BY <1>2, <1>3, <1>4, <1>5 DEF IInv

(* Map::Remove, as it is called by an update and by the destructor: the    *)
(* object leaves the grid of its index, if it is there.                    *)
LEMMA RemoveEffect ==
    ASSUME IInv, NEW o \in Objects, Remove(o)
    PROVE  /\ onMap' = onMap \ {o}
           /\ objects' \subseteq Maps \X Grids \X Objects
           /\ players' \subseteq Maps \X Grids \X Players
           /\ active' \subseteq Maps \X Grids
           /\ PlayersAgree' /\ IdleHasNoPlayers'
           /\ \A m \in Maps, g \in Grids, x \in Objects :
                  <<m, g, x>> \in objects' <=>
                      <<m, g, x>> \in objects /\ ~(x = o /\ m = map[o] /\ g = index[o])
<1>1. map[o] \in Maps \cup {NoMap} /\ index[o] \in Grids
  BY DEF IInv, TypeOK
<1>2. Regridded(o, {<<map[o], index[o]>>}, {})
  BY <1>1, RegridEffect DEF IInv, Remove
<1> QED BY <1>2 DEF Regridded, Remove

LEMMA UpdateJustDiedStep ==
    ASSUME IInv, NEW o \in Objects, UpdateJustDied(o)
    PROVE  IInv'
<1>1. /\ death' = [death EXCEPT ![o] = "DEAD"] /\ Remove(o)
      /\ UNCHANGED <<map, index, radiation, jump, strayed, deleted, wild>>
  BY DEF UpdateJustDied
<1>2. TypeOK /\ MoveLeavesACell /\ Located /\ Placed /\ Exact /\ MobsKnown
      /\ WildReadsAreOfMobs
  BY DEF IInv
<1>3. /\ onMap' = onMap \ {o}
      /\ objects' \subseteq Maps \X Grids \X Objects
      /\ players' \subseteq Maps \X Grids \X Players
      /\ active' \subseteq Maps \X Grids
      /\ PlayersAgree' /\ IdleHasNoPlayers'
      /\ \A m \in Maps, g \in Grids, x \in Objects :
             <<m, g, x>> \in objects' <=>
                 <<m, g, x>> \in objects /\ ~(x = o /\ m = map[o] /\ g = index[o])
  BY <1>1, RemoveEffect
<1>4. TypeOK'
  BY <1>1, <1>2, <1>3 DEF TypeOK
<1>5. MoveLeavesACell'
  BY <1>1, <1>2 DEF MoveLeavesACell
<1>6. Located' /\ Placed'
  BY <1>1, <1>2, <1>3 DEF Located, Placed, TypeOK, Grids
<1>7. Exact'
  BY <1>1, <1>2, <1>3 DEF Exact, TypeOK
<1>8. MobsKnown'
  BY <1>1, <1>2, <1>3 DEF MobsKnown, TypeOK, Objects
<1>9. WildReadsAreOfMobs'
  BY <1>1, <1>2 DEF WildReadsAreOfMobs
<1> QED BY <1>3, <1>4, <1>5, <1>6, <1>7, <1>8, <1>9 DEF IInv

LEMMA DeleteStep ==
    ASSUME IInv, NEW p \in Players, Delete(p)
    PROVE  IInv'
<1>1. /\ p \in Objects /\ p \notin Mobs
      /\ map[p] # NoMap /\ map' = [map EXCEPT ![p] = NoMap]
      /\ deleted' = deleted \cup {p} /\ Remove(p)
      /\ SendNearBy(p, index[p], radiation[p])
      /\ UNCHANGED <<index, radiation, death, jump, strayed>>
  BY GridAssumption DEF Delete, Objects
<1>2. TypeOK /\ MoveLeavesACell /\ Located /\ Placed /\ Exact /\ MobsKnown
  BY DEF IInv
<1>3. /\ onMap' = onMap \ {p}
      /\ objects' \subseteq Maps \X Grids \X Objects
      /\ players' \subseteq Maps \X Grids \X Players
      /\ active' \subseteq Maps \X Grids
      /\ PlayersAgree' /\ IdleHasNoPlayers'
      /\ \A m \in Maps, g \in Grids, x \in Objects :
             <<m, g, x>> \in objects' <=>
                 <<m, g, x>> \in objects /\ ~(x = p /\ m = map[p] /\ g = index[p])
  BY <1>1, RemoveEffect
<1>9. wild' \subseteq Objects /\ WildReadsAreOfMobs'
  BY <1>1, RadiationIndex, SendNearByEffect DEF IInv
<1>4. TypeOK'
  BY <1>1, <1>2, <1>3, <1>9 DEF TypeOK
<1>5. MoveLeavesACell'
  BY <1>1, <1>2 DEF MoveLeavesACell
<1>6. Located' /\ Placed'
  BY <1>1, <1>2, <1>3 DEF Located, Placed, TypeOK, Grids
<1>7. Exact'
  BY <1>1, <1>2, <1>3 DEF Exact, TypeOK
<1>8. MobsKnown'
  BY <1>1, <1>2, <1>3 DEF MobsKnown, TypeOK, Objects
<1> QED BY <1>3, <1>4, <1>5, <1>6, <1>7, <1>8, <1>9 DEF IInv

LEMMA UpdateRespawnStep ==
    ASSUME IInv, NEW o \in Mobs, NEW g \in Positions, UpdateRespawn(o, g)
    PROVE  IInv'
<1>1. /\ o \in Objects /\ g \in Grids /\ death[o] = "DEAD" /\ Updated(o)
      /\ death' = [death EXCEPT ![o] = "ALIVE"]
      /\ index' = [index EXCEPT ![o] = g]
      /\ radiation' = [radiation EXCEPT ![o] = @ \/ g = Radiation]
      /\ Regrid(o, {}, {<<map[o], g>>})
      /\ strayed' = IF g = Radiation THEN strayed \cup {o} ELSE strayed
      /\ onMap' = onMap \cup {o}
      /\ UNCHANGED <<map, jump, deleted, wild>>
  BY GridAssumption DEF UpdateRespawn, Add, Objects, Stray
<1>2. TypeOK /\ MoveLeavesACell /\ Located /\ Placed /\ Exact /\ MobsKnown
      /\ WildReadsAreOfMobs
  BY DEF IInv
<1>3. map[o] \in Maps /\ o \notin onMap /\ o \notin deleted
  BY <1>1, <1>2, GridAssumption DEF MobsKnown, TypeOK
<1>4. o \in strayed
  BY <1>1, <1>3, UpdatedPlaced
<1>5. Regridded(o, {}, {<<map[o], g>>})
  BY <1>1, <1>3, RegridEffect DEF IInv
<1>6. TypeOK' /\ PlayersAgree' /\ IdleHasNoPlayers'
  BY <1>1, <1>2, <1>5 DEF TypeOK, Regridded
<1>7. \A m \in Maps, h \in Grids, x \in Objects :
        <<m, h, x>> \in objects' <=>
            <<m, h, x>> \in objects \/ (x = o /\ m = map[o] /\ h = g)
  BY <1>5 DEF Regridded
<1>8. MoveLeavesACell'
  BY <1>1, <1>2 DEF MoveLeavesACell, TypeOK, Grids
<1>9. Located' /\ Placed'
  <2>1. \A x \in Objects : x # o => index'[x] = index[x]
    BY <1>1, <1>2 DEF TypeOK
  <2>2. Located'
    <3> SUFFICES ASSUME NEW x \in onMap'
                 PROVE  /\ map'[x] \in Maps
                        /\ \/ <<map'[x], index'[x], x>> \in objects'
                           \/ <<map'[x], Radiation, x>> \in objects'
      BY DEF Located
    <3>1. CASE x = o
      BY <1>1, <1>2, <1>3, <1>7, <3>1 DEF TypeOK
    <3>2. CASE x # o
      BY <1>1, <1>2, <1>7, <2>1, <3>2 DEF Located, TypeOK, Grids
    <3> QED BY <3>1, <3>2
  <2>3. Placed'
    BY <1>1, <1>2, <1>3, <1>7 DEF Placed
  <2> QED BY <2>2, <2>3
<1>10. Exact'
  BY <1>1, <1>2, <1>4, <1>7 DEF Exact, TypeOK
<1>11. MobsKnown'
  BY <1>1, <1>2 DEF MobsKnown, TypeOK, Objects
<1>12. WildReadsAreOfMobs'
  BY <1>1, <1>2 DEF WildReadsAreOfMobs
<1> QED BY <1>6, <1>8, <1>9, <1>10, <1>11, <1>12 DEF IInv

LEMMA AddToJumpQueueStep ==
    ASSUME IInv, NEW p \in Players, NEW m \in Maps, NEW c \in Cells,
           AddToJumpQueue(p, m, c)
    PROVE  IInv'
<1>1. /\ jump' = [jump EXCEPT ![p] = <<m, c>>]
      /\ UNCHANGED <<map, index, radiation, death, objects, players, active,
                     onMap, strayed, deleted, wild>>
  BY DEF AddToJumpQueue
<1>2. TypeOK'
  BY <1>1 DEF IInv, TypeOK
<1>3. PlayersAgree' /\ IdleHasNoPlayers' /\ MoveLeavesACell' /\ Located' /\ Placed'
      /\ Exact' /\ MobsKnown' /\ WildReadsAreOfMobs'
  BY <1>1 DEF IInv, PlayersAgree, IdleHasNoPlayers, MoveLeavesACell, Located, Placed,
              Exact, MobsKnown, WildReadsAreOfMobs
<1> QED BY <1>2, <1>3 DEF IInv

LEMMA ProcessJumpQueueStep ==
    ASSUME IInv, NEW p \in Players, ProcessJumpQueue(p)
    PROVE  IInv'
<1>1. TypeOK /\ MoveLeavesACell /\ Located /\ Placed /\ Exact /\ MobsKnown
  BY DEF IInv
<1>2. PICK m \in Maps, c \in Cells : jump[p] = <<m, c>>
  BY <1>1 DEF ProcessJumpQueue, TypeOK
<1>3. /\ p \in Objects /\ p \notin Mobs /\ c \in Grids /\ c # Radiation
      /\ jump' = [jump EXCEPT ![p] = NoJump]
      /\ map' = [map EXCEPT ![p] = m]
      /\ index' = [index EXCEPT ![p] = c]
      /\ Regrid(p, {<<map[p], index[p]>>}, {<<m, c>>})
      /\ onMap' = onMap \cup {p}
      /\ SendNearBy(p, index[p], radiation[p])
      /\ UNCHANGED <<radiation, death, strayed, deleted>>
  BY <1>1, <1>2, GridAssumption DEF ProcessJumpQueue, Add, Objects, Grids, TypeOK
<1>4. Regridded(p, {<<map[p], index[p]>>}, {<<m, c>>})
  <2>1. map[p] \in Maps \cup {NoMap} /\ index[p] \in Grids
    BY <1>1, <1>3 DEF TypeOK
  <2> QED BY <1>3, <2>1, RegridEffect DEF IInv
<1>11. wild' \subseteq Objects /\ WildReadsAreOfMobs'
  BY <1>3, RadiationIndex, SendNearByEffect DEF IInv
<1>5. TypeOK' /\ PlayersAgree' /\ IdleHasNoPlayers'
  BY <1>1, <1>3, <1>4, <1>11 DEF TypeOK, Regridded
<1>6. \A n \in Maps, h \in Grids, x \in Objects :
        <<n, h, x>> \in objects' <=>
            \/ <<n, h, x>> \in objects /\ ~(x = p /\ n = map[p] /\ h = index[p])
            \/ x = p /\ n = m /\ h = c
  BY <1>4 DEF Regridded
<1>7. MoveLeavesACell'
  BY <1>1, <1>3 DEF MoveLeavesACell, TypeOK
<1>8. Located' /\ Placed'
  <2>1. \A x \in Objects : x # p => index'[x] = index[x] /\ map'[x] = map[x]
    BY <1>1, <1>3 DEF TypeOK
  <2>2. map'[p] = m /\ index'[p] = c
    BY <1>1, <1>3 DEF TypeOK
  <2>3. Located'
    <3> SUFFICES ASSUME NEW x \in onMap'
                 PROVE  /\ map'[x] \in Maps
                        /\ \/ <<map'[x], index'[x], x>> \in objects'
                           \/ <<map'[x], Radiation, x>> \in objects'
      BY DEF Located
    <3>1. CASE x = p
      BY <1>3, <1>6, <2>2, <3>1
    <3>2. CASE x # p
      BY <1>1, <1>3, <1>6, <2>1, <3>2 DEF Located, TypeOK, Grids
    <3> QED BY <3>1, <3>2
  <2>4. Placed'
    BY <1>1, <1>3, <1>6, <2>1, <2>2 DEF Placed
  <2> QED BY <2>3, <2>4
<1>9. Exact'
  BY <1>1, <1>3, <1>6 DEF Exact, TypeOK
<1>10. MobsKnown'
  BY <1>1, <1>3 DEF MobsKnown, TypeOK, Objects
<1> QED BY <1>5, <1>7, <1>8, <1>9, <1>10, <1>11 DEF IInv

LEMMA CheckForPlayerStep ==
    ASSUME IInv, NEW m \in Maps, NEW g \in Grids, CheckForPlayer(m, g)
    PROVE  IInv'
<1>1. /\ ~ \E p \in Players : <<m, g, p>> \in players
      /\ active' = active \ {<<m, g>>}
      /\ UNCHANGED <<map, index, radiation, death, jump, objects, players,
                     onMap, strayed, deleted, wild>>
  BY DEF CheckForPlayer
<1>2. TypeOK'
  BY <1>1 DEF IInv, TypeOK
<1>3. IdleHasNoPlayers'
  <2> SUFFICES ASSUME NEW t \in players PROVE <<t[1], t[2]>> # <<m, g>>
    BY <1>1 DEF IInv, IdleHasNoPlayers
  <2>1. PICK n \in Maps, h \in Grids, p \in Players : t = <<n, h, p>>
    BY DEF IInv, TypeOK
  <2> QED BY <1>1, <2>1
<1>4. PlayersAgree' /\ MoveLeavesACell' /\ Located' /\ Placed' /\ Exact' /\ MobsKnown'
      /\ WildReadsAreOfMobs'
  BY <1>1 DEF IInv, PlayersAgree, MoveLeavesACell, Located, Placed, Exact, MobsKnown,
              WildReadsAreOfMobs
<1> QED BY <1>2, <1>3, <1>4 DEF IInv

-----------------------------------------------------------------------------
LEMMA Inductive == IInv /\ [Next]_vars => IInv'
<1> SUFFICES ASSUME IInv, [Next]_vars PROVE IInv'
  OBVIOUS
<1>1. CASE UNCHANGED vars
  <2>1. UNCHANGED <<map, index, radiation, death, jump, objects, players,
                    active, onMap, strayed, deleted, wild>>
    BY <1>1 DEF vars
  <2>2. TypeOK'
    BY <2>1 DEF IInv, TypeOK
  <2>3. PlayersAgree' /\ IdleHasNoPlayers' /\ MoveLeavesACell' /\ Located' /\ Placed'
        /\ Exact' /\ MobsKnown' /\ WildReadsAreOfMobs'
    BY <2>1 DEF IInv, PlayersAgree, IdleHasNoPlayers, MoveLeavesACell, Located, Placed,
                Exact, MobsKnown, WildReadsAreOfMobs
  <2> QED BY <2>2, <2>3 DEF IInv
<1>2. CASE Next
  <2>1. \A o \in Mobs : o \in Objects
    BY DEF Objects
  <2> QED BY <1>2, <2>1, HandleLoginStep, MoveStep, KillStep, UpdateJustDiedStep,
             UpdateRespawnStep, AddToJumpQueueStep, ProcessJumpQueueStep,
             DeleteStep, CheckForPlayerStep DEF Next
<1> QED BY <1>1, <1>2

LEMMA Invariance == Spec => []IInv
<1> QED BY InitiallyIInv, Inductive, PTL DEF Spec

(* The variables keep their types: the containers hold objects of the      *)
(* world in grids of its maps, however they are moved about.               *)
THEOREM TypeCorrect == Spec => []TypeOK
<1>1. IInv => TypeOK
  BY DEF IInv
<1> QED BY <1>1, Invariance, PTL

(* An object that never left the cells is in exactly the grid its index    *)
(* names while Map::Add was its last map call, and else in none.           *)
THEOREM MembershipExact == Spec => []ExactlyWhereItIs
<1>1. IInv => ExactlyWhereItIs
  <2> SUFFICES ASSUME IInv, NEW o \in Objects \ strayed
               PROVE  Where(o) = IF o \in onMap THEN {<<map[o], index[o]>>} ELSE {}
    BY DEF ExactlyWhereItIs
  <2>1. \A m \in Maps, g \in Grids :
          <<m, g, o>> \in objects <=> (o \in onMap /\ m = map[o] /\ g = index[o])
    BY DEF IInv, Exact
  <2>2. o \in onMap => map[o] \in Maps /\ index[o] \in Grids
    BY DEF IInv, Located, TypeOK
  <2>3. \A mg \in Maps \X Grids :
          <<mg[1], mg[2], o>> \in objects <=>
              (o \in onMap /\ mg = <<map[o], index[o]>>)
    BY <2>1
  <2> QED BY <2>2, <2>3 DEF Where
<1> QED BY <1>1, Invariance, PTL

(* No player on a map is in a grid that sleeps: its packets are handled in *)
(* every tick, whatever it and the other players do.                       *)
THEOREM PlayersAreServed == Spec => []PlayerIsServed
<1>1. IInv => PlayerIsServed
  <2> SUFFICES ASSUME IInv, NEW p \in Players, p \in onMap
               PROVE  Updated(p)
    BY DEF PlayerIsServed
  <2>1. p \in Objects /\ map[p] \in Maps /\ index[p] \in Grids /\ Radiation \in Grids
    BY DEF IInv, Located, TypeOK, Objects, Grids
  <2>2. CASE <<map[p], Radiation, p>> \in objects
    BY <2>1, <2>2 DEF Updated
  <2>3. CASE <<map[p], index[p], p>> \in objects
    <3>1. <<map[p], index[p], p>> \in players
      BY <2>3 DEF IInv, PlayersAgree
    <3>2. <<map[p], index[p]>> \in active
      BY <3>1 DEF IInv, IdleHasNoPlayers
    <3> QED BY <2>1, <2>3, <3>2 DEF Updated
  <2> QED BY <2>2, <2>3 DEF IInv, Located
<1> QED BY <1>1, Invariance, PTL

(* "Grid is in Idle mode, there's no players": a sleeping grid is empty of *)
(* players.                                                                *)
THEOREM SleepingGridIsEmpty == Spec => []IdleHasNoPlayers
<1>1. IInv => IdleHasNoPlayers
  BY DEF IInv
<1> QED BY <1>1, Invariance, PTL

(* What the calls of a map leave in m_GridIndex is what the next call of   *)
(* Map::Move or Map::Remove needs, and what the packets of a player and of *)
(* a mob that stayed inside need, for any number of maps and objects.      *)
THEOREM IndexStaysRight == Spec => []IndexIsRight
<1>1. IInv => MoveLeavesACell /\ WildReadsAreOfMobs
  BY DEF IInv
<1> QED BY <1>1, MembershipExact, Invariance, PTL DEF IndexIsRight
=============================================================================
