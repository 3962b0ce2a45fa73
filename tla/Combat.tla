------------------------------- MODULE Combat -------------------------------
(***************************************************************************)
(* Who attacks whom.  A Unit has a target; the target has the set of its   *)
(* attackers; a Mob also has the player that tagged it.  The links are     *)
(* plain pointers, set by Attack, by the selection of a client and by the  *)
(* scan of a mob, and taken back by CancelAttack, which is called from     *)
(* everywhere: by the attacker, by its victim's destructor, by the jump    *)
(* and by the despawning of an object.                                     *)
(*                                                                         *)
(* Hit points are abstracted to what a hit does: it kills or does not.     *)
(* Distances, cloaks, portals and ammunition are choices.  A Player that   *)
(* was freed keeps its values here: code that follows a pointer to it      *)
(* brings the server down, where the behaviour ends, or finds it as it was *)
(* left.                                                                   *)
(***************************************************************************)
EXTENDS Naturals, FiniteSets

CONSTANTS Players,  \* the Player objects of one run of the server
          Mobs,
          Guid,     \* the GUID of each unit: a user's Player objects share theirs
          Maps,
          Home,     \* the map of each mob
          AutoRocket, \* the players whose ship has an auto rocket
          MaxEvents,  \* bound on the orders of all clients and the accidents
          None

Units == Players \cup Mobs
Types == {"LASER", "ROCKET", "BOTH"}

ASSUME CombatAssumption ==
    /\ Players \cap Mobs = {}
    /\ None \notin Units \cup Maps
    /\ Home \in [Mobs -> Maps]
    /\ MaxEvents \in Nat

VARIABLES
    fight,   \* the members of the units that the attack system changes
    map,     \* the map in whose cells the unit is, so that FindObject finds it
    jumping, \* m_PlayersToJump
    freed,   \* the players whose object is freed
    events   \* how many orders and accidents there were

vars == <<fight, map, jumping, freed, events>>

(* m_Attacking holds exactly when m_AttackType is not ATTACK_TYPE_NONE, and *)
(* m_AttackState is ATTACK_STATE_NONE exactly when it does not hold.        *)
Fights ==
    [target    : [Units -> Units \cup {None}], \* m_Target
     attackers : [Units -> SUBSET Units],      \* m_Attackers
     type      : [Units -> SUBSET Types],      \* m_AttackType
     tag       : [Mobs -> Players \cup {None}],\* m_PlayerTagger
     death     : [Units -> {"ALIVE", "JUST_DIED", "DEAD"}]] \* m_DeathState

TypeOK ==
    /\ fight \in Fights
    /\ map \in [Units -> Maps \cup {None}]
    /\ jumping \subseteq Players
    /\ freed \subseteq Players
    /\ events \in 0..MaxEvents

Attacking(f, u) == f.type[u] # {}

-----------------------------------------------------------------------------
\* Slip: the target is not told who aims at it.
SetTargetQuietly(f, u, v) == [f EXCEPT !.target[u] = v]

(* SetTarget does not leave the attackers of the old target.               *)
SetTarget(f, u, v) ==
    [f EXCEPT !.target[u] = v, !.attackers[v] = @ \cup {u}]

\* Slip: the attack ends and the tag of a mob stays.
CancelKeepsTag(f, S) ==
    LET C == {u \in S : Attacking(f, u)} IN
    [f EXCEPT
       !.target = [u \in Units |-> IF u \in C THEN None ELSE @[u]],
       !.attackers = [v \in Units |-> @[v] \ {u \in C : f.target[u] = v}],
       !.type = [u \in Units |-> IF u \in C THEN {} ELSE @[u]]]

(* CancelAttack(BOTH) of each unit of S: nothing for one that does not     *)
(* attack, whatever target it has.                                         *)
Cancel(f, S) ==
    LET C == {u \in S : Attacking(f, u)} IN
    [f EXCEPT
       !.target = [u \in Units |-> IF u \in C THEN None ELSE @[u]],
       !.attackers = [v \in Units |-> @[v] \ {u \in C : f.target[u] = v}],
       !.type = [u \in Units |-> IF u \in C THEN {} ELSE @[u]],
       !.tag = [m \in Mobs |-> IF m \in C THEN None ELSE @[m]]]

(* CancelAttack(t) of a player, for the laser or the rocket alone.         *)
CancelType(f, u, t) ==
    IF f.type[u] \subseteq {t} THEN Cancel(f, {u})
    ELSE [f EXCEPT !.type[u] = @ \ {t}]

(* Attack up to the tagging; targets are compared by their GUIDs.          *)
Aim(f, u, v) ==
    IF f.target[u] # None /\ Guid[f.target[u]] = Guid[v] THEN f
    ELSE SetTarget(f, u, v)

MobAttack(f, m, p) ==
    IF f.death[p] = "DEAD" THEN Cancel(f, {m})
    ELSE [Aim(f, m, p) EXCEPT !.type[m] = @ \cup {"LASER"}]

(* A mob that is not tagged is tagged and attacks back.                    *)
Tag(f, p, v) ==
    IF v \in Mobs /\ f.tag[v] = None
    THEN MobAttack([f EXCEPT !.tag[v] = p], v, p) ELSE f

(* Attack(v, t) of a player; BOTH is the laser with an auto rocket.        *)
Attack(f, p, v, t) ==
    IF f.death[v] = "DEAD" THEN Cancel(f, {p})
    ELSE LET g == Aim(f, p, v)
         IN  [Tag(g, p, g.target[p]) EXCEPT !.type[p] = @ \cup {t}]

(* Unit::Kill, whatever the death of the victim was; hit points stay.      *)
Kill(f, u, v) == Cancel([f EXCEPT !.death[v] = "JUST_DIED"], {u})

\* Slip: the set of attackers is cleared and nobody is told.
RemoveAttackersQuietly(f, v) == [f EXCEPT !.attackers[v] = {}]

RemoveAllAttackers(f, v) == [Cancel(f, f.attackers[v]) EXCEPT !.attackers[v] = {}]

-----------------------------------------------------------------------------
(* UpdateLaserAttack: out of ammunition; a miss; a hit that kills, that    *)
(* takes the last shield (SAB50), or that makes an idle mob attack.        *)
LaserAttack(f, u) ==
    LET v == f.target[u] IN
    IF f.type[u] \cap {"LASER", "BOTH"} = {} THEN {f}
    ELSE {f, Kill(f, u, v)}
         \cup (IF v \in Mobs /\ ~Attacking(f, v) THEN {MobAttack(f, v, u)} ELSE {})
         \cup (IF u \in Players THEN {CancelType(f, u, "LASER")} ELSE {})

(* UpdateRocketAttack: not yet, or with an auto rocket; a hit that kills;  *)
(* no rocket left, or the one that was ordered is gone.                    *)
RocketAttack(f, u) ==
    IF f.type[u] \cap {"ROCKET", "BOTH"} = {} THEN {f}
    ELSE {f, Kill(f, u, f.target[u]), CancelType(f, u, "ROCKET")}

(* AttackerStateUpdate, when its interval has passed.  A target out of     *)
(* range is not fired at.                                                  *)
AttackerStateUpdate(f, u) ==
    IF ~Attacking(f, u) \/ f.target[u] = None THEN {f}
    ELSE IF f.death[f.target[u]] = "DEAD" THEN {Cancel(f, {u})}
    ELSE {f} \cup UNION {RocketAttack(g, u) : g \in LaserAttack(f, u)}

(* ScanForPlayers and ChasePlayer.  A mob that flees does not scan; one    *)
(* whose target hides or is too far away cancels.                          *)
UpdateMovement(f, m, near) ==
    LET seen   == IF f.target[m] = None THEN near ELSE {f.target[m]}
        tagger == f.tag[m]
    IN  {f, Cancel(f, {m})} \cup
        (IF tagger # None /\ ~Attacking(f, tagger) THEN {}
         ELSE {IF f.target[m] = None THEN SetTarget(f, m, p) ELSE f : p \in seen})

-----------------------------------------------------------------------------
Init ==
    /\ fight = [target    |-> [u \in Units |-> None],
                attackers |-> [u \in Units |-> {}],
                type      |-> [u \in Units |-> {}],
                tag       |-> [m \in Mobs |-> None],
                death     |-> [u \in Units |-> "ALIVE"]]
    /\ map = [u \in Units |-> IF u \in Mobs THEN Home[u] ELSE None]
    /\ jumping = {} /\ freed = {} /\ events = 0

(* A new Player comes to a map; the last one of its user is freed first    *)
(* (module Session).                                                       *)
HandleLogin(p, where) ==
    /\ map[p] = None /\ p \notin freed /\ fight.death[p] = "ALIVE"
    /\ \A q \in Players \ freed : Guid[q] = Guid[p] => map[q] = None /\ fight.death[q] = "ALIVE"
    /\ map' = [map EXCEPT ![p] = where]
    /\ UNCHANGED <<fight, jumping, freed, events>>

(* The packets of p are processed: an order to its weapons.                *)
Event(p) ==
    /\ map[p] # None
    /\ events < MaxEvents /\ events' = events + 1
    /\ UNCHANGED <<map, freed>>

(* FindObject finds another unit.                                          *)
Finds(p, v) == p # v /\ map[v] = map[p]

HandleSelectTarget(p, v) ==
    /\ Event(p) /\ Finds(p, v) /\ UNCHANGED jumping
    /\ fight' = SetTarget(fight, p, v)

HandleLaserShoot(p, v) ==
    /\ Event(p) /\ Finds(p, v) /\ UNCHANGED jumping
    /\ fight' = Attack(fight, p, v, IF p \in AutoRocket THEN "BOTH" ELSE "LASER")

HandleShootRocket(p, v) ==
    /\ Event(p) /\ Finds(p, v) /\ UNCHANGED jumping
    /\ fight' = Attack(fight, p, v, "ROCKET")

HandleAbortLaser(p) ==
    /\ Event(p) /\ UNCHANGED jumping
    /\ fight' = Cancel(fight, {p})

(* AddToJumpQueue, from a portal.                                          *)
HandlePortalJump(p) ==
    /\ Event(p)
    /\ jumping' = jumping \cup {p}
    /\ UNCHANGED fight

(* Map::ProcessJumpQueue: the target of the player stops attacking and the *)
(* player does.  A player that died in the meantime jumps as well.         *)
ProcessJumpQueue(p, where) ==
    /\ p \in jumping \ freed /\ where # map[p]
    /\ LET t == fight.target[p] IN
       fight' = Cancel(IF t = None THEN fight ELSE Cancel(fight, {t}), {p})
    /\ map' = [map EXCEPT ![p] = where]
    /\ jumping' = jumping \ {p}
    /\ UNCHANGED <<freed, events>>

(* Player::Update and Mob::Update of a unit that lives.  A mob whose grid  *)
(* sleeps is not updated while players of the next grid attack it.         *)
UpdatePlayer(p) ==
    /\ map[p] # None /\ fight.death[p] = "ALIVE"
    /\ fight' \in AttackerStateUpdate(fight, p)
    /\ UNCHANGED <<map, jumping, freed, events>>

UpdateMob(m) ==
    /\ map[m] # None /\ fight.death[m] = "ALIVE"
    /\ \E g \in UpdateMovement(fight, m, {p \in Players : map[p] = map[m]}) :
           fight' \in AttackerStateUpdate(g, m)
    /\ UNCHANGED <<map, jumping, freed, events>>

(* SurroundingObject::Despawn of the mob that the player targets.          *)
Despawn(p) ==
    /\ map[p] # None /\ fight.death[p] = "ALIVE"
    /\ fight.target[p] \in Mobs
    /\ fight' = Cancel(fight, {fight.target[p]})
    /\ UNCHANGED <<map, jumping, freed, events>>

(* The radiation kills a player, a mine any player near it.                *)
UpdateRadiationZone(p) ==
    /\ Event(p) /\ UNCHANGED jumping
    /\ fight.death[p] = "ALIVE"
    /\ fight' = Kill(fight, p, p)

Explode(p) ==
    /\ Event(p) /\ UNCHANGED jumping
    /\ fight' = [fight EXCEPT !.death[p] = "JUST_DIED"]

(* Player::Update and Mob::Update of a unit that has just died.            *)
UpdateJustDied(u) ==
    /\ map[u] # None /\ fight.death[u] = "JUST_DIED"
    /\ fight' = Cancel([fight EXCEPT !.death[u] = "DEAD"], {u})
    /\ map' = [map EXCEPT ![u] = None]
    /\ UNCHANGED <<jumping, freed, events>>

(* Mob::Update of a dead mob that is still updated: one that died in the   *)
(* radiation zone (module MapGrid).                                        *)
UpdateRespawn(m) ==
    /\ fight.death[m] = "DEAD"
    /\ fight' = [fight EXCEPT !.death[m] = "ALIVE"]
    /\ map' = [map EXCEPT ![m] = Home[m]]
    /\ UNCHANGED <<jumping, freed, events>>

(* The destructor of Player: CleanupsBeforeDelete.                         *)
Delete(p) ==
    /\ map[p] # None \/ fight.death[p] = "DEAD"
    /\ p \notin freed
    /\ fight' = RemoveAllAttackers(fight, p)
    /\ map' = [map EXCEPT ![p] = None]
    /\ freed' = freed \cup {p}
    /\ UNCHANGED <<jumping, events>>

Next ==
    \/ \E p \in Players :
        \/ \E where \in Maps : HandleLogin(p, where) \/ ProcessJumpQueue(p, where)
        \/ \E v \in Units :
             HandleSelectTarget(p, v) \/ HandleLaserShoot(p, v) \/ HandleShootRocket(p, v)
        \/ HandleAbortLaser(p) \/ HandlePortalJump(p)
        \/ UpdatePlayer(p) \/ Despawn(p) \/ UpdateRadiationZone(p) \/ Explode(p) \/ Delete(p)
    \/ \E m \in Mobs : UpdateMob(m) \/ UpdateRespawn(m)
    \/ \E u \in Units : UpdateJustDied(u)

Spec == Init /\ [][Next]_vars

-----------------------------------------------------------------------------
Live == Units \ freed

(* Who attacks has a target ("Attempted to cancel attack but target does   *)
(* not exist!"), and a target that is not freed knows everybody who aims   *)
(* at it: its destructor is the only one that can still call them off.     *)
AttackIsKnown ==
    \A u \in Live :
        /\ Attacking(fight, u) => fight.target[u] # None
        /\ fight.target[u] \in Live => u \in fight.attackers[fight.target[u]]

(* A logout calls off every attack on the player that leaves.              *)
LogoutEndsAttacks ==
    [][\A p \in freed' \ freed : \A u \in Live :
          fight.target[u] = p => ~Attacking(fight', u)]_vars

(* "Target and tagged player does not match!" (Mob::ScanForPlayers, which  *)
(* compares the GUIDs): a mob attacks the player that tagged it, as long as *)
(* that one lives.  A player that jumped after its death may still shoot   *)
(* and tag a mob, which does not attack it: there the assertion fails.     *)
TaggedIsTarget ==
    \A m \in Mobs : LET p == fight.tag[m] IN
        p # None /\ fight.death[p] = "ALIVE" =>
            /\ Attacking(fight, m)
            /\ Guid[fight.target[m]] = Guid[p]

=============================================================================
