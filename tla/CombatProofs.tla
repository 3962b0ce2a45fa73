---------------------------- MODULE CombatProofs ----------------------------
(***************************************************************************)
(* That the links between attackers and their targets are kept, for any    *)
(* number of players, mobs and maps, any GUIDs and any events.             *)
(*                                                                         *)
(* The operators of Combat are functions from the state of the fights to   *)
(* the next one, so the invariant is a predicate on such a state and each  *)
(* operator has a lemma: it preserves the type and the invariant.          *)
(***************************************************************************)
EXTENDS Combat, TLAPS

(* What the live units L know of each other in the state f.                *)
Known(f, L) ==
    \A u \in L :
        /\ Attacking(f, u) => f.target[u] # None
        /\ f.target[u] \in L => u \in f.attackers[f.target[u]]

(* What holds of the tags of the mobs M.                                   *)
Tagged(f, M) ==
    \A m \in M : LET p == f.tag[m] IN
        p # None /\ f.death[p] = "ALIVE" =>
            /\ Attacking(f, m)
            /\ Guid[f.target[m]] = Guid[p]

Good(f, L, M) == f \in Fights /\ Known(f, L) /\ Tagged(f, M)

-----------------------------------------------------------------------------
(* The fields of a state after CancelAttack.                               *)
LEMMA CancelFields ==
    ASSUME NEW f \in Fights, NEW S
    PROVE  LET g == Cancel(f, S)
               C == {u \in S : Attacking(f, u)} IN
           /\ g \in Fights
           /\ \A u \in Units : g.target[u] = IF u \in C THEN None ELSE f.target[u]
           /\ \A v \in Units : g.attackers[v] = f.attackers[v] \ {u \in C : f.target[u] = v}
           /\ \A u \in Units : g.type[u] = IF u \in C THEN {} ELSE f.type[u]
           /\ \A m \in Mobs : g.tag[m] = IF m \in C THEN None ELSE f.tag[m]
           /\ g.death = f.death
<1> DEFINE C == {u \in S : Attacking(f, u)}
<1> DEFINE g == Cancel(f, S)
<1> DEFINE T == [u \in Units |-> IF u \in C THEN None ELSE f.target[u]]
<1> DEFINE A == [v \in Units |-> f.attackers[v] \ {u \in C : f.target[u] = v}]
<1> DEFINE Y == [u \in Units |-> IF u \in C THEN {} ELSE f.type[u]]
<1> DEFINE G == [m \in Mobs |-> IF m \in C THEN None ELSE f.tag[m]]
<1>1. g = [target |-> T, attackers |-> A, type |-> Y, tag |-> G,
           death |-> f.death]
  <2>1. f = [target |-> f.target, attackers |-> f.attackers, type |-> f.type,
             tag |-> f.tag, death |-> f.death]
    BY DEF Fights
  <2>2. g = [f EXCEPT !.target = T, !.attackers = A, !.type = Y, !.tag = G]
    BY Zenon DEF Cancel
  <2> HIDE DEF g, T, A, Y, G
  <2>3. QED
    BY <2>1, <2>2
<1>2. T \in [Units -> Units \cup {None}] /\ A \in [Units -> SUBSET Units]
      /\ Y \in [Units -> SUBSET Types] /\ G \in [Mobs -> Players \cup {None}]
  BY DEF Fights
<1> HIDE DEF C
<1>3. g \in Fights
  BY <1>1, <1>2 DEF Fights
<1>4. QED
  BY <1>1, <1>3 DEF C

LEMMA CancelGood ==
    ASSUME NEW f, NEW L, None \notin L, L \subseteq Units, NEW M, M \subseteq Mobs, Good(f, L, M), NEW S
    PROVE  Good(Cancel(f, S), L, M)
<1> DEFINE g == Cancel(f, S)
<1> DEFINE C == {u \in S : Attacking(f, u)}
<1>1. f \in Fights /\ Known(f, L) /\ Tagged(f, M)
  BY DEF Good
<1>2. /\ g \in Fights
      /\ \A u \in Units : g.target[u] = IF u \in C THEN None ELSE f.target[u]
      /\ \A v \in Units : g.attackers[v] = f.attackers[v] \ {u \in C : f.target[u] = v}
      /\ \A u \in Units : g.type[u] = IF u \in C THEN {} ELSE f.type[u]
      /\ \A m \in Mobs : g.tag[m] = IF m \in C THEN None ELSE f.tag[m]
      /\ g.death = f.death
  BY <1>1, CancelFields
<1> HIDE DEF g, C
<1>3. Known(g, L)
  <2> SUFFICES ASSUME NEW u \in L
               PROVE  /\ Attacking(g, u) => g.target[u] # None
                      /\ g.target[u] \in L => u \in g.attackers[g.target[u]]
    BY DEF Known
  <2>1. CASE u \in C
    BY <1>2, <2>1 DEF Attacking
  <2>2. CASE u \notin C
    <3>1. g.target[u] = f.target[u] /\ g.type[u] = f.type[u]
      BY <1>2, <2>2
    <3>2. Attacking(g, u) => g.target[u] # None
      BY <1>1, <3>1 DEF Known, Attacking
    <3>3. ASSUME g.target[u] \in L PROVE u \in g.attackers[g.target[u]]
      BY <1>1, <1>2, <2>2, <3>1, <3>3 DEF Known
    <3>4. QED
      BY <3>2, <3>3
  <2>3. QED
    BY <2>1, <2>2
<1>4. Tagged(g, M)
  BY <1>1, <1>2 DEF Tagged, Attacking, Units
<1>5. QED
  BY <1>2, <1>3, <1>4 DEF Good, g

(* A change of the death states that makes no player live.                 *)
LEMMA DeathGood ==
    ASSUME NEW f, NEW L, NEW M, M \subseteq Mobs, Good(f, L, M), NEW g \in Fights,
           g.target = f.target, g.attackers = f.attackers, g.type = f.type, g.tag = f.tag,
           \A p \in Players : g.death[p] = "ALIVE" => f.death[p] = "ALIVE"
    PROVE  Good(g, L, M)
BY DEF Good, Known, Tagged, Attacking, Fights

LEMMA SetTargetGood ==
    ASSUME NEW f, NEW L, None \notin L, L \subseteq Units, NEW M, M \subseteq Mobs, Good(f, L, M),
           NEW u \in Units, NEW v \in Units,
           Mobs \subseteq L, u \in M => f.target[u] = None
    PROVE  /\ Good(SetTarget(f, u, v), L, M)
           /\ SetTarget(f, u, v).target = [f.target EXCEPT ![u] = v]
           /\ SetTarget(f, u, v).type = f.type
           /\ SetTarget(f, u, v).tag = f.tag
           /\ SetTarget(f, u, v).death = f.death
<1> DEFINE g == SetTarget(f, u, v)
<1>1. f \in Fights /\ Known(f, L) /\ Tagged(f, M)
  BY DEF Good
<1>2. /\ g \in Fights
      /\ g.target = [f.target EXCEPT ![u] = v]
      /\ g.attackers = [f.attackers EXCEPT ![v] = @ \cup {u}]
      /\ g.type = f.type /\ g.tag = f.tag /\ g.death = f.death
  BY <1>1 DEF SetTarget, Fights
<1> HIDE DEF g
<1>3. Known(g, L)
  <2> SUFFICES ASSUME NEW w \in L
               PROVE  /\ Attacking(g, w) => g.target[w] # None
                      /\ g.target[w] \in L => w \in g.attackers[g.target[w]]
    BY DEF Known
  <2>1. Attacking(g, w) => g.target[w] # None
    BY <1>1, <1>2, CombatAssumption DEF Known, Attacking, Fights
  <2>2. CASE w = u
    BY <1>1, <1>2, <2>1, <2>2 DEF Fights
  <2>3. CASE w # u
    <3>1. g.target[w] = f.target[w]
      BY <1>1, <1>2, <2>3 DEF Fights
    <3>2. ASSUME g.target[w] \in L PROVE w \in g.attackers[g.target[w]]
      <4>1. w \in f.attackers[g.target[w]]
        BY <1>1, <3>1, <3>2 DEF Known
      <4>2. QED
        BY <1>1, <1>2, <3>2, <4>1 DEF Fights
    <3>3. QED
      BY <2>1, <3>2
  <2>4. QED
    BY <2>2, <2>3
<1>4. Tagged(g, M)
  <2>1. u \in M => ~Attacking(f, u)
    BY <1>1 DEF Known
  <2>2. QED
    BY <1>1, <1>2, <2>1 DEF Tagged, Attacking, Fights, Units
<1>5. QED
  BY <1>2, <1>3, <1>4 DEF Good, g

LEMMA AimGood ==
    ASSUME NEW f, NEW L, None \notin L, L \subseteq Units, NEW M, M \subseteq Mobs, Good(f, L, M),
           NEW u \in Units, NEW v \in Units, Mobs \subseteq L, u \notin M
    PROVE  LET g == Aim(f, u, v) IN
           /\ Good(g, L, M)
           /\ g.target[u] \in Units /\ Guid[g.target[u]] = Guid[v]
           /\ g.type = f.type /\ g.tag = f.tag /\ g.death = f.death
<1>1. f \in Fights
  BY DEF Good
<1>2. CASE f.target[u] # None /\ Guid[f.target[u]] = Guid[v]
  <2>1. Aim(f, u, v) = f
    BY <1>2 DEF Aim
  <2>2. f.target[u] \in Units
    BY <1>1, <1>2 DEF Fights
  <2>3. QED
    BY <1>2, <2>1, <2>2
<1>3. CASE ~ (f.target[u] # None /\ Guid[f.target[u]] = Guid[v])
  <2>1. Aim(f, u, v) = SetTarget(f, u, v)
    BY <1>3 DEF Aim
  <2>2. [f.target EXCEPT ![u] = v][u] = v
    BY <1>1 DEF Fights
  <2>3. /\ Good(SetTarget(f, u, v), L, M)
        /\ SetTarget(f, u, v).target = [f.target EXCEPT ![u] = v]
        /\ SetTarget(f, u, v).type = f.type
        /\ SetTarget(f, u, v).tag = f.tag
        /\ SetTarget(f, u, v).death = f.death
    BY SetTargetGood
  <2>4. QED
    BY <2>1, <2>2, <2>3
<1>4. QED
  BY <1>2, <1>3

(* Another weapon for a unit that has a target.                            *)
LEMMA WeaponGood ==
    ASSUME NEW f, NEW L, NEW M, M \subseteq Mobs, Good(f, L, M),
           NEW u \in Units, f.target[u] # None, NEW t \in Types
    PROVE  LET g == [f EXCEPT !.type[u] = @ \cup {t}] IN
           /\ Good(g, L, M)
           /\ Attacking(g, u)
           /\ g.target = f.target /\ g.tag = f.tag /\ g.death = f.death
<1> DEFINE g == [f EXCEPT !.type[u] = @ \cup {t}]
<1>1. f \in Fights /\ Known(f, L) /\ Tagged(f, M)
  BY DEF Good
<1>2. /\ g \in Fights
      /\ g.type = [f.type EXCEPT ![u] = @ \cup {t}]
      /\ g.target = f.target /\ g.attackers = f.attackers
      /\ g.tag = f.tag /\ g.death = f.death
  BY <1>1 DEF Fights
<1>3. \A w \in Units : g.type[w] = IF w = u THEN f.type[u] \cup {t} ELSE f.type[w]
  BY <1>1, <1>2 DEF Fights
<1> HIDE DEF g
<1>4. Attacking(g, u)
  BY <1>3 DEF Attacking
<1>5. \A w \in Units : Attacking(f, w) => Attacking(g, w)
  BY <1>3 DEF Attacking
<1>6. \A w : w # u => (Attacking(f, w) <=> Attacking(g, w))
  BY <1>1, <1>2 DEF Attacking, Fights
<1>7. Known(g, L)
  BY <1>1, <1>2, <1>6 DEF Known
<1>8. Tagged(g, M)
  BY <1>1, <1>2, <1>5 DEF Tagged, Units
<1>9. QED
  BY <1>2, <1>4, <1>7, <1>8 DEF Good, g

(* A mob that attacks p may be tagged by p, or by nobody that lives.       *)
LEMMA MobAttackGood ==
    ASSUME NEW f, NEW L, None \notin L, L \subseteq Units, NEW m \in Mobs, NEW p \in Units,
           Good(f, L, Mobs \ {m}), Mobs \subseteq L,
           f.tag[m] = p \/ f.tag[m] = None \/ f.death[f.tag[m]] # "ALIVE"
    PROVE  /\ Good(MobAttack(f, m, p), L, Mobs)
           /\ \A u \in Players : MobAttack(f, m, p).target[u] = f.target[u]
<1> DEFINE g == MobAttack(f, m, p)
<1>1. f \in Fights
  BY DEF Good
<1>2. m \in Units
  BY DEF Units
<1>3. CASE f.death[p] = "DEAD"
  <2>1. g = Cancel(f, {m})
    BY <1>3 DEF MobAttack
  <2>2. Good(g, L, Mobs \ {m})
    BY <2>1, CancelGood
  <2>3. /\ g.tag[m] = IF Attacking(f, m) THEN None ELSE f.tag[m]
        /\ g.death = f.death
        /\ \A u \in Players : g.target[u] = f.target[u]
    BY <1>1, <2>1, CancelFields, CombatAssumption DEF Units
  <2> HIDE DEF g
  <2>4. g.tag[m] # None => g.death[g.tag[m]] # "ALIVE"
    BY <1>3, <2>3
  <2>5. Tagged(g, Mobs)
    BY <2>2, <2>4 DEF Good, Tagged
  <2>6. QED
    BY <2>2, <2>3, <2>5 DEF Good, g
<1>4. CASE f.death[p] # "DEAD"
  <2> DEFINE h == Aim(f, m, p)
  <2>1. g = [h EXCEPT !.type[m] = @ \cup {"LASER"}]
    BY <1>4 DEF MobAttack
  <2>2. /\ Good(h, L, Mobs \ {m})
        /\ h.target[m] \in Units /\ Guid[h.target[m]] = Guid[p]
        /\ h.tag = f.tag /\ h.death = f.death
    BY <1>2, AimGood
  <2>3. \A u \in Players : h.target[u] = f.target[u]
    BY <1>1, CombatAssumption DEF Aim, SetTarget, Fights, Units
  <2> HIDE DEF h
  <2>4. h.target[m] # None
    BY <2>2, CombatAssumption
  <2>5. /\ Good(g, L, Mobs \ {m})
        /\ Attacking(g, m)
        /\ g.target = h.target /\ g.tag = h.tag /\ g.death = h.death
    <3>1. "LASER" \in Types
      BY DEF Types
    <3>2. Mobs \ {m} \subseteq Mobs
      OBVIOUS
    <3>3. LET k == [h EXCEPT !.type[m] = @ \cup {"LASER"}] IN
          /\ Good(k, L, Mobs \ {m})
          /\ Attacking(k, m)
          /\ k.target = h.target /\ k.tag = h.tag /\ k.death = h.death
      BY <1>2, <2>2, <2>4, <3>1, <3>2, WeaponGood
    <3>4. QED
      BY <2>1, <3>3
  <2> HIDE DEF g
  <2>6. Tagged(g, Mobs)
    BY <2>2, <2>5 DEF Good, Tagged
  <2>7. QED
    BY <2>3, <2>5, <2>6 DEF Good, g
<1>5. QED
  BY <1>3, <1>4

LEMMA TagGood ==
    ASSUME NEW f, NEW L, None \notin L, L \subseteq Units, Good(f, L, Mobs), Mobs \subseteq L,
           NEW p \in Players, NEW v \in Units
    PROVE  /\ Good(Tag(f, p, v), L, Mobs)
           /\ Tag(f, p, v).target[p] = f.target[p]
<1>1. CASE v \in Mobs /\ f.tag[v] = None
  <2> DEFINE g == [f EXCEPT !.tag[v] = p]
  <2>1. /\ g \in Fights
        /\ g.tag = [f.tag EXCEPT ![v] = p]
        /\ g.target = f.target /\ g.attackers = f.attackers
        /\ g.type = f.type /\ g.death = f.death
    BY <1>1 DEF Good, Fights
  <2>2. g.tag[v] = p /\ \A m \in Mobs \ {v} : g.tag[m] = f.tag[m]
    BY <1>1, <2>1 DEF Good, Fights
  <2>3. Tag(f, p, v) = MobAttack(g, v, p)
    BY <1>1 DEF Tag
  <2> HIDE DEF g
  <2>4. Good(g, L, Mobs \ {v})
    BY <2>1, <2>2 DEF Good, Known, Tagged, Attacking
  <2>. p \in Units
    BY DEF Units
  <2>5. /\ Good(MobAttack(g, v, p), L, Mobs)
        /\ \A u \in Players : MobAttack(g, v, p).target[u] = g.target[u]
    BY <1>1, <2>2, <2>4, MobAttackGood
  <2>6. QED
    BY <2>1, <2>3, <2>5
<1>2. CASE ~ (v \in Mobs /\ f.tag[v] = None)
  BY <1>2 DEF Tag
<1>3. QED
  BY <1>1, <1>2

LEMMA AttackGood ==
    ASSUME NEW f, NEW L, None \notin L, L \subseteq Units, Good(f, L, Mobs), Mobs \subseteq L,
           NEW p \in Players, NEW v \in Units, NEW t \in Types
    PROVE  Good(Attack(f, p, v, t), L, Mobs)
<1>1. p \in Units /\ p \notin Mobs
  BY CombatAssumption DEF Units
<1>2. CASE f.death[v] = "DEAD"
  <2>1. Attack(f, p, v, t) = Cancel(f, {p})
    BY <1>2 DEF Attack
  <2>2. QED
    BY <2>1, CancelGood
<1>3. CASE f.death[v] # "DEAD"
  <2> DEFINE g == Aim(f, p, v)
  <2> DEFINE h == Tag(g, p, g.target[p])
  <2>1. Good(g, L, Mobs) /\ g.target[p] \in Units
    BY <1>1, AimGood
  <2>2. Attack(f, p, v, t) = [h EXCEPT !.type[p] = @ \cup {t}]
    BY <1>3 DEF Attack
  <2> HIDE DEF g
  <2>3. Good(h, L, Mobs) /\ h.target[p] = g.target[p]
    BY <2>1, TagGood
  <2> HIDE DEF h
  <2>4. h.target[p] # None
    BY <2>1, <2>3, CombatAssumption
  <2>5. LET k == [h EXCEPT !.type[p] = @ \cup {t}] IN Good(k, L, Mobs)
    BY <1>1, <2>3, <2>4, WeaponGood
  <2>6. QED
    BY <2>2, <2>5
<1>4. QED
  BY <1>2, <1>3

LEMMA CancelTypeGood ==
    ASSUME NEW f, NEW L, None \notin L, L \subseteq Units, Good(f, L, Mobs),
           NEW p \in Units, NEW t
    PROVE  Good(CancelType(f, p, t), L, Mobs)
<1>1. CASE f.type[p] \subseteq {t}
  <2>1. CancelType(f, p, t) = Cancel(f, {p})
    BY <1>1 DEF CancelType
  <2>2. QED
    BY <2>1, CancelGood
<1>2. CASE ~ (f.type[p] \subseteq {t})
  <2> DEFINE g == [f EXCEPT !.type[p] = @ \ {t}]
  <2>1. f \in Fights /\ Known(f, L) /\ Tagged(f, Mobs)
    BY DEF Good
  <2>3. CancelType(f, p, t) = g
    BY <1>2 DEF CancelType
  <2>4. /\ g \in Fights
        /\ g.target = f.target /\ g.attackers = f.attackers
        /\ g.tag = f.tag /\ g.death = f.death
        /\ g.type = [f.type EXCEPT ![p] = @ \ {t}]
    BY <2>1 DEF Fights
  <2>5. \A w \in Units : g.type[w] = IF w = p THEN f.type[p] \ {t} ELSE f.type[w]
    BY <2>1, <2>4 DEF Fights
  <2> HIDE DEF g
  <2>6. \A w \in Units : Attacking(g, w) <=> Attacking(f, w)
    BY <1>2, <2>5 DEF Attacking
  <2>7. Known(g, L)
    BY <2>1, <2>4, <2>6 DEF Known
  <2>8. Tagged(g, Mobs)
    BY <2>1, <2>4, <2>6 DEF Tagged, Units
  <2>9. QED
    BY <2>3, <2>4, <2>7, <2>8 DEF Good
<1>3. QED
  BY <1>1, <1>2

LEMMA KillGood ==
    ASSUME NEW f, NEW L, None \notin L, L \subseteq Units, Good(f, L, Mobs),
           NEW u \in Units, NEW v \in Units
    PROVE  Good(Kill(f, u, v), L, Mobs)
<1> DEFINE D == [f.death EXCEPT ![v] = "JUST_DIED"]
<1> DEFINE g == [f EXCEPT !.death[v] = "JUST_DIED"]
<1>1. f \in Fights
  BY DEF Good
<1>2. D \in [Units -> {"ALIVE", "JUST_DIED", "DEAD"}]
  BY <1>1 DEF Fights
<1>3. g = [f EXCEPT !.death = D]
  BY <1>1 DEF Fights
<1>4. Kill(f, u, v) = Cancel(g, {u})
  BY DEF Kill
<1>5. \A p \in Players : D[p] = "ALIVE" => f.death[p] = "ALIVE"
  BY <1>1 DEF Fights, Units
<1> HIDE DEF g, D
<1>6. /\ g \in Fights /\ g.death = D
      /\ g.target = f.target /\ g.attackers = f.attackers /\ g.type = f.type /\ g.tag = f.tag
  BY <1>1, <1>2, <1>3 DEF Fights
<1>7. Good(g, L, Mobs)
  BY <1>5, <1>6, DeathGood
<1>8. QED
  BY <1>4, <1>7, CancelGood

(* The destructor: L without p, whom nobody that lives attacks any more.   *)
LEMMA RemoveAllAttackersGood ==
    ASSUME NEW f, NEW L, None \notin L, L \subseteq Units, Good(f, L, Mobs),
           NEW p \in Players, p \in L
    PROVE  /\ Good(RemoveAllAttackers(f, p), L \ {p}, Mobs)
           /\ \A u \in L : f.target[u] = p => ~Attacking(RemoveAllAttackers(f, p), u)
<1> DEFINE S == f.attackers[p]
<1> DEFINE g == Cancel(f, S)
<1> DEFINE h == RemoveAllAttackers(f, p)
<1>1. f \in Fights /\ p \in Units
  BY DEF Good, Units
<1>2. Good(g, L, Mobs)
  BY CancelGood
<1>3. \A u \in Units : g.type[u] = IF u \in S /\ Attacking(f, u) THEN {} ELSE f.type[u]
  BY <1>1, CancelFields
<1>4. h = [g EXCEPT !.attackers[p] = {}]
  BY DEF RemoveAllAttackers
<1> HIDE DEF g, S, h
<1>5. g \in Fights /\ Known(g, L) /\ Tagged(g, Mobs)
  BY <1>2 DEF Good
<1>6. /\ h \in Fights
      /\ h.target = g.target /\ h.type = g.type /\ h.tag = g.tag /\ h.death = g.death
      /\ \A v \in Units \ {p} : h.attackers[v] = g.attackers[v]
  BY <1>1, <1>4, <1>5 DEF Fights
<1>7. Known(h, L \ {p})
  BY <1>5, <1>6 DEF Known, Attacking
<1>8. Tagged(h, Mobs)
  BY <1>5, <1>6 DEF Tagged, Attacking
<1>9. ASSUME NEW u \in L, f.target[u] = p PROVE ~Attacking(h, u)
  <2>1. u \in S
    BY <1>9 DEF Good, Known, S
  <2>2. QED
    BY <1>3, <1>6, <2>1 DEF Attacking
<1>10. QED
  BY <1>6, <1>7, <1>8, <1>9 DEF Good, h

LEMMA LaserGood ==
    ASSUME NEW f, NEW L, None \notin L, L \subseteq Units, Good(f, L, Mobs), Mobs \subseteq L,
           NEW u \in Units, f.target[u] \in Units,
           NEW g \in LaserAttack(f, u)
    PROVE  Good(g, L, Mobs)
<1> DEFINE v == f.target[u]
<1>1. CASE g = f
  BY <1>1
<1>2. CASE g = Kill(f, u, v)
  BY <1>2, KillGood
<1>3. CASE v \in Mobs /\ ~Attacking(f, v) /\ g = MobAttack(f, v, u)
  <2>2. f.tag[v] = u \/ f.tag[v] = None \/ f.death[f.tag[v]] # "ALIVE"
    BY <1>3 DEF Good, Tagged
  <2>3. Good(f, L, Mobs \ {v})
    BY DEF Good, Tagged
  <2>4. QED
    BY <1>3, <2>2, <2>3, MobAttackGood
<1>4. CASE u \in Players /\ g = CancelType(f, u, "LASER")
  BY <1>4, CancelTypeGood
<1>5. QED
  BY <1>1, <1>2, <1>3, <1>4 DEF LaserAttack

LEMMA RocketGood ==
    ASSUME NEW f, NEW L, None \notin L, L \subseteq Units, Good(f, L, Mobs),
           NEW u \in L, NEW g \in RocketAttack(f, u)
    PROVE  Good(g, L, Mobs)
<1>1. CASE f.type[u] \cap {"ROCKET", "BOTH"} = {}
  BY <1>1 DEF RocketAttack
<1>2. CASE f.type[u] \cap {"ROCKET", "BOTH"} # {}
  <2>1. f.target[u] \in Units
    BY <1>2 DEF Good, Known, Attacking, Fights
  <2>2. CASE g = f
    BY <2>2
  <2>3. CASE g = Kill(f, u, f.target[u])
    BY <2>1, <2>3, KillGood
  <2>4. CASE g = CancelType(f, u, "ROCKET")
    BY <2>4, CancelTypeGood
  <2>5. QED
    BY <1>2, <2>2, <2>3, <2>4 DEF RocketAttack
<1>3. QED
  BY <1>1, <1>2

LEMMA AttackerStateGood ==
    ASSUME NEW f, NEW L, None \notin L, L \subseteq Units, Good(f, L, Mobs), Mobs \subseteq L,
           NEW u \in L, NEW g \in AttackerStateUpdate(f, u)
    PROVE  Good(g, L, Mobs)
<1>1. CASE g = f
  BY <1>1
<1>2. CASE g = Cancel(f, {u})
  BY <1>2, CancelGood
<1>3. CASE f.target[u] # None /\ g \in UNION {RocketAttack(h, u) : h \in LaserAttack(f, u)}
  <2>1. PICK h \in LaserAttack(f, u) : g \in RocketAttack(h, u)
    BY <1>3
  <2>2. f.target[u] \in Units
    BY <1>3 DEF Good, Fights
  <2>3. Good(h, L, Mobs)
    BY <2>2, LaserGood
  <2>4. QED
    BY <2>1, <2>3, RocketGood
<1>4. QED
  BY <1>1, <1>2, <1>3 DEF AttackerStateUpdate

LEMMA MovementGood ==
    ASSUME NEW f, NEW L, None \notin L, L \subseteq Units, Good(f, L, Mobs), Mobs \subseteq L,
           NEW m \in Mobs, NEW near, near \subseteq Players,
           NEW g \in UpdateMovement(f, m, near)
    PROVE  Good(g, L, Mobs)
<1>1. CASE g = f
  BY <1>1
<1>2. CASE g = Cancel(f, {m})
  BY <1>2, CancelGood
<1>3. ASSUME f.target[m] = None, NEW p \in near, g = SetTarget(f, m, p)
      PROVE  Good(g, L, Mobs)
  <2>1. m \in Units /\ p \in Units
    BY DEF Units
  <2>2. Good(SetTarget(f, m, p), L, Mobs)
    BY <1>3, <2>1, SetTargetGood
  <2>3. QED
    BY <1>3, <2>2
<1>4. QED
  BY <1>1, <1>2, <1>3 DEF UpdateMovement

-----------------------------------------------------------------------------
IInv ==
    /\ TypeOK
    /\ Good(fight, Live, Mobs)
    /\ \A p \in freed : map[p] = None

LEMMA LiveUnits == TypeOK => Live \subseteq Units /\ None \notin Live /\ Mobs \subseteq Live
BY CombatAssumption DEF TypeOK, Live, Units

LEMMA InitIInv == Init => IInv
<1> SUFFICES ASSUME Init PROVE IInv
  OBVIOUS
<1>1. fight \in Fights
  BY DEF Init, Fights
<1>2. TypeOK
  BY <1>1, CombatAssumption DEF Init, TypeOK, Units
<1>3. Known(fight, Live)
  BY <1>2, LiveUnits DEF Init, Known, Attacking
<1>4. Tagged(fight, Mobs)
  BY DEF Init, Tagged
<1>5. QED
  BY <1>1, <1>2, <1>3, <1>4 DEF IInv, Good, Init

LEMMA NextIInv == IInv /\ [Next]_vars => IInv'
<1> SUFFICES ASSUME IInv, [Next]_vars PROVE IInv'
  OBVIOUS
<1> USE DEF IInv
<1>0. Live \subseteq Units /\ None \notin Live /\ Mobs \subseteq Live /\ Mobs \subseteq Mobs
  BY LiveUnits
<1>1. fight \in Fights /\ map \in [Units -> Maps \cup {None}] /\ freed \subseteq Players
  BY DEF TypeOK
(* What is left to show of a step that frees nobody.                       *)
<1>2. ASSUME Good(fight', Live, Mobs), UNCHANGED freed,
             map' \in [Units -> Maps \cup {None}], \A p \in freed : map'[p] = None,
             jumping' \subseteq Players, events' \in 0..MaxEvents
      PROVE  IInv'
  <2>1. Live' = Live
    BY <1>2 DEF Live
  <2>2. Good(fight, Live, Mobs)'
    BY <1>2, <2>1 DEF Good, Known, Tagged, Attacking
  <2>3. TypeOK'
    BY <1>1, <1>2 DEF TypeOK, Good
  <2>4. QED
    BY <1>2, <2>2, <2>3
<1>3. ASSUME NEW p \in Players, map[p] # None
      PROVE  p \in Live /\ p \in Units
  BY <1>3 DEF Live, Units
<1>4. ASSUME NEW p \in Players, Event(p), jumping' \subseteq Players, Good(fight', Live, Mobs)
      PROVE  IInv'
  BY <1>1, <1>2, <1>4, CombatAssumption DEF Event, TypeOK
<1>5. ASSUME NEW p \in Players, NEW where \in Maps, HandleLogin(p, where) PROVE IInv'
  <2>1. \A q \in freed : map'[q] = None
    BY <1>1, <1>5 DEF HandleLogin
  <2>2. QED
    BY <1>1, <1>2, <1>5, <2>1 DEF HandleLogin, TypeOK
<1>6. ASSUME NEW p \in Players, NEW where \in Maps, ProcessJumpQueue(p, where) PROVE IInv'
  <2> DEFINE f == IF fight.target[p] = None THEN fight ELSE Cancel(fight, {fight.target[p]})
  <2>1. Good(f, Live, Mobs)
    BY <1>0, CancelGood
  <2>2. fight' = Cancel(f, {p})
    BY <1>6 DEF ProcessJumpQueue
  <2> HIDE DEF f
  <2>3. Good(fight', Live, Mobs)
    BY <1>0, <2>1, <2>2, CancelGood
  <2>4. \A q \in freed : map'[q] = None
    BY <1>1, <1>6 DEF ProcessJumpQueue
  <2>5. QED
    BY <1>1, <1>2, <1>6, <2>3, <2>4 DEF ProcessJumpQueue, TypeOK
<1>7. ASSUME NEW p \in Players, NEW v \in Units, HandleSelectTarget(p, v) PROVE IInv'
  <2>1. p \in Units /\ p \notin Mobs
    BY CombatAssumption DEF Units
  <2>2. Good(SetTarget(fight, p, v), Live, Mobs)
    BY <1>0, <2>1, SetTargetGood
  <2>3. Event(p) /\ jumping' = jumping /\ fight' = SetTarget(fight, p, v)
    BY <1>7 DEF HandleSelectTarget
  <2>4. QED
    BY <1>4, <2>2, <2>3 DEF TypeOK
<1>8. ASSUME NEW p \in Players, NEW v \in Units, HandleLaserShoot(p, v) PROVE IInv'
  <2>1. PICK t \in Types : fight' = Attack(fight, p, v, t)
    BY <1>8 DEF HandleLaserShoot, Types
  <2>2. Good(Attack(fight, p, v, t), Live, Mobs)
    BY <1>0, AttackGood
  <2>3. Event(p) /\ jumping' = jumping
    BY <1>8 DEF HandleLaserShoot
  <2>4. QED
    BY <1>4, <2>1, <2>2, <2>3 DEF TypeOK
<1>9. ASSUME NEW p \in Players, NEW v \in Units, HandleShootRocket(p, v) PROVE IInv'
  <2>1. "ROCKET" \in Types
    BY DEF Types
  <2>2. Good(Attack(fight, p, v, "ROCKET"), Live, Mobs)
    BY <1>0, <2>1, AttackGood
  <2>3. Event(p) /\ jumping' = jumping /\ fight' = Attack(fight, p, v, "ROCKET")
    BY <1>9 DEF HandleShootRocket
  <2>4. QED
    BY <1>4, <2>2, <2>3 DEF TypeOK
<1>10. ASSUME NEW p \in Players, HandleAbortLaser(p) PROVE IInv'
  <2>1. Good(Cancel(fight, {p}), Live, Mobs)
    BY <1>0, CancelGood
  <2>2. Event(p) /\ jumping' = jumping /\ fight' = Cancel(fight, {p})
    BY <1>10 DEF HandleAbortLaser
  <2>3. QED
    BY <1>4, <2>1, <2>2 DEF TypeOK
<1>11. ASSUME NEW p \in Players, HandlePortalJump(p) PROVE IInv'
  BY <1>4, <1>11 DEF HandlePortalJump, TypeOK
<1>12. ASSUME NEW p \in Players, UpdatePlayer(p) PROVE IInv'
  <2>1. p \in Live
    BY <1>3, <1>12 DEF UpdatePlayer
  <2>2. fight' \in AttackerStateUpdate(fight, p)
    BY <1>12 DEF UpdatePlayer
  <2>3. Good(fight', Live, Mobs)
    BY <1>0, <2>1, <2>2, AttackerStateGood
  <2>4. QED
    BY <1>1, <1>2, <1>12, <2>3 DEF UpdatePlayer, TypeOK
<1>13. ASSUME NEW p \in Players, Despawn(p) PROVE IInv'
  <2>1. Good(Cancel(fight, {fight.target[p]}), Live, Mobs)
    BY <1>0, CancelGood
  <2>2. QED
    BY <1>1, <1>2, <1>13, <2>1 DEF Despawn, TypeOK
<1>14. ASSUME NEW p \in Players, UpdateRadiationZone(p) PROVE IInv'
  <2>1. p \in Units
    BY DEF Units
  <2>2. Good(Kill(fight, p, p), Live, Mobs)
    BY <1>0, <2>1, KillGood
  <2>3. Event(p) /\ jumping' = jumping /\ fight' = Kill(fight, p, p)
    BY <1>14 DEF UpdateRadiationZone
  <2>4. QED
    BY <1>4, <2>2, <2>3 DEF TypeOK
(* Changes of the death states alone.                                      *)
<1>15. ASSUME NEW u \in Units, NEW d \in {"JUST_DIED", "DEAD"}
       PROVE  Good([fight EXCEPT !.death[u] = d], Live, Mobs)
  <2> DEFINE g == [fight EXCEPT !.death[u] = d]
  <2>1. /\ g \in Fights
        /\ g.target = fight.target /\ g.attackers = fight.attackers
        /\ g.type = fight.type /\ g.tag = fight.tag
        /\ g.death = [fight.death EXCEPT ![u] = d]
    BY <1>1 DEF Fights
  <2>2. \A p \in Players : g.death[p] = "ALIVE" => fight.death[p] = "ALIVE"
    BY <1>1, <2>1 DEF Fights, Units
  <2> HIDE DEF g
  <2>3. Good(g, Live, Mobs)
    BY <1>0, <2>1, <2>2, DeathGood
  <2>4. QED
    BY <2>3 DEF g
<1>16. ASSUME NEW p \in Players, Explode(p) PROVE IInv'
  <2>1. p \in Units
    BY DEF Units
  <2>2. Good([fight EXCEPT !.death[p] = "JUST_DIED"], Live, Mobs)
    BY <1>15, <2>1
  <2>3. Event(p) /\ jumping' = jumping /\ fight' = [fight EXCEPT !.death[p] = "JUST_DIED"]
    BY <1>16 DEF Explode
  <2>4. QED
    BY <1>4, <2>2, <2>3 DEF TypeOK
<1>17. ASSUME NEW p \in Players, Delete(p) PROVE IInv'
  <2>1. p \in Live
    BY <1>17 DEF Delete, Live, Units
  <2>2. Live' = Live \ {p}
    BY <1>17 DEF Delete, Live
  <2>3. Good(RemoveAllAttackers(fight, p), Live \ {p}, Mobs)
    BY <1>0, <2>1, RemoveAllAttackersGood
  <2>4. fight' = RemoveAllAttackers(fight, p)
    BY <1>17 DEF Delete
  <2>5. Good(fight', Live', Mobs)
    BY <2>2, <2>3, <2>4
  <2>6. Good(fight, Live, Mobs)'
    BY <2>5 DEF Good, Known, Tagged, Attacking
  <2>7. \A q \in freed' : map'[q] = None
    BY <1>1, <1>17 DEF Delete, Units
  <2>8. TypeOK'
    BY <1>1, <1>17, <2>5 DEF Delete, TypeOK, Good
  <2>9. QED
    BY <2>6, <2>7, <2>8
<1>18. ASSUME NEW m \in Mobs, UpdateMob(m) PROVE IInv'
  <2>1. PICK g \in UpdateMovement(fight, m, {p \in Players : map[p] = map[m]}) :
            fight' \in AttackerStateUpdate(g, m)
    BY <1>18 DEF UpdateMob
  <2>2. Good(g, Live, Mobs)
    BY <1>0, <2>1, MovementGood
  <2>3. m \in Live
    BY <1>0
  <2>4. Good(fight', Live, Mobs)
    BY <1>0, <2>1, <2>2, <2>3, AttackerStateGood
  <2>5. QED
    BY <1>1, <1>2, <1>18, <2>4 DEF UpdateMob, TypeOK
<1>19. ASSUME NEW m \in Mobs, UpdateRespawn(m) PROVE IInv'
  <2>1. /\ fight' \in Fights
        /\ fight'.target = fight.target /\ fight'.attackers = fight.attackers
        /\ fight'.type = fight.type /\ fight'.tag = fight.tag
        /\ fight'.death = [fight.death EXCEPT ![m] = "ALIVE"]
    <3> DEFINE D == [fight.death EXCEPT ![m] = "ALIVE"]
    <3>1. fight' = [fight EXCEPT !.death = D]
      BY <1>1, <1>19 DEF UpdateRespawn, Fights
    <3>2. D \in [Units -> {"ALIVE", "JUST_DIED", "DEAD"}]
      BY <1>1 DEF Fights
    <3> HIDE DEF D
    <3>3. /\ fight' \in Fights
          /\ fight'.target = fight.target /\ fight'.attackers = fight.attackers
          /\ fight'.type = fight.type /\ fight'.tag = fight.tag
          /\ fight'.death = D
      BY <1>1, <3>1, <3>2 DEF Fights
    <3>4. QED
      BY <3>3 DEF D
  <2>2. \A p \in Players : fight'.death[p] = "ALIVE" => fight.death[p] = "ALIVE"
    BY <1>1, <2>1, CombatAssumption DEF Fights, Units
  <2>3. Good(fight', Live, Mobs)
    BY <1>0, <2>1, <2>2, DeathGood
  <2>4. map' \in [Units -> Maps \cup {None}] /\ \A q \in freed : map'[q] = None
    <3>1. map' = [map EXCEPT ![m] = Home[m]] /\ Home[m] \in Maps
      BY <1>19, CombatAssumption DEF UpdateRespawn
    <3>2. \A q \in freed : q # m /\ q \in Units /\ map[q] = None
      BY <1>1, CombatAssumption DEF Units
    <3>3. map' \in [Units -> Maps \cup {None}]
      BY <1>1, <3>1
    <3>4. \A q \in freed : map'[q] = None
      BY <1>1, <3>1, <3>2
    <3>5. QED
      BY <3>3, <3>4
  <2>5. QED
    BY <1>1, <1>2, <1>19, <2>3, <2>4 DEF UpdateRespawn, TypeOK
<1>20. ASSUME NEW u \in Units, UpdateJustDied(u) PROVE IInv'
  <2>1. Good([fight EXCEPT !.death[u] = "DEAD"], Live, Mobs)
    BY <1>15
  <2>2. Good(Cancel([fight EXCEPT !.death[u] = "DEAD"], {u}), Live, Mobs)
    BY <1>0, <2>1, CancelGood
  <2>3. map' \in [Units -> Maps \cup {None}] /\ \A q \in freed : map'[q] = None
    <3>1. map' = [map EXCEPT ![u] = None]
      BY <1>20 DEF UpdateJustDied
    <3>2. \A q \in freed : q \in Units /\ map[q] = None
      BY <1>1 DEF Units
    <3>3. map' \in [Units -> Maps \cup {None}]
      BY <1>1, <3>1
    <3>4. \A q \in freed : map'[q] = None
      BY <1>1, <3>1, <3>2
    <3>5. QED
      BY <3>3, <3>4
  <2>4. QED
    BY <1>1, <1>2, <1>20, <2>2, <2>3 DEF UpdateJustDied, TypeOK
<1>21. ASSUME UNCHANGED vars PROVE IInv'
  BY <1>1, <1>2, <1>21 DEF vars, TypeOK
<1>22. QED
  BY <1>5, <1>6, <1>7, <1>8, <1>9, <1>10, <1>11, <1>12, <1>13, <1>14, <1>16, <1>17,
     <1>18, <1>19, <1>20, <1>21 DEF Next

THEOREM Invariance == Spec => []IInv
BY InitIInv, NextIInv, PTL DEF Spec

(* The fights of any number of units stay well-formed.                     *)
THEOREM TypeCorrect == Spec => []TypeOK
<1>1. IInv => TypeOK
  BY DEF IInv
<1>2. QED
  BY <1>1, Invariance, PTL

(* A target that is not freed knows everybody who aims at it (Unit.hpp).   *)
THEOREM AttacksAreKnown == Spec => []AttackIsKnown
<1>1. IInv => AttackIsKnown
  BY DEF IInv, Good, Known, AttackIsKnown
<1>2. QED
  BY <1>1, Invariance, PTL

(* The assertion of Mob::ScanForPlayers, for taggers that live.            *)
THEOREM TagsMatchTargets == Spec => []TaggedIsTarget
<1>1. IInv => TaggedIsTarget
  BY DEF IInv, Good, Tagged, TaggedIsTarget
<1>2. QED
  BY <1>1, Invariance, PTL

(* No attack on a player outlives its Player object.                       *)
THEOREM LogoutsEndAttacks == Spec => LogoutEndsAttacks
<1> DEFINE A == \A p \in freed' \ freed : \A u \in Live :
                    fight.target[u] = p => ~Attacking(fight', u)
<1>1. IInv /\ Next => A
  <2> SUFFICES ASSUME IInv, Next, NEW p \in freed' \ freed, NEW u \in Live,
                      fight.target[u] = p
               PROVE  ~Attacking(fight', u)
    OBVIOUS
  <2>1. PICK q \in Players : Delete(q)
    BY DEF Next, HandleLogin, ProcessJumpQueue, HandleSelectTarget, HandleLaserShoot,
           HandleShootRocket, HandleAbortLaser, HandlePortalJump, UpdatePlayer, Despawn,
           UpdateRadiationZone, Explode, UpdateMob, UpdateRespawn, UpdateJustDied, Event
  <2>2. q = p /\ fight' = RemoveAllAttackers(fight, p) /\ p \in Players /\ p \in Live
    BY <2>1 DEF Delete, Live, Units
  <2>3. Live \subseteq Units /\ None \notin Live /\ Good(fight, Live, Mobs)
    BY LiveUnits DEF IInv
  <2>4. ~Attacking(RemoveAllAttackers(fight, p), u)
    BY <2>2, <2>3, RemoveAllAttackersGood
  <2>5. QED
    BY <2>2, <2>4
<1>2. IInv /\ [Next]_vars => [A]_vars
  BY <1>1
<1> HIDE DEF A
<1>3. Spec => [][A]_vars
  BY <1>2, Invariance, PTL DEF Spec
<1>4. QED
  BY <1>3 DEF LogoutEndsAttacks, A
=============================================================================
