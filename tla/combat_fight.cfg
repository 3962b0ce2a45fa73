SPECIFICATION Spec
CONSTANTS
    ship = ship
    ship2 = ship2
    again = again
    mob = mob
    map1 = map1
    map2 = map2
    None = None
    Players <- Both
    Mobs <- OneMob
    Maps <- TwoMaps
    Guid <- SameUser
    Home <- AtFirst
    AutoRocket <- OneAuto
    MaxEvents = 3
INVARIANT AttackIsKnown
INVARIANT TaggedIsTarget
PROPERTY LogoutEndsAttacks
