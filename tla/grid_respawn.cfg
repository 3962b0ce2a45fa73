SPECIFICATION FairSpec
CONSTANTS
    alice = alice
    mob = mob
    home = home
    away = away
    west = west
    east = east
    Radiation = Radiation
    NoMap = NoMap
    NoJump = NoJump
    Players <- OnePlayer
    Mobs <- OneMob
    Maps <- OneMap
    Cells <- TwoCells
    Positions <- TwoCells
PROPERTIES MobsRespawn
CHECK_DEADLOCK FALSE
