SPECIFICATION Spec
CONSTANTS
    alice = alice
    mob = mob
    home = home
    away = away
    west = west
    east = east
    Radiation = Radiation
    NoMap = NoMap
    NoJump = NoJump
    Players <- OnePlayer
    Mobs <- OneMob
    Maps <- TwoMaps
    Cells <- TwoCells
    Positions <- Everywhere
CONSTRAINT OneStray
INVARIANTS PacketsStayInTheArray
CHECK_DEADLOCK FALSE
