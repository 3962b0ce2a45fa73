SPECIFICATION MapSpec
CONSTANTS
    p1 = p1
    p2 = p2
    box = box
    ore = ore
    mine = mine
    west = west
    east = east
    Null = Null
    Players <- TwoPlayers
    Boxes <- OneBox
    Ores <- OneOre
    Mines <- OneMine
    Maps <- TwoMaps
    LastCell = 1
    MaxThings = 2
    MaxEvents = 2
SYMMETRY Symmetry
INVARIANTS SurroundingsAreHere LoopIsLive PoolAgrees
CHECK_DEADLOCK FALSE
