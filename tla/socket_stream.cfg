SPECIFICATION FairSpec
CONSTANTS
    map = map
    world = world
    Io = Io
    Nobody = Nobody
    Users <- GameThreads
    MaxWrites = 3
    MaxReads = 2
INVARIANTS NothingLost AssertsHold
PROPERTIES ImplementsStream FlushesOut ClosingEnds
