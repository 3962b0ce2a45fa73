SPECIFICATION FairSpec
CONSTANTS
    w1 = w1
    w2 = w2
    z1 = z1
    z2 = z2
    z3 = z3
    None = None
    Workers <- TwoWorkers
    Zones <- ThreeZones
    SpuriousWakeups = TRUE
INVARIANTS WaitsAreRight UpdatesAreExclusive CancelLosesNothing
PROPERTIES ImplementsBarrier WaitsEnd
CHECK_DEADLOCK FALSE
