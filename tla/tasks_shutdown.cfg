SPECIFICATION TMFairSpec
CONSTANTS
    i1 = i1
    i2 = i2
    e1 = e1
    NoTask = NoTask
    Inclusive <- TwoInclusive
    Exclusive <- OneExclusive
    Zones = {z1, z2}
    z1 = z1
    z2 = z2
    s1 = s1
    s2 = s2
    PushOrder <- ZonesFirst
    PopOrder <- ServicesFirst
CHECK_DEADLOCK FALSE
INVARIANTS OneToOne TasksAreOnWorkers
PROPERTIES CallsReturn PoppedTasksEnd
