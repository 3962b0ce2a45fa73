SPECIFICATION Spec
CONSTANTS
    first = first
    second = second
    alice = alice
    None = None
    Conns <- TwoConns
    User <- SameUser
    Users <- OneUser
    MaxPackets <- OneSends
INVARIANT RemovalQueueIsLive
CHECK_DEADLOCK FALSE
