SPECIFICATION FairSpec
CONSTANTS
    first = first
    second = second
    alice = alice
    None = None
    Conns <- TwoConns
    User <- SameUser
    Users <- OneUser
    MaxPackets <- OneSends
INVARIANTS RemovalFindsPlayer CleanLoginsLoseNothing
PROPERTIES ImplementsShips LogoutStartsAfresh DisconnectedLeaves LoginReachesMap
CHECK_DEADLOCK FALSE
