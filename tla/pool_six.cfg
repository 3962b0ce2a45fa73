SPECIFICATION FairSpec
CONSTANTS
    login = login
    web = web
    Nobody = Nobody
    Threads <- LoginAndWeb
    Depth <- NestingDepth
    PoolSize = 6
INVARIANTS UseIsExclusive NoneHeldInVain
PROPERTIES PoolProgress
