SPECIFICATION Spec
CONSTANTS
    c1 = c1
    c2 = c2
    c3 = c3
    u1 = u1
    u2 = u2
    t1 = t1
    t2 = t2
    r1 = r1
    r2 = r2
    Main = Main
    Global = Global
    None = None
    Conns = {c1, c2}
    Users = {u1, u2}
    User <- UserOf
    NetThreads = {t1, t2}
    Thread <- ThreadOf
    PrivateIds = {i1}
    PrivateRooms = {r1}
CHECK_DEADLOCK FALSE
PROPERTIES RemovedIsEmpty
