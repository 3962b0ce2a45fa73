------------------------------- MODULE MCChat -------------------------------
EXTENDS Chat

CONSTANTS c1, c2, c3, u1, u2, t1, t2, r1, r2

\* Connections c1 and c3 are of one account, c2 of another; each account on its own thread.
UserOf == [c \in Conns |-> IF c = c2 THEN u2 ELSE u1]
ThreadOf == [c \in Conns |-> IF c = c2 THEN t2 ELSE t1]

\* Nobody is sending a message, which changes no room and no player.
Silent == \A t \in NetThreads : busy[t].op \notin {"send", "tell"}

\* Bounds of the run.  Nothing follows the use of a deleted object.  The rooms may be
\* exchanged, so r1 is allocated first.  One room may be spoiled, and nothing is said
\* about both; nobody talks while there is one, or two rooms.  The account of c1 comes
\* back as c3 when c1 has lost its connection, as long as nothing is torn or spoiled.
Bounds ==
    /\ ~crashed
    /\ state[r2] = "unused" \/ state[r1] # "unused"
    /\ Cardinality(spoiled) < 2
    /\ (spoiled = {} /\ state[r2] = "unused") \/ Silent
    /\ player[c3] = "none" \/ (conn[c1] = "closed" /\ Silent /\ spoiled = {} /\ torn = {})
=============================================================================
