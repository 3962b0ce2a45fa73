-------------------------- MODULE MCConnectionPool --------------------------
EXTENDS ConnectionPool

CONSTANTS login, web

\* A login reads condition attributes (4 statements open: LoadFromDB, LoadQuests,
\* LoadProgress, GetConditionAttributes) while a web request cancels a quest (3
\* open: the same without the user).
LoginAndWeb == {login, web}
NestingDepth == [t \in LoginAndWeb |-> IF t = login THEN 4 ELSE 3]
=============================================================================
