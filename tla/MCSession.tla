----------------------------- MODULE MCSession -----------------------------
EXTENDS Session

CONSTANTS first, second, alice

OneUser  == {alice}
TwoConns == {first, second}
SameUser == [c \in TwoConns |-> alice]

\* One of the clients sends packets; it may be the one that logs in first.
OneSends == [c \in TwoConns |-> IF c = first THEN 2 ELSE 0]
=============================================================================
