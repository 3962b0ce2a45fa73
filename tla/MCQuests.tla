------------------------------ MODULE MCQuests ------------------------------
EXTENDS Quests, TLC

CONSTANTS q1, q2, kill, visit

\* An ordered quest that waits for one mob, a map and another mob, and one with a timer.
ConditionsOf ==
    (q1 :> <<[kind |-> kill, target |-> 1], [kind |-> visit, target |-> 1],
             [kind |-> kill, target |-> 1]>>)
    @@ (q2 :> <<[kind |-> kill, target |-> 2], [kind |-> Timer, target |-> 1]>>)
=============================================================================
