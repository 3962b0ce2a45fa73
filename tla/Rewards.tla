------------------------------ MODULE Rewards ------------------------------
(***************************************************************************)
(* What a player is promised for its quests.  A reward is earned when the  *)
(* quest is finished, and promised when that is on record; from then on it *)
(* is paid, all that is promised at a time, each once.  A crash takes back *)
(* what was earned, so that it can be earned again, and what was promised  *)
(* for ever; nothing else does.                                            *)
(***************************************************************************)
EXTENDS Naturals

CONSTANT Quest

VARIABLES
    reward,     \* what has become of the reward of each quest
    paid        \* how often it was paid

vars == <<reward, paid>>

TypeOK ==
    /\ reward \in [Quest -> {"open", "earned", "promised", "paid", "lost"}]
    /\ paid \in [Quest -> Nat]

Init == reward = [q \in Quest |-> "open"] /\ paid = [q \in Quest |-> 0]

Promised == {q \in Quest : reward[q] = "promised"}

Earn(q) ==
    /\ reward[q] = "open"
    /\ reward' = [reward EXCEPT ![q] = "earned"]
    /\ UNCHANGED paid

Promise(q) ==
    /\ reward[q] = "earned"
    /\ reward' = [reward EXCEPT ![q] = "promised"]
    /\ UNCHANGED paid

\* Nothing is paid while a reward is not on record.
Pay ==
    /\ \A q \in Quest : reward[q] # "earned"
    /\ reward' = [q \in Quest |-> IF q \in Promised THEN "paid" ELSE reward[q]]
    /\ paid' = [q \in Quest |-> IF q \in Promised THEN paid[q] + 1 ELSE paid[q]]

Crash ==
    /\ reward' = [q \in Quest |-> CASE reward[q] = "earned"   -> "open"
                                    [] reward[q] = "promised" -> "lost"
                                    [] OTHER                  -> reward[q]]
    /\ UNCHANGED paid

Next ==
    \/ \E q \in Quest : Earn(q) \/ Promise(q)
    \/ Pay \/ Crash

Spec == Init /\ [][Next]_vars
=============================================================================
