------------------------------- MODULE Ships -------------------------------
(***************************************************************************)
(* What the world server promises about the ships of its users, whatever   *)
(* the connections do: a user has one ship in the world at a time, a ship  *)
(* that has left does not come back (the user comes back with another      *)
(* one), and only a ship that is in the world is on a map.                 *)
(***************************************************************************)
CONSTANTS
    Conns,      \* every connection brings at most one ship
    User        \* the user of each connection

VARIABLES
    life,       \* what has become of the ship of each connection
    flying      \* the ships on a map

vars == <<life, flying>>

TypeOK ==
    /\ life \in [Conns -> {"none", "coming", "here", "gone"}]
    /\ flying \subseteq Conns

Init == life = [c \in Conns |-> "none"] /\ flying = {}

\* The ship is loaded from what is saved of it.
Come(c) ==
    /\ life[c] = "none"
    /\ life' = [life EXCEPT ![c] = "coming"]
    /\ UNCHANGED flying

\* It enters the world, if the user has no other there.
Enter(c) ==
    /\ life[c] = "coming"
    /\ \A d \in Conns : User[d] = User[c] => life[d] # "here"
    /\ life' = [life EXCEPT ![c] = "here"]
    /\ UNCHANGED flying

\* It leaves the world, and with it its map, for good.
Leave(c) ==
    /\ life[c] = "here"
    /\ life' = [life EXCEPT ![c] = "gone"]
    /\ flying' = flying \ {c}

TakeOff(c) ==
    /\ life[c] = "here"
    /\ flying' = flying \cup {c}
    /\ UNCHANGED life

\* It is destroyed on its map.
Crash(c) ==
    /\ flying' = flying \ {c}
    /\ UNCHANGED life

Next == \E c \in Conns : Come(c) \/ Enter(c) \/ Leave(c) \/ TakeOff(c) \/ Crash(c)

Spec == Init /\ [][Next]_vars
=============================================================================
