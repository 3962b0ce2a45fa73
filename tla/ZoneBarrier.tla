---------------------------- MODULE ZoneBarrier ----------------------------
(***************************************************************************)
(* What Game::Map::ZoneUpdater promises to the world thread: one tick of   *)
(* the zones is a fork and a join.  The world thread and the zones take    *)
(* turns; in its turn every zone is updated exactly once.                  *)
(***************************************************************************)
CONSTANT Zones

VARIABLES
    phase,      \* whose turn it is: "world" or "zones"
    zone        \* what remains to be done for each zone in this tick

vars == <<phase, zone>>

ZoneStates == {"due", "running", "done"}

TypeOK ==
    /\ phase \in {"world", "zones"}
    /\ zone \in [Zones -> ZoneStates]

Init ==
    /\ phase = "world"
    /\ zone = [z \in Zones |-> "done"]

\* The world thread hands every zone over for one update.
Fork ==
    /\ phase = "world"
    /\ phase' = "zones"
    /\ zone' = [z \in Zones |-> "due"]

Begin(z) ==
    /\ phase = "zones"
    /\ zone[z] = "due"
    /\ zone' = [zone EXCEPT ![z] = "running"]
    /\ UNCHANGED phase

End(z) ==
    /\ zone[z] = "running"
    /\ zone' = [zone EXCEPT ![z] = "done"]
    /\ UNCHANGED phase

\* The world thread goes on only when no zone is left to update.
Join ==
    /\ phase = "zones"
    /\ \A z \in Zones : zone[z] = "done"
    /\ phase' = "world"
    /\ UNCHANGED zone

Next == Fork \/ Join \/ \E z \in Zones : Begin(z) \/ End(z)

Spec == Init /\ [][Next]_vars
=============================================================================
