------------------------------ MODULE MCCombat ------------------------------
(* Two users; the second one comes back with a new Player object.          *)
EXTENDS Combat

CONSTANTS ship, ship2, again, mob, map1, map2

Both     == {ship, ship2, again}
OneMob   == {mob}
TwoMaps  == {map1, map2}
SameUser == [u \in {ship, ship2, again, mob} |-> IF u = again THEN ship2 ELSE u]
OneAuto  == {ship}
AtFirst  == [m \in {mob} |-> map1]
=============================================================================
