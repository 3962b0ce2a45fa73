----------------------------- MODULE MCMapGrid -----------------------------
EXTENDS MapGrid, TLC

CONSTANTS alice, mob, home, away, west, east

OnePlayer  == {alice}
OneMob     == {mob}
TwoMaps    == {home, away}
OneMap     == {home}
TwoCells   == {west, east}
Everywhere == TwoCells \cup {Radiation}

Symmetry == Permutations(TwoMaps) \cup Permutations(TwoCells)

\* At most one of the two objects has been outside of the cells.
OneStray == Cardinality(strayed) <= 1
=============================================================================
