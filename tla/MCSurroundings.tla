--------------------------- MODULE MCSurroundings ---------------------------
EXTENDS Surroundings, TLC

CONSTANTS p1, p2, box, ore, mine, west, east

TwoPlayers == {p1, p2}
OneBox     == {box}
OneOre     == {ore}
OneMine    == {mine}
TwoMaps    == {west, east}

Symmetry == Permutations(TwoPlayers) \cup Permutations(TwoMaps)
=============================================================================
