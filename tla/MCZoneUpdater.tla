--------------------------- MODULE MCZoneUpdater ---------------------------
EXTENDS ZoneUpdater

CONSTANTS w1, w2, z1, z2, z3

TwoWorkers == {w1, w2}
ThreeZones == {z1, z2, z3}
=============================================================================
