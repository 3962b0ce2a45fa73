------------------------------ MODULE MCSocket ------------------------------
EXTENDS Socket

CONSTANTS map, world

\* The thread of the player's map and the world thread.
GameThreads == {map, world}
=============================================================================
