---------------------------- MODULE MCTaskManager ----------------------------
EXTENDS TaskManager

CONSTANTS i1, i2, e1, z1, z2, s1, s2

\* Of the four workers of a machine with five cores one would be exclusive,
\* floor(0.3 * 4); here it is left to the services, of which the second gets a
\* critical worker.  A third inclusive worker is left out.
TwoInclusive == <<i1, i2>>
OneExclusive == <<e1>>

\* World::Load activates the zone workers; then the listener starts its network
\* thread s1 and its own task s2.  When main returns, ~Listener goes first and its
\* network thread next; a zone updater pops its workers in the order it pushed them.
ZonesFirst == <<z1, z2, s1, s2>>
ServicesFirst == <<s2, s1, z1, z2>>
=============================================================================
