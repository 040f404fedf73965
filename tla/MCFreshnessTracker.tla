-------------------------- MODULE MCFreshnessTracker --------------------------
\* An instance of FreshnessTracker for TLC: more devices than the two slots of a
\* table, one of them with two endpoints, so slots are recycled and calls fail
\* half way.  Two sessions make older, equal and newer datagrams.
EXTENDS FreshnessTracker, TLC

CONSTANTS a, b, c

CrowdedTuid == {a, b, c}
CrowdedSenderId == {<<a, 0>>, <<a, 1>>, <<b, 1>>, <<c, 1>>}
CrowdedSymmetry == Permutations({b, c})
===============================================================================
