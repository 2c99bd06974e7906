------------------------- MODULE MCHeartBeatService -------------------------
EXTENDS HeartBeatService, TLC

Perms == Permutations(Node) \cup Permutations(Element)
=============================================================================
