----------------------- MODULE MCHeartBeatElementMgr -----------------------
EXTENDS HeartBeatElementMgr, TLC

Perms == Permutations(Node) \cup Permutations(Element)
=============================================================================
