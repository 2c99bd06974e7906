--------------------------- MODULE MCHeartBeatList ---------------------------
(* Four nodes: the shortest list with two interior nodes.                  *)
EXTENDS HeartBeatList
=============================================================================
