--------------------------- MODULE MC_LiteBalancer ---------------------------
(***************************************************************************)
(* Model-checking instance of LiteBalancer: two peers, response times of  *)
(* 1 and 2 ms against a 3 ms timeout, so that the peer sort has both      *)
(* strict orders and ties.                                                 *)
(***************************************************************************)
EXTENDS LiteBalancer

MCPeers == {1, 2}
MCTimes == {1, 2}
MCQuery == {"query"}
MCSend  == {"send"}
MCCalls == {"query", "send"}
=============================================================================
