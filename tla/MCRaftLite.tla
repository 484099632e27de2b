----------------------------- MODULE MCRaftLite -----------------------------
(* Three nodes; b knows the whole cluster, a and c the whole cluster or only *)
(* b, so that elections and writes can bypass one node.                      *)
EXTENDS RaftLite, TLC

CONSTANTS a, b, c

MCPeerSets == [n \in Node |-> CASE n = a -> {{b, c}, {b}}
                                [] n = b -> {{a, c}}
                                [] n = c -> {{a, b}, {b}}]
=============================================================================
