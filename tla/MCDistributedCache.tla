------------------------- MODULE MCDistributedCache -------------------------
(* Three nodes with two points each, interleaved so that a node's neighbours *)
(* on the ring differ from point to point; a key on a point, one between two *)
(* and one past the last, which wraps around.                                *)
EXTENDS DistributedCache

CONSTANTS a, b, c

MCHashes == [n \in Node |-> CASE n = a -> <<5, 1>> [] n = b -> <<2, 6>> [] n = c -> <<4, 8>>]
MCKeyHash == {2, 3, 9}
=============================================================================
