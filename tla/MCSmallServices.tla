--------------------------- MODULE MCSmallServices ---------------------------
(* Three checkout requests, two of which carry the same key; links that ask *)
(* for no lifetime, for shorter and for longer ones than the service gives. *)
EXTENDS SmallServices

CONSTANTS r1, r2, r3

MCKeyOf == [r \in Request |-> IF r = r3 THEN "k2" ELSE "k1"]
MCTtls == {-1, 0, 1, 3, 9}
=============================================================================
