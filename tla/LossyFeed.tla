------------------------------ MODULE LossyFeed ------------------------------
(* What the gateway promises a client (ADR-026): its messages, numbered as  *)
(* they are routed to it, wait to be sent together.  Only when Capacity     *)
(* events wait do the oldest give way, never the newest half, and then the  *)
(* client is warned with the next batch.                                    *)
EXTENDS Naturals, FiniteSets

CONSTANT Capacity
VARIABLES routed, heard, held, warned

vars == <<routed, heard, held, warned>>

Init == routed = 0 /\ heard = 0 /\ held = {} /\ warned = FALSE

Full == Cardinality(held) + (IF warned THEN 1 ELSE 0) >= Capacity

Route ==
    LET all == held \cup {routed + 1}
    IN /\ \E oldest \in all : held' = {m \in all : m >= oldest}
       /\ held' # all => Full /\ \A m \in 0..((Capacity \div 2) - 1) : routed + 1 - m \in held'
       /\ warned' = (warned \/ held' # all)
       /\ routed' = routed + 1 /\ heard' = heard

Send ==
    /\ held # {} /\ held' = {}
    /\ heard' = routed /\ warned' = FALSE /\ routed' = routed

Next == Route \/ Send

Spec == Init /\ [][Next]_vars
=============================================================================
