----------------------------- MODULE AtLeastOnce -----------------------------
(* What an outbox promises (ADR-017): an accepted message stays open until  *)
(* it has been delivered, at least once, and is never reopened.             *)
CONSTANTS Message
VARIABLES accepted, delivered, closed

vars == <<accepted, delivered, closed>>

Init == accepted = {} /\ delivered = {} /\ closed = {}

Accept(m) ==
    accepted' = accepted \cup {m} /\ UNCHANGED <<delivered, closed>>

Deliver(m) ==
    m \in accepted /\ delivered' = delivered \cup {m} /\ UNCHANGED <<accepted, closed>>

Close(M) ==
    M \subseteq delivered /\ closed' = closed \cup M /\ UNCHANGED <<accepted, delivered>>

Next ==
    \/ \E m \in Message : Accept(m) \/ Deliver(m)
    \/ \E M \in SUBSET Message : Close(M)

Spec == Init /\ [][Next]_vars
=============================================================================
