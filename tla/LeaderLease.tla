----------------------------- MODULE LeaderLease ----------------------------
(* What leader election promises its users: a lock with one owner, only the *)
(* owner acts as leader, and the lock is lost only when nobody does.        *)
CONSTANTS Node, None
VARIABLES owner, leaders

Init == owner = None /\ leaders = {}

Acquire(n) == owner = None /\ owner' = n /\ UNCHANGED leaders
Announce(n) == owner = n /\ leaders' = leaders \cup {n} /\ UNCHANGED owner
Resign(n) == leaders' = leaders \ {n} /\ UNCHANGED owner
Lapse == leaders = {} /\ owner' = None /\ UNCHANGED leaders

Next == Lapse \/ \E n \in Node : Acquire(n) \/ Announce(n) \/ Resign(n)

Spec == Init /\ [][Next]_<<owner, leaders>>
=============================================================================
