---------------------------- MODULE RecencyCache ----------------------------
(* What an LRU cache with TTLs promises: a sequence of entries, the most    *)
(* recently used first; a read answers the entry's value unless its time is *)
(* over, and a new key pushes out the last entry of a full cache.           *)
EXTENDS Integers, SequencesExt

CONSTANTS Key, Value, None, Capacity, TTLs
VARIABLES entries, answer

vars == <<entries, answer>>

Init == entries = <<>> /\ answer = None

PositionsOf(k) == {i \in DOMAIN entries : entries[i].key = k}

Get(k) ==
    \/ PositionsOf(k) = {} /\ answer' = None /\ UNCHANGED entries
    \/ \E i \in PositionsOf(k) :
          \/ /\ entries[i].left < 0
             /\ answer' = None
             /\ entries' = RemoveAt(entries, i)
          \/ /\ entries[i].left >= 0
             /\ answer' = entries[i].value
             /\ entries' = <<entries[i]>> \o RemoveAt(entries, i)

Remaining == IF entries # <<>> /\ Len(entries) >= Capacity THEN Front(entries) ELSE entries

Set(k, v, ttl) ==
    LET new == <<[key |-> k, value |-> v, left |-> ttl]>>
    IN  /\ \/ PositionsOf(k) = {} /\ entries' = new \o Remaining
           \/ \E i \in PositionsOf(k) : entries' = new \o RemoveAt(entries, i)
        /\ UNCHANGED answer

Tick ==
    /\ entries' = [i \in DOMAIN entries |->
                      [entries[i] EXCEPT !.left = IF @ < 0 THEN @ ELSE @ - 1]]
    /\ UNCHANGED answer

Next ==
    \/ Tick
    \/ \E k \in Key : Get(k) \/ \E v \in Value, ttl \in TTLs : Set(k, v, ttl)

Spec == Init /\ [][Next]_vars
=============================================================================
