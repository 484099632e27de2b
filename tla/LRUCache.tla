------------------------------ MODULE LRUCache ------------------------------
(***************************************************************************)
(* shared/cache/lru.ts: LRUCache, a Map of nodes that are also linked from *)
(* the most (head) to the least (tail) recently used.  Expired entries are *)
(* removed only when they are read.  A node is named by its key: the Map   *)
(* never holds two nodes of one key.                                       *)
(***************************************************************************)
EXTENDS Integers, FiniteSets, Sequences

CONSTANTS
    Key, Value,
    Null,      \* null, for links and for answers
    Capacity,
    TTLs       \* the ttlMs used, in ticks

ASSUME CacheAssumption ==
    /\ IsFiniteSet(Key) /\ Null \notin Key \cup Value
    /\ Capacity \in Nat /\ TTLs \subseteq Nat

VARIABLES
    cache,    \* the keys of the Map
    list,     \* head, tail, and the next and prev of each node
    value,    \* each node's value
    left,     \* its expiresAt - Date.now(); -1 once that is negative
    answer    \* what the last get() returned

vars == <<cache, list, value, left, answer>>

Link == Key \cup {Null}

(* The Map, the links and the nodes have the types lru.ts declares.         *)
TypeOK ==
    /\ cache \subseteq Key
    /\ list \in [head : Link, tail : Link, next : [Key -> Link], prev : [Key -> Link]]
    /\ value \in [Key -> Value \cup {Null}]
    /\ left \in [Key -> Nat \cup {-1}]
    /\ answer \in Value \cup {Null}

Init ==
    /\ cache = {}
    /\ list = [head |-> Null, tail |-> Null,
               next |-> [k \in Key |-> Null], prev |-> [k \in Key |-> Null]]
    /\ value = [k \in Key |-> Null] /\ left = [k \in Key |-> -1]
    /\ answer = Null

-----------------------------------------------------------------------------
(* Plausible slips in the code, used to show that the properties bite. *)
NoTouch(l, k) == l
TailForgotten(l, k) == l.tail

(* removeNode: the neighbours of k, or the ends of the list, skip k. *)
NewTail(l, k) == IF l.next[k] = Null THEN l.prev[k] ELSE l.tail
removeNode(l, k) ==
    [head |-> IF l.prev[k] = Null THEN l.next[k] ELSE l.head,
     tail |-> NewTail(l, k),
     next |-> [n \in Key |-> IF n = l.prev[k] THEN l.next[k] ELSE l.next[n]],
     prev |-> [n \in Key |-> IF n = l.next[k] THEN l.prev[k] ELSE l.prev[n]]]

addNodeToHead(l, k) ==
    [head |-> k,
     tail |-> IF l.tail = Null THEN k ELSE l.tail,
     next |-> [l.next EXCEPT ![k] = l.head],
     prev |-> [n \in Key |-> IF n = k THEN Null ELSE IF n = l.head THEN k ELSE l.prev[n]]]

moveToHead(l, k) == addNodeToHead(removeNode(l, k), k)

(* A node that left the Map is garbage: its fields are forgotten. *)
Forget(l, k) == [l EXCEPT !.next[k] = Null, !.prev[k] = Null]

Expired(k) == left[k] < 0

(* get() of a key that is not cached, of an expired node, of a live node.   *)
Miss(k) ==
    /\ k \notin cache
    /\ answer' = Null
    /\ UNCHANGED <<cache, list, value, left>>

Expire(k) ==
    /\ k \in cache /\ Expired(k)
    /\ list' = Forget(removeNode(list, k), k)
    /\ cache' = cache \ {k}
    /\ answer' = Null
    /\ value' = [value EXCEPT ![k] = Null] /\ left' = [left EXCEPT ![k] = -1]

Hit(k) ==
    /\ k \in cache /\ ~Expired(k)
    /\ list' = moveToHead(list, k)
    /\ answer' = value[k]
    /\ UNCHANGED <<cache, value, left>>

(* set() of a cached key, expired or not. *)
Overwrite(k, v, ttl) ==
    /\ k \in cache
    /\ value' = [value EXCEPT ![k] = v] /\ left' = [left EXCEPT ![k] = ttl]
    /\ list' = moveToHead(list, k)
    /\ UNCHANGED <<cache, answer>>

(* set() of a new key: at capacity the tail is evicted, expired or not. An  *)
(* empty cache has no tail, so a capacity of 0 still holds one entry.       *)
Full == Cardinality(cache) >= Capacity

Evicted == IF Full /\ list.tail # Null THEN {list.tail} ELSE {}

Insert(k, v, ttl) ==
    /\ k \notin cache
    /\ cache' = (cache \ Evicted) \cup {k}
    /\ list' = addNodeToHead(IF Evicted = {} THEN list
                             ELSE Forget(removeNode(list, list.tail), list.tail), k)
    /\ value' = [n \in Key |-> IF n = k THEN v ELSE IF n \in Evicted THEN Null ELSE value[n]]
    /\ left' = [n \in Key |-> IF n = k THEN ttl ELSE IF n \in Evicted THEN -1 ELSE left[n]]
    /\ UNCHANGED answer

(* A tick later. *)
Aged(k) == IF left[k] < 0 THEN left[k] ELSE left[k] - 1

Tick ==
    /\ left' = [k \in Key |-> Aged(k)]
    /\ UNCHANGED <<cache, list, value, answer>>

Next ==
    \/ Tick
    \/ \E k \in Key :
          \/ Miss(k) \/ Expire(k) \/ Hit(k)
          \/ \E v \in Value, ttl \in TTLs : Overwrite(k, v, ttl) \/ Insert(k, v, ttl)

Spec == Init /\ [][Next]_vars

-----------------------------------------------------------------------------
(* The i-th node from the head. *)
Nth[i \in Nat] == IF i = 0 THEN Null
                  ELSE IF i = 1 THEN list.head
                  ELSE IF Nth[i - 1] \in Key THEN list.next[Nth[i - 1]] ELSE Null

Order == [i \in 1..Cardinality(cache) |-> Nth[i]]

(* Map and list hold the same nodes after any operations in any order, and  *)
(* the list can be walked from both ends: no pointer is left behind by a    *)
(* removal at the head, at the tail, in the middle, or of the only node.    *)
WellLinked ==
    /\ cache = {Order[i] : i \in DOMAIN Order}
    /\ cache = {} <=> list.head = Null
    /\ cache = {} <=> list.tail = Null
    /\ cache # {} =>
          /\ list.prev[list.head] = Null
          /\ Order[Len(Order)] = list.tail /\ list.next[list.tail] = Null
    /\ \A k \in cache : list.next[k] # Null => list.prev[list.next[k]] = k

(* The pointers implement the recency order: the entry evicted is the least *)
(* recently used one, and a read answers the last value set, or nothing     *)
(* once it expired or was evicted.                                          *)
Recency == INSTANCE RecencyCache
           WITH entries <- [i \in DOMAIN Order |->
                              [key |-> Order[i], value |-> value[Order[i]],
                               left |-> left[Order[i]]]],
                None <- Null
ImplementsRecencyCache == Recency!Spec
=============================================================================
