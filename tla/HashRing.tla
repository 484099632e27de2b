------------------------------ MODULE HashRing ------------------------------
(***************************************************************************)
(* shared/consistentHash.ts: ConsistentHash.  A ring is a record of the    *)
(* object's three fields; the operators are its methods.  The hash (MD5,   *)
(* 32 bits) is external: a node's virtual nodes come as the sequence of    *)
(* their hashes, a key as its hash.                                        *)
(***************************************************************************)
EXTENDS Arrays, SequencesExt

CONSTANT NoNode   \* null, the answer of an empty ring

EmptyRing == [nodes |-> {}, owner |-> <<>>, sortedKeys |-> <<>>]

(* Plausible slips in the code, used to show that the properties bite. *)
StrictlyAhead(key, h) == key > h
ByPlace(ring, h) ==
    LET keys == ring.sortedKeys
    IN IF keys = <<>> THEN NoNode ELSE ring.owner[keys[(h % Len(keys)) + 1]]

(* An array of numbers, sorted: at place k stands the number that has fewer *)
(* than k smaller ones and at least k that are not greater.                 *)
Sorted(s) ==
    [k \in DOMAIN s |->
        CHOOSE p \in Range(s) :
            /\ Cardinality({i \in DOMAIN s : s[i] < p}) < k
            /\ Cardinality({i \in DOMAIN s : s[i] <= p}) >= k]

AtOrAhead(key, h) == key >= h

(* Does the filter's callback delete the i-th listing from the map, if it   *)
(* belongs to the node?                                                     *)
Deleted(keys, i) == i = 1 \/ keys[i - 1] # keys[i]

(* addNode(): a hash that is already there is taken over, and listed twice. *)
addNode(ring, n, hashes) ==
    [nodes |-> ring.nodes \cup {n},
     owner |-> [p \in DOMAIN ring.owner \cup Range(hashes) |->
                  IF p \in Range(hashes) THEN n ELSE ring.owner[p]],
     sortedKeys |-> Sorted(ring.sortedKeys \o hashes)]

(* removeNode(): one pass over sortedKeys; the first listing of a hash that *)
(* belongs to n deletes it from the map, so a second listing stays.         *)
removeNode(ring, n) ==
    LET keys == ring.sortedKeys
        mine == {p \in DOMAIN ring.owner : ring.owner[p] = n}
    IN [nodes |-> ring.nodes \ {n},
        owner |-> [p \in DOMAIN ring.owner \ mine |-> ring.owner[p]],
        sortedKeys |-> Filtered(keys, {i \in DOMAIN keys : Deleted(keys, i) => keys[i] \notin mine})]

(* The binary search between two ends: the 0-based index of the first key   *)
(* that is not behind h, or the number of keys.                             *)
Search(keys, h) ==
    LET low[e \in (0..Len(keys)) \X (-1..(Len(keys) - 1))] ==
            LET mid == (e[1] + e[2]) \div 2
            IN IF e[1] > e[2] THEN e[1]
               ELSE IF AtOrAhead(keys[mid + 1], h) THEN low[<<e[1], mid - 1>>]
                                                   ELSE low[<<mid + 1, e[2]>>]
    IN low[<<0, Len(keys) - 1>>]

(* getNode() *)
getNode(ring, h) ==
    LET keys == ring.sortedKeys
        p    == keys[(Search(keys, h) % Len(keys)) + 1]
    IN IF DOMAIN ring.owner = {} \/ p \notin DOMAIN ring.owner THEN NoNode ELSE ring.owner[p]

-----------------------------------------------------------------------------
(* What consistent hashing means: h belongs to the node with the first      *)
(* point at h or clockwise of it, hashes[n] being the points of n.          *)
Clockwise(hashes, nodes, h) ==
    LET points == UNION {Range(hashes[n]) : n \in nodes}
        ahead  == {p \in points : p >= h}
        first  == Min(IF ahead = {} THEN points ELSE ahead)
    IN IF nodes = {} THEN NoNode ELSE CHOOSE n \in nodes : first \in Range(hashes[n])
=============================================================================
