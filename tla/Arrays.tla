------------------------------- MODULE Arrays -------------------------------
(***************************************************************************)
(* JavaScript's Array.prototype.filter and Array.prototype.sort, by what   *)
(* they put at each place.                                                 *)
(***************************************************************************)
EXTENDS Integers, Sequences, FiniteSets

(* filter(): at place k stands what is at the k-th of the places to keep.   *)
Filtered(s, places) ==
    [k \in 1..Cardinality(places) |->
        s[CHOOSE i \in places : Cardinality({j \in places : j <= i}) = k]]

(* sort() by a number, which is stable: an element's new place is how many  *)
(* come no later, itself included.                                          *)
AtOrBefore(key, i, j) == key[i] < key[j] \/ (key[i] = key[j] /\ i <= j)

SortedBy(s, key) ==
    LET place == [i \in DOMAIN s |-> Cardinality({j \in DOMAIN s : AtOrBefore(key, j, i)})]
    IN [k \in DOMAIN s |-> s[CHOOSE i \in DOMAIN s : place[i] = k]]
=============================================================================
