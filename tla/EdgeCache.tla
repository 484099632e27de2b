------------------------------ MODULE EdgeCache ------------------------------
(***************************************************************************)
(* 05-ecommerce/src/middleware/swr.ts: stale-while-revalidate for product  *)
(* pages.  Unlike the server in SWRServer it never evicts, fetches may     *)
(* fail, and an entry too old to serve stays until it is overwritten.  An  *)
(* age of StaleLimit stands for every greater one.                         *)
(***************************************************************************)
EXTENDS Integers, Sequences

CONSTANTS
    Id, NoData,
    FreshTTL, StaleLimit, Latency,  \* FRESH_TTL_MS, STALE_TTL_MS, the database's, in ticks
    MaxFetches                      \* bound on the fetches under way

VARIABLES
    edgeCache,    \* the age of each product's entry
    edgeFetches,  \* the fetches under way, the next one to answer first
    edgeOwed      \* history: time since a stale answer without an attempt to refresh; -1 if none

edgeVars == <<edgeCache, edgeFetches, edgeOwed>>

TypeOK ==
    /\ edgeCache \in [Id -> 0..StaleLimit \cup {NoData}]
    /\ edgeFetches \in Seq([id : Id, due : 0..Latency])
    /\ edgeOwed \in [Id -> Int]

Init ==
    /\ edgeCache = [k \in Id |-> NoData]
    /\ edgeFetches = <<>> /\ edgeOwed = [k \in Id |-> -1]

-----------------------------------------------------------------------------
fetchFreshProductData(k) ==
    /\ Len(edgeFetches) < MaxFetches
    /\ edgeFetches' = Append(edgeFetches, [id |-> k, due |-> Latency])

Fresh(k) == edgeCache[k] # NoData /\ edgeCache[k] < FreshTTL
Stale(k) == edgeCache[k] # NoData /\ edgeCache[k] >= FreshTTL /\ edgeCache[k] < StaleLimit

(* A fresh entry is answered and nothing else happens; a stale one is       *)
(* answered and fetched in the background; all others wait for a fetch.     *)
StaleHit(k) ==
    /\ Stale(k)
    /\ fetchFreshProductData(k)
    /\ edgeOwed' = [edgeOwed EXCEPT ![k] = IF @ < 0 THEN 0 ELSE @]
    /\ UNCHANGED edgeCache

Miss(k) ==
    /\ ~Fresh(k) /\ ~Stale(k)
    /\ fetchFreshProductData(k)
    /\ UNCHANGED <<edgeCache, edgeOwed>>

(* A fetch answers or fails; a failed one leaves the entry as it is. *)
Answered(fails) ==
    /\ edgeFetches # <<>> /\ Head(edgeFetches).due = 0
    /\ edgeCache' = IF fails THEN edgeCache ELSE [edgeCache EXCEPT ![Head(edgeFetches).id] = 0]
    /\ edgeOwed' = [edgeOwed EXCEPT ![Head(edgeFetches).id] = -1]
    /\ edgeFetches' = Tail(edgeFetches)

Older(age) == IF age = NoData \/ age = StaleLimit THEN age ELSE age + 1
Tick ==
    /\ edgeFetches # <<>> => Head(edgeFetches).due > 0
    /\ edgeCache' = [k \in Id |-> Older(edgeCache[k])]
    /\ edgeFetches' = [i \in DOMAIN edgeFetches |-> [edgeFetches[i] EXCEPT !.due = @ - 1]]
    /\ edgeOwed' = [k \in Id |-> IF edgeOwed[k] < 0 THEN -1 ELSE edgeOwed[k] + 1]

Next ==
    \/ Tick
    \/ \E k \in Id : StaleHit(k) \/ Miss(k)
    \/ \E fails \in BOOLEAN : Answered(fails)

-----------------------------------------------------------------------------
(* A stale answer is followed within the latency of the database by a       *)
(* refresh of the entry, or by a failed attempt that the next stale answer  *)
(* repeats, however the requests for a product overlap.                     *)
RefreshInTime == \A k \in Id : edgeOwed[k] <= Latency
=============================================================================
