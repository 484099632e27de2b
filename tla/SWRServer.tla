------------------------------ MODULE SWRServer ------------------------------
(***************************************************************************)
(* shared/examples/swr-server.ts: stale-while-revalidate over the LRU      *)
(* cache, taken as RecencyCache, which LRUCache implements.  An entry is   *)
(* set with a time to live of StaleLimit when its data is fetched, so its  *)
(* age is StaleLimit minus what is left of it, and the branch for older    *)
(* entries than that finds none.  A fetch answers after Latency.           *)
(***************************************************************************)
EXTENDS Integers, Sequences

CONSTANTS
    Id, NoData, CacheSize,
    FreshTTL, StaleLimit, Latency,  \* FRESH_TTL, STALE_LIMIT, DB_LATENCY in ticks
    MaxFetches                      \* bound on the fetches under way

SWRAssumption ==
    /\ CacheSize \in Nat \ {0} /\ {FreshTTL, StaleLimit, Latency, MaxFetches} \subseteq Nat
    /\ FreshTTL < StaleLimit

VARIABLES
    entries, answer,  \* the cache, and what its last get() returned
    fetches,          \* the fetches under way, the next one to answer first
    owed              \* history: time since a stale answer not refreshed yet; -1 if none

swrVars == <<entries, answer, fetches, owed>>

Cache == INSTANCE RecencyCache
         WITH Key <- Id, Value <- {"data"}, None <- NoData,
              Capacity <- CacheSize, TTLs <- {StaleLimit}

TypeOK ==
    /\ entries \in Seq([key : Id, value : {"data"}, left : -1..StaleLimit])
    /\ Len(entries) <= CacheSize
    /\ fetches \in Seq([id : Id, due : 0..Latency])
    /\ owed \in [Id -> Int]

Init ==
    /\ Cache!Init
    /\ fetches = <<>> /\ owed = [k \in Id |-> -1]

-----------------------------------------------------------------------------
(* Plausible slips in the code, used to show that the properties bite. *)
AnswersOnly(k) == UNCHANGED fetches

(* mockDatabaseFetch: the data is read when the timer fires.  All fetches   *)
(* take equally long, so they answer in the order in which they started.    *)
Fetch(k) ==
    /\ Len(fetches) < MaxFetches
    /\ fetches' = Append(fetches, [id |-> k, due |-> Latency])

(* handleRequest begins with get(): a miss waits for a fetch, a fresh entry *)
(* is answered, a stale one is answered and fetched in the background,      *)
(* whether or not a fetch of it is under way.                               *)
Live(k) == {i \in Cache!PositionsOf(k) : entries[i].left >= 0}
Fresh(e) == StaleLimit - e.left <= FreshTTL
revalidate(k) == Fetch(k)

Miss(k) ==
    /\ Live(k) = {} /\ Cache!Get(k)
    /\ Fetch(k)
    /\ UNCHANGED owed

FreshHit(k) ==
    /\ \E i \in Live(k) : Fresh(entries[i])
    /\ Cache!Get(k)
    /\ UNCHANGED <<fetches, owed>>

StaleHit(k) ==
    /\ \E i \in Live(k) : ~Fresh(entries[i])
    /\ Cache!Get(k)
    /\ revalidate(k)
    /\ owed' = [owed EXCEPT ![k] = IF @ < 0 THEN 0 ELSE @]

(* A fetch answers: its caller, waiting or not, sets the entry. *)
Answered ==
    /\ fetches # <<>> /\ Head(fetches).due = 0
    /\ Cache!Set(Head(fetches).id, "data", StaleLimit)
    /\ fetches' = Tail(fetches)
    /\ owed' = [owed EXCEPT ![Head(fetches).id] = -1]

Tick ==
    /\ fetches # <<>> => Head(fetches).due > 0
    /\ Cache!Tick
    /\ fetches' = [i \in DOMAIN fetches |-> [fetches[i] EXCEPT !.due = @ - 1]]
    /\ owed' = [k \in Id |-> IF owed[k] < 0 THEN -1 ELSE owed[k] + 1]

Next == Tick \/ Answered \/ \E k \in Id : Miss(k) \/ FreshHit(k) \/ StaleHit(k)

-----------------------------------------------------------------------------
(* Whoever gets a stale answer causes the next one, a fetch later, to be    *)
(* fresh: a stale answer is followed by a refresh within the latency of the *)
(* database, however requests, other refreshes and evictions interleave.    *)
RefreshInTime == \A k \in Id : owed[k] <= Latency
=============================================================================
