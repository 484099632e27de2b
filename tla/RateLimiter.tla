----------------------------- MODULE RateLimiter -----------------------------
(***************************************************************************)
(* 02-rate-limiter: a token bucket per client in Redis, which every server *)
(* of the service shares, and an in-memory bucket per server for the calls *)
(* whose Redis command fails.  Clients have separate keys, so one client   *)
(* is modelled; its tier is any of Policies.                               *)
(*                                                                         *)
(* A bucket counts in the time its refill takes: a token is worth          *)
(* RedisToken ticks in Redis and MemoryToken ticks in memory, where both   *)
(* refill by one per tick.  Times are relative to the present.  The script *)
(* runs with the time its caller read before sending it; clock error and   *)
(* delay together keep that time within MaxDrift of the present, and it    *)
(* may run backwards from one call to the next.                            *)
(***************************************************************************)
EXTENDS Integers

CONSTANTS
    Server, Request,
    None,           \* no key, no call, no promise
    Policies,       \* the capacities of the tiers
    CheckCapacity,  \* the capacity /limit/check passes
    RedisToken, MemoryToken,
    MaxDrift,
    KeyTTL          \* EXPIRE, in ticks

Larger(m, n) == IF m >= n THEN m ELSE n
Lesser(m, n) == IF m <= n THEN m ELSE n

(* What over any interval is granted beyond its refill, at most: a bucket   *)
(* and the drift of the clocks at both ends.                                *)
RedisBurst(c) == Larger(c, CheckCapacity) * RedisToken + 2 * MaxDrift
MemoryBurst(c) == c * MemoryToken + 2 * MaxDrift

(* None is none of the things it stands in for.  A key that expires would   *)
(* have been full again long ago.                                           *)
ASSUME LimiterAssumption ==
    /\ None \notin Int /\ None \notin [tokens : Int, since : Int]
    /\ None \notin [tokens : Int, since : Int, left : Int]
    /\ None \notin [server : Server, cost : Int, full : Int, age : Int]
    /\ Policies \subseteq Nat \ {0} /\ CheckCapacity \in Nat \ {0}
    /\ RedisToken \in Nat \ {0} /\ MemoryToken \in Nat \ {0}
    /\ MaxDrift \in Nat /\ KeyTTL \in Nat
    /\ \A c \in Policies : KeyTTL >= RedisBurst(c)

VARIABLES
    capacity,    \* of the client's tier
    redis,       \* the client's key; since is the time from lastRefill to now
    memory,      \* the client's bucket in each server's memoryLimiter
    call,        \* the requests that await redis.eval(), with the cost and
                 \* capacity they pass and the age of their time
    debt,        \* history: what Redis granted and true time has not refilled
    memoryDebt,  \* history: the same for each server's memoryLimiter
    promise      \* history: resetAtMs of the last refusal, till the next grant

vars == <<capacity, redis, memory, call, debt, memoryDebt, promise>>

Drift == -MaxDrift..MaxDrift

(* getPolicy(): the client's id names its tier. *)
AnyTier == capacity \in Policies

(* A bucket never refills from a time further ahead than the clocks allow. *)
Since == {n \in Int : n >= -MaxDrift}

(* A bucket never holds less than nothing; no stored time is further from   *)
(* the present than the clocks and delays allow.                            *)
TypeOK ==
    /\ AnyTier
    /\ redis \in {None} \cup [tokens : Nat, since : Since, left : 1..KeyTTL]
    /\ memory \in [Server -> {None} \cup [tokens : Nat, since : Since]]
    /\ call \in [Request -> {None} \cup [server : Server, cost : {0, RedisToken},
                                          full : Nat, age : Drift]]
    /\ debt \in Nat /\ memoryDebt \in [Server -> Nat]
    /\ promise \in {None} \cup {n \in Int : n >= -2 * MaxDrift}

Init ==
    /\ AnyTier
    /\ redis = None /\ memory = [s \in Server |-> None]
    /\ call = [r \in Request |-> None]
    /\ debt = 0 /\ memoryDebt = [s \in Server |-> 0] /\ promise = None

-----------------------------------------------------------------------------
(* Plausible slips in the code, used to show that the properties bite. *)
Overdrawn(b, cost) == TRUE
RefilledPastCapacity(b, full, age) ==
    IF b.since > age THEN [b EXCEPT !.tokens = @ + b.since - age, !.since = age] ELSE b
RetryTooSoon(b, cost, age) == cost - b.tokens - age - 1

(* A new bucket is full; a bucket refills up to the capacity of this call,  *)
(* and not at all when the caller's clock is behind its last refill.        *)
Found(b, full, age) == IF b = None THEN [tokens |-> full, since |-> age] ELSE b
Refilled(b, full, age) ==
    IF b.since > age
    THEN [b EXCEPT !.tokens = Lesser(full, @ + b.since - age), !.since = age]
    ELSE b
Affords(b, cost) == b.tokens >= cost
RetryAt(b, cost, age) == cost - b.tokens - age

(* allow() reads the time and sends the script; it awaits the reply. *)
Eval(r, s, cost, full, age) ==
    /\ call[r] = None
    /\ call' = [call EXCEPT ![r] = [server |-> s, cost |-> cost, full |-> full * RedisToken,
                                   age |-> age]]
    /\ UNCHANGED <<capacity, redis, memory, debt, memoryDebt, promise>>

(* GET /limit/check asks for nothing and passes a capacity of its own; POST *)
(* /limit/incr goes through the middleware, which passes the tier's.        *)
LimitCheck(r, s, age) == Eval(r, s, 0, CheckCapacity, age)
LimitIncr(r, s, age) == Eval(r, s, RedisToken, capacity, age)
IsCheck(r) == call[r] # None /\ call[r].cost = 0
IsIncr(r) == call[r] # None /\ call[r].cost > 0

(* The script: only a granted call saves the bucket.  Its reply may be      *)
(* lost; ioredis may then send the command again, or give the call up.      *)
Execute(r, answered) ==
    /\ call[r] # None
    /\ LET cost == call[r].cost
           age == call[r].age
           b == Refilled(Found(redis, call[r].full, age), call[r].full, age)
       IN \/ /\ Affords(b, cost)
             /\ redis' = [tokens |-> b.tokens - cost, since |-> b.since, left |-> KeyTTL]
             /\ debt' = debt + cost
             /\ promise' = IF cost = 0 THEN promise ELSE None
          \/ /\ ~Affords(b, cost)
             /\ promise' = RetryAt(b, cost, age)
             /\ UNCHANGED <<redis, debt>>
    /\ call' = IF answered THEN [call EXCEPT ![r] = None] ELSE call
    /\ UNCHANGED <<capacity, memory, memoryDebt>>

(* The command failed.  /limit/check answers a constant.                    *)
CheckFails(r) ==
    /\ IsCheck(r)
    /\ call' = [call EXCEPT ![r] = None]
    /\ UNCHANGED <<capacity, redis, memory, debt, memoryDebt, promise>>

(* The middleware asks the server's own bucket, which is refilled and saved *)
(* whether it grants the call or not.                                       *)
Allowed(b, cost) == IF Affords(b, cost) THEN cost ELSE 0
MemoryAllow(s, cost, full, age) ==
    LET b == Refilled(Found(memory[s], full, age), full, age)
        taken == Allowed(b, cost)
    IN /\ memory' = [memory EXCEPT ![s] = [b EXCEPT !.tokens = @ - taken]]
       /\ memoryDebt' = [memoryDebt EXCEPT ![s] = @ + taken]

FallBack(r, age) ==
    /\ IsIncr(r)
    /\ MemoryAllow(call[r].server, MemoryToken, capacity * MemoryToken, age)
    /\ call' = [call EXCEPT ![r] = None]
    /\ UNCHANGED <<capacity, redis, debt, promise>>

(* Time passes for everything that is counted from the present.  A bucket   *)
(* that would be full by now does not get any fuller.                       *)
Aged(b, burst) == [b EXCEPT !.since = Lesser(@ + 1, burst)]

Tick ==
    /\ \A r \in Request : call[r] # None => call[r].age < MaxDrift
    /\ call' = [r \in Request |->
                  IF call[r] = None THEN None ELSE [call[r] EXCEPT !.age = @ + 1]]
    /\ redis' = IF redis = None \/ redis.left = 1 THEN None
                ELSE [Aged(redis, RedisBurst(capacity)) EXCEPT !.left = @ - 1]
    /\ memory' = [s \in Server |->
                    IF memory[s] = None THEN None ELSE Aged(memory[s], MemoryBurst(capacity))]
    /\ debt' = Larger(0, debt - 1)
    /\ memoryDebt' = [s \in Server |-> Larger(0, memoryDebt[s] - 1)]
    /\ promise' = IF promise = None THEN None ELSE Larger(promise - 1, -2 * MaxDrift)
    /\ UNCHANGED capacity

Next ==
    \/ Tick
    \/ \E r \in Request :
        \/ \E s \in Server, age \in Drift : LimitCheck(r, s, age) \/ LimitIncr(r, s, age)
        \/ \E answered \in BOOLEAN : Execute(r, answered)
        \/ CheckFails(r)
        \/ \E age \in Drift : FallBack(r, age)

Spec == Init /\ [][Next]_vars

-----------------------------------------------------------------------------
(* Over every interval, whatever the clocks, lost replies, repeated         *)
(* commands and expiry do, Redis grants at most one full bucket and what    *)
(* the interval refills, give or take the drift at both ends; so does each  *)
(* server's memory.  (A debt of d: some interval exceeds its refill by d.)  *)
(* The full bucket is that of /limit/check where that is the larger one.    *)
WithinBurst ==
    /\ debt <= RedisBurst(capacity)
    /\ \A s \in Server : memoryDebt[s] <= MemoryBurst(capacity)

(* A client told to come back at resetAtMs finds a token then, unless       *)
(* another of its requests took it: refusals, checks and the expiry of the  *)
(* key do not push the time away by more than the clocks may differ.        *)
RetryAfterHolds ==
    promise # None =>
        LET full == capacity * RedisToken
            age == -promise - 2 * MaxDrift
        IN Affords(Refilled(Found(redis, full, age), full, age), RedisToken)
=============================================================================
