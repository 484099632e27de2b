-------------------------- MODULE RateLimiterProofs --------------------------
(* Proofs about RateLimiter for all numbers of servers and requests, all    *)
(* tiers, token worths, drifts and lifetimes of a key.                      *)
EXTENDS RateLimiter, TLAPS

(* The larger of the two capacities a call can pass, in ticks. *)
Full == Larger(capacity, CheckCapacity) * RedisToken
MemoryFull == capacity * MemoryToken

(* A request to consume passes the tier's capacity, a check its own; either *)
(* is worth a token.                                                        *)
CallInv == \A r \in Request : call[r] # None =>
    /\ RedisToken <= call[r].full /\ call[r].full <= Full
    /\ IsIncr(r) => call[r].full = capacity * RedisToken

(* What a bucket holds, the time it may still refill from, and what it has  *)
(* granted make up no more than one full bucket.                            *)
Backed(b, d, full) ==
    /\ b.tokens <= full
    /\ d = 0 \/ d + b.tokens + b.since <= full + MaxDrift

RedisInv ==
    /\ redis = None => debt = 0
    /\ redis # None => Backed(redis, debt, Full) /\ debt <= redis.left

MemoryInv == \A s \in Server :
    /\ memory[s] = None => memoryDebt[s] = 0
    /\ memory[s] # None => Backed(memory[s], memoryDebt[s], MemoryFull)

(* The bucket has a token, or has it by the time the client was told. *)
PromiseInv ==
    redis # None /\ promise # None =>
        \/ redis.tokens >= RedisToken
        \/ redis.tokens + redis.since + promise + 2 * MaxDrift >= RedisToken

IInv == TypeOK /\ CallInv /\ RedisInv /\ MemoryInv /\ PromiseInv

-----------------------------------------------------------------------------
(* The capacities in ticks are numbers, and Full is the larger one. *)
LEMMA Product ==
  ASSUME NEW m \in Nat, NEW n \in Nat, NEW k \in Nat \ {0}, m <= n
  PROVE  m * k \in Nat /\ n * k \in Nat /\ m * k <= n * k
OBVIOUS

LEMMA Fulls ==
  ASSUME AnyTier
  PROVE  /\ Full \in Nat /\ MemoryFull \in Nat
         /\ capacity * RedisToken \in Nat /\ capacity * RedisToken >= RedisToken
         /\ CheckCapacity * RedisToken \in Nat /\ CheckCapacity * RedisToken >= RedisToken
         /\ capacity * RedisToken <= Full /\ CheckCapacity * RedisToken <= Full
         /\ RedisBurst(capacity) = Full + 2 * MaxDrift
         /\ MemoryBurst(capacity) = MemoryFull + 2 * MaxDrift
         /\ KeyTTL >= Full + 2 * MaxDrift
<1>1. /\ capacity \in Nat \ {0} /\ CheckCapacity \in Nat \ {0}
      /\ RedisToken \in Nat \ {0} /\ MemoryToken \in Nat \ {0}
  BY LimiterAssumption DEF AnyTier
<1>2. /\ capacity <= Larger(capacity, CheckCapacity)
      /\ CheckCapacity <= Larger(capacity, CheckCapacity)
      /\ Larger(capacity, CheckCapacity) \in Nat
  BY <1>1 DEF Larger
<1>3. /\ capacity * RedisToken \in Nat /\ CheckCapacity * RedisToken \in Nat /\ Full \in Nat
      /\ capacity * RedisToken <= Full /\ CheckCapacity * RedisToken <= Full
  BY <1>1, <1>2, Product DEF Full
<1>4. MemoryFull \in Nat
  BY <1>1, Product DEF MemoryFull
<1>5. capacity * RedisToken >= RedisToken /\ CheckCapacity * RedisToken >= RedisToken
  <2>1. 1 * RedisToken <= capacity * RedisToken /\ 1 * RedisToken <= CheckCapacity * RedisToken
    BY <1>1, Product
  <2>2. QED
    BY <1>1, <2>1
<1>6. RedisBurst(capacity) = Full + 2 * MaxDrift /\ MemoryBurst(capacity) = MemoryFull + 2 * MaxDrift
  BY DEF RedisBurst, MemoryBurst, Full, MemoryFull
<1>7. KeyTTL >= Full + 2 * MaxDrift
  BY <1>6, LimiterAssumption DEF AnyTier
<1>8. QED
  BY <1>3, <1>4, <1>5, <1>6, <1>7

(* What a reader with a clock of that age makes of a bucket. *)
Buckets ==
    {None} \cup [tokens : Nat, since : Int] \cup [tokens : Nat, since : Int, left : Nat]
ReadAs(b, full, age, c) ==
    /\ c.tokens \in Nat /\ c.since \in Int
    /\ b = None => c.tokens = full /\ c.since = age
    /\ b # None /\ b.since > age =>
         c.since = age /\ c.tokens = Lesser(full, b.tokens + b.since - age)
    /\ b # None /\ b.since <= age => c.tokens = b.tokens /\ c.since = b.since

LEMMA Reading ==
  ASSUME NEW b \in Buckets, NEW full \in Nat, NEW age \in Int
  PROVE  ReadAs(b, full, age, Refilled(Found(b, full, age), full, age))
<1>1. CASE b = None
  BY <1>1 DEF ReadAs, Refilled, Found
<1>2. CASE b # None /\ b \in [tokens : Nat, since : Int]
  BY <1>2 DEF ReadAs, Refilled, Found, Lesser
<1>3. CASE b # None /\ b \in [tokens : Nat, since : Int, left : Nat]
  BY <1>3 DEF ReadAs, Refilled, Found, Lesser
<1>4. QED
  BY <1>1, <1>2, <1>3 DEF Buckets

(* Granting cost out of a bucket keeps it backed. *)
LEMMA GrantBacked ==
  ASSUME NEW b, NEW full \in Nat, NEW cap \in Nat, full <= cap, NEW age \in Drift,
         b \in {None} \cup [tokens : Nat, since : Since]
            \cup [tokens : Nat, since : Since, left : Nat],
         NEW d \in Nat, NEW cost \in Nat,
         b = None => d = 0, b # None => Backed(b, d, cap)
  PROVE  LET c == Refilled(Found(b, full, age), full, age)
         IN /\ c.tokens \in Nat /\ c.since \in Since
            /\ c.tokens <= cap
            /\ c.tokens >= cost =>
                 /\ c.tokens - cost \in Nat
                 /\ d + cost = 0 \/ (d + cost) + (c.tokens - cost) + c.since <= cap + MaxDrift
            /\ d = 0 \/ d + c.tokens + c.since <= cap + MaxDrift
<1>. DEFINE c == Refilled(Found(b, full, age), full, age)
<1>1. MaxDrift \in Nat /\ age \in Int /\ -MaxDrift <= age /\ age <= MaxDrift
  BY LimiterAssumption DEF Drift
<1>2. b \in Buckets
  BY DEF Buckets, Since
<1>3. ReadAs(b, full, age, c)
  BY <1>1, <1>2, Reading, Zenon
<1>4. b # None => b.tokens \in Nat /\ b.since \in Int /\ b.since >= -MaxDrift
  BY DEF Since
<1>. HIDE DEF c
<1>5. c.tokens <= cap /\ c.since >= -MaxDrift
  BY <1>1, <1>3, <1>4 DEF ReadAs, Backed, Lesser
<1>6. d + c.tokens + c.since <= cap + MaxDrift
  BY <1>1, <1>3, <1>4 DEF ReadAs, Backed, Lesser
<1>7. QED
  BY <1>3, <1>5, <1>6, <1>1 DEF ReadAs, c, Since

-----------------------------------------------------------------------------
(* An idle limiter satisfies the invariant. *)
LEMMA IInvInit ==
  ASSUME Init
  PROVE  IInv
BY LimiterAssumption
   DEF Init, IInv, TypeOK, AnyTier, CallInv, RedisInv, MemoryInv, PromiseInv

(* Sending a request preserves the invariant. *)
LEMMA EvalStep ==
  ASSUME IInv, NEW r \in Request, NEW s \in Server, NEW age \in Drift,
         LimitCheck(r, s, age) \/ LimitIncr(r, s, age)
  PROVE  IInv'
<1>. USE DEF IInv
<1>1. UNCHANGED <<capacity, redis, memory, debt, memoryDebt, promise>> /\ Full' = Full
  BY DEF LimitCheck, LimitIncr, Eval, Full
<1>2. PICK cost \in {0, RedisToken}, full \in {capacity * RedisToken, CheckCapacity * RedisToken} :
        /\ call' = [call EXCEPT ![r] = [server |-> s, cost |-> cost, full |-> full, age |-> age]]
        /\ cost > 0 => full = capacity * RedisToken
  BY DEF LimitCheck, LimitIncr, Eval
<1>3. /\ capacity * RedisToken \in Nat /\ capacity * RedisToken >= RedisToken
      /\ CheckCapacity * RedisToken \in Nat /\ CheckCapacity * RedisToken >= RedisToken
      /\ capacity * RedisToken <= Full /\ CheckCapacity * RedisToken <= Full
  BY Fulls DEF TypeOK
<1>4. full \in Nat /\ full >= RedisToken /\ full <= Full
  BY <1>2, <1>3
<1>5. TypeOK'
  BY <1>1, <1>2, <1>4 DEF TypeOK, AnyTier
<1>6. CallInv'
  <2>1. ASSUME NEW q \in Request, call'[q] # None
        PROVE  /\ RedisToken <= call'[q].full /\ call'[q].full <= Full
               /\ call'[q].cost > 0 => call'[q].full = capacity * RedisToken
    <3>1. CASE q = r
      BY <1>2, <1>4, <3>1 DEF TypeOK
    <3>2. CASE q # r
      BY <1>2, <2>1, <3>2 DEF TypeOK, CallInv, IsIncr
    <3>3. QED
      BY <3>1, <3>2
  <2>2. QED
    BY <1>1, <2>1 DEF CallInv, IsIncr
<1>7. RedisInv' /\ MemoryInv' /\ PromiseInv'
  BY <1>1 DEF RedisInv, MemoryInv, PromiseInv, MemoryFull
<1>8. QED
  BY <1>5, <1>6, <1>7

(* A request that ends takes nothing from what CallInv says of the others. *)
LEMMA CallEnds ==
  ASSUME TypeOK, CallInv, NEW r \in Request, UNCHANGED capacity,
         call' = [call EXCEPT ![r] = None] \/ call' = call
  PROVE  /\ call' \in [Request -> {None} \cup [server : Server, cost : {0, RedisToken},
                                             full : Nat, age : Drift]]
         /\ CallInv'
<1>1. \A q \in Request : call'[q] # None => call'[q] = call[q]
  BY DEF TypeOK
<1>2. Full' = Full
  BY DEF Full
<1>3. CallInv'
  BY <1>1, <1>2 DEF CallInv, IsIncr
<1>4. QED
  BY <1>3 DEF TypeOK

(* The script preserves the invariant, answered or not. *)
LEMMA ExecuteStep ==
  ASSUME IInv, NEW r \in Request, NEW answered \in BOOLEAN, Execute(r, answered)
  PROVE  IInv'
<1>. DEFINE cost == call[r].cost
            age == call[r].age
            full == call[r].full
            c == Refilled(Found(redis, full, age), full, age)
<1>. USE DEF IInv
<1>1. /\ UNCHANGED <<capacity, memory, memoryDebt>> /\ Full' = Full
      /\ call' = [call EXCEPT ![r] = None] \/ call' = call
  BY DEF Execute, Full
<1>2. /\ cost \in {0, RedisToken} /\ RedisToken \in Nat \ {0} /\ age \in Drift /\ age \in Int
      /\ full \in Nat /\ RedisToken <= full /\ full <= Full
      /\ MaxDrift \in Nat /\ -MaxDrift <= age /\ age <= MaxDrift
  BY LimiterAssumption DEF Execute, TypeOK, CallInv, Drift
<1>3. /\ Full \in Nat /\ KeyTTL >= Full + 2 * MaxDrift /\ KeyTTL \in Nat /\ RedisToken <= Full
  BY <1>2, Fulls, LimiterAssumption DEF TypeOK
<1>4. /\ redis \in {None} \cup [tokens : Nat, since : Since] \cup [tokens : Nat, since : Since, left : Nat]
      /\ redis \in {None} \cup [tokens : Nat, since : Int] \cup [tokens : Nat, since : Int, left : Nat]
      /\ redis # None => redis.tokens \in Nat /\ redis.since \in Int /\ redis.since >= -MaxDrift
      /\ debt \in Nat /\ promise \in {None} \cup {n \in Int : n >= -2 * MaxDrift}
  BY <1>3 DEF TypeOK, Since
<1>5. /\ c.tokens \in Nat /\ c.since \in Since /\ c.tokens <= Full
      /\ c.tokens >= cost =>
            /\ c.tokens - cost \in Nat
            /\ debt + cost = 0 \/ (debt + cost) + (c.tokens - cost) + c.since <= Full + MaxDrift
  <2>. HIDE DEF cost, age, full
  <2>1. /\ redis = None => debt = 0
        /\ redis # None => Backed(redis, debt, Full)
    BY DEF RedisInv
  <2>2. cost \in Nat
    BY <1>2
  <2>3. QED
    BY <1>2, <1>3, <1>4, <2>1, <2>2, GrantBacked
<1>6. /\ redis = None => c.tokens = full /\ c.since = age
      /\ redis # None /\ redis.since > age =>
           c.since = age /\ c.tokens = Lesser(full, redis.tokens + redis.since - age)
      /\ redis # None /\ redis.since <= age => c.tokens = redis.tokens /\ c.since = redis.since
  <2>. HIDE DEF cost, age, full
  <2>1. /\ full \in Nat /\ age \in Int
        /\ redis \in Buckets
    BY <1>2, <1>4 DEF Buckets
  <2>2. ReadAs(redis, full, age, c)
    BY <2>1, Reading, Zenon
  <2>. HIDE DEF c
  <2>3. QED
    BY <2>2 DEF ReadAs
<1>7. \/ /\ c.tokens >= cost
         /\ redis' = [tokens |-> c.tokens - cost, since |-> c.since, left |-> KeyTTL]
         /\ debt' = debt + cost
         /\ promise' = IF cost = 0 THEN promise ELSE None
      \/ /\ ~(c.tokens >= cost)
         /\ promise' = cost - c.tokens - age
         /\ UNCHANGED <<redis, debt>>
  BY DEF Execute, Affords, RetryAt
<1>. HIDE DEF c
<1>8. c.since \in Int /\ c.since >= -MaxDrift
  BY <1>5 DEF Since
<1>9. CallInv' /\ call' \in [Request -> {None} \cup [server : Server, cost : {0, RedisToken},
                                                 full : Nat, age : Drift]]
  BY <1>1, CallEnds
<1>10. MemoryInv'
  BY <1>1 DEF MemoryInv, MemoryFull
<1>11. CASE c.tokens >= cost
  <2>1. /\ redis' = [tokens |-> c.tokens - cost, since |-> c.since, left |-> KeyTTL]
        /\ debt' = debt + cost /\ promise' = IF cost = 0 THEN promise ELSE None
        /\ c.tokens - cost \in Nat
        /\ debt' = 0 \/ debt' + (c.tokens - cost) + c.since <= Full + MaxDrift
    BY <1>5, <1>7, <1>11
  <2>2. redis' # None /\ redis' \in [tokens : Nat, since : Since, left : 1..KeyTTL] /\ debt' \in Nat
    <3>1. KeyTTL \in 1..KeyTTL
      BY <1>2, <1>3
    <3>2. redis' \in [tokens : Nat, since : Since, left : 1..KeyTTL]
      BY <1>5, <2>1, <3>1
    <3>3. redis' \in [tokens : Int, since : Int, left : Int]
      BY <1>8, <1>3, <2>1
    <3>4. QED
      BY <1>2, <1>4, <2>1, <3>2, <3>3, LimiterAssumption
  <2>3. TypeOK'
    BY <1>1, <1>4, <1>9, <2>1, <2>2 DEF TypeOK, AnyTier
  <2>4. RedisInv'
    <3>1. debt' <= KeyTTL
      BY <1>2, <1>3, <1>4, <1>8, <2>1, <2>2
    <3>2. QED
      BY <1>1, <1>2, <1>3, <1>5, <2>1, <2>2, <3>1 DEF RedisInv, Backed
  <2>5. PromiseInv'
    <3>1. CASE cost = 0 /\ promise # None
      <4>1. redis'.tokens = c.tokens /\ redis'.since = c.since /\ promise' = promise /\ promise \in Int
        BY <1>4, <1>5, <2>1, <3>1
      <4>2. c.tokens >= RedisToken \/ c.tokens + c.since + promise + 2 * MaxDrift >= RedisToken
        BY <1>2, <1>4, <1>6, <4>1, <3>1 DEF PromiseInv, Lesser
      <4>3. QED
        BY <4>1, <4>2 DEF PromiseInv
    <3>2. CASE ~(cost = 0 /\ promise # None)
      BY <2>1, <3>2 DEF PromiseInv
    <3>3. QED
      BY <3>1, <3>2
  <2>6. QED
    BY <1>9, <1>10, <2>3, <2>4, <2>5
<1>12. CASE ~(c.tokens >= cost)
  <2>1. promise' = cost - c.tokens - age /\ UNCHANGED <<redis, debt>>
    BY <1>7, <1>12
  <2>2. cost = RedisToken /\ full = capacity * RedisToken /\ redis # None
    BY <1>2, <1>5, <1>6, <1>12 DEF CallInv, IsIncr, Execute
  <2>3. promise' \in Int /\ promise' >= -2 * MaxDrift
    BY <1>2, <1>5, <1>12, <2>1
  <2>4. TypeOK'
    BY <1>1, <1>9, <2>1, <2>3 DEF TypeOK, AnyTier
  <2>5. RedisInv'
    BY <1>1, <2>1 DEF RedisInv
  <2>6. redis.tokens + redis.since + promise' + 2 * MaxDrift >= RedisToken
    BY <1>2, <1>4, <1>5, <1>6, <1>12, <2>1, <2>2 DEF Lesser
  <2>7. PromiseInv'
    BY <2>1, <2>6 DEF PromiseInv
  <2>8. QED
    BY <1>9, <1>10, <2>4, <2>5, <2>7
<1>13. QED
  BY <1>11, <1>12

(* A request that is given up leaves the invariant as it is. *)
LEMMA CheckFailsStep ==
  ASSUME IInv, NEW r \in Request, CheckFails(r)
  PROVE  IInv'
<1>. USE DEF IInv
<1>1. UNCHANGED <<capacity, redis, memory, debt, memoryDebt, promise>> /\ Full' = Full
      /\ call' = [call EXCEPT ![r] = None]
  BY DEF CheckFails, Full
<1>2. CallInv' /\ call' \in [Request -> {None} \cup [server : Server, cost : {0, RedisToken},
                                                 full : Nat, age : Drift]]
  BY <1>1, CallEnds
<1>3. TypeOK'
  BY <1>1, <1>2 DEF TypeOK, AnyTier
<1>4. RedisInv' /\ MemoryInv' /\ PromiseInv'
  BY <1>1 DEF RedisInv, MemoryInv, PromiseInv, MemoryFull
<1>5. QED
  BY <1>2, <1>3, <1>4

(* The fallback preserves the invariant: only one server's memory changes. *)
LEMMA FallBackStep ==
  ASSUME IInv, NEW r \in Request, NEW age \in Drift, FallBack(r, age)
  PROVE  IInv'
<1>. DEFINE s == call[r].server
            c == Refilled(Found(memory[s], MemoryFull, age), MemoryFull, age)
            taken == Allowed(c, MemoryToken)
<1>. USE DEF IInv
<1>1. /\ UNCHANGED <<capacity, redis, debt, promise>> /\ Full' = Full /\ MemoryFull' = MemoryFull
      /\ call' = [call EXCEPT ![r] = None]
      /\ memory' = [memory EXCEPT ![s] = [c EXCEPT !.tokens = @ - taken]]
      /\ memoryDebt' = [memoryDebt EXCEPT ![s] = @ + taken]
  BY DEF FallBack, MemoryAllow, Full, MemoryFull
<1>2. /\ s \in Server /\ MemoryFull \in Nat /\ MemoryToken \in Nat /\ age \in Int
      /\ MaxDrift \in Nat /\ -MaxDrift <= age /\ age <= MaxDrift
  BY Fulls, LimiterAssumption DEF FallBack, IsIncr, TypeOK, Drift
<1>3. /\ memory[s] \in {None} \cup [tokens : Nat, since : Since] \cup [tokens : Nat, since : Since, left : Nat]
      /\ memoryDebt[s] \in Nat
      /\ memory[s] = None => memoryDebt[s] = 0
      /\ memory[s] # None => Backed(memory[s], memoryDebt[s], MemoryFull)
  BY <1>2 DEF TypeOK, MemoryInv
<1>4. /\ c.tokens \in Nat /\ c.since \in Since /\ c.tokens <= MemoryFull
      /\ c.tokens >= MemoryToken =>
           /\ c.tokens - MemoryToken \in Nat
           /\ memoryDebt[s] + MemoryToken = 0
              \/ (memoryDebt[s] + MemoryToken) + (c.tokens - MemoryToken) + c.since <= MemoryFull + MaxDrift
      /\ memoryDebt[s] = 0 \/ memoryDebt[s] + c.tokens + c.since <= MemoryFull + MaxDrift
  <2>. HIDE DEF s
  <2>1. MemoryFull <= MemoryFull
    BY <1>2
  <2>2. QED
    BY <1>2, <1>3, <2>1, GrantBacked
<1>5. c = [tokens |-> c.tokens, since |-> c.since]
  BY <1>2, <1>3 DEF TypeOK, Refilled, Found
<1>. HIDE DEF c, s
<1>6. taken \in {0, MemoryToken} /\ (taken # 0 => c.tokens >= MemoryToken)
  BY DEF Allowed, Affords
<1>7. memory'[s] = [tokens |-> c.tokens - taken, since |-> c.since]
      /\ memoryDebt'[s] = memoryDebt[s] + taken
  BY <1>1, <1>2, <1>5 DEF TypeOK
<1>8. /\ c.tokens - taken \in Nat /\ memoryDebt[s] + taken \in Nat
      /\ c.tokens - taken <= MemoryFull
      /\ memoryDebt[s] + taken = 0
         \/ (memoryDebt[s] + taken) + (c.tokens - taken) + c.since <= MemoryFull + MaxDrift
  <2>1. c.since \in Int
    BY <1>4 DEF Since
  <2>2. QED
    BY <1>2, <1>3, <1>4, <1>6, <2>1
<1>9. CallInv' /\ call' \in [Request -> {None} \cup [server : Server, cost : {0, RedisToken},
                                                 full : Nat, age : Drift]]
  BY <1>1, CallEnds
<1>10. /\ memory'[s] \in [tokens : Nat, since : Since] /\ memory'[s] # None
       /\ memoryDebt'[s] \in Nat
  <2>1. memory'[s] \in [tokens : Nat, since : Since]
    BY <1>4, <1>7, <1>8
  <2>2. memory'[s] \in [tokens : Int, since : Int]
    BY <1>4, <1>7, <1>8 DEF Since
  <2>3. QED
    BY <1>7, <1>8, <2>1, <2>2, LimiterAssumption
<1>11. \A q \in Server : q # s => memory'[q] = memory[q] /\ memoryDebt'[q] = memoryDebt[q]
  BY <1>1 DEF TypeOK
<1>12. TypeOK'
  <2>1. memory' \in [Server -> {None} \cup [tokens : Nat, since : Since]]
    BY <1>1, <1>2, <1>7, <1>10 DEF TypeOK
  <2>2. memoryDebt' \in [Server -> Nat]
    BY <1>1, <1>2, <1>7, <1>10 DEF TypeOK
  <2>3. QED
    BY <1>1, <1>9, <2>1, <2>2 DEF TypeOK, AnyTier
<1>13. MemoryInv'
  <2>1. Backed(memory'[s], memoryDebt'[s], MemoryFull)
    BY <1>7, <1>8 DEF Backed
  <2>2. QED
    BY <1>1, <1>10, <1>11, <2>1 DEF MemoryInv, Backed
<1>14. RedisInv' /\ PromiseInv'
  BY <1>1 DEF RedisInv, PromiseInv
<1>15. QED
  BY <1>9, <1>12, <1>13, <1>14

(* An interval of the clock preserves the invariant: what a bucket may      *)
(* refill from grows by what is taken off the debt.                         *)
LEMMA AgedBacked ==
  ASSUME NEW b, NEW d \in Nat, NEW full \in Nat, NEW burst \in Nat, Backed(b, d, full),
         b \in [tokens : Nat, since : Since] \/ b \in [tokens : Nat, since : Since, left : 1..KeyTTL]
  PROVE  /\ Aged(b, burst).tokens = b.tokens
         /\ Aged(b, burst).since = Lesser(b.since + 1, burst)
         /\ Aged(b, burst).since \in Since
         /\ Larger(0, d - 1) \in Nat
         /\ Backed(Aged(b, burst), Larger(0, d - 1), full)
<1>1. Aged(b, burst).tokens = b.tokens /\ Aged(b, burst).since = Lesser(b.since + 1, burst)
  BY DEF Aged
<1>2. b.tokens \in Nat /\ b.since \in Int /\ b.since >= -MaxDrift /\ MaxDrift \in Nat
  BY LimiterAssumption DEF Since
<1>3. Aged(b, burst).since \in Since
  BY <1>1, <1>2 DEF Lesser, Since
<1>4. Backed(Aged(b, burst), Larger(0, d - 1), full)
  BY <1>1, <1>2 DEF Backed, Lesser, Larger
<1>5. QED
  BY <1>1, <1>3, <1>4 DEF Larger

LEMMA TickStep ==
  ASSUME IInv, Tick
  PROVE  IInv'
<1>. DEFINE burst == RedisBurst(capacity)
            memoryBurst == MemoryBurst(capacity)
<1>. USE DEF IInv
<1>1. /\ capacity' = capacity /\ Full' = Full /\ MemoryFull' = MemoryFull
      /\ debt' = Larger(0, debt - 1)
      /\ promise' = IF promise = None THEN None ELSE Larger(promise - 1, -2 * MaxDrift)
  BY DEF Tick, Full, MemoryFull
<1>2. /\ Full \in Nat /\ MemoryFull \in Nat /\ RedisToken <= Full /\ RedisToken \in Nat
      /\ burst = Full + 2 * MaxDrift /\ memoryBurst = MemoryFull + 2 * MaxDrift
      /\ MaxDrift \in Nat /\ KeyTTL \in Nat /\ burst \in Nat /\ memoryBurst \in Nat
  BY Fulls, LimiterAssumption DEF TypeOK
<1>. HIDE DEF burst, memoryBurst
<1>3. /\ debt \in Nat /\ debt' \in Nat
      /\ promise' \in {None} \cup {n \in Int : n >= -2 * MaxDrift}
      /\ promise # None => promise \in Int /\ promise' = Larger(promise - 1, -2 * MaxDrift)
      /\ promise = None => promise' = None
  BY <1>1, <1>2 DEF TypeOK, Larger
<1>4. call' \in [Request -> {None} \cup [server : Server, cost : {0, RedisToken},
                                      full : Nat, age : Drift]]
      /\ CallInv'
  <2>1. call' = [r \in Request |-> IF call[r] = None THEN None ELSE [call[r] EXCEPT !.age = @ + 1]]
        /\ \A r \in Request : call[r] # None => call[r].age < MaxDrift
    BY DEF Tick
  <2>2. ASSUME NEW r \in Request, call[r] # None
        PROVE  /\ call'[r] \in [server : Server, cost : {0, RedisToken}, full : Nat, age : Drift]
               /\ call'[r].cost = call[r].cost /\ call'[r].full = call[r].full
    <3>1. call[r] \in [server : Server, cost : {0, RedisToken}, full : Nat, age : Drift]
      BY <2>2 DEF TypeOK
    <3>2. call'[r] = [call[r] EXCEPT !.age = @ + 1]
      BY <2>1, <2>2
    <3>3. call[r].age + 1 \in Drift
      BY <1>2, <2>1, <2>2, <3>1 DEF Drift
    <3>4. QED
      BY <3>1, <3>2, <3>3
  <2>3. \A r \in Request : call[r] = None => call'[r] = None
    BY <2>1
  <2>4. call' \in [Request -> {None} \cup [server : Server, cost : {0, RedisToken},
                                        full : Nat, age : Drift]]
    BY <2>1, <2>2, <2>3
  <2>5. CallInv'
    BY <1>1, <2>2, <2>3 DEF CallInv, IsIncr
  <2>6. QED
    BY <2>4, <2>5
<1>5. /\ redis' \in {None} \cup [tokens : Nat, since : Since, left : 1..KeyTTL]
      /\ RedisInv' /\ PromiseInv'
  <2>1. CASE redis = None \/ redis.left = 1
    <3>1. redis' = None
      BY <2>1 DEF Tick
    <3>2. debt <= 1
      BY <1>3, <2>1 DEF RedisInv, TypeOK
    <3>3. QED
      BY <1>1, <1>3, <3>1, <3>2 DEF RedisInv, PromiseInv, Larger
  <2>2. CASE redis # None /\ redis.left # 1
    <3>. DEFINE aged == Aged(redis, burst)
    <3>1. redis' = [aged EXCEPT !.left = @ - 1]
      BY <2>2 DEF Tick, burst
    <3>2. redis \in [tokens : Nat, since : Since, left : 1..KeyTTL] /\ redis.left - 1 \in 1..KeyTTL
      BY <1>2, <2>2 DEF TypeOK
    <3>3. Backed(redis, debt, Full) /\ debt <= redis.left
      BY <2>2 DEF RedisInv
    <3>4. /\ aged.tokens = redis.tokens /\ aged.since = Lesser(redis.since + 1, burst)
          /\ aged.since \in Since /\ Backed(aged, debt', Full)
      BY <1>1, <1>2, <1>3, <3>2, <3>3, AgedBacked
    <3>5. redis' = [tokens |-> aged.tokens, since |-> aged.since, left |-> redis.left - 1]
      BY <3>1, <3>2 DEF Aged
    <3>. HIDE DEF aged
    <3>6. redis' \in [tokens : Nat, since : Since, left : 1..KeyTTL]
      BY <3>2, <3>4, <3>5
    <3>7. redis'.tokens = aged.tokens /\ redis'.since = aged.since /\ redis'.left = redis.left - 1
      BY <3>5
    <3>8. redis' # None
      <4>1. redis' \in [tokens : Int, since : Int, left : Int]
        BY <1>2, <3>6 DEF Since
      <4>2. QED
        BY <4>1, LimiterAssumption
    <3>9. RedisInv'
      <4>1. debt' <= redis'.left
        BY <1>1, <1>3, <3>2, <3>3, <3>7 DEF Larger
      <4>2. Backed(redis', debt', Full)
        BY <3>4, <3>7 DEF Backed
      <4>3. QED
        BY <1>1, <3>8, <4>1, <4>2 DEF RedisInv, Backed
    <3>10. PromiseInv'
      <4>1. redis.tokens \in Nat /\ redis.since \in Int /\ redis.since >= -MaxDrift
        BY <1>2, <3>2 DEF Since
      <4>2. QED
        BY <1>2, <1>3, <2>2, <3>4, <3>7, <4>1 DEF PromiseInv, Larger, Lesser
    <3>11. QED
      BY <3>6, <3>9, <3>10
  <2>3. QED
    BY <2>1, <2>2
<1>6. /\ memory' \in [Server -> {None} \cup [tokens : Nat, since : Since]]
      /\ memoryDebt' \in [Server -> Nat] /\ MemoryInv'
  <2>1. /\ memory' = [s \in Server |-> IF memory[s] = None THEN None ELSE Aged(memory[s], memoryBurst)]
        /\ memoryDebt' = [s \in Server |-> Larger(0, memoryDebt[s] - 1)]
    BY DEF Tick, memoryBurst
  <2>2. ASSUME NEW s \in Server
        PROVE  /\ memory'[s] \in {None} \cup [tokens : Nat, since : Since] /\ memoryDebt'[s] \in Nat
               /\ memory'[s] = None => memoryDebt'[s] = 0
               /\ memory'[s] # None => Backed(memory'[s], memoryDebt'[s], MemoryFull)
    <3>1. memoryDebt[s] \in Nat /\ memoryDebt'[s] = Larger(0, memoryDebt[s] - 1)
      BY <2>1 DEF TypeOK
    <3>2. CASE memory[s] = None
      BY <2>1, <3>1, <3>2 DEF MemoryInv, Larger
    <3>3. CASE memory[s] # None
      <4>1. memory[s] \in [tokens : Nat, since : Since] /\ memory'[s] = Aged(memory[s], memoryBurst)
            /\ Backed(memory[s], memoryDebt[s], MemoryFull)
        BY <2>1, <3>3 DEF TypeOK, MemoryInv
      <4>2. /\ memory'[s].since \in Since /\ memoryDebt'[s] \in Nat
            /\ Backed(memory'[s], memoryDebt'[s], MemoryFull)
        BY <1>2, <3>1, <4>1, AgedBacked
      <4>3. memory'[s] = [tokens |-> memory[s].tokens, since |-> memory'[s].since]
        BY <4>1 DEF Aged
      <4>4. memory'[s] \in [tokens : Nat, since : Since]
        BY <4>1, <4>2, <4>3
      <4>5. memory'[s] # None
        BY <4>4, LimiterAssumption DEF Since
      <4>6. QED
        BY <4>2, <4>4, <4>5
    <3>4. QED
      BY <3>2, <3>3
  <2>3. QED
    BY <1>1, <2>1, <2>2 DEF MemoryInv
<1>7. TypeOK'
  BY <1>1, <1>3, <1>4, <1>5, <1>6 DEF TypeOK, AnyTier
<1>8. QED
  BY <1>4, <1>5, <1>6, <1>7

-----------------------------------------------------------------------------
(* Every reachable state satisfies the invariant. *)
LEMMA Invariance == Spec => []IInv
<1>1. IInv /\ [Next]_vars => IInv'
  <2>. SUFFICES ASSUME IInv, [Next]_vars
                PROVE  IInv'
    OBVIOUS
  <2>1. CASE Tick
    BY <2>1, TickStep
  <2>2. ASSUME NEW r \in Request, NEW s \in Server, NEW age \in Drift,
               LimitCheck(r, s, age) \/ LimitIncr(r, s, age)
        PROVE  IInv'
    BY <2>2, EvalStep
  <2>3. ASSUME NEW r \in Request, NEW answered \in BOOLEAN, Execute(r, answered)
        PROVE  IInv'
    BY <2>3, ExecuteStep
  <2>4. ASSUME NEW r \in Request, CheckFails(r)
        PROVE  IInv'
    BY <2>4, CheckFailsStep
  <2>5. ASSUME NEW r \in Request, NEW age \in Drift, FallBack(r, age)
        PROVE  IInv'
    BY <2>5, FallBackStep
  <2>6. CASE UNCHANGED vars
    BY <2>6 DEF vars, IInv, TypeOK, AnyTier, CallInv, IsIncr, RedisInv, MemoryInv, PromiseInv,
                Backed, Full, MemoryFull
  <2>7. QED
    BY <2>1, <2>2, <2>3, <2>4, <2>5, <2>6 DEF Next
<1>2. QED
  BY <1>1, IInvInit, PTL DEF Spec

(* Type correctness: in particular no bucket is ever overdrawn, whatever    *)
(* the clocks and the replies do.                                           *)
THEOREM TypeCorrect == Spec => []TypeOK
BY Invariance, PTL DEF IInv

(* No interval grants more than one full bucket and its refill, give or     *)
(* take the drift: lost replies, repeated commands, checks of another       *)
(* capacity and the expiry of the key included.                             *)
THEOREM WithinBurstHolds == Spec => []WithinBurst
<1>1. IInv => WithinBurst
  <2>. SUFFICES ASSUME IInv
                PROVE  WithinBurst
    OBVIOUS
  <2>. USE DEF IInv
  <2>1. /\ Full \in Nat /\ MemoryFull \in Nat /\ MaxDrift \in Nat
        /\ RedisBurst(capacity) = Full + 2 * MaxDrift
        /\ MemoryBurst(capacity) = MemoryFull + 2 * MaxDrift
    BY Fulls, LimiterAssumption DEF TypeOK
  <2>2. debt <= RedisBurst(capacity)
    <3>1. redis # None => redis.tokens \in Nat /\ redis.since \in Int /\ redis.since >= -MaxDrift
      BY DEF TypeOK, Since
    <3>2. debt \in Nat /\ (debt = 0 \/ debt + redis.tokens + redis.since <= Full + MaxDrift)
          /\ (redis = None => debt = 0)
      BY DEF TypeOK, RedisInv, Backed
    <3>3. QED
      BY <2>1, <3>1, <3>2
  <2>3. \A s \in Server : memoryDebt[s] <= MemoryBurst(capacity)
    <3>1. ASSUME NEW s \in Server
          PROVE  memoryDebt[s] <= MemoryBurst(capacity)
      <4>1. memory[s] # None =>
              memory[s].tokens \in Nat /\ memory[s].since \in Int /\ memory[s].since >= -MaxDrift
        BY DEF TypeOK, Since
      <4>2. /\ memoryDebt[s] \in Nat
            /\ memory[s] = None => memoryDebt[s] = 0
            /\ memory[s] # None => memoryDebt[s] = 0
                 \/ memoryDebt[s] + memory[s].tokens + memory[s].since <= MemoryFull + MaxDrift
        BY DEF TypeOK, MemoryInv, Backed
      <4>3. QED
        BY <2>1, <4>1, <4>2
    <3>2. QED
      BY <3>1
  <2>4. QED
    BY <2>2, <2>3 DEF WithinBurst
<1>2. QED
  BY <1>1, Invariance, PTL

(* A refused client that comes back at resetAtMs finds a token, unless      *)
(* another of its requests took it.                                         *)
THEOREM RetryAfterHoldsAlways == Spec => []RetryAfterHolds
<1>1. IInv => RetryAfterHolds
  <2>. SUFFICES ASSUME IInv, promise # None
                PROVE  Affords(Refilled(Found(redis, capacity * RedisToken, -promise - 2 * MaxDrift),
                                        capacity * RedisToken, -promise - 2 * MaxDrift), RedisToken)
    BY DEF RetryAfterHolds
  <2>. DEFINE full == capacity * RedisToken
              age == -promise - 2 * MaxDrift
              c == Refilled(Found(redis, full, age), full, age)
  <2>. USE DEF IInv
  <2>1. /\ full \in Nat /\ full >= RedisToken /\ RedisToken \in Nat /\ MaxDrift \in Nat
        /\ promise \in Int /\ age \in Int
    BY Fulls, LimiterAssumption DEF TypeOK
  <2>2. redis \in Buckets
    BY LimiterAssumption DEF TypeOK, Since, Buckets
  <2>3. redis # None => redis.tokens \in Nat /\ redis.since \in Int
    BY DEF TypeOK, Since
  <2>4. ReadAs(redis, full, age, c)
    <3>. HIDE DEF full, age
    <3>1. full \in Nat /\ age \in Int
      BY <2>1
    <3>2. QED
      BY <2>2, <3>1, Reading, Zenon
  <2>. HIDE DEF c
  <2>5. c.tokens >= RedisToken
    BY <2>1, <2>3, <2>4 DEF ReadAs, PromiseInv, Lesser
  <2>6. QED
    BY <2>5 DEF c, Affords
<1>2. QED
  BY <1>1, Invariance, PTL
=============================================================================
