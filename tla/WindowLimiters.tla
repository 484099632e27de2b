--------------------------- MODULE WindowLimiters ---------------------------
(***************************************************************************)
(* Four limiters that work on one key at a time, one of which is in use:   *)
(* the token bucket and the sliding log of shared/rate-limit, the sliding  *)
(* log of 02-rate-limiter, and the fixed window of 01_url_shortener, whose *)
(* commands to Redis may fail.  Times are ages, in ticks.                  *)
(***************************************************************************)
EXTENDS Naturals, SequencesExt

CONSTANTS
    Window,
    Limit,  \* capacity, maxRequests, RATE_LIMIT_MAX
    Costs,  \* the costs asked of the 02-rate-limiter log
    MaxFailures  \* bound: the commands that fail in one window

WindowAssumption ==
    Window \in Nat \ {0} /\ Limit \in Nat \ {0} /\ Costs \subseteq Nat /\ MaxFailures \in Nat

VARIABLES
    kind,       \* the limiter in use
    tokens,     \* the bucket, which refills by one per tick
    elapsed,    \* the time since its lastRefillTimestamp
    times,      \* the ages in the sliding log
    count,      \* the counter in Redis; 0 when the key is absent
    ttl,        \* its time to live; 0 when it has none
    expiring,   \* whether the request that created the key awaits EXPIRE
    granted,    \* history: the ages of the grants that are younger than Window
    failed      \* history: the same of the INCRs and the TTLs that failed

limiterVars == <<kind, tokens, elapsed, times, count, ttl, expiring, granted, failed>>
bucketVars == <<tokens, elapsed>>
counterVars == <<count, ttl, expiring, failed>>

Ages == Seq(0..Window)

TypeOK ==
    /\ kind \in {"bucket", "log", "costed log", "counter"}
    /\ tokens \in 0..Limit /\ elapsed \in 0..Limit
    /\ times \in Ages /\ granted \in Ages /\ failed \in Ages
    /\ count \in 0..(Limit + 1) /\ ttl \in 0..Window /\ expiring \in BOOLEAN

Init ==
    /\ kind \in {"bucket", "log", "costed log", "counter"}
    /\ tokens = Limit /\ elapsed = 0
    /\ times = <<>> /\ granted = <<>> /\ failed = <<>>
    /\ count = 0 /\ ttl = 0 /\ expiring = FALSE

-----------------------------------------------------------------------------
(* Plausible slips in the code, used to show that the properties bite. *)
RoomForOneMore(s, cost) == Len(s) <= Limit

Now(n) == [i \in 1..n |-> 0]
Grant(n) == granted' = Now(n) \o granted

(* What is younger than the window: a log is in the order of its times, the *)
(* newest first here, so a filter by age keeps what comes before the rest.  *)
Young(s) == SubSeq(s, 1, Max({0} \cup {i \in DOMAIN s : s[i] < Window}))

(* TokenBucket.consume(), which refills first. *)
Refilled == IF tokens + elapsed < Limit THEN tokens + elapsed ELSE Limit
Consume ==
    /\ kind = "bucket"
    /\ elapsed' = 0
    /\ IF Refilled >= 1 THEN tokens' = Refilled - 1 /\ Grant(1)
                        ELSE tokens' = Refilled /\ UNCHANGED granted
    /\ UNCHANGED <<kind, times, counterVars>>

(* Both logs drop what has left the window.  checkLimit() saves the rest in *)
(* any case, allow() only with a grant.                                     *)
HasRoom(s, cost) == Len(s) + cost <= Limit

CheckLimit ==
    /\ kind = "log"
    /\ IF HasRoom(Young(times), 1) THEN times' = Now(1) \o Young(times) /\ Grant(1)
                                   ELSE times' = Young(times) /\ UNCHANGED granted
    /\ UNCHANGED <<kind, bucketVars, counterVars>>

Allow(cost) ==
    /\ kind = "costed log" /\ HasRoom(Young(times), cost)
    /\ times' = Now(cost) \o Young(times)
    /\ Grant(cost)
    /\ UNCHANGED <<kind, bucketVars, counterVars>>

(* rateLimit(): INCR has its answer.  Up to the limit the request is let    *)
(* through, and the one that created the key sends EXPIRE first.            *)
Counted == IF count > Limit THEN count ELSE count + 1

Incr ==
    /\ kind = "counter"
    /\ count' = Counted
    /\ expiring' = (expiring \/ count = 0)
    /\ IF count > 0 /\ count < Limit THEN Grant(1) ELSE UNCHANGED granted
    /\ UNCHANGED <<kind, bucketVars, times, ttl, failed>>

(* catch lets the request through: its INCR failed, before or after Redis   *)
(* executed it, or the TTL that was to refuse it.  A key that such an INCR  *)
(* creates stays without expiry.                                            *)
FailsOpen(executed) ==
    /\ kind = "counter" /\ Len(failed) < MaxFailures
    /\ count' = IF executed THEN Counted ELSE count
    /\ failed' = Now(1) \o failed
    /\ Grant(1)
    /\ UNCHANGED <<kind, bucketVars, times, ttl, expiring>>

(* The request that created the key is let through whether or not EXPIRE    *)
(* fails; if Redis did not execute it, the key stays without expiry.        *)
Expire(executed) ==
    /\ expiring
    /\ expiring' = FALSE
    /\ ttl' = IF executed THEN Window ELSE 0
    /\ Grant(1)
    /\ UNCHANGED <<kind, bucketVars, times, count, failed>>

Older(s) == [i \in DOMAIN s |-> s[i] + 1]
Tick ==
    /\ elapsed' = IF elapsed < Limit THEN elapsed + 1 ELSE elapsed
    /\ times' = [i \in DOMAIN times |-> IF times[i] < Window THEN times[i] + 1 ELSE Window]
    /\ granted' = Young(Older(granted))
    /\ failed' = Young(Older(failed))
    /\ ttl' = IF ttl = 0 THEN 0 ELSE ttl - 1
    /\ count' = IF ttl = 1 THEN 0 ELSE count
    /\ UNCHANGED <<kind, tokens, expiring>>

Next ==
    \/ Tick \/ Consume \/ CheckLimit \/ Incr
    \/ \E cost \in Costs : Allow(cost)
    \/ \E executed \in BOOLEAN : FailsOpen(executed) \/ Expire(executed)

-----------------------------------------------------------------------------
(* What any interval as long as the window lets through: a sliding log      *)
(* never more than its limit, a bucket its capacity and one token for each  *)
(* tick.  A fixed window has no bound when Redis fails: twice its limit     *)
(* (around the change of windows), and one request for each command that    *)
(* fails in the interval, but no more than one, whatever runs between its   *)
(* commands and whatever expiry the failures leave the key.                 *)
WindowBound ==
    Len(granted) <= CASE kind = "bucket" -> Limit + Window - 1
                      [] kind = "counter" -> 2 * Limit + Len(failed)
                      [] OTHER -> Limit
=============================================================================
