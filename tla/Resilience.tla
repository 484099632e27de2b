----------------------------- MODULE Resilience -----------------------------
(***************************************************************************)
(* shared/circuitBreaker.ts, retry.ts and resilienceProvider.ts: callers   *)
(* of one process share a CircuitBreaker, each call being a chain of       *)
(* attempts (withResilience).  The awaits between the breaker's admission  *)
(* of a call and its verdict let other calls be admitted, succeed or fail  *)
(* in between.                                                             *)
(*                                                                         *)
(* An attempt that answers late lost the race with its timeout: the caller *)
(* never sees it, so a timeout and an error are one event here, and the    *)
(* backoff is some time.  Only the breaker's own clock is counted.         *)
(***************************************************************************)
EXTENDS Naturals

CONSTANTS
    Caller,
    Threshold,    \* failureThreshold
    ResetTimeout, \* resetTimeoutMs, in ticks
    MaxRetries    \* maxRetries

ASSUME ResilienceAssumption ==
    Threshold \in Nat \ {0} /\ ResetTimeout \in Nat \ {0} /\ MaxRetries \in Nat

VARIABLES
    state,        \* CBState
    failureCount, \* read only as >= Threshold, so it stops there
    age,          \* time since lastFailureTime, up to ResetTimeout
    pc,           \* each caller: "ready", in an "attempt" or a "backoff"
    attempt,      \* the attempt of its current call
    healthy,      \* does the downstream service answer in time?
    load          \* attempts each caller sent since the breaker last opened

vars == <<state, failureCount, age, pc, attempt, healthy, load>>

CBState == {"CLOSED", "OPEN", "HALF_OPEN"}
Never == ResetTimeout   \* lastFailureTime = null: nobody reads it when CLOSED

(* The breaker's fields, and a call's attempts, stay within their bounds.   *)
TypeOK ==
    /\ state \in CBState
    /\ failureCount \in 0..Threshold
    /\ age \in 0..ResetTimeout
    /\ pc \in [Caller -> {"ready", "attempt", "backoff"}]
    /\ attempt \in [Caller -> 0..MaxRetries]
    /\ healthy \in BOOLEAN
    /\ load \in [Caller -> Nat]

Init ==
    /\ state = "CLOSED" /\ failureCount = 0 /\ age = Never
    /\ pc = [c \in Caller |-> "ready"]
    /\ attempt = [c \in Caller |-> 0]
    /\ healthy \in BOOLEAN
    /\ load = [c \in Caller |-> 0]

-----------------------------------------------------------------------------
(* Plausible slips in the code, used to show that the properties bite. *)
SuccessKeepsCount == failureCount
NeverBlocks(s) == FALSE
BlocksTrials(s) == s # "CLOSED"

(* updateState(): an open breaker turns half-open once the timeout passed. *)
TimeoutPassed == state = "OPEN" /\ age >= ResetTimeout
updateState == IF TimeoutPassed THEN "HALF_OPEN" ELSE state

Blocks(s) == s = "OPEN"

(* A refused call never reaches onFailure(). *)
AgeAfterRefusal == age

Counted == IF failureCount = Threshold THEN Threshold ELSE failureCount + 1
Cleared == 0

LastAttempt(c) == attempt[c] = MaxRetries
NextAttempt(c) == attempt[c] + 1

(* load counts the attempts of a caller while the breaker stays open. *)
Sends(caller) ==
    load' = [c \in Caller |-> IF state # "OPEN" \/ state' # "OPEN" THEN 0
                              ELSE IF c = caller THEN load[c] + 1 ELSE load[c]]
SendsNothing ==
    load' = [c \in Caller |-> IF state # "OPEN" \/ state' # "OPEN" THEN 0 ELSE load[c]]

(* execute(): refused while open, else the first attempt of the call. *)
Call(c) ==
    /\ pc[c] = "ready"
    /\ state' = updateState
    /\ \/ /\ Blocks(updateState)
          /\ age' = AgeAfterRefusal
          /\ SendsNothing
          /\ UNCHANGED <<pc, attempt>>
       \/ /\ ~Blocks(updateState)
          /\ pc' = [pc EXCEPT ![c] = "attempt"]
          /\ attempt' = [attempt EXCEPT ![c] = 0]
          /\ Sends(c)
          /\ UNCHANGED age
    /\ UNCHANGED <<failureCount, healthy>>

(* The attempt answers: onSuccess() closes the breaker whatever its state. *)
Succeed(c) ==
    /\ pc[c] = "attempt"
    /\ pc' = [pc EXCEPT ![c] = "ready"]
    /\ failureCount' = Cleared
    /\ state' = "CLOSED"
    /\ SendsNothing
    /\ UNCHANGED <<age, attempt, healthy>>

(* The attempt fails or times out with retries left. *)
Backoff(c) ==
    /\ pc[c] = "attempt" /\ ~healthy /\ ~LastAttempt(c)
    /\ pc' = [pc EXCEPT ![c] = "backoff"]
    /\ UNCHANGED <<state, failureCount, age, attempt, healthy, load>>

(* The delay is over; the breaker is not asked again. *)
Retry(c) ==
    /\ pc[c] = "backoff"
    /\ pc' = [pc EXCEPT ![c] = "attempt"]
    /\ attempt' = [attempt EXCEPT ![c] = NextAttempt(c)]
    /\ UNCHANGED <<state, failureCount, age, healthy>>
    /\ Sends(c)

(* The last attempt fails: lastError reaches the breaker's onFailure(). *)
Fail(c) ==
    /\ pc[c] = "attempt" /\ ~healthy /\ LastAttempt(c)
    /\ pc' = [pc EXCEPT ![c] = "ready"]
    /\ failureCount' = Counted
    /\ age' = 0
    /\ state' = IF failureCount' >= Threshold \/ state = "HALF_OPEN" THEN "OPEN" ELSE state
    /\ SendsNothing
    /\ UNCHANGED <<attempt, healthy>>

Tick ==
    /\ age < ResetTimeout
    /\ age' = age + 1
    /\ UNCHANGED <<state, failureCount, pc, attempt, healthy, load>>

(* The service breaks down or recovers. *)
Downstream ==
    /\ healthy' = ~healthy
    /\ UNCHANGED <<state, failureCount, age, pc, attempt, load>>

Answer(c) == Succeed(c) \/ Backoff(c) \/ Fail(c)

Next == Tick \/ Downstream \/ \E c \in Caller : Call(c) \/ Answer(c) \/ Retry(c)

Spec == Init /\ [][Next]_vars

(* Attempts end, by their timeout at the latest; backoffs end; the clock    *)
(* runs; somebody keeps calling.                                            *)
Fairness ==
    /\ WF_vars(Tick)
    /\ \A c \in Caller : WF_vars(Answer(c)) /\ WF_vars(Retry(c))
    /\ WF_vars(\E c \in Caller : Call(c))

FairSpec == Spec /\ Fairness

-----------------------------------------------------------------------------
(* The breaker is closed exactly while the failures since the last success *)
(* stay below the threshold, late verdicts included: a closed breaker never *)
(* trips on its first failure because of an earlier outage, and a half-open *)
(* one reopens on any failure.                                              *)
ClosedBelowThreshold == state = "CLOSED" <=> failureCount < Threshold

(* ADR-010 "rather than being continuously bombarded by retry attempts": a  *)
(* caller sends an open breaker's service at most the retries of the call   *)
(* it had under way, however long the breaker stays open and however late   *)
(* the failures that prolong it.                                            *)
ShedsLoad == state = "OPEN" => \A c \in Caller : load[c] <= MaxRetries

(* Once the service stays healthy the breaker ends up closed for good: late *)
(* failures of calls admitted before it opened, and refused calls, cannot   *)
(* postpone its probe forever, and no call waits for ever.                  *)
Recovers == <>[]healthy => <>[](state = "CLOSED")
=============================================================================
