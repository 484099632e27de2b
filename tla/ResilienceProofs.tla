-------------------------- MODULE ResilienceProofs --------------------------
(* Proofs about Resilience for every number of callers, every threshold,    *)
(* reset timeout and number of retries.                                     *)
EXTENDS Resilience, TLAPS

(* Only a call with retries left backs off. *)
RetriesLeft == \A c \in Caller : pc[c] = "backoff" => attempt[c] < MaxRetries

(* While the breaker is open, a call under way sent at most one attempt for *)
(* each one it has used, and a caller between calls at most its retries.    *)
LoadInv ==
    state = "OPEN" => \A c \in Caller :
        load[c] <= MaxRetries /\ (pc[c] # "ready" => load[c] <= attempt[c])

IInv == TypeOK /\ RetriesLeft /\ ClosedBelowThreshold /\ LoadInv

-----------------------------------------------------------------------------
(* A new breaker with idle callers satisfies the invariant. *)
LEMMA IInvInit ==
  ASSUME Init
  PROVE  IInv
BY ResilienceAssumption
   DEF Init, IInv, TypeOK, RetriesLeft, ClosedBelowThreshold, LoadInv, CBState, Never

(* What a step does to load: zero unless the breaker stays open. *)
LEMMA LoadCounts ==
  ASSUME TypeOK, NEW k \in Caller, Sends(k) \/ SendsNothing
  PROVE  /\ load' \in [Caller -> Nat]
         /\ \A c \in Caller : state # "OPEN" => load'[c] = 0
         /\ \A c \in Caller : c # k => load'[c] <= load[c]
         /\ load'[k] <= load[k] + 1
         /\ SendsNothing => load'[k] <= load[k]
<1>1. CASE Sends(k)
  <2>1. \A c \in Caller : load'[c] \in {0, load[c], load[c] + 1}
    BY <1>1 DEF Sends
  <2>2. load' \in [Caller -> Nat]
    <3>1. load' = [c \in Caller |-> load'[c]]
      BY <1>1, Zenon DEF Sends
    <3>2. QED
      BY <2>1, <3>1 DEF TypeOK
  <2>3. SendsNothing => load'[k] <= load[k]
    BY DEF SendsNothing, TypeOK
  <2>4. QED
    BY <1>1, <2>2, <2>3 DEF Sends, TypeOK
<1>2. CASE SendsNothing
  BY <1>2 DEF SendsNothing, TypeOK
<1>3. QED
  BY <1>1, <1>2

(* execute(), refusing or admitting, preserves the invariant. *)
LEMMA CallStep ==
  ASSUME IInv, NEW k \in Caller, Call(k)
  PROVE  IInv'
<1>. USE ResilienceAssumption DEF IInv, TypeOK, CBState
<1>1. state' = updateState /\ UNCHANGED <<failureCount, healthy>>
  BY DEF Call
<1>2. state' \in CBState /\ (state' = "CLOSED" <=> state = "CLOSED")
  BY <1>1 DEF updateState, TimeoutPassed
<1>3. CASE Blocks(updateState)
  <2>1. state = "OPEN" /\ SendsNothing /\ UNCHANGED <<pc, attempt, age>>
    BY <1>3 DEF Call, Blocks, updateState, TimeoutPassed, AgeAfterRefusal
  <2>2. load' \in [Caller -> Nat] /\ \A c \in Caller : load'[c] <= load[c]
    BY <2>1, LoadCounts
  <2>3. TypeOK' /\ RetriesLeft' /\ ClosedBelowThreshold'
    BY <1>1, <1>2, <2>1, <2>2 DEF RetriesLeft, ClosedBelowThreshold
  <2>4. LoadInv'
    <3>1. ASSUME NEW c \in Caller
          PROVE  load'[c] <= MaxRetries /\ (pc'[c] # "ready" => load'[c] <= attempt'[c])
      <4>1. load[c] <= MaxRetries /\ (pc[c] # "ready" => load[c] <= attempt[c])
        BY <2>1 DEF LoadInv
      <4>2. load'[c] <= load[c] /\ load'[c] \in Nat /\ load[c] \in Nat /\ attempt[c] \in Nat
        BY <2>2
      <4>3. QED
        BY <2>1, <4>1, <4>2
    <3>2. QED
      BY <3>1 DEF LoadInv
  <2>5. QED
    BY <2>3, <2>4
<1>4. CASE ~Blocks(updateState)
  <2>1. /\ state' # "OPEN" /\ Sends(k) /\ UNCHANGED age
        /\ pc' = [pc EXCEPT ![k] = "attempt"] /\ attempt' = [attempt EXCEPT ![k] = 0]
    BY <1>1, <1>4 DEF Call, Blocks
  <2>2. load' \in [Caller -> Nat]
    BY <2>1, LoadCounts
  <2>3. TypeOK'
    <3>1. pc' \in [Caller -> {"ready", "attempt", "backoff"}]
      BY <2>1
    <3>2. attempt' \in [Caller -> 0..MaxRetries]
      BY <2>1
    <3>3. QED
      BY <1>1, <1>2, <2>1, <2>2, <3>1, <3>2, Zenon
  <2>4. RetriesLeft'
    BY <2>1 DEF RetriesLeft
  <2>5. ClosedBelowThreshold' /\ LoadInv'
    BY <1>1, <1>2, <2>1 DEF ClosedBelowThreshold, LoadInv
  <2>6. QED
    BY <2>3, <2>4, <2>5
<1>5. QED
  BY <1>3, <1>4

(* onSuccess, onFailure and a backoff preserve the invariant. *)
LEMMA AnswerStep ==
  ASSUME IInv, NEW k \in Caller, Answer(k)
  PROVE  IInv'
<1>. USE ResilienceAssumption DEF IInv, TypeOK, CBState
<1>1. CASE Succeed(k)
  <2>1. load' \in [Caller -> Nat]
    BY <1>1, LoadCounts DEF Succeed
  <2>2. /\ pc' = [pc EXCEPT ![k] = "ready"] /\ failureCount' = 0 /\ state' = "CLOSED"
        /\ UNCHANGED <<age, attempt, healthy>>
    BY <1>1 DEF Succeed, Cleared
  <2>3. pc' \in [Caller -> {"ready", "attempt", "backoff"}]
    BY <2>2
  <2>4. TypeOK'
    BY <2>1, <2>2, <2>3
  <2>5. RetriesLeft' /\ ClosedBelowThreshold' /\ LoadInv'
    BY <2>2 DEF RetriesLeft, ClosedBelowThreshold, LoadInv
  <2>6. QED
    BY <2>4, <2>5
<1>2. CASE Backoff(k)
  BY <1>2 DEF Backoff, LastAttempt, RetriesLeft, ClosedBelowThreshold, LoadInv
<1>3. CASE Fail(k)
  <2>1. /\ load' \in [Caller -> Nat]
        /\ \A c \in Caller : load'[c] <= load[c] /\ (state # "OPEN" => load'[c] = 0)
    BY <1>3, LoadCounts DEF Fail
  <2>2. /\ failureCount' \in 0..Threshold
        /\ state = "OPEN" \/ state = "HALF_OPEN" => failureCount' = Threshold
    BY <1>3 DEF Fail, Counted, ClosedBelowThreshold
  <2>3. state' \in CBState /\ ClosedBelowThreshold'
    BY <1>3, <2>2 DEF Fail, ClosedBelowThreshold
  <2>4. pc' = [pc EXCEPT ![k] = "ready"] /\ age' = 0 /\ UNCHANGED <<attempt, healthy>>
    BY <1>3 DEF Fail
  <2>5. LoadInv'
    <3>1. ASSUME NEW c \in Caller
          PROVE  load'[c] <= MaxRetries /\ (pc'[c] # "ready" => load'[c] <= attempt'[c])
      <4>1. /\ load'[c] \in Nat /\ load[c] \in Nat /\ attempt[c] \in Nat
            /\ load'[c] <= load[c] /\ (state # "OPEN" => load'[c] = 0)
            /\ attempt'[c] = attempt[c] /\ (pc'[c] # "ready" => pc[c] # "ready")
        BY <2>1, <2>4
      <4>2. CASE state = "OPEN"
        <5>1. load[c] <= MaxRetries /\ (pc[c] # "ready" => load[c] <= attempt[c])
          BY <4>2 DEF LoadInv
        <5>2. QED
          BY <4>1, <5>1
      <4>3. CASE state # "OPEN"
        BY <4>1, <4>3
      <4>4. QED
        BY <4>2, <4>3
    <3>2. QED
      BY <3>1 DEF LoadInv
  <2>6. TypeOK'
    BY <2>1, <2>2, <2>3, <2>4
  <2>7. RetriesLeft'
    BY <2>4 DEF RetriesLeft
  <2>8. QED
    BY <2>3, <2>5, <2>6, <2>7
<1>4. QED
  BY <1>1, <1>2, <1>3 DEF Answer

(* A further attempt preserves the invariant. *)
LEMMA RetryStep ==
  ASSUME IInv, NEW k \in Caller, Retry(k)
  PROVE  IInv'
<1>. USE ResilienceAssumption DEF IInv, TypeOK, CBState
<1>1. /\ pc[k] = "backoff" /\ attempt[k] < MaxRetries
      /\ pc' = [pc EXCEPT ![k] = "attempt"]
      /\ attempt' = [attempt EXCEPT ![k] = attempt[k] + 1]
      /\ UNCHANGED <<state, failureCount, age, healthy>>
  BY DEF Retry, NextAttempt, RetriesLeft
<1>2. /\ load' \in [Caller -> Nat]
      /\ \A c \in Caller : c # k => load'[c] <= load[c]
      /\ load'[k] <= load[k] + 1
  BY LoadCounts DEF Retry
<1>3. TypeOK'
  <2>1. pc' \in [Caller -> {"ready", "attempt", "backoff"}]
    BY <1>1
  <2>2. attempt' \in [Caller -> 0..MaxRetries]
    BY <1>1
  <2>3. QED
    BY <1>1, <1>2, <2>1, <2>2, Zenon
<1>4. RetriesLeft'
  BY <1>1 DEF RetriesLeft
<1>5. ClosedBelowThreshold'
  BY <1>1 DEF ClosedBelowThreshold
<1>6. LoadInv'
  <2>1. ASSUME state = "OPEN", NEW c \in Caller
        PROVE  load'[c] <= MaxRetries /\ (pc'[c] # "ready" => load'[c] <= attempt'[c])
    <3>1. load[c] <= MaxRetries /\ (pc[c] # "ready" => load[c] <= attempt[c])
      BY <2>1 DEF LoadInv
    <3>2. load'[c] \in Nat /\ load[c] \in Nat /\ attempt[c] \in Nat /\ MaxRetries \in Nat
      BY <1>2
    <3>3. CASE c = k
      <4>1. attempt'[c] = attempt[c] + 1 /\ load'[c] <= load[c] + 1 /\ pc[c] # "ready"
        BY <1>1, <1>2, <3>3
      <4>2. QED
        BY <1>1, <3>1, <3>2, <3>3, <4>1
    <3>4. CASE c # k
      <4>1. attempt'[c] = attempt[c] /\ load'[c] <= load[c] /\ pc'[c] = pc[c]
        BY <1>1, <1>2, <3>4
      <4>2. QED
        BY <3>1, <3>2, <4>1
    <3>5. QED
      BY <3>3, <3>4
  <2>2. QED
    BY <1>1, <2>1 DEF LoadInv
<1>7. QED
  BY <1>3, <1>4, <1>5, <1>6

(* Every step preserves the invariant. *)
LEMMA IInvStep ==
  ASSUME IInv, [Next]_vars
  PROVE  IInv'
<1>1. CASE Tick
  BY <1>1, ResilienceAssumption
     DEF Tick, IInv, TypeOK, RetriesLeft, ClosedBelowThreshold, LoadInv
<1>2. CASE Downstream
  BY <1>2 DEF Downstream, IInv, TypeOK, RetriesLeft, ClosedBelowThreshold, LoadInv
<1>3. ASSUME NEW c \in Caller, Call(c) \/ Answer(c) \/ Retry(c)
      PROVE  IInv'
  BY <1>3, CallStep, AnswerStep, RetryStep
<1>4. CASE UNCHANGED vars
  BY <1>4 DEF vars, IInv, TypeOK, RetriesLeft, ClosedBelowThreshold, LoadInv
<1>5. QED
  BY <1>1, <1>2, <1>3, <1>4 DEF Next

(* The invariant holds in every reachable state. *)
LEMMA IInvHolds == Spec => []IInv
<1>1. Init => IInv
  BY IInvInit
<1>2. IInv /\ [Next]_vars => IInv'
  BY IInvStep
<1>3. QED
  BY <1>1, <1>2, PTL DEF Spec

(* Types: the retry loop never passes its last attempt. *)
THEOREM TypeCorrect == Spec => []TypeOK
<1>1. IInv => TypeOK
  BY DEF IInv
<1>2. QED
  BY <1>1, IInvHolds, PTL

(* The breaker is closed exactly while failures stay below the threshold,  *)
(* whatever calls overlap its openings and closings.                       *)
THEOREM ClosedBelowThresholdHolds == Spec => []ClosedBelowThreshold
<1>1. IInv => ClosedBelowThreshold
  BY DEF IInv
<1>2. QED
  BY <1>1, IInvHolds, PTL

(* An open breaker lets through at most the retries of the calls that were *)
(* under way when it opened.                                               *)
THEOREM ShedsLoadHolds == Spec => []ShedsLoad
<1>1. IInv => ShedsLoad
  BY DEF IInv, LoadInv, ShedsLoad
<1>2. QED
  BY <1>1, IInvHolds, PTL
=============================================================================
