------------------------------ MODULE Checkout ------------------------------
(***************************************************************************)
(* Checkout requests with an idempotency key.  The middleware of           *)
(* shared/examples/Idempotency/server.ts stands in front of a handler that *)
(* runs the saga of 05-ecommerce (orchestrator.ts) and answers with        *)
(* json(); the saga charges in one call, as its PaymentsAPI does, or with  *)
(* processPaymentWithRetry (reliability.ts).  Nothing in the repository    *)
(* calls the three together; 05-ecommerce/docs/reliability-notes.md says   *)
(* that one key is to guard the saga and to make the payment retry-safe.   *)
(* An action is what runs between two awaits, so requests interleave at    *)
(* every call of a service.  A request is also the order it places.        *)
(***************************************************************************)
EXTENDS Naturals

CONSTANTS
    Request, None,
    KeyOf,       \* the idempotency key of each request
    MaxRetries

Key == {KeyOf[r] : r \in Request}

CheckoutAssumption ==
    /\ None \notin {"processing", "conflict", "PENDING", "RESERVED", "FINALIZED", "FAILED"}
    /\ MaxRetries \in Nat \ {0}

VARIABLES
    store,      \* idempotencyStore: None, "processing" or the body cached
    stage,      \* where each request's handler awaits
    status,     \* the order's status in OrdersDB
    held,       \* the orders whose stock is reserved
    charged,    \* the keys the payment gateway has charged, once each
    attempt,    \* the payment attempts made
    reply       \* what the client was told; "conflict" is the 409

checkoutVars == <<store, stage, status, held, charged, attempt, reply>>

Outcome == {"FINALIZED", "FAILED"}
Stage == {"new", "reserve", "mark", "charge", "release", "abort", "finalize", "respond", "done"}

TypeOK ==
    /\ store \in [Key -> {None, "processing"} \cup Outcome]
    /\ stage \in [Request -> Stage]
    /\ status \in [Request -> {None, "PENDING", "RESERVED"} \cup Outcome]
    /\ held \subseteq Request /\ charged \subseteq Key
    /\ attempt \in [Request -> 0..MaxRetries]
    /\ reply \in [Request -> {None, "conflict"} \cup Outcome]

Init ==
    /\ store = [k \in Key |-> None]
    /\ stage = [r \in Request |-> "new"] /\ status = [r \in Request |-> None]
    /\ held = {} /\ charged = {} /\ attempt = [r \in Request |-> 0]
    /\ reply = [r \in Request |-> None]

-----------------------------------------------------------------------------
(* Plausible slips in the code, used to show that the properties bite. *)
Unflagged == None
StockKept(r) == held
Unlimited(r) == FALSE

(* The handler of r leaves stage a for stage b. *)
Goes(r, a, b) == stage[r] = a /\ stage' = [stage EXCEPT ![r] = b]

(* The middleware: a key being processed is a conflict, a processed one is  *)
(* answered from the store, a new one is flagged and its saga begins.       *)
Flag == "processing"
Arrive(r) ==
    LET seen == store[KeyOf[r]]
    IN \/ /\ seen = None
          /\ Goes(r, "new", "reserve")
          /\ store' = [store EXCEPT ![KeyOf[r]] = Flag]
          /\ status' = [status EXCEPT ![r] = "PENDING"]
          /\ UNCHANGED <<held, charged, attempt, reply>>
       \/ /\ seen # None
          /\ Goes(r, "new", "done")
          /\ reply' = [reply EXCEPT ![r] = IF seen = "processing" THEN "conflict" ELSE seen]
          /\ UNCHANGED <<store, status, held, charged, attempt>>

(* InventoryAPI.reserve() answers true or false. *)
Reserve(r) ==
    /\ \/ Goes(r, "reserve", "mark") /\ held' = held \cup {r}
       \/ Goes(r, "reserve", "abort") /\ UNCHANGED held
    /\ UNCHANGED <<store, status, charged, attempt, reply>>

Mark(r) ==
    /\ Goes(r, "mark", "charge")
    /\ status' = [status EXCEPT ![r] = "RESERVED"]
    /\ UNCHANGED <<store, held, charged, attempt, reply>>

(* PaymentsAPI.charge() answers true, or false without a charge. *)
ChargeOnce(r) ==
    /\ attempt[r] = 0
    /\ \/ Goes(r, "charge", "finalize") /\ charged' = charged \cup {KeyOf[r]}
       \/ Goes(r, "charge", "release") /\ UNCHANGED charged
    /\ UNCHANGED <<store, status, held, attempt, reply>>

(* An attempt of processPaymentWithRetry().  The gateway charges a key      *)
(* once, however often it is asked; its answer, or the question, may be     *)
(* lost.  The last attempt that times out fails the payment, whatever the   *)
(* gateway did.                                                             *)
LastAttempt(r) == attempt[r] + 1 = MaxRetries
TryCharge(r) ==
    /\ attempt' = [attempt EXCEPT ![r] = @ + 1]
    /\ \/ Goes(r, "charge", "finalize") /\ charged' = charged \cup {KeyOf[r]}
       \/ /\ Goes(r, "charge", IF LastAttempt(r) THEN "release" ELSE "charge")
          /\ charged' \in {charged, charged \cup {KeyOf[r]}}
    /\ UNCHANGED <<store, status, held, reply>>

Released(r) == held \ {r}
Release(r) ==
    /\ Goes(r, "release", "abort")
    /\ held' = Released(r)
    /\ UNCHANGED <<store, status, charged, attempt, reply>>

Finish(r, from, outcome) ==
    /\ Goes(r, from, "respond")
    /\ status' = [status EXCEPT ![r] = outcome]
    /\ UNCHANGED <<store, held, charged, attempt, reply>>
Finalize(r) == Finish(r, "finalize", "FINALIZED")
Abort(r) == Finish(r, "abort", "FAILED")

(* The handler answers: json() stores the body before it is sent. *)
Respond(r) ==
    /\ Goes(r, "respond", "done")
    /\ store' = [store EXCEPT ![KeyOf[r]] = status[r]]
    /\ reply' = [reply EXCEPT ![r] = status[r]]
    /\ UNCHANGED <<status, held, charged, attempt>>

Step(r) ==
    \/ Reserve(r) \/ Mark(r) \/ ChargeOnce(r) \/ TryCharge(r) \/ Release(r)
    \/ Finalize(r) \/ Abort(r) \/ Respond(r)

Next == \E r \in Request : Arrive(r) \/ Step(r)

-----------------------------------------------------------------------------
OneOrderPerKey == \A r, q \in Request : KeyOf[r] = KeyOf[q] =>
    /\ status[r] # None /\ status[q] # None => r = q
    /\ reply[q] \in Outcome /\ status[r] # None => reply[q] = status[r]

OutcomesAreTrue == \A r \in Request :
    /\ status[r] = "FINALIZED" => r \in held /\ KeyOf[r] \in charged
    /\ status[r] = "FAILED" => r \notin held
    /\ status[r] # None /\ KeyOf[r] \in charged /\ r \notin held => attempt[r] = MaxRetries

(* A key is worth one checkout: however the requests that carry it overlap, *)
(* one of them places an order, and whoever is told an outcome is told that *)
(* order's.  What an outcome says is so, however many charges were tried: a *)
(* finalized order is paid and has its stock, a failed one has given its    *)
(* stock back, and nothing is charged for an order that holds no stock,     *)
(* except after the last attempt, whose charge nobody takes back.           *)
OneTrueOutcomePerKey == OneOrderPerKey /\ OutcomesAreTrue
=============================================================================
