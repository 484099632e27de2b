------------------------- MODULE SmallServicesProofs -------------------------
(* Proofs about the small programs, for all values of their constants that  *)
(* meet the modules' assumptions.  Each has an inductive invariant of its   *)
(* own, which the steps of the others leave alone.                          *)
EXTENDS SmallServices, Arrays, SequenceTheorems, FiniteSetTheorems, WellFoundedInduction, TLAPS

LEMMA PartsBegin ==
  ASSUME Init
  PROVE  /\ Pay!Init /\ Deliver!Init /\ Clocks!Init /\ Store!Init /\ SWR!Init
         /\ Limiter!Init /\ Links!Init /\ Edge!Init /\ Balancer!Init /\ Timeline!Init
BY DEF Init

(* A step is one of each program, or leaves it as it is. *)
LEMMA PartsStep ==
  ASSUME [Next]_vars
  PROVE  /\ [Pay!Next]_checkoutVars /\ [Deliver!Next]_deliveryVars
         /\ [Clocks!Next]_clockVars /\ [SWR!Next]_swrVars
         /\ [Limiter!Next]_limiterVars /\ [Links!Next]_urlVars /\ [Edge!Next]_edgeVars
         /\ [Balancer!Next]_balancerVars /\ [Store!Next]_eventVars /\ [Timeline!Next]_feedVars
<1>1. CASE Next
  BY <1>1 DEF Next
<1>2. CASE UNCHANGED vars
  BY <1>2 DEF vars
<1>3. QED
  BY <1>1, <1>2

-----------------------------------------------------------------------------
Placed(r) == status[r] # None
Active(r) == stage[r] \notin {"new", "done"}

(* Where a handler stands, what it has done. *)
HandlerInv(r) ==
    /\ stage[r] = "new" =>
        ~Placed(r) /\ r \notin held /\ attempt[r] = 0 /\ reply[r] = None
    /\ Active(r) => Placed(r) /\ store[KeyOf[r]] = "processing" /\ reply[r] = None
    /\ stage[r] = "reserve" =>
        status[r] = "PENDING" /\ r \notin held /\ attempt[r] = 0 /\ KeyOf[r] \notin charged
    /\ stage[r] = "mark" =>
        status[r] = "PENDING" /\ r \in held /\ attempt[r] = 0 /\ KeyOf[r] \notin charged
    /\ stage[r] = "charge" =>
        /\ status[r] = "RESERVED" /\ r \in held /\ attempt[r] < MaxRetries
        /\ attempt[r] = 0 => KeyOf[r] \notin charged
    /\ stage[r] = "release" => status[r] = "RESERVED" /\ r \in held
    /\ stage[r] = "abort" => status[r] \in {"PENDING", "RESERVED"} /\ r \notin held
    /\ stage[r] = "finalize" =>
        status[r] = "RESERVED" /\ r \in held /\ KeyOf[r] \in charged
    /\ stage[r] = "respond" => status[r] \in Pay!Outcome

(* What an order that has ended, or is about to fail, is worth. *)
OrderInv(r) ==
    /\ status[r] = "FINALIZED" => r \in held /\ KeyOf[r] \in charged
    /\ status[r] = "FAILED" => r \notin held
    /\ stage[r] \in {"release", "abort"} \/ status[r] = "FAILED" =>
        (KeyOf[r] \in charged => attempt[r] = MaxRetries)
    /\ stage[r] = "done" /\ Placed(r) => store[KeyOf[r]] = status[r] /\ status[r] \in Pay!Outcome
    /\ reply[r] \in Pay!Outcome => store[KeyOf[r]] = reply[r]

(* A key that nobody used has no order and no charge; a used one, one order. *)
KeyInv ==
    /\ \A r, q \in Request : KeyOf[r] = KeyOf[q] /\ Placed(r) /\ Placed(q) => r = q
    /\ \A r \in Request : store[KeyOf[r]] = None => ~Placed(r) /\ KeyOf[r] \notin charged

PayInv == Pay!TypeOK /\ KeyInv /\ \A r \in Request : HandlerInv(r) /\ OrderInv(r)

(* No order is placed at first. *)
LEMMA PayInit ==
  ASSUME Pay!CheckoutAssumption, Pay!Init
  PROVE  PayInv
<1>. USE DEF Pay!Init, Pay!CheckoutAssumption
<1>1. Pay!TypeOK
  BY DEF Pay!TypeOK, Pay!Stage
<1>2. \A r \in Request : KeyOf[r] \in Pay!Key
  BY DEF Pay!Key
<1>3. KeyInv
  BY DEF KeyInv, Placed
<1>4. ASSUME NEW r \in Request
      PROVE  HandlerInv(r) /\ OrderInv(r)
  <2>1. stage[r] = "new" /\ status[r] = None /\ reply[r] = None /\ attempt[r] = 0 /\ held = {}
    OBVIOUS
  <2>2. QED
    BY <2>1 DEF HandlerInv, OrderInv, Placed, Active, Pay!Outcome
<1>5. QED
  BY <1>1, <1>3, <1>4 DEF PayInv

(* A handler whose key has no answer yet leaves what is so of the others:   *)
(* none of them with its key has placed an order or has been told of one.   *)
LEMMA OthersKeep ==
  ASSUME Pay!CheckoutAssumption, PayInv, NEW r \in Request, NEW q \in Request, q # r,
         store[KeyOf[r]] \notin Pay!Outcome, Placed(r) \/ store[KeyOf[r]] = None,
         stage'[q] = stage[q], status'[q] = status[q], attempt'[q] = attempt[q],
         reply'[q] = reply[q], q \in held' <=> q \in held,
         \A k \in Pay!Key : k # KeyOf[r] =>
            store'[k] = store[k] /\ (k \in charged' <=> k \in charged)
  PROVE  HandlerInv(q)' /\ OrderInv(q)'
<1>. USE DEF Placed, Active
<1>1. HandlerInv(q) /\ OrderInv(q) /\ KeyOf[q] \in Pay!Key
  BY DEF PayInv, Pay!Key
<1>2. CASE KeyOf[q] # KeyOf[r]
  <2>1. store'[KeyOf[q]] = store[KeyOf[q]] /\ (KeyOf[q] \in charged' <=> KeyOf[q] \in charged)
    BY <1>1, <1>2
  <2>2. HandlerInv(q)'
    BY <1>1, <2>1 DEF HandlerInv
  <2>3. OrderInv(q)'
    BY <1>1, <2>1 DEF OrderInv
  <2>4. QED
    BY <2>2, <2>3
<1>3. CASE KeyOf[q] = KeyOf[r]
  <2>1. ~Placed(q) /\ reply[q] \notin Pay!Outcome
    BY <1>1, <1>3 DEF PayInv, KeyInv, OrderInv
  <2>2. stage[q] \in {"new", "done"}
    BY <1>1, <2>1 DEF HandlerInv
  <2>3. HandlerInv(q)'
    BY <1>1, <2>1, <2>2 DEF HandlerInv
  <2>4. OrderInv(q)'
    BY <1>1, <2>1, <2>2 DEF OrderInv, Pay!CheckoutAssumption
  <2>5. QED
    BY <2>3, <2>4
<1>4. QED
  BY <1>2, <1>3

(* The middleware preserves the invariant, whether it lets the request      *)
(* through or answers it.                                                   *)
LEMMA ArriveStep ==
  ASSUME Pay!CheckoutAssumption, PayInv, NEW r \in Request, Pay!Arrive(r)
  PROVE  PayInv'
<1>. USE DEF PayInv
<1>1. KeyOf[r] \in Pay!Key /\ stage[r] = "new" /\ ~Placed(r) /\ r \notin held /\ attempt[r] = 0
      /\ reply[r] = None /\ HandlerInv(r) /\ OrderInv(r)
  BY DEF Pay!Key, Pay!Arrive, Pay!Goes, HandlerInv
<1>2. CASE store[KeyOf[r]] = None
  <2>1. /\ stage' = [stage EXCEPT ![r] = "reserve"]
        /\ store' = [store EXCEPT ![KeyOf[r]] = "processing"]
        /\ status' = [status EXCEPT ![r] = "PENDING"]
        /\ UNCHANGED <<held, charged, attempt, reply>>
    BY <1>2 DEF Pay!Arrive, Pay!Goes, Pay!Flag
  <2>2. Pay!TypeOK'
    BY <2>1 DEF Pay!TypeOK, Pay!Stage
  <2>3. /\ \A q \in Request : q # r => status'[q] = status[q] /\ stage'[q] = stage[q]
        /\ status'[r] = "PENDING" /\ stage'[r] = "reserve"
        /\ \A k \in Pay!Key : k # KeyOf[r] => store'[k] = store[k]
        /\ store'[KeyOf[r]] = "processing"
    BY <1>1, <2>1 DEF Pay!TypeOK
  <2>4. KeyInv'
    <3>1. \A q \in Request : KeyOf[q] = KeyOf[r] => ~Placed(q)
      BY <1>2 DEF KeyInv
    <3>2. \A p, q \in Request : KeyOf[p] = KeyOf[q] /\ Placed(p)' /\ Placed(q)' => p = q
      BY <2>3, <3>1 DEF KeyInv, Placed
    <3>3. \A q \in Request : store'[KeyOf[q]] = None => ~Placed(q)' /\ KeyOf[q] \notin charged'
      <4>1. SUFFICES ASSUME NEW q \in Request, store'[KeyOf[q]] = None
                     PROVE  ~Placed(q)' /\ KeyOf[q] \notin charged'
        OBVIOUS
      <4>2. KeyOf[q] # KeyOf[r] /\ KeyOf[q] \in Pay!Key
        BY <2>3, <4>1 DEF Pay!CheckoutAssumption, Pay!Key
      <4>3. QED
        BY <2>1, <2>3, <4>1, <4>2 DEF KeyInv, Placed
    <3>4. QED
      BY <3>2, <3>3 DEF KeyInv
  <2>5. HandlerInv(r)' /\ OrderInv(r)'
    <3>1. KeyOf[r] \notin charged
      BY <1>2 DEF KeyInv
    <3>2. QED
      BY <1>1, <2>1, <2>3, <3>1 DEF HandlerInv, OrderInv, Placed, Active, Pay!Outcome, Pay!CheckoutAssumption
  <2>6. ASSUME NEW q \in Request, q # r
        PROVE  HandlerInv(q)' /\ OrderInv(q)'
    <3>1. store[KeyOf[r]] \notin Pay!Outcome
      BY <1>2 DEF Pay!Outcome, Pay!CheckoutAssumption
    <3>2. QED
      BY <1>2, <2>1, <2>3, <2>6, <3>1, OthersKeep
  <2>7. QED
    BY <2>2, <2>4, <2>5, <2>6
<1>3. CASE store[KeyOf[r]] # None
  <2>. DEFINE told == IF store[KeyOf[r]] = "processing" THEN "conflict" ELSE store[KeyOf[r]]
  <2>1. /\ stage' = [stage EXCEPT ![r] = "done"]
        /\ reply' = [reply EXCEPT ![r] = told]
        /\ UNCHANGED <<store, status, held, charged, attempt>>
    BY <1>3 DEF Pay!Arrive, Pay!Goes
  <2>2. told \in {"conflict"} \cup Pay!Outcome
    BY <1>1, <1>3 DEF Pay!TypeOK
  <2>3. Pay!TypeOK'
    BY <2>1, <2>2 DEF Pay!TypeOK, Pay!Stage
  <2>4. KeyInv'
    BY <2>1 DEF KeyInv, Placed
  <2>5. stage'[r] = "done" /\ reply'[r] = told
        /\ \A q \in Request : q # r => stage'[q] = stage[q] /\ reply'[q] = reply[q]
    BY <2>1 DEF Pay!TypeOK
  <2>6. HandlerInv(r)'
    BY <1>1, <2>1, <2>5 DEF HandlerInv, Active
  <2>7. OrderInv(r)'
    BY <1>1, <2>1, <2>5 DEF OrderInv, Placed, Pay!Outcome
  <2>8. \A q \in Request : q # r => HandlerInv(q)' /\ OrderInv(q)'
    BY <2>1, <2>5 DEF HandlerInv, OrderInv, Placed, Active
  <2>9. QED
    BY <2>3, <2>4, <2>6, <2>7, <2>8
<1>4. QED
  BY <1>2, <1>3

(* A step of a handler preserves the invariant if it leaves the others      *)
(* alone and its own order right.                                           *)
LEMMA HandlerKeeps ==
  ASSUME Pay!CheckoutAssumption, PayInv, NEW r \in Request, Active(r), Pay!TypeOK',
         \A q \in Request : q # r =>
            /\ stage'[q] = stage[q] /\ status'[q] = status[q] /\ attempt'[q] = attempt[q]
            /\ reply'[q] = reply[q] /\ (q \in held' <=> q \in held),
         \A k \in Pay!Key : k # KeyOf[r] =>
            store'[k] = store[k] /\ (k \in charged' <=> k \in charged),
         Placed(r)', store'[KeyOf[r]] # None, HandlerInv(r)', OrderInv(r)'
  PROVE  PayInv'
<1>1. Placed(r) /\ store[KeyOf[r]] = "processing"
  BY DEF PayInv, HandlerInv
<1>2. \A q \in Request : q # r => HandlerInv(q)' /\ OrderInv(q)'
  <2>1. store[KeyOf[r]] \notin Pay!Outcome
    BY <1>1 DEF Pay!Outcome
  <2>2. QED
    BY <1>1, <2>1, OthersKeep
<1>3. KeyInv'
  <2>1. \A p, q \in Request : KeyOf[p] = KeyOf[q] /\ Placed(p)' /\ Placed(q)' => p = q
    BY <1>1 DEF PayInv, KeyInv, Placed
  <2>2. ASSUME NEW q \in Request, store'[KeyOf[q]] = None
        PROVE  ~Placed(q)' /\ KeyOf[q] \notin charged'
    <3>1. KeyOf[q] # KeyOf[r] /\ q # r /\ KeyOf[q] \in Pay!Key
      BY <2>2 DEF Pay!Key
    <3>2. QED
      BY <2>2, <3>1 DEF PayInv, KeyInv, Placed
  <2>3. QED
    BY <2>1, <2>2 DEF KeyInv
<1>4. QED
  BY <1>2, <1>3 DEF PayInv

(* What a step finds and leaves behind, if it changes no store. *)
LEMMA HandlerMoves ==
  ASSUME Pay!CheckoutAssumption, PayInv, NEW r \in Request, NEW a \in Pay!Stage, NEW b \in Pay!Stage,
         a \notin {"new", "done"}, Pay!Goes(r, a, b)
  PROVE  /\ stage[r] = a /\ Active(r) /\ HandlerInv(r) /\ OrderInv(r)
         /\ Placed(r) /\ store[KeyOf[r]] = "processing" /\ reply[r] = None
         /\ KeyOf[r] \in Pay!Key
         /\ stage' \in [Request -> Pay!Stage] /\ stage'[r] = b
         /\ \A q \in Request : q # r => stage'[q] = stage[q]
<1>1. stage[r] = a /\ Active(r) /\ HandlerInv(r) /\ OrderInv(r) /\ KeyOf[r] \in Pay!Key
  BY DEF Pay!Goes, PayInv, Active, Pay!Key
<1>2. Placed(r) /\ store[KeyOf[r]] = "processing" /\ reply[r] = None
  BY <1>1 DEF HandlerInv
<1>3. QED
  BY <1>1, <1>2 DEF Pay!Goes, PayInv, Pay!TypeOK

LEMMA ReserveStep ==
  ASSUME Pay!CheckoutAssumption, PayInv, NEW r \in Request, Pay!Reserve(r)
  PROVE  PayInv'
<1>1. PICK b \in {"mark", "abort"} :
        /\ Pay!Goes(r, "reserve", b)
        /\ b = "mark" => held' = held \cup {r}
        /\ b = "abort" => held' = held
  BY DEF Pay!Reserve
<1>2. UNCHANGED <<store, status, charged, attempt, reply>>
  BY DEF Pay!Reserve
<1>3. /\ stage[r] = "reserve" /\ Active(r) /\ HandlerInv(r) /\ OrderInv(r)
      /\ Placed(r) /\ store[KeyOf[r]] = "processing" /\ reply[r] = None /\ KeyOf[r] \in Pay!Key
      /\ stage' \in [Request -> Pay!Stage] /\ stage'[r] = b
      /\ \A q \in Request : q # r => stage'[q] = stage[q]
  BY <1>1, HandlerMoves DEF Pay!Stage
<1>4. Pay!TypeOK'
  BY <1>1, <1>2, <1>3 DEF PayInv, Pay!TypeOK
<1>5. HandlerInv(r)'
  BY <1>1, <1>2, <1>3 DEF HandlerInv, Placed, Active
<1>6. OrderInv(r)'
  BY <1>1, <1>2, <1>3 DEF OrderInv, HandlerInv, Pay!Outcome, Pay!CheckoutAssumption
<1>7. QED
  BY <1>1, <1>2, <1>3, <1>4, <1>5, <1>6, HandlerKeeps DEF Placed, Pay!CheckoutAssumption

LEMMA MarkStep ==
  ASSUME Pay!CheckoutAssumption, PayInv, NEW r \in Request, Pay!Mark(r)
  PROVE  PayInv'
<1>1. Pay!Goes(r, "mark", "charge") /\ status' = [status EXCEPT ![r] = "RESERVED"]
      /\ UNCHANGED <<store, held, charged, attempt, reply>>
  BY DEF Pay!Mark
<1>2. /\ stage[r] = "mark" /\ Active(r) /\ HandlerInv(r) /\ OrderInv(r)
      /\ Placed(r) /\ store[KeyOf[r]] = "processing" /\ reply[r] = None /\ KeyOf[r] \in Pay!Key
      /\ stage' \in [Request -> Pay!Stage] /\ stage'[r] = "charge"
      /\ \A q \in Request : q # r => stage'[q] = stage[q]
  BY <1>1, HandlerMoves DEF Pay!Stage
<1>3. status'[r] = "RESERVED" /\ \A q \in Request : q # r => status'[q] = status[q]
  BY <1>1 DEF PayInv, Pay!TypeOK
<1>4. Pay!TypeOK'
  BY <1>1, <1>2 DEF PayInv, Pay!TypeOK
<1>5. HandlerInv(r)'
  BY <1>1, <1>2, <1>3 DEF HandlerInv, Placed, Active, Pay!CheckoutAssumption
<1>6. OrderInv(r)'
  BY <1>1, <1>2, <1>3 DEF OrderInv, HandlerInv, Pay!Outcome, Pay!CheckoutAssumption
<1>7. QED
  BY <1>1, <1>2, <1>3, <1>4, <1>5, <1>6, HandlerKeeps DEF Placed, Pay!CheckoutAssumption

(* Either way of charging: only this request's key can be charged. *)
LEMMA ChargeStep ==
  ASSUME Pay!CheckoutAssumption, PayInv, NEW r \in Request, Pay!ChargeOnce(r) \/ Pay!TryCharge(r)
  PROVE  PayInv'
<1>1. PICK b \in {"finalize", "charge", "release"} :
        /\ Pay!Goes(r, "charge", b)
        /\ b = "finalize" => charged' = charged \cup {KeyOf[r]}
        /\ charged' \in {charged, charged \cup {KeyOf[r]}}
        /\ \/ attempt' = attempt /\ attempt[r] = 0 /\ b # "charge" /\ (b = "release" => charged' = charged)
           \/ /\ attempt' = [attempt EXCEPT ![r] = @ + 1]
              /\ b = "charge" => attempt[r] + 1 # MaxRetries
              /\ b = "release" => attempt[r] + 1 = MaxRetries
  BY DEF Pay!ChargeOnce, Pay!TryCharge, Pay!LastAttempt
<1>2. UNCHANGED <<store, status, held, reply>>
  BY DEF Pay!ChargeOnce, Pay!TryCharge
<1>3. /\ stage[r] = "charge" /\ Active(r) /\ HandlerInv(r) /\ OrderInv(r)
      /\ Placed(r) /\ store[KeyOf[r]] = "processing" /\ reply[r] = None /\ KeyOf[r] \in Pay!Key
      /\ stage' \in [Request -> Pay!Stage] /\ stage'[r] = b
      /\ \A q \in Request : q # r => stage'[q] = stage[q]
  BY <1>1, HandlerMoves DEF Pay!Stage
<1>4. /\ attempt[r] \in Nat /\ attempt[r] < MaxRetries /\ MaxRetries \in Nat
      /\ status[r] = "RESERVED" /\ r \in held /\ (attempt[r] = 0 => KeyOf[r] \notin charged)
  BY <1>3 DEF PayInv, Pay!TypeOK, HandlerInv, Pay!CheckoutAssumption
<1>5. /\ attempt' \in [Request -> 0..MaxRetries]
      /\ \A q \in Request : q # r => attempt'[q] = attempt[q]
      /\ \/ attempt'[r] = attempt[r] /\ attempt[r] = 0 /\ b # "charge"
            /\ (b = "release" => charged' = charged)
         \/ /\ attempt'[r] = attempt[r] + 1
            /\ b = "charge" => attempt[r] + 1 # MaxRetries
            /\ b = "release" => attempt[r] + 1 = MaxRetries
  <2>1. attempt \in [Request -> 0..MaxRetries] /\ attempt[r] + 1 \in 0..MaxRetries
    BY <1>4 DEF PayInv, Pay!TypeOK
  <2>2. QED
    BY <1>1, <2>1
<1>6. Pay!TypeOK'
  BY <1>1, <1>2, <1>3, <1>5 DEF PayInv, Pay!TypeOK
<1>7. HandlerInv(r)'
  BY <1>1, <1>2, <1>3, <1>4, <1>5 DEF HandlerInv, Placed, Active
<1>8. OrderInv(r)'
  <2>1. b = "release" => (KeyOf[r] \in charged' => attempt'[r] = MaxRetries)
    BY <1>4, <1>5
  <2>2. QED
    BY <1>2, <1>3, <1>4, <2>1 DEF OrderInv, Pay!Outcome, Pay!CheckoutAssumption
<1>9. QED
  BY <1>1, <1>2, <1>3, <1>5, <1>6, <1>7, <1>8, HandlerKeeps DEF Placed, Pay!CheckoutAssumption

LEMMA ReleaseStep ==
  ASSUME Pay!CheckoutAssumption, PayInv, NEW r \in Request, Pay!Release(r)
  PROVE  PayInv'
<1>1. Pay!Goes(r, "release", "abort") /\ held' = held \ {r}
      /\ UNCHANGED <<store, status, charged, attempt, reply>>
  BY DEF Pay!Release, Pay!Released
<1>2. /\ stage[r] = "release" /\ Active(r) /\ HandlerInv(r) /\ OrderInv(r)
      /\ Placed(r) /\ store[KeyOf[r]] = "processing" /\ reply[r] = None /\ KeyOf[r] \in Pay!Key
      /\ stage' \in [Request -> Pay!Stage] /\ stage'[r] = "abort"
      /\ \A q \in Request : q # r => stage'[q] = stage[q]
  BY <1>1, HandlerMoves DEF Pay!Stage
<1>3. Pay!TypeOK'
  BY <1>1, <1>2 DEF PayInv, Pay!TypeOK
<1>4. HandlerInv(r)'
  BY <1>1, <1>2 DEF HandlerInv, Placed, Active
<1>5. OrderInv(r)'
  BY <1>1, <1>2 DEF OrderInv, HandlerInv, Pay!Outcome, Pay!CheckoutAssumption
<1>6. QED
  BY <1>1, <1>2, <1>3, <1>4, <1>5, HandlerKeeps DEF Placed, Pay!CheckoutAssumption

LEMMA FinishStep ==
  ASSUME Pay!CheckoutAssumption, PayInv, NEW r \in Request, Pay!Finalize(r) \/ Pay!Abort(r)
  PROVE  PayInv'
<1>1. PICK a \in {"finalize", "abort"}, outcome \in Pay!Outcome :
        /\ Pay!Goes(r, a, "respond") /\ status' = [status EXCEPT ![r] = outcome]
        /\ UNCHANGED <<store, held, charged, attempt, reply>>
        /\ outcome = "FINALIZED" <=> a = "finalize"
  BY DEF Pay!Finalize, Pay!Abort, Pay!Finish, Pay!Outcome
<1>2. /\ stage[r] = a /\ Active(r) /\ HandlerInv(r) /\ OrderInv(r)
      /\ Placed(r) /\ store[KeyOf[r]] = "processing" /\ reply[r] = None /\ KeyOf[r] \in Pay!Key
      /\ stage' \in [Request -> Pay!Stage] /\ stage'[r] = "respond"
      /\ \A q \in Request : q # r => stage'[q] = stage[q]
  BY <1>1, HandlerMoves DEF Pay!Stage
<1>3. status'[r] = outcome /\ \A q \in Request : q # r => status'[q] = status[q]
  BY <1>1 DEF PayInv, Pay!TypeOK
<1>4. Pay!TypeOK'
  BY <1>1, <1>2 DEF PayInv, Pay!TypeOK
<1>5. HandlerInv(r)'
  BY <1>1, <1>2, <1>3 DEF HandlerInv, Placed, Active, Pay!Outcome, Pay!CheckoutAssumption
<1>6. OrderInv(r)'
  BY <1>1, <1>2, <1>3 DEF OrderInv, HandlerInv, Pay!Outcome, Pay!CheckoutAssumption
<1>7. QED
  BY <1>1, <1>2, <1>3, <1>4, <1>5, <1>6, HandlerKeeps DEF Placed, Pay!Outcome, Pay!CheckoutAssumption

LEMMA RespondStep ==
  ASSUME Pay!CheckoutAssumption, PayInv, NEW r \in Request, Pay!Respond(r)
  PROVE  PayInv'
<1>1. /\ Pay!Goes(r, "respond", "done")
      /\ store' = [store EXCEPT ![KeyOf[r]] = status[r]]
      /\ reply' = [reply EXCEPT ![r] = status[r]]
      /\ UNCHANGED <<status, held, charged, attempt>>
  BY DEF Pay!Respond
<1>2. /\ stage[r] = "respond" /\ Active(r) /\ HandlerInv(r) /\ OrderInv(r)
      /\ Placed(r) /\ store[KeyOf[r]] = "processing" /\ reply[r] = None /\ KeyOf[r] \in Pay!Key
      /\ stage' \in [Request -> Pay!Stage] /\ stage'[r] = "done"
      /\ \A q \in Request : q # r => stage'[q] = stage[q]
  BY <1>1, HandlerMoves DEF Pay!Stage
<1>3. status[r] \in Pay!Outcome
  BY <1>2 DEF HandlerInv
<1>4. /\ store'[KeyOf[r]] = status[r] /\ reply'[r] = status[r]
      /\ \A k \in Pay!Key : k # KeyOf[r] => store'[k] = store[k]
      /\ \A q \in Request : q # r => reply'[q] = reply[q]
  BY <1>1, <1>2 DEF PayInv, Pay!TypeOK
<1>5. Pay!TypeOK'
  BY <1>1, <1>2, <1>3 DEF PayInv, Pay!TypeOK
<1>6. HandlerInv(r)'
  BY <1>1, <1>2, <1>4 DEF HandlerInv, Placed, Active
<1>7. OrderInv(r)'
  BY <1>1, <1>2, <1>3, <1>4 DEF OrderInv
<1>8. QED
  BY <1>1, <1>2, <1>3, <1>4, <1>5, <1>6, <1>7, HandlerKeeps DEF Placed, Pay!Outcome, Pay!CheckoutAssumption

LEMMA PayStep ==
  ASSUME Pay!CheckoutAssumption, PayInv, [Pay!Next]_checkoutVars
  PROVE  PayInv'
<1>1. ASSUME NEW r \in Request, Pay!Arrive(r)
      PROVE  PayInv'
  BY <1>1, ArriveStep
<1>2. ASSUME NEW r \in Request, Pay!Step(r)
      PROVE  PayInv'
  BY <1>2, ReserveStep, MarkStep, ChargeStep, ReleaseStep, FinishStep, RespondStep DEF Pay!Step
<1>3. CASE UNCHANGED checkoutVars
  BY <1>3 DEF checkoutVars, PayInv, Pay!TypeOK, KeyInv, HandlerInv, OrderInv, Placed, Active
<1>4. QED
  BY <1>1, <1>2, <1>3 DEF Pay!Next

(* One key, one checkout, and every outcome told is so: however requests    *)
(* overlap, charges are retried and answers are lost.                       *)
THEOREM OneTrueOutcomePerKeyHolds == Spec => []OneTrueOutcomePerKey
<1>1. PayInv => OneTrueOutcomePerKey
  <2>. SUFFICES ASSUME PayInv
                PROVE  OneTrueOutcomePerKey
    OBVIOUS
  <2>1. Pay!OneOrderPerKey
    <3>1. ASSUME NEW r \in Request, NEW q \in Request, KeyOf[r] = KeyOf[q],
                 reply[q] \in Pay!Outcome, Placed(r)
          PROVE  reply[q] = status[r]
      <4>1. store[KeyOf[r]] = reply[q]
        BY <3>1 DEF PayInv, OrderInv
      <4>2. stage[r] = "done"
        BY <3>1, <4>1 DEF PayInv, HandlerInv, Active, Pay!Outcome
      <4>3. QED
        BY <3>1, <4>1, <4>2 DEF PayInv, OrderInv
    <3>2. QED
      BY <3>1 DEF Pay!OneOrderPerKey, PayInv, KeyInv, Placed
  <2>2. Pay!OutcomesAreTrue
    <3>1. ASSUME NEW r \in Request, Placed(r), KeyOf[r] \in charged, r \notin held
          PROVE  attempt[r] = MaxRetries
      <4>1. HandlerInv(r) /\ OrderInv(r) /\ stage[r] \in Pay!Stage
        BY DEF PayInv, Pay!TypeOK
      <4>2. CASE stage[r] \in {"new", "reserve", "mark", "charge", "release", "abort", "finalize"}
        BY <3>1, <4>1, <4>2 DEF HandlerInv, OrderInv
      <4>3. CASE stage[r] \in {"respond", "done"}
        BY <3>1, <4>1, <4>3 DEF HandlerInv, OrderInv, Pay!Outcome
      <4>4. QED
        BY <4>1, <4>2, <4>3 DEF Pay!Stage
    <3>2. QED
      BY <3>1 DEF Pay!OutcomesAreTrue, PayInv, OrderInv, Placed
  <2>3. QED
    BY <2>1, <2>2 DEF OneTrueOutcomePerKey, Pay!OneTrueOutcomePerKey
<1>2. Init => PayInv
  BY PartsAssumption, PartsBegin, PayInit
<1>3. PayInv /\ [Next]_vars => PayInv'
  BY PartsAssumption, PartsStep, PayStep
<1>4. QED
  BY <1>1, <1>2, <1>3, PTL DEF Spec

-----------------------------------------------------------------------------
(* Nobody knows of an event before it has happened. *)
Happened(p) == \A n \in Node : p[n] <= past[n][n]

(* Whoever knows of an event has a logical time no smaller than its stamp. *)
UpToDate(p, t) == \A e \in events : e.past[e.node] <= p[e.node] => e.stamp <= t

NodeInv == \A n \in Node : Happened(past[n]) /\ UpToDate(past[n], time[n])
WireInv == \A i \in 1..Len(wire) : Happened(wire[i].past) /\ UpToDate(wire[i].past, wire[i].stamp)
EventInv ==
    /\ \A e \in events : Happened(e.past)
    /\ \A e, f \in events : e # f /\ e.past[e.node] <= f.past[e.node] => e.stamp < f.stamp

ClocksInv == Clocks!TypeOK /\ NodeInv /\ WireInv /\ EventInv

LEMMA ClocksInit ==
  ASSUME Clocks!Init
  PROVE  ClocksInv
<1>1. Clocks!TypeOK
  BY DEF Clocks!Init, Clocks!TypeOK, Clocks!Vector
<1>2. NodeInv
  BY DEF Clocks!Init, NodeInv, Happened, UpToDate
<1>3. WireInv
  BY DEF Clocks!Init, WireInv
<1>4. EventInv
  BY DEF Clocks!Init, EventInv
<1>5. QED
  BY <1>1, <1>2, <1>3, <1>4 DEF ClocksInv

(* What the next event of n depends on: n's past, what it was sent, itself. *)
LEMMA JoinedPast ==
  ASSUME Clocks!TypeOK, NEW n \in Node, NEW q \in Clocks!Vector
  PROVE  /\ Clocks!Joined(n, q) \in Clocks!Vector /\ Clocks!Joined(n, q)[n] = past[n][n] + 1
         /\ \A m \in Node \ {n} :
              /\ past[n][m] <= Clocks!Joined(n, q)[m] /\ q[m] <= Clocks!Joined(n, q)[m]
              /\ Clocks!Joined(n, q)[m] = past[n][m] \/ Clocks!Joined(n, q)[m] = q[m]
<1>1. past[n] \in [Node -> Nat] /\ q \in [Node -> Nat]
  BY DEF Clocks!TypeOK, Clocks!Vector
<1>2. \A m \in Node : past[n][m] \in Nat /\ q[m] \in Nat
  BY <1>1
<1>3. QED
  BY <1>2 DEF Clocks!Joined, Clocks!Vector

(* An event of n whose stamp is larger than n's time, and than that of the  *)
(* message with the past q it may have received, keeps what is known in     *)
(* order: it has a larger stamp than all it depends on, and nothing that    *)
(* happened before depends on it.                                           *)
LEMMA EventKeeps ==
  ASSUME ClocksInv, NEW n \in Node, NEW t \in Nat, NEW q \in Clocks!Vector, NEW u \in Nat,
         t > time[n], t > u, Happened(q), UpToDate(q, u), Clocks!Event(n, t, Clocks!Joined(n, q))
  PROVE  /\ time' \in [Node -> Nat] /\ past' \in [Node -> Clocks!Vector]
         /\ \A e \in events' : e \in [node : Node, stamp : Nat, past : Clocks!Vector]
         /\ NodeInv' /\ EventInv'
         /\ time'[n] = t /\ past'[n] \in Clocks!Vector
         /\ \A p \in Clocks!Vector, s \in Nat :
              Happened(p) /\ UpToDate(p, s) => Happened(p)' /\ UpToDate(p, s)'
<1>0. Clocks!TypeOK /\ NodeInv /\ EventInv
  BY DEF ClocksInv
<1>. PICK p0 \in Clocks!Vector : p0 = Clocks!Joined(n, q)
  BY <1>0, JoinedPast
<1>. DEFINE f0 == [node |-> n, stamp |-> t, past |-> p0]
<1>1. /\ time' = [time EXCEPT ![n] = t] /\ past' = [past EXCEPT ![n] = p0]
      /\ events' = events \cup {f0}
  BY DEF Clocks!Event
<1>2. /\ p0 \in Clocks!Vector /\ p0[n] = past[n][n] + 1
      /\ \A m \in Node \ {n} :
           /\ past[n][m] <= p0[m] /\ q[m] <= p0[m]
           /\ p0[m] = past[n][m] \/ p0[m] = q[m]
  BY <1>0, JoinedPast
<1>3. /\ time \in [Node -> Nat] /\ past \in [Node -> Clocks!Vector]
      /\ \A e \in events : e.node \in Node /\ e.stamp \in Nat /\ e.past \in Clocks!Vector
      /\ \A v \in Clocks!Vector, m \in Node : v[m] \in Nat
  BY <1>0 DEF Clocks!TypeOK, Clocks!Vector
<1>4. /\ time' \in [Node -> Nat] /\ past' \in [Node -> Clocks!Vector]
      /\ \A e \in events' : e \in [node : Node, stamp : Nat, past : Clocks!Vector]
      /\ time'[n] = t /\ past'[n] = p0
  BY <1>0, <1>1, <1>2, <1>3 DEF Clocks!TypeOK
<1>5. \A m \in Node : past[m][m] <= past'[m][m]
  <2>1. ASSUME NEW m \in Node
        PROVE  past[m][m] <= past'[m][m]
    <3>1. past[m][m] \in Nat
      BY <1>3
    <3>2. CASE m = n
      BY <1>2, <1>4, <3>1, <3>2
    <3>3. CASE m # n
      BY <1>1, <1>3, <3>1, <3>3
    <3>4. QED
      BY <3>2, <3>3
  <2>2. QED
    BY <2>1
<1>6. \A p \in Clocks!Vector : Happened(p) => Happened(p)'
  BY <1>3, <1>4, <1>5 DEF Happened
<1>7. \A p \in Clocks!Vector : Happened(p) => p[n] < p0[n]
  BY <1>2, <1>3 DEF Happened
<1>8. \A p \in Clocks!Vector, s \in Nat : Happened(p) /\ UpToDate(p, s) => UpToDate(p, s)'
  <2>1. SUFFICES ASSUME NEW p \in Clocks!Vector, NEW s \in Nat, Happened(p), UpToDate(p, s),
                        NEW e \in events', e.past[e.node] <= p[e.node]
                 PROVE  e.stamp <= s
    BY DEF UpToDate
  <2>2. CASE e \in events
    BY <2>1, <2>2 DEF UpToDate
  <2>3. CASE e = f0
    <3>1. e.past = p0 /\ e.node = n
      BY <2>3
    <3>2. p[n] < p0[n] /\ p[n] \in Nat /\ p0[n] \in Nat
      BY <1>2, <1>3, <1>7, <2>1
    <3>3. QED
      BY <2>1, <3>1, <3>2
  <2>4. QED
    BY <1>1, <2>2, <2>3
<1>9. Happened(p0)'
  <2>1. ASSUME NEW m \in Node
        PROVE  p0[m] <= past'[m][m]
    <3>1. CASE m = n
      BY <1>2, <1>3, <1>4, <3>1
    <3>2. CASE m # n
      <4>1. past'[m] = past[m]
        BY <1>1, <1>3, <3>2
      <4>2. past[n][m] <= past[m][m] /\ q[m] <= past[m][m]
        BY <1>0 DEF NodeInv, Happened
      <4>3. QED
        BY <1>2, <3>2, <4>1, <4>2
    <3>3. QED
      BY <3>1, <3>2
  <2>2. QED
    BY <2>1 DEF Happened
(* The new event has a larger stamp than those it depends on. *)
<1>10. ASSUME NEW e \in events, e.past[e.node] <= p0[e.node]
       PROVE  e.stamp < t
  <2>1. e.node \in Node /\ e.stamp \in Nat /\ e.past[e.node] \in Nat
    BY <1>3
  <2>2. time[n] \in Nat /\ past[n] \in Clocks!Vector
    BY <1>3
  <2>3. CASE e.node = n
    <3>1. e.past[n] <= past[n][n]
      BY <1>0, <2>3 DEF EventInv, Happened
    <3>2. e.stamp <= time[n]
      BY <1>0, <2>3, <3>1 DEF NodeInv, UpToDate
    <3>3. QED
      BY <2>1, <2>2, <3>2
  <2>4. CASE e.node # n
    <3>1. e.past[e.node] <= past[n][e.node] \/ e.past[e.node] <= q[e.node]
      BY <1>2, <1>10, <2>1, <2>4
    <3>2. e.stamp <= time[n] \/ e.stamp <= u
      BY <1>0, <3>1 DEF NodeInv, UpToDate
    <3>3. QED
      BY <2>1, <2>2, <3>2
  <2>5. QED
    BY <2>3, <2>4
<1>11. UpToDate(p0, t)'
  <2>1. ASSUME NEW e \in events', e.past[e.node] <= p0[e.node]
        PROVE  e.stamp <= t
    <3>1. CASE e \in events
      BY <1>3, <1>10, <2>1, <3>1
    <3>2. CASE e = f0
      BY <3>2
    <3>3. QED
      BY <1>1, <3>1, <3>2
  <2>2. QED
    BY <2>1 DEF UpToDate
<1>12. NodeInv'
  <2>1. ASSUME NEW m \in Node
        PROVE  Happened(past[m])' /\ UpToDate(past[m], time[m])'
    <3>1. CASE m = n
      BY <1>4, <1>9, <1>11, <3>1 DEF Happened, UpToDate
    <3>2. CASE m # n
      <4>1. past'[m] = past[m] /\ time'[m] = time[m] /\ past[m] \in Clocks!Vector /\ time[m] \in Nat
        BY <1>1, <1>3, <3>2
      <4>2. Happened(past[m]) /\ UpToDate(past[m], time[m])
        BY <1>0 DEF NodeInv
      <4>3. DEFINE v == past[m]
                   s == time[m]
      <4>4. QED
        BY <1>6, <1>8, <4>1, <4>2 DEF Happened, UpToDate
    <3>3. QED
      BY <3>1, <3>2
  <2>2. QED
    BY <2>1 DEF NodeInv
<1>13. EventInv'
  <2>1. \A e \in events' : Happened(e.past)'
    <3>1. ASSUME NEW e \in events
          PROVE  Happened(e.past)'
      BY <1>0, <1>3, <1>6 DEF EventInv, Happened
    <3>2. Happened(f0.past)'
      BY <1>9 DEF Happened
    <3>3. QED
      BY <1>1, <3>1, <3>2 DEF Happened
  <2>2. ASSUME NEW e \in events', NEW f \in events', e # f, e.past[e.node] <= f.past[e.node]
        PROVE  e.stamp < f.stamp
    <3>1. CASE e \in events /\ f \in events
      BY <1>0, <2>2, <3>1 DEF EventInv
    <3>2. CASE e \in events /\ f = f0
      BY <1>10, <2>2, <3>2
    <3>3. CASE e = f0 /\ f \in events
      <4>1. f.past[n] < p0[n] /\ f.past[n] \in Nat /\ p0[n] \in Nat
        BY <1>0, <1>2, <1>3, <1>7, <3>3 DEF EventInv
      <4>2. e.past[e.node] = p0[n] /\ f.past[e.node] = f.past[n]
        BY <3>3
      <4>3. QED
        BY <2>2, <4>1, <4>2
    <3>4. QED
      BY <1>1, <2>2, <3>1, <3>2, <3>3
  <2>3. QED
    BY <2>1, <2>2 DEF EventInv
<1>14. QED
  BY <1>2, <1>4, <1>6, <1>8, <1>12, <1>13

(* What was on its way stays in order, and what is sent now is in order. *)
LEMMA WireKeeps ==
  ASSUME ClocksInv,
         \A i \in 1..Len(wire') :
            (Happened(wire[i].past) /\ UpToDate(wire[i].past, wire[i].stamp))'
            \/ \E j \in 1..Len(wire) : wire'[i] = wire[j],
         \A p \in Clocks!Vector, s \in Nat :
            Happened(p) /\ UpToDate(p, s) => Happened(p)' /\ UpToDate(p, s)'
  PROVE  WireInv'
<1>1. ASSUME NEW i \in 1..Len(wire'), NEW j \in 1..Len(wire), wire'[i] = wire[j]
      PROVE  (Happened(wire[i].past) /\ UpToDate(wire[i].past, wire[i].stamp))'
  <2>1. wire \in Seq([to : Node, stamp : Nat, past : Clocks!Vector])
    BY DEF ClocksInv, Clocks!TypeOK
  <2>2. wire[j] \in [to : Node, stamp : Nat, past : Clocks!Vector]
    BY <2>1, ElementOfSeq
  <2>3. PICK p \in Clocks!Vector, s \in Nat : p = wire[j].past /\ s = wire[j].stamp
    BY <2>2
  <2>4. Happened(p) /\ UpToDate(p, s)
    BY <2>3 DEF ClocksInv, WireInv
  <2>5. Happened(p)' /\ UpToDate(p, s)'
    BY <2>4
  <2>6. QED
    BY <1>1, <2>3, <2>5 DEF Happened, UpToDate
<1>2. QED
  BY <1>1 DEF WireInv

LEMMA ClocksStep ==
  ASSUME ClocksInv, [Clocks!Next]_clockVars
  PROVE  ClocksInv'
<1>. DEFINE Message == [to : Node, stamp : Nat, past : Clocks!Vector]
<1>1. /\ Clocks!TypeOK /\ NodeInv /\ WireInv /\ EventInv
      /\ time \in [Node -> Nat] /\ past \in [Node -> Clocks!Vector] /\ wire \in Seq(Message)
  BY DEF ClocksInv, Clocks!TypeOK
(* An event that no message brings about depends on n's past alone. *)
<1>2. ASSUME NEW n \in Node, Clocks!Event(n, Clocks!Ticked(time[n]), Clocks!Joined(n, past[n]))
      PROVE  /\ time' \in [Node -> Nat] /\ past' \in [Node -> Clocks!Vector]
             /\ \A e \in events' : e \in [node : Node, stamp : Nat, past : Clocks!Vector]
             /\ NodeInv' /\ EventInv'
             /\ \A p \in Clocks!Vector, s \in Nat :
                  Happened(p) /\ UpToDate(p, s) => Happened(p)' /\ UpToDate(p, s)'
  <2>1. time[n] \in Nat /\ past[n] \in Clocks!Vector
    BY <1>1
  <2>2. PICK q \in Clocks!Vector, u \in Nat, t \in Nat : q = past[n] /\ u = time[n] /\ t = time[n] + 1
    BY <2>1
  <2>3. Happened(q) /\ UpToDate(q, u) /\ Clocks!Event(n, t, Clocks!Joined(n, q)) /\ t > time[n] /\ t > u
    BY <1>1, <1>2, <2>1, <2>2 DEF NodeInv, Clocks!Ticked
  <2>4. QED
    BY <2>3, EventKeeps
<1>3. ASSUME NEW n \in Node, Clocks!performLocalAction(n)
      PROVE  ClocksInv'
  <2>1. Clocks!Event(n, Clocks!Ticked(time[n]), Clocks!Joined(n, past[n])) /\ wire' = wire
    BY <1>3 DEF Clocks!performLocalAction
  <2>2. Clocks!TypeOK' /\ NodeInv' /\ EventInv'
    BY <1>1, <1>2, <2>1 DEF Clocks!TypeOK
  <2>3. WireInv'
    BY <1>2, <2>1, WireKeeps
  <2>4. QED
    BY <2>2, <2>3 DEF ClocksInv
<1>4. ASSUME NEW n \in Node, NEW receiver \in Node, Clocks!sendMessage(n, receiver)
      PROVE  ClocksInv'
  <2>1. /\ Clocks!Event(n, Clocks!Ticked(time[n]), Clocks!Joined(n, past[n]))
        /\ wire' = Append(wire, [to |-> receiver, stamp |-> time'[n], past |-> past'[n]])
    BY <1>4 DEF Clocks!sendMessage
  <2>2. [to |-> receiver, stamp |-> time'[n], past |-> past'[n]] \in Message
    BY <1>2, <2>1
  <2>3. /\ wire' \in Seq(Message) /\ Len(wire') = Len(wire) + 1 /\ Len(wire) \in Nat
        /\ \A i \in 1..Len(wire) : wire'[i] = wire[i]
        /\ wire'[Len(wire) + 1] = [to |-> receiver, stamp |-> time'[n], past |-> past'[n]]
    BY <1>1, <2>1, <2>2
  <2>4. Clocks!TypeOK' /\ NodeInv' /\ EventInv'
    BY <1>2, <2>1, <2>3 DEF Clocks!TypeOK
  <2>5. ASSUME NEW i \in 1..Len(wire')
        PROVE  (Happened(wire[i].past) /\ UpToDate(wire[i].past, wire[i].stamp))'
               \/ \E j \in 1..Len(wire) : wire'[i] = wire[j]
    <3>1. CASE i \in 1..Len(wire)
      BY <2>3, <3>1
    <3>2. CASE i = Len(wire) + 1
      <4>1. wire'[i].past = past'[n] /\ wire'[i].stamp = time'[n]
        BY <2>3, <3>2
      <4>2. (Happened(past[n]) /\ UpToDate(past[n], time[n]))'
        BY <2>4 DEF NodeInv
      <4>3. QED
        BY <4>1, <4>2 DEF Happened, UpToDate
    <3>3. QED
      BY <2>3, <3>1, <3>2
  <2>6. WireInv'
    BY <1>2, <2>1, <2>5, WireKeeps
  <2>7. QED
    BY <2>4, <2>6 DEF ClocksInv
<1>5. ASSUME NEW n \in Node, Clocks!receiveMessage(n)
      PROVE  ClocksInv'
  <2>1. /\ wire # <<>> /\ wire' = Tail(wire)
        /\ Clocks!Event(n, Clocks!Updated(time[n], Head(wire).stamp), Clocks!Joined(n, Head(wire).past))
    BY <1>5 DEF Clocks!receiveMessage
  <2>2. Head(wire) = wire[1] /\ 1 \in 1..Len(wire) /\ wire[1] \in Message
    <3>1. Head(wire) = wire[1] /\ 1 \in 1..Len(wire)
      BY <1>1, <2>1
    <3>2. QED
      BY <1>1, <3>1, ElementOfSeq
  <2>3. /\ wire' \in Seq(Message)
        /\ \A i \in 1..Len(wire') : i + 1 \in 1..Len(wire) /\ wire'[i] = wire[i + 1]
    BY <1>1, <2>1
  <2>4. PICK q \in Clocks!Vector, u \in Nat, t \in Nat :
           q = wire[1].past /\ u = wire[1].stamp /\ t = Clocks!Updated(time[n], u)
    <3>1. wire[1].past \in Clocks!Vector /\ wire[1].stamp \in Nat /\ time[n] \in Nat
      BY <1>1, <2>2
    <3>2. Clocks!Updated(time[n], wire[1].stamp) \in Nat
      BY <3>1 DEF Clocks!Updated
    <3>3. QED
      BY <3>1, <3>2
  <2>5. t > time[n] /\ t > u
    BY <1>1, <2>4 DEF Clocks!Updated
  <2>6. Happened(q) /\ UpToDate(q, u) /\ Clocks!Event(n, t, Clocks!Joined(n, q))
    BY <1>1, <2>1, <2>2, <2>4 DEF WireInv
  <2>7. /\ time' \in [Node -> Nat] /\ past' \in [Node -> Clocks!Vector]
        /\ \A e \in events' : e \in [node : Node, stamp : Nat, past : Clocks!Vector]
        /\ NodeInv' /\ EventInv'
        /\ \A p \in Clocks!Vector, s \in Nat :
             Happened(p) /\ UpToDate(p, s) => Happened(p)' /\ UpToDate(p, s)'
    BY <2>5, <2>6, EventKeeps
  <2>8. Clocks!TypeOK'
    BY <2>3, <2>7 DEF Clocks!TypeOK
  <2>9. WireInv'
    BY <2>3, <2>7, WireKeeps
  <2>10. QED
    BY <2>7, <2>8, <2>9 DEF ClocksInv
<1>6. CASE UNCHANGED clockVars
  BY <1>6 DEF clockVars, ClocksInv, Clocks!TypeOK, NodeInv, WireInv, EventInv, Happened, UpToDate
<1>7. QED
  BY <1>3, <1>4, <1>5, <1>6 DEF Clocks!Next

(* For any nodes and any messages between them: an event that another one   *)
(* depends on, through any chain of messages, has the smaller logical time. *)
THEOREM ClockConditionHolds == Spec => []ClockCondition
<1>1. Init => ClocksInv
  BY PartsBegin, ClocksInit
<1>2. ClocksInv /\ [Next]_vars => ClocksInv'
  BY PartsStep, ClocksStep
<1>3. ASSUME ClocksInv
      PROVE  ClockCondition
  <2>1. ASSUME NEW e \in events, NEW f \in events, Clocks!Before(e, f)
        PROVE  e.stamp < f.stamp
    <3>1. e.node \in Node
      BY <1>3 DEF ClocksInv, Clocks!TypeOK
    <3>2. QED
      BY <1>3, <2>1, <3>1 DEF Clocks!Before, ClocksInv, EventInv
  <2>2. QED
    BY <2>1 DEF ClockCondition, Clocks!ClockCondition
<1>4. QED
  BY <1>1, <1>2, <1>3, PTL DEF Spec

-----------------------------------------------------------------------------
(* An event is processed as often as the consumer remembers, and published  *)
(* only then; the deduplicating consumer of the queue likewise.             *)
DeliveryInv ==
    /\ orders \subseteq Order /\ outbox \in [orders -> BOOLEAN] /\ processed \subseteq orders
    /\ applied = [o \in Order |-> IF o \in processed THEN 1 ELSE 0]
    /\ \A o \in orders : outbox[o] => o \in processed
    /\ {dedupe, acknowledged, queueSeen} \subseteq BOOLEAN /\ queueApplied \in Nat
    /\ dedupe => queueApplied = IF queueSeen THEN 1 ELSE 0
    /\ acknowledged => queueApplied >= 1

LEMMA DeliveryInit ==
  ASSUME Deliver!Init
  PROVE  DeliveryInv
BY DEF Deliver!Init, DeliveryInv

LEMMA CreateOrderKeeps ==
  ASSUME DeliveryInv, NEW o \in Order, Deliver!CreateOrder(o)
  PROVE  DeliveryInv'
<1>. USE DEF DeliveryInv, Deliver!CreateOrder, Deliver!queueVars
<1>1. outbox' \in [orders' -> BOOLEAN]
  OBVIOUS
<1>2. \A p \in orders' : outbox'[p] => p \in orders /\ outbox[p]
  OBVIOUS
<1>3. QED
  BY <1>1, <1>2

(* A tick processes each event it offers at most once, and no event twice. *)
LEMMA TickDelivers ==
  ASSUME DeliveryInv, NEW succeeds \in SUBSET Deliver!Pending, Deliver!Tick(succeeds)
  PROVE  DeliveryInv'
<1>1. succeeds \subseteq orders /\ UNCHANGED <<orders, dedupe, acknowledged, queueSeen, queueApplied>>
  BY DEF Deliver!Tick, Deliver!Pending, Deliver!queueVars
<1>2. processed' = processed \cup succeeds
  BY DEF Deliver!Tick, Deliver!Consumed
<1>3. applied' = [o \in Order |-> IF o \in processed' THEN 1 ELSE 0]
  <2>1. \A o \in Order : applied[o] + (IF o \in succeeds \ processed THEN 1 ELSE 0)
                           = IF o \in processed' THEN 1 ELSE 0
    BY <1>2 DEF DeliveryInv
  <2>2. QED
    BY <2>1 DEF Deliver!Tick, Deliver!Consumed
<1>4. outbox' = [o \in orders |-> outbox[o] \/ o \in Deliver!Pending \cap processed']
  BY DEF Deliver!Tick
<1>5. QED
  BY <1>1, <1>2, <1>3, <1>4 DEF DeliveryInv

LEMMA SendKeeps ==
  ASSUME DeliveryInv, NEW ackLost \in BOOLEAN, Deliver!Send(ackLost)
  PROVE  DeliveryInv'
<1>1. /\ queueApplied' = queueApplied + (IF dedupe /\ queueSeen THEN 0 ELSE 1)
      /\ queueSeen' = (queueSeen \/ dedupe) /\ acknowledged' = ~ackLost
      /\ UNCHANGED <<dedupe, orders, outbox, processed, applied>>
  BY DEF Deliver!Send, Deliver!Processes, Deliver!outboxVars
<1>2. queueApplied' \in Nat /\ queueApplied' >= 1
  BY <1>1 DEF DeliveryInv
<1>3. dedupe' => queueApplied' = IF queueSeen' THEN 1 ELSE 0
  <2>1. SUFFICES ASSUME dedupe'
                 PROVE  queueSeen' /\ queueApplied' = 1
    OBVIOUS
  <2>2. dedupe /\ queueSeen'
    BY <1>1, <2>1
  <2>3. queueApplied = IF queueSeen THEN 1 ELSE 0
    BY <2>2 DEF DeliveryInv
  <2>4. queueApplied' = 1
    <3>1. CASE queueSeen
      BY <1>1, <2>2, <2>3, <3>1
    <3>2. CASE ~queueSeen
      BY <1>1, <2>2, <2>3, <3>2
    <3>3. QED
      BY <3>1, <3>2
  <2>5. QED
    BY <2>2, <2>4
<1>4. QED
  BY <1>1, <1>2, <1>3 DEF DeliveryInv

LEMMA DeliveryStep ==
  ASSUME DeliveryInv, [Deliver!Next]_deliveryVars
  PROVE  DeliveryInv'
<1>1. CASE Deliver!SecondScenario
  BY <1>1 DEF Deliver!SecondScenario, Deliver!outboxVars, DeliveryInv
<1>2. CASE UNCHANGED deliveryVars
  BY <1>2 DEF deliveryVars, DeliveryInv
<1>3. QED
  BY <1>1, <1>2, CreateOrderKeeps, TickDelivers, SendKeeps DEF Deliver!Next

(* For any orders and number of attempts: an event or message is applied at *)
(* most once, and has been when its sender stops sending it for an          *)
(* acknowledgement.                                                         *)
THEOREM ExactlyOnceHolds == Spec => []ExactlyOnce
<1>1. Init => DeliveryInv
  BY PartsBegin, DeliveryInit
<1>2. DeliveryInv /\ [Next]_vars => DeliveryInv'
  BY PartsStep, DeliveryStep
<1>3. DeliveryInv => ExactlyOnce
  BY DEF DeliveryInv, ExactlyOnce, Deliver!ExactlyOnce
<1>4. QED
  BY <1>1, <1>2, <1>3, PTL DEF Spec

-----------------------------------------------------------------------------
(* Fetches under way, f, and the time o since stale answers not refreshed   *)
(* yet: each of these has a fetch that will answer in time.                 *)
Fetch == [id : Id, due : 0..Latency]
InTime(f, o) ==
    /\ f \in Seq(Fetch) /\ o \in [Id -> Int]
    /\ \A i, j \in 1..Len(f) : i <= j => f[i].due <= f[j].due
    /\ \A k \in Id : o[k] >= 0 => \E i \in 1..Len(f) : f[i].id = k /\ o[k] + f[i].due <= Latency

Due(f) == f # <<>> /\ Head(f).due = 0
Aged(f) == [i \in DOMAIN f |-> [f[i] EXCEPT !.due = @ - 1]]
Later(o) == [k \in Id |-> IF o[k] < 0 THEN -1 ELSE o[k] + 1]

(* A fetch that starts now answers last, and in time for an answer just now. *)
LEMMA FetchStarts ==
  ASSUME NEW f, NEW o, InTime(f, o), Latency \in Nat, NEW k \in Id
  PROVE  /\ InTime(Append(f, [id |-> k, due |-> Latency]), o)
         /\ InTime(Append(f, [id |-> k, due |-> Latency]),
                   [o EXCEPT ![k] = IF @ < 0 THEN 0 ELSE @])
<1>1. PICK g \in Seq(Fetch) :
        /\ g = Append(f, [id |-> k, due |-> Latency]) /\ Len(g) = Len(f) + 1
        /\ \A i \in 1..Len(f) : g[i] = f[i]
        /\ g[Len(f) + 1] = [id |-> k, due |-> Latency]
  <2>1. [id |-> k, due |-> Latency] \in Fetch /\ f \in Seq(Fetch)
    BY DEF Fetch, InTime
  <2>2. QED
    BY <2>1, AppendProperties
<1>2. Len(f) \in Nat /\ \A i \in 1..Len(f) : f[i] \in Fetch
  BY LenProperties, ElementOfSeq DEF InTime
<1>3. ASSUME NEW i \in 1..Len(g), NEW j \in 1..Len(g), i <= j
      PROVE  g[i].due <= g[j].due
  <2>1. \A h \in 1..Len(f) : f[h].due \in Nat /\ f[h].due <= Latency
    BY <1>2 DEF Fetch
  <2>2. CASE j = Len(f) + 1
    BY <1>1, <1>2, <2>1, <2>2
  <2>3. CASE j # Len(f) + 1
    <3>1. i \in 1..Len(f) /\ j \in 1..Len(f)
      BY <1>1, <1>2, <1>3, <2>3
    <3>2. QED
      BY <1>1, <1>3, <3>1 DEF InTime
  <2>4. QED
    BY <2>2, <2>3
<1>4. ASSUME NEW p \in [Id -> Int], \A q \in Id : p[q] = o[q] \/ (q = k /\ p[q] = 0)
      PROVE  InTime(g, p)
  <2>1. ASSUME NEW q \in Id, p[q] >= 0
        PROVE  \E i \in 1..Len(g) : g[i].id = q /\ p[q] + g[i].due <= Latency
    <3>1. CASE q = k /\ p[q] = 0
      <4>1. Len(f) + 1 \in 1..Len(g) /\ g[Len(f) + 1].id = q /\ g[Len(f) + 1].due = Latency
        BY <1>1, <1>2, <3>1
      <4>2. 0 + Latency <= Latency
        OBVIOUS
      <4>3. QED
        BY <3>1, <4>1, <4>2
    <3>2. CASE p[q] = o[q]
      <4>1. PICK i \in 1..Len(f) : f[i].id = q /\ o[q] + f[i].due <= Latency
        BY <2>1, <3>2 DEF InTime
      <4>2. i \in 1..Len(g) /\ g[i] = f[i]
        BY <1>1, <1>2
      <4>3. QED
        BY <3>2, <4>1, <4>2
    <3>3. QED
      BY <1>4, <3>1, <3>2
  <2>2. QED
    BY <1>1, <1>3, <2>1 DEF InTime
<1>5. InTime(g, o)
  BY <1>4 DEF InTime
<1>6. InTime(g, [o EXCEPT ![k] = IF @ < 0 THEN 0 ELSE @])
  <2>1. o \in [Id -> Int]
    BY DEF InTime
  <2>2. PICK p : p = [o EXCEPT ![k] = IF @ < 0 THEN 0 ELSE @]
    OBVIOUS
  <2>3. p \in [Id -> Int] /\ \A q \in Id : p[q] = o[q] \/ (q = k /\ p[q] = 0)
    BY <2>1, <2>2
  <2>4. QED
    BY <1>4, <2>2, <2>3
<1>7. QED
  BY <1>1, <1>5, <1>6

(* The fetch that answers leaves the others to those they were started for. *)
LEMMA FetchAnswers ==
  ASSUME NEW f, NEW o, InTime(f, o), Due(f)
  PROVE  Head(f).id \in Id /\ InTime(Tail(f), [o EXCEPT ![Head(f).id] = -1])
<1>1. PICK g \in Seq(Fetch) :
        /\ g = Tail(f) /\ Len(g) = Len(f) - 1 /\ \A i \in 1..Len(g) : g[i] = f[i + 1]
  <2>1. f \in Seq(Fetch) /\ f # <<>>
    BY DEF InTime, Due
  <2>2. /\ Tail(f) \in Seq(Fetch) /\ Len(Tail(f)) = Len(f) - 1
        /\ \A i \in 1..Len(Tail(f)) : Tail(f)[i] = f[i + 1]
    BY <2>1, HeadTailProperties
  <2>3. QED
    BY <2>2
<1>2. Len(f) \in Nat \ {0} /\ Head(f) = f[1] /\ f[1] \in Fetch
  BY HeadTailProperties, EmptySeq, ElementOfSeq, LenProperties DEF InTime, Due
<1>3. PICK k \in Id : k = f[1].id
  BY <1>2 DEF Fetch
<1>4. PICK p \in [Id -> Int] : p = [o EXCEPT ![k] = -1] /\ p[k] = -1 /\ \A q \in Id \ {k} : p[q] = o[q]
  <2>1. o \in [Id -> Int] /\ -1 \in Int
    BY DEF InTime
  <2>2. [o EXCEPT ![k] = -1] \in [Id -> Int]
    BY <2>1
  <2>3. QED
    BY <2>1, <2>2
<1>5. \A i, j \in 1..Len(g) : i <= j => g[i].due <= g[j].due
  <2>1. SUFFICES ASSUME NEW i \in 1..Len(g), NEW j \in 1..Len(g), i <= j
                 PROVE  g[i].due <= g[j].due
    OBVIOUS
  <2>2. i + 1 \in 1..Len(f) /\ j + 1 \in 1..Len(f) /\ i + 1 <= j + 1
    BY <1>1, <1>2, <2>1
  <2>3. QED
    BY <1>1, <2>2 DEF InTime
<1>6. ASSUME NEW q \in Id, p[q] >= 0
      PROVE  \E i \in 1..Len(g) : g[i].id = q /\ p[q] + g[i].due <= Latency
  <2>1. q # k /\ p[q] = o[q]
    BY <1>4, <1>6
  <2>2. PICK i \in 1..Len(f) : f[i].id = q /\ o[q] + f[i].due <= Latency
    BY <1>6, <2>1 DEF InTime
  <2>3. i # 1
    BY <1>3, <2>1, <2>2
  <2>4. i - 1 \in 1..Len(g) /\ i - 1 + 1 = i
    BY <1>1, <1>2, <2>3
  <2>5. g[i - 1] = f[i]
    BY <1>1, <2>4
  <2>6. QED
    BY <2>1, <2>2, <2>4, <2>5
<1>7. InTime(g, p)
  BY <1>5, <1>6 DEF InTime
<1>8. QED
  BY <1>1, <1>2, <1>3, <1>4, <1>7

(* Time passes only while no fetch is due, so for fetches and waits alike. *)
LEMMA TimePasses ==
  ASSUME NEW f, NEW o, InTime(f, o), f # <<>> => Head(f).due > 0, Latency \in Nat
  PROVE  InTime(Aged(f), Later(o))
<1>1. f \in Seq(Fetch) /\ o \in [Id -> Int] /\ Len(f) \in Nat /\ DOMAIN f = 1..Len(f)
  BY LenProperties DEF InTime
<1>2. ASSUME NEW i \in 1..Len(f)
      PROVE  f[i] \in Fetch /\ f[i].due > 0
  <2>1. f # <<>> /\ Head(f) = f[1] /\ 1 \in 1..Len(f) /\ 1 <= i
    BY <1>1, EmptySeq
  <2>2. f[1].due <= f[i].due /\ f[i] \in Fetch /\ f[1] \in Fetch
    BY <1>1, <2>1, ElementOfSeq DEF InTime
  <2>3. f[1].due \in Nat /\ f[i].due \in Nat
    BY <2>2 DEF Fetch
  <2>4. QED
    BY <2>1, <2>2, <2>3
<1>3. PICK g : g = Aged(f)
  OBVIOUS
<1>4. ASSUME NEW i \in 1..Len(f)
      PROVE  g[i] \in Fetch /\ g[i].id = f[i].id /\ g[i].due = f[i].due - 1
  BY <1>1, <1>2, <1>3 DEF Aged, Fetch
<1>5. g \in Seq(Fetch) /\ Len(g) = Len(f)
  <2>1. g \in [1..Len(f) -> Fetch]
    BY <1>1, <1>3, <1>4 DEF Aged
  <2>2. QED
    BY <1>1, <2>1, LenProperties, SeqDef
<1>6. PICK p : p = Later(o)
  OBVIOUS
<1>7. p \in [Id -> Int] /\ \A k \in Id : p[k] = IF o[k] < 0 THEN -1 ELSE o[k] + 1
  BY <1>1, <1>6 DEF Later
<1>8. ASSUME NEW i \in 1..Len(g), NEW j \in 1..Len(g), i <= j
      PROVE  g[i].due <= g[j].due
  <2>1. f[i].due <= f[j].due /\ f[i].due \in Nat /\ f[j].due \in Nat
    BY <1>2, <1>5, <1>8 DEF InTime, Fetch
  <2>2. QED
    BY <1>4, <1>5, <2>1
<1>9. ASSUME NEW k \in Id, p[k] >= 0
      PROVE  \E i \in 1..Len(g) : g[i].id = k /\ p[k] + g[i].due <= Latency
  <2>1. o[k] \in Int /\ o[k] >= 0 /\ p[k] = o[k] + 1
    BY <1>1, <1>7, <1>9
  <2>2. PICK i \in 1..Len(f) : f[i].id = k /\ o[k] + f[i].due <= Latency
    BY <2>1 DEF InTime
  <2>3. f[i].due \in Nat
    BY <1>2 DEF Fetch
  <2>4. p[k] + g[i].due <= Latency
    BY <1>4, <2>1, <2>2, <2>3
  <2>5. QED
    BY <1>4, <1>5, <2>2, <2>4
<1>10. QED
  BY <1>3, <1>5, <1>6, <1>7, <1>8, <1>9 DEF InTime

LEMMA InTimeAnswers ==
  ASSUME NEW f, NEW o, InTime(f, o), Latency \in Nat
  PROVE  \A k \in Id : o[k] <= Latency
<1>1. ASSUME NEW k \in Id, o[k] >= 0
      PROVE  o[k] <= Latency
  <2>1. PICK i \in 1..Len(f) : f[i].id = k /\ o[k] + f[i].due <= Latency
    BY <1>1 DEF InTime
  <2>2. f[i] \in Fetch /\ o[k] \in Int
    BY ElementOfSeq DEF InTime
  <2>3. f[i].due \in Nat
    BY <2>2 DEF Fetch
  <2>4. QED
    BY <2>1, <2>2, <2>3
<1>2. QED
  BY <1>1 DEF InTime

RefreshInv == InTime(fetches, owed) /\ InTime(edgeFetches, edgeOwed)

LEMMA RefreshInit ==
  ASSUME SWR!Init, Edge!Init
  PROVE  RefreshInv
<1>1. <<>> \in Seq(Fetch) /\ Len(<<>>) = 0
  BY EmptySeq
<1>2. QED
  BY <1>1 DEF SWR!Init, Edge!Init, RefreshInv, InTime

LEMMA ServerKeepsInTime ==
  ASSUME Latency \in Nat, InTime(fetches, owed), [SWR!Next]_swrVars
  PROVE  InTime(fetches, owed)'
<1>1. ASSUME NEW k \in Id, SWR!Miss(k) \/ SWR!StaleHit(k)
      PROVE  InTime(fetches, owed)'
  <2>1. PICK f, o : f = fetches /\ o = owed
    OBVIOUS
  <2>2. /\ fetches' = Append(f, [id |-> k, due |-> Latency])
        /\ owed' = o \/ owed' = [o EXCEPT ![k] = IF @ < 0 THEN 0 ELSE @]
    BY <1>1, <2>1 DEF SWR!Miss, SWR!StaleHit, SWR!revalidate, SWR!Fetch
  <2>3. QED
    BY <2>1, <2>2, FetchStarts
<1>2. CASE SWR!Answered
  <2>1. PICK f, o : f = fetches /\ o = owed
    OBVIOUS
  <2>2. Due(f) /\ fetches' = Tail(f) /\ owed' = [o EXCEPT ![Head(f).id] = -1]
    BY <1>2, <2>1 DEF SWR!Answered, Due
  <2>3. QED
    BY <2>1, <2>2, FetchAnswers
<1>3. CASE SWR!Tick
  <2>1. PICK f, o : f = fetches /\ o = owed
    OBVIOUS
  <2>2. (f # <<>> => Head(f).due > 0) /\ fetches' = Aged(f) /\ owed' = Later(o)
    BY <1>3, <2>1 DEF SWR!Tick, Aged, Later
  <2>3. QED
    BY <2>1, <2>2, TimePasses
<1>4. ASSUME UNCHANGED <<fetches, owed>>
      PROVE  InTime(fetches, owed)'
  BY <1>4
<1>5. QED
  BY <1>1, <1>2, <1>3, <1>4 DEF SWR!Next, SWR!FreshHit, swrVars

LEMMA EdgeKeepsInTime ==
  ASSUME Latency \in Nat, InTime(edgeFetches, edgeOwed), [Edge!Next]_edgeVars
  PROVE  InTime(edgeFetches, edgeOwed)'
<1>. PICK f, o : f = edgeFetches /\ o = edgeOwed
  OBVIOUS
<1>1. ASSUME NEW k \in Id, Edge!Miss(k) \/ Edge!StaleHit(k)
      PROVE  InTime(edgeFetches, edgeOwed)'
  <2>1. /\ edgeFetches' = Append(f, [id |-> k, due |-> Latency])
        /\ edgeOwed' = o \/ edgeOwed' = [o EXCEPT ![k] = IF @ < 0 THEN 0 ELSE @]
    BY <1>1 DEF Edge!Miss, Edge!StaleHit, Edge!fetchFreshProductData
  <2>2. InTime(f, o)
    OBVIOUS
  <2>3. /\ InTime(Append(f, [id |-> k, due |-> Latency]), o)
        /\ InTime(Append(f, [id |-> k, due |-> Latency]), [o EXCEPT ![k] = IF @ < 0 THEN 0 ELSE @])
    BY <2>2, FetchStarts
  <2>4. CASE edgeOwed' = o
    BY <2>1, <2>3, <2>4
  <2>5. CASE edgeOwed' = [o EXCEPT ![k] = IF @ < 0 THEN 0 ELSE @]
    BY <2>1, <2>3, <2>5
  <2>6. QED
    BY <2>1, <2>4, <2>5
<1>2. ASSUME NEW fails \in BOOLEAN, Edge!Answered(fails)
      PROVE  InTime(edgeFetches, edgeOwed)'
  <2>1. Due(f) /\ edgeFetches' = Tail(f) /\ edgeOwed' = [o EXCEPT ![Head(f).id] = -1]
    BY <1>2 DEF Edge!Answered, Due
  <2>2. QED
    BY <2>1, FetchAnswers
<1>3. CASE Edge!Tick
  <2>1. (f # <<>> => Head(f).due > 0) /\ edgeFetches' = Aged(f) /\ edgeOwed' = Later(o)
    BY <1>3 DEF Edge!Tick, Aged, Later
  <2>2. QED
    BY <2>1, TimePasses
<1>4. ASSUME UNCHANGED edgeVars
      PROVE  InTime(edgeFetches, edgeOwed)'
  BY <1>4 DEF edgeVars
<1>5. QED
  BY <1>1, <1>2, <1>3, <1>4 DEF Edge!Next

(* For any products, latency and lifetimes, at both servers: a stale answer *)
(* is followed by a refresh, or by a failed attempt, within the latency of  *)
(* the database.                                                            *)
THEOREM RefreshInTimeHolds == Spec => []RefreshInTime
<1>1. Latency \in Nat
  BY PartsAssumption DEF SWR!SWRAssumption
<1>2. Init => RefreshInv
  BY PartsBegin, RefreshInit
<1>3. RefreshInv /\ [Next]_vars => RefreshInv'
  BY <1>1, PartsStep, ServerKeepsInTime, EdgeKeepsInTime DEF RefreshInv
<1>4. RefreshInv => RefreshInTime
  BY <1>1, InTimeAnswers DEF RefreshInv, RefreshInTime, SWR!RefreshInTime, Edge!RefreshInTime
<1>5. QED
  BY <1>2, <1>3, <1>4, PTL DEF Spec

-----------------------------------------------------------------------------
(* A client is told of a code only while the code has a second left. *)
IssuedInv == \A i \in issued : i.left >= Second

LinkEntries == [url : Url, left : Int]
LinksInv ==
    /\ urls \in [Code -> {NoEntry} \cup LinkEntries]
    /\ issued \subseteq [code : Code, url : Url, left : Int]
    /\ IssuedInv /\ Links!LinksHold

LEMMA LinksInit ==
  ASSUME Links!Init
  PROVE  LinksInv
BY DEF Links!Init, LinksInv, IssuedInv, Links!LinksHold

(* The code of a link that was told is taken, and has seconds left: it is   *)
(* not drawn again, and no read deletes it.                                 *)
LEMMA IssuedIsTaken ==
  ASSUME Links!ShortenerAssumption, LinksInv, NEW i \in issued
  PROVE  /\ i.code \in Code /\ urls[i.code] \in LinkEntries
         /\ Links!Exists(i.code) /\ ~Links!Over(urls[i.code]) /\ ~Links!NoSeconds(urls[i.code])
<1>1. i \in [code : Code, url : Url, left : Int] /\ i.left >= Second /\ Second \in Nat \ {0}
  BY DEF LinksInv, IssuedInv, Links!ShortenerAssumption
<1>2. urls[i.code] = [url |-> i.url, left |-> i.left]
  BY DEF LinksInv, Links!LinksHold
<1>3. urls[i.code] \in LinkEntries
  BY <1>1, <1>2 DEF LinkEntries
<1>4. urls[i.code] # NoEntry
  BY <1>3 DEF Links!ShortenerAssumption, LinkEntries
<1>5. ~Links!Over(urls[i.code]) /\ ~Links!NoSeconds(urls[i.code])
  BY <1>1, <1>2 DEF Links!Over, Links!NoSeconds
<1>6. QED
  BY <1>1, <1>3, <1>4, <1>5 DEF Links!Exists

LEMMA ShortenKeeps ==
  ASSUME Links!ShortenerAssumption, LinksInv, NEW c \in Code, NEW url \in Url, NEW asked \in Ttls,
         Links!Shorten(c, url, asked)
  PROVE  LinksInv'
<1>. DEFINE e == Links!Entry(url, asked)
            i0 == [code |-> c, url |-> e.url, left |-> e.left]
<1>1. Links!EffectiveTtl(asked) \in Int /\ Second \in Nat
  <2>1. asked \in Int /\ DefaultTTL \in Int /\ Second \in Nat
    BY DEF Links!ShortenerAssumption
  <2>2. QED
    BY <2>1 DEF Links!EffectiveTtl
<1>2. e \in LinkEntries /\ e.url = url /\ e = [url |-> e.url, left |-> e.left] /\ e.left \in Int
  BY <1>1 DEF Links!Entry, LinkEntries
<1>3. ~Links!Exists(c) /\ urls' = [urls EXCEPT ![c] = e]
  BY DEF Links!Shorten, Links!Free
<1>4. issued' = issued \/ (issued' = issued \cup {i0} /\ e.left >= Second)
  BY DEF Links!Shorten, Links!Told
<1>. HIDE DEF e
<1>5. urls' \in [Code -> {NoEntry} \cup LinkEntries] /\ urls'[c] = e
  BY <1>2, <1>3 DEF LinksInv
<1>6. issued' \subseteq [code : Code, url : Url, left : Int]
  BY <1>2, <1>4 DEF LinksInv
<1>7. IssuedInv'
  BY <1>4 DEF LinksInv, IssuedInv
<1>8. Links!LinksHold'
  <2>1. ASSUME NEW i \in issued
        PROVE  urls'[i.code] = [url |-> i.url, left |-> i.left]
    <3>1. i.code # c /\ i.code \in Code
      BY <1>3, IssuedIsTaken
    <3>2. QED
      BY <1>3, <3>1 DEF LinksInv, Links!LinksHold
  <2>2. urls'[i0.code] = [url |-> i0.url, left |-> i0.left]
    BY <1>2, <1>5
  <2>3. QED
    BY <1>4, <2>1, <2>2 DEF Links!LinksHold
<1>9. QED
  BY <1>5, <1>6, <1>7, <1>8 DEF LinksInv

(* A read deletes at most the code it reads, and that only in its last second. *)
LEMMA ReadKeeps ==
  ASSUME Links!ShortenerAssumption, LinksInv, NEW c \in Code, Links!Stats(c) \/ Links!Redirect(c)
  PROVE  LinksInv'
<1>1. /\ issued' = issued
      /\ \/ urls' = urls
         \/ urls' = [urls EXCEPT ![c] = NoEntry] /\ (~Links!Exists(c) \/ Links!NoSeconds(urls[c]))
  BY DEF LinksInv, Links!Stats, Links!Redirect, Links!Swept
<1>2. urls' \in [Code -> {NoEntry} \cup LinkEntries]
  BY <1>1 DEF LinksInv
<1>3. Links!LinksHold'
  <2>1. ASSUME NEW i \in issued
        PROVE  urls'[i.code] = urls[i.code]
    <3>1. i.code \in Code /\ (i.code = c => urls' = urls)
      BY <1>1, IssuedIsTaken
    <3>2. QED
      BY <1>1, <3>1 DEF LinksInv
  <2>2. QED
    BY <1>1, <2>1 DEF LinksInv, Links!LinksHold
<1>4. QED
  BY <1>1, <1>2, <1>3 DEF LinksInv, IssuedInv

LEMMA TickKeeps ==
  ASSUME Links!ShortenerAssumption, LinksInv, Links!Tick
  PROVE  LinksInv'
<1>1. Second \in Nat \ {0}
  BY DEF Links!ShortenerAssumption
<1>2. ASSUME NEW c \in Code
      PROVE  Links!Older(urls[c]) \in {NoEntry} \cup LinkEntries
  <2>1. CASE urls[c] = NoEntry \/ Links!Over(urls[c])
    BY <2>1 DEF LinksInv, Links!Older
  <2>2. CASE ~(urls[c] = NoEntry \/ Links!Over(urls[c]))
    <3>1. urls[c] \in LinkEntries
      BY <2>2 DEF LinksInv
    <3>2. Links!Older(urls[c]) = [urls[c] EXCEPT !.left = @ - 1]
      BY <2>2 DEF Links!Older
    <3>3. QED
      BY <3>1, <3>2 DEF LinkEntries
  <2>3. QED
    BY <2>1, <2>2
<1>3. urls' = [c \in Code |-> Links!Older(urls[c])] /\ urls' \in [Code -> {NoEntry} \cup LinkEntries]
  BY <1>2 DEF Links!Tick
(* What ages on both sides ages alike. *)
<1>4. ASSUME NEW j \in issued, j.left > Second
      PROVE  /\ Links!Older(j) \in [code : Code, url : Url, left : Int] /\ Links!Older(j).left >= Second
             /\ urls'[Links!Older(j).code] = [url |-> Links!Older(j).url, left |-> Links!Older(j).left]
  <2>1. j \in [code : Code, url : Url, left : Int]
    BY DEF LinksInv
  <2>2. urls[j.code] = [url |-> j.url, left |-> j.left]
    BY DEF LinksInv, Links!LinksHold
  <2>3. j.code \in Code /\ urls[j.code] # NoEntry /\ ~Links!Over(urls[j.code])
    BY IssuedIsTaken DEF Links!Exists
  <2>4. urls'[j.code] = [url |-> j.url, left |-> j.left - 1]
    <3>1. Links!Older(urls[j.code]) = [urls[j.code] EXCEPT !.left = @ - 1]
      BY <2>3 DEF Links!Older
    <3>2. QED
      BY <1>3, <2>1, <2>2, <2>3, <3>1
  <2>5. Links!Older(j) = [j EXCEPT !.left = @ - 1]
    <3>1. j # NoEntry
      BY <2>1 DEF Links!ShortenerAssumption
    <3>2. ~Links!Over(j)
      BY <1>1, <1>4, <2>1 DEF Links!Over
    <3>3. QED
      BY <3>1, <3>2 DEF Links!Older
  <2>6. QED
    BY <1>1, <1>4, <2>1, <2>4, <2>5
<1>5. issued' = {Links!Older(j) : j \in {i \in issued : i.left > Second}}
  BY DEF Links!Tick
<1>6. QED
  BY <1>3, <1>4, <1>5 DEF LinksInv, IssuedInv, Links!LinksHold

LEMMA LinksStep ==
  ASSUME Links!ShortenerAssumption, LinksInv, [Links!Next]_urlVars
  PROVE  LinksInv'
<1>1. ASSUME Links!Next
      PROVE  LinksInv'
  BY <1>1, TickKeeps, ReadKeeps, ShortenKeeps DEF Links!Next
<1>2. ASSUME UNCHANGED urlVars
      PROVE  LinksInv'
  BY <1>2 DEF urlVars, LinksInv, IssuedInv, Links!LinksHold
<1>3. QED
  BY <1>1, <1>2

(* For any codes, URLs and lifetimes: a code a client was told of leads to  *)
(* its URL till the last second of its time.                                *)
THEOREM LinksHoldAlways == Spec => []LinksHold
<1>1. Init => LinksInv
  BY PartsBegin, LinksInit
<1>2. LinksInv /\ [Next]_vars => LinksInv'
  BY PartsAssumption, PartsStep, LinksStep
<1>3. LinksInv => LinksHold
  BY DEF LinksInv, LinksHold
<1>4. QED
  BY <1>1, <1>2, <1>3, PTL DEF Spec

-----------------------------------------------------------------------------
(* The servers that had their turn in this round are one request ahead. *)
TurnsTaken ==
    policy = "round robin" =>
        lead = [s \in Balancer!Server |-> IF s < currentIndex THEN 1 ELSE 0]

(* Only round robin counts turns, only least connections promises room. *)
NothingSpilled ==
    policy = "least connections" => lead = [s \in Balancer!Server |-> 0] /\ ~spilled

BalancerInv == Balancer!TypeOK /\ TurnsTaken /\ NothingSpilled

LEMMA BalancerInit ==
  ASSUME Balancer!BalancerAssumption, Balancer!Init
  PROVE  BalancerInv
<1>1. Servers \in Nat \ {0} /\ MaxQueueSize \in Nat \ {0}
  BY DEF Balancer!BalancerAssumption
<1>2. Balancer!TypeOK
  <2>1. 1 \in Balancer!Server /\ 0 \in 0..MaxQueueSize
    BY <1>1 DEF Balancer!Server
  <2>2. QED
    BY <2>1 DEF Balancer!Init, Balancer!TypeOK
<1>3. TurnsTaken
  <2>1. \A s \in Balancer!Server : ~(s < 1)
    BY DEF Balancer!Server
  <2>2. QED
    BY <2>1 DEF Balancer!Init, TurnsTaken
<1>4. NothingSpilled
  BY DEF Balancer!Init, NothingSpilled
<1>5. QED
  BY <1>2, <1>3, <1>4 DEF BalancerInv

(* A turn moves the boundary between the servers ahead and the others one   *)
(* server on; after the last server's turn all are level again.             *)
LEMMA TurnMoves ==
  ASSUME Balancer!BalancerAssumption, NEW s \in Balancer!Server,
         lead = [t \in Balancer!Server |-> IF t < s THEN 1 ELSE 0]
  PROVE  /\ (s % Servers) + 1 \in Balancer!Server
         /\ Balancer!Served(s) = [t \in Balancer!Server |-> IF t < (s % Servers) + 1 THEN 1 ELSE 0]
<1>. DEFINE more == [lead EXCEPT ![s] = @ + 1]
<1>1. Servers \in Nat \ {0} /\ s \in Nat /\ 1 <= s /\ s <= Servers
  BY DEF Balancer!BalancerAssumption, Balancer!Server
<1>2. more = [t \in Balancer!Server |-> IF t <= s THEN 1 ELSE 0]
  BY <1>1 DEF Balancer!Server
<1>3. CASE s = Servers
  <2>1. s % Servers = 0
    BY <1>1, <1>3
  <2>2. \A t \in Balancer!Server : more[t] = 1
    BY <1>1, <1>2, <1>3 DEF Balancer!Server
  <2>3. Balancer!Served(s) = [t \in Balancer!Server |-> 0]
    BY <2>2 DEF Balancer!Served
  <2>4. \A t \in Balancer!Server : ~(t < 1)
    BY DEF Balancer!Server
  <2>5. QED
    BY <1>1, <2>1, <2>3, <2>4 DEF Balancer!Server
<1>4. CASE s < Servers
  <2>1. s % Servers = s
    BY <1>1, <1>4
  <2>2. Servers \in Balancer!Server /\ ~(more[Servers] > 0)
    BY <1>1, <1>2, <1>4 DEF Balancer!Server
  <2>3. Balancer!Served(s) = more
    BY <2>2 DEF Balancer!Served
  <2>4. \A t \in Balancer!Server : t <= s <=> t < s + 1
    BY <1>1 DEF Balancer!Server
  <2>5. QED
    BY <1>1, <1>2, <1>4, <2>1, <2>3, <2>4 DEF Balancer!Server
<1>5. QED
  BY <1>1, <1>3, <1>4

(* If the least loaded server is full, so are all. *)
LEMMA FullestIsLast ==
  ASSUME Balancer!BalancerAssumption, Balancer!TypeOK, NEW s \in Balancer!Server, Balancer!LeastConnections(s), Balancer!Full(s),
         NEW t \in Balancer!Server
  PROVE  Balancer!Full(t)
<1>1. queue[s] \in Nat /\ queue[t] \in Nat /\ MaxQueueSize \in Nat
  BY DEF Balancer!BalancerAssumption, Balancer!TypeOK
<1>2. queue[s] <= queue[t]
  BY <1>1 DEF Balancer!LeastConnections
<1>3. QED
  BY <1>1, <1>2 DEF Balancer!Full

LEMMA BalancerStep ==
  ASSUME Balancer!BalancerAssumption, BalancerInv, [Balancer!Next]_balancerVars
  PROVE  BalancerInv'
<1>. USE DEF BalancerInv
<1>1. /\ Balancer!TypeOK /\ MaxQueueSize \in Nat \ {0}
      /\ policy \in Balancer!Policy /\ queue \in [Balancer!Server -> 0..MaxQueueSize]
  BY DEF Balancer!BalancerAssumption, Balancer!TypeOK
<1>2. ASSUME NEW s \in Balancer!Server, Balancer!simulateRequest(s)
      PROVE  BalancerInv'
  <2>1. policy' = policy /\ policy \in Balancer!Policy
    BY <1>1, <1>2 DEF Balancer!simulateRequest
  <2>2. queue' \in [Balancer!Server -> 0..MaxQueueSize]
    <3>1. queue[s] \in 0..MaxQueueSize
      BY <1>1
    <3>2. ~Balancer!Full(s) => queue[s] + 1 \in 0..MaxQueueSize
      BY <1>1, <3>1 DEF Balancer!Full
    <3>3. QED
      BY <1>1, <1>2, <3>2 DEF Balancer!simulateRequest
  <2>3. spilled' \in BOOLEAN
    BY <1>1, <1>2 DEF Balancer!simulateRequest, Balancer!TypeOK
  <2>4. CASE policy = "round robin"
    <3>1. s = currentIndex /\ lead = [t \in Balancer!Server |-> IF t < s THEN 1 ELSE 0]
      BY <1>2, <2>4 DEF Balancer!simulateRequest, Balancer!Chosen, Balancer!RoundRobin, TurnsTaken
    <3>2. /\ currentIndex' = (s % Servers) + 1 /\ currentIndex' \in Balancer!Server
          /\ lead' = [t \in Balancer!Server |-> IF t < currentIndex' THEN 1 ELSE 0]
      BY <1>2, <2>4, <3>1, TurnMoves DEF Balancer!simulateRequest
    <3>3. lead' \in [Balancer!Server -> Nat]
      BY <3>2
    <3>4. Balancer!TypeOK'
      BY <2>1, <2>2, <2>3, <3>2, <3>3 DEF Balancer!TypeOK
    <3>5. QED
      BY <2>1, <2>4, <3>2, <3>4 DEF TurnsTaken, NothingSpilled
  <2>5. CASE policy = "least connections"
    <3>1. Balancer!LeastConnections(s)
      BY <1>2, <2>5 DEF Balancer!simulateRequest, Balancer!Chosen
    <3>2. Balancer!Full(s) => \A t \in Balancer!Server : Balancer!Full(t)
      BY <1>1, <3>1, FullestIsLast
    <3>3. ~spilled' /\ lead' = lead /\ currentIndex' = currentIndex
      BY <1>2, <2>5, <3>2 DEF Balancer!simulateRequest, NothingSpilled
    <3>4. Balancer!TypeOK'
      BY <1>1, <2>1, <2>2, <2>3, <3>3 DEF Balancer!TypeOK
    <3>5. QED
      BY <2>1, <2>5, <3>3, <3>4 DEF TurnsTaken, NothingSpilled
  <2>6. QED
    BY <2>1, <2>4, <2>5 DEF Balancer!Policy
<1>3. ASSUME NEW ready \in SUBSET Balancer!Server, Balancer!drainQueues(ready)
      PROVE  BalancerInv'
  <2>1. queue' \in [Balancer!Server -> 0..MaxQueueSize]
    <3>1. \A s \in Balancer!Server : queue[s] > 0 => queue[s] - 1 \in 0..MaxQueueSize
      BY <1>1
    <3>2. QED
      BY <1>1, <1>3, <3>1 DEF Balancer!drainQueues
  <2>2. QED
    BY <1>3, <2>1 DEF Balancer!drainQueues, Balancer!TypeOK, TurnsTaken, NothingSpilled
<1>4. CASE UNCHANGED balancerVars
  BY <1>4 DEF balancerVars, Balancer!TypeOK, TurnsTaken, NothingSpilled
<1>5. QED
  BY <1>2, <1>3, <1>4 DEF Balancer!Next

(* Whatever the number of servers and their speeds: round robin gives no    *)
(* server two requests more than another one got, and least connections     *)
(* drops nothing while a queue has room.                                    *)
THEOREM SpreadsLoadHolds == Spec => []SpreadsLoad
<1>1. Init => BalancerInv
  BY PartsAssumption, PartsBegin, BalancerInit
<1>2. BalancerInv /\ [Next]_vars => BalancerInv'
  BY PartsAssumption, PartsStep, BalancerStep
<1>3. ASSUME BalancerInv
      PROVE  SpreadsLoad
  <2>1. \A s \in Balancer!Server : lead[s] <= 1
    <3>1. CASE policy = "round robin"
      <4>1. \A s \in Balancer!Server : lead[s] = IF s < currentIndex THEN 1 ELSE 0
        BY <1>3, <3>1 DEF BalancerInv, TurnsTaken
      <4>2. QED
        BY <4>1
    <3>2. CASE policy = "least connections"
      <4>1. \A s \in Balancer!Server : lead[s] = 0
        BY <1>3, <3>2 DEF BalancerInv, NothingSpilled
      <4>2. QED
        BY <4>1
    <3>3. QED
      BY <1>3, <3>1, <3>2 DEF BalancerInv, Balancer!TypeOK, Balancer!Policy
  <2>2. QED
    BY <1>3, <2>1 DEF BalancerInv, NothingSpilled, SpreadsLoad, Balancer!SpreadsLoad
<1>4. QED
  BY <1>1, <1>2, <1>3, PTL DEF Spec

-----------------------------------------------------------------------------
(* Every set of naturals that is not empty has a least member. *)
LEMMA LeastOf ==
  ASSUME NEW M, M \subseteq Nat, M # {}
  PROVE  \E x \in M : \A y \in M : x <= y
<1>1. PICK x \in M : \A y \in M : ~(<<y, x>> \in OpToRel(<, Nat))
  BY NatLessThanWellFounded, WFMin
<1>2. ASSUME NEW y \in M
      PROVE  x <= y
  <2>1. x \in Nat /\ y \in Nat
    OBVIOUS
  <2>2. ~(y < x)
    <3>1. <<y, x>> \in Nat \X Nat /\ <<y, x>>[1] = y /\ <<y, x>>[2] = x
      BY <2>1
    <3>2. QED
      BY <1>1, <3>1, Zenon DEF OpToRel
  <2>3. QED
    BY <2>1, <2>2
<1>3. QED
  BY <1>2

-----------------------------------------------------------------------------
(* The young ones of an ascending sequence of ages are a prefix of it, and  *)
(* it is the only prefix with no old one in it and no young one after it.   *)
Ages(s) ==
    /\ s \in Seq(0..Window)
    /\ \A i, j \in 1..Len(s) : i <= j => s[i] <= s[j]
YoungOf(y, s) ==
    /\ y \in Seq(0..Window) /\ Len(y) <= Len(s)
    /\ \A i \in 1..Len(y) : y[i] = s[i] /\ s[i] < Window
    /\ \A i \in 1..Len(s) : i > Len(y) => s[i] = Window

LEMMA YoungIs ==
  ASSUME Limiter!WindowAssumption, NEW s, Ages(s)
  PROVE  YoungOf(Limiter!Young(s), s) /\ Ages(Limiter!Young(s))
<1> DEFINE M == {0} \cup {i \in DOMAIN s : s[i] < Window}
           m == Limiter!Max(M)
<1>1. /\ Window \in Nat \ {0} /\ Len(s) \in Nat /\ DOMAIN s = 1..Len(s)
      /\ s = [i \in 1..Len(s) |-> s[i]]
      /\ \A i \in 1..Len(s) : s[i] \in 0..Window
  BY LenProperties, ElementOfSeq DEF Limiter!WindowAssumption, Ages
<1>2. m \in M /\ \A i \in M : i <= m
  <2>1. \E k \in M : \A i \in M : k >= i
    <3> DEFINE D == {d \in Nat : Len(s) - d \in M}
    <3>1. D # {} /\ D \subseteq Nat
      <4>1. Len(s) - Len(s) = 0 /\ Len(s) \in D
        BY <1>1
      <4>2. QED
        BY <4>1
    <3>2. PICK d \in D : \A e \in D : d <= e
      BY <3>1, LeastOf
    <3>3. ASSUME NEW i \in M
          PROVE  Len(s) - d >= i
      <4>1. i \in 0..Len(s)
        BY <1>1
      <4>2. Len(s) - i \in Nat /\ Len(s) - (Len(s) - i) = i
        BY <1>1, <4>1
      <4>3. Len(s) - i \in D
        BY <4>2
      <4>4. QED
        BY <1>1, <3>2, <4>1, <4>3
    <3>4. QED
      BY <3>3
  <2>2. QED
    BY <1>1, <2>1 DEF Limiter!Max
<1>3. m \in 0..Len(s)
  BY <1>1, <1>2
<1>4. PICK y : y = Limiter!Young(s)
  OBVIOUS
<1>5. y = SubSeq(s, 1, m)
  BY <1>4 DEF Limiter!Young
<1>. HIDE DEF m
<1>6. y \in Seq(0..Window) /\ Len(y) = m /\ \A i \in 1..m : y[i] = s[i]
  <2>1. \A i \in 1..m : s[i] \in 0..Window
    BY <1>1, <1>3
  <2>2. m \in Int /\ 1 \in Int
    BY <1>3
  <2>3. /\ y \in Seq(0..Window) /\ Len(y) = IF 1 <= m THEN m - 1 + 1 ELSE 0
        /\ \A i \in 1..(m - 1 + 1) : y[i] = s[1 + i - 1]
    BY <1>5, <2>1, <2>2, SubSeqProperties
  <2>4. QED
    BY <1>3, <2>3
<1>7. \A i \in 1..m : s[i] < Window
  <2> SUFFICES ASSUME NEW i \in 1..m
               PROVE  s[i] < Window
    OBVIOUS
  <2>1. m # 0 /\ m \in 1..Len(s) /\ i \in 1..Len(s) /\ i <= m
    BY <1>3
  <2>2. s[m] < Window
    BY <1>2, <2>1
  <2>3. s[i] <= s[m]
    BY <2>1 DEF Ages
  <2>4. QED
    BY <1>1, <2>1, <2>2, <2>3
<1>8. \A i \in 1..Len(s) : i > m => s[i] = Window
  <2> SUFFICES ASSUME NEW i \in 1..Len(s), i > m
               PROVE  s[i] = Window
    OBVIOUS
  <2>1. i \notin M
    BY <1>2, <1>3
  <2>2. QED
    BY <1>1, <2>1
<1>9. \A i, j \in 1..Len(y) : i <= j => y[i] <= y[j]
  BY <1>3, <1>6 DEF Ages
<1>10. QED
  BY <1>3, <1>4, <1>6, <1>7, <1>8, <1>9 DEF YoungOf, Ages

LEMMA YoungIsOne ==
  ASSUME Limiter!WindowAssumption, NEW s, Ages(s), NEW y, YoungOf(y, s)
  PROVE  y = Limiter!Young(s)
<1>1. PICK z : z = Limiter!Young(s)
  OBVIOUS
<1>2. YoungOf(z, s)
  BY <1>1, YoungIs
<1>3. Window \in Nat /\ Len(y) \in Nat /\ Len(z) \in Nat /\ Len(s) \in Nat
  BY LenProperties DEF YoungOf, Ages, Limiter!WindowAssumption
<1>4. ~(Len(y) < Len(z))
  <2>1. SUFFICES ASSUME Len(y) < Len(z)
                 PROVE  FALSE
    OBVIOUS
  <2>2. Len(z) \in 1..Len(s) /\ Len(z) \in 1..Len(z)
    BY <1>2, <1>3, <2>1 DEF YoungOf
  <2>3. s[Len(z)] < Window /\ s[Len(z)] = Window
    BY <1>2, <2>1, <2>2 DEF YoungOf
  <2>4. QED
    BY <1>3, <2>3
<1>5. ~(Len(z) < Len(y))
  <2>1. SUFFICES ASSUME Len(z) < Len(y)
                 PROVE  FALSE
    OBVIOUS
  <2>2. Len(y) \in 1..Len(s) /\ Len(y) \in 1..Len(y)
    BY <1>3, <2>1 DEF YoungOf
  <2>3. s[Len(y)] < Window /\ s[Len(y)] = Window
    BY <1>2, <2>1, <2>2 DEF YoungOf
  <2>4. QED
    BY <1>3, <2>3
<1>6. Len(y) = Len(z) /\ \A i \in 1..Len(y) : y[i] = z[i]
  BY <1>2, <1>3, <1>4, <1>5 DEF YoungOf
<1>7. y \in Seq(0..Window) /\ z \in Seq(0..Window)
  BY <1>2 DEF YoungOf
<1>8. QED
  BY <1>1, <1>6, <1>7, SeqEqual

LEMMA YoungOfYoung ==
  ASSUME Limiter!WindowAssumption, NEW s, Ages(s), \A i \in 1..Len(s) : s[i] < Window
  PROVE  s = Limiter!Young(s)
<1>1. s \in Seq(0..Window) /\ Len(s) \in Nat
  BY LenProperties DEF Ages
<1>2. Len(s) <= Len(s) /\ \A i \in 1..Len(s) : ~(i > Len(s))
  BY <1>1
<1>3. YoungOf(s, s)
  BY <1>1, <1>2 DEF YoungOf
<1>4. QED
  BY <1>3, YoungIsOne

(* Requests admitted now come first and are young.                          *)
LEMMA NowFirst ==
  ASSUME Limiter!WindowAssumption, NEW s, Ages(s), NEW n \in Nat
  PROVE  /\ Ages(Limiter!Now(n) \o s) /\ Len(Limiter!Now(n) \o s) = n + Len(s)
         /\ \A i \in 1..(n + Len(s)) :
               (Limiter!Now(n) \o s)[i] = IF i <= n THEN 0 ELSE s[i - n]
<1>1. Window \in Nat /\ s \in Seq(0..Window) /\ Len(s) \in Nat
      /\ \A i \in 1..Len(s) : s[i] \in 0..Window
  BY LenProperties, ElementOfSeq DEF Limiter!WindowAssumption, Ages
<1>2. PICK z : z = Limiter!Now(n)
  OBVIOUS
<1>3. z \in Seq(0..Window) /\ Len(z) = n /\ \A i \in 1..n : z[i] = 0
  BY <1>1, <1>2 DEF Limiter!Now
<1>4. PICK t : t = z \o s
  OBVIOUS
<1>5. /\ t \in Seq(0..Window) /\ Len(t) = n + Len(s)
      /\ \A i \in 1..(n + Len(s)) : t[i] = IF i <= n THEN z[i] ELSE s[i - n]
  BY <1>1, <1>3, <1>4, ConcatProperties
<1>6. \A i \in 1..(n + Len(s)) : t[i] = IF i <= n THEN 0 ELSE s[i - n]
  BY <1>3, <1>5
<1>7. ASSUME NEW i \in 1..Len(t), NEW j \in 1..Len(t), i <= j
      PROVE  t[i] <= t[j]
  <2>1. CASE i <= n
    <3>1. t[i] = 0
      BY <1>5, <1>6, <2>1
    <3>2. t[j] \in 0..Window
      BY <1>5, ElementOfSeq
    <3>3. QED
      BY <1>1, <3>1, <3>2
  <2>2. CASE ~(i <= n)
    <3>1. i - n \in 1..Len(s) /\ j - n \in 1..Len(s) /\ i - n <= j - n /\ ~(j <= n)
      BY <1>1, <1>5, <1>7, <2>2
    <3>2. t[i] = s[i - n] /\ t[j] = s[j - n]
      BY <1>5, <1>6, <2>2, <3>1
    <3>3. QED
      BY <3>1, <3>2 DEF Ages
  <2>3. QED
    BY <2>1, <2>2
<1>8. QED
  BY <1>2, <1>4, <1>5, <1>6, <1>7 DEF Ages

-----------------------------------------------------------------------------
(* A bucket: the i youngest grants and what it can still give never exceed  *)
(* its capacity and a token for each tick since the i-th.                   *)
BucketInv ==
    kind = "bucket" =>
        \A i \in 1..Len(granted) : i + Limiter!Refilled <= Limit + granted[i]

(* A sliding log remembers exactly the grants of the last window.           *)
LogInv ==
    kind \in {"log", "costed log"} => granted = Limiter!Young(times) /\ Len(granted) <= Limit

(* A fixed window: what its key has granted so far, and before it another   *)
(* window's grants, which are old by the time the key expires.  Since the   *)
(* i-th youngest grant it let through no more than that, and one for each   *)
(* command that failed since.                                               *)
Current == (IF count < Limit THEN count ELSE Limit) - (IF expiring THEN 1 ELSE 0)

Within(g, b, i, n) == \E f \in 0..Len(b) : (f # 0 => b[f] <= g[i]) /\ i <= n + f

CounterInv ==
    /\ expiring => kind = "counter" /\ count # 0 /\ ttl = 0
    /\ ttl # 0 => count # 0
    /\ kind = "counter" =>
          \A i \in 1..Len(granted) :
              /\ Within(granted, failed, i, Limit + Current)
              /\ ttl # 0 /\ granted[i] + ttl < Window => Within(granted, failed, i, Current)

Recent(s) == Ages(s) /\ \A i \in 1..Len(s) : s[i] < Window

WindowInv ==
    /\ Limiter!TypeOK /\ Ages(times) /\ Recent(granted) /\ Recent(failed)
    /\ BucketInv /\ LogInv /\ CounterInv

LEMMA WindowFacts ==
  ASSUME Limiter!WindowAssumption, WindowInv
  PROVE  /\ Window \in Nat \ {0} /\ Limit \in Nat \ {0}
         /\ kind \in {"bucket", "log", "costed log", "counter"}
         /\ tokens \in 0..Limit /\ elapsed \in 0..Limit
         /\ count \in 0..(Limit + 1) /\ ttl \in 0..Window /\ expiring \in BOOLEAN
         /\ Len(granted) \in Nat /\ \A i \in 1..Len(granted) : granted[i] \in 0..(Window - 1)
         /\ Len(times) \in Nat /\ \A i \in 1..Len(times) : times[i] \in 0..Window
         /\ granted \in Seq(0..Window) /\ times \in Seq(0..Window)
         /\ Len(failed) \in Nat /\ \A i \in 1..Len(failed) : failed[i] \in 0..(Window - 1)
         /\ Current \in 0..Limit
<1>1. /\ Window \in Nat \ {0} /\ Limit \in Nat \ {0}
  BY DEF Limiter!WindowAssumption
<1>2. /\ kind \in {"bucket", "log", "costed log", "counter"}
      /\ tokens \in 0..Limit /\ elapsed \in 0..Limit
      /\ count \in 0..(Limit + 1) /\ ttl \in 0..Window /\ expiring \in BOOLEAN
  BY DEF WindowInv, Limiter!TypeOK
<1>3. /\ granted \in Seq(0..Window) /\ times \in Seq(0..Window)
      /\ Len(granted) \in Nat /\ Len(times) \in Nat /\ Len(failed) \in Nat
      /\ \A i \in 1..Len(granted) : granted[i] \in 0..Window
      /\ \A i \in 1..Len(times) : times[i] \in 0..Window
      /\ \A i \in 1..Len(failed) : failed[i] \in 0..Window
  BY LenProperties, ElementOfSeq DEF WindowInv, Ages, Recent
<1>4. /\ \A i \in 1..Len(granted) : granted[i] \in 0..(Window - 1)
      /\ \A i \in 1..Len(failed) : failed[i] \in 0..(Window - 1)
  BY <1>1, <1>3 DEF WindowInv, Recent
<1>5. Current \in 0..Limit
  <2> DEFINE c == IF count < Limit THEN count ELSE Limit
  <2>1. Limit \in Nat \ {0} /\ count \in 0..(Limit + 1)
    BY <1>1, <1>2
  <2>2. c \in 0..Limit
    BY <2>1
  <2>3. count # 0 => c # 0
    BY <2>1
  <2>. HIDE DEF c
  <2>4. CASE expiring
    <3>1. Current = c - 1
      BY <2>4 DEF Current, c
    <3>2. c # 0
      BY <2>3, <2>4 DEF WindowInv, CounterInv
    <3>3. QED
      BY <2>1, <2>2, <3>1, <3>2
  <2>5. CASE ~expiring
    <3>1. Current = c - 0
      BY <2>5 DEF Current, c
    <3>2. QED
      BY <2>1, <2>2, <3>1
  <2>6. QED
    BY <2>4, <2>5
<1>6. QED
  BY <1>1, <1>2, <1>3, <1>4, <1>5

LEMMA WindowInit ==
  ASSUME Limiter!WindowAssumption, Limiter!Init
  PROVE  WindowInv
<1>1. /\ Window \in Nat \ {0} /\ Limit \in Nat \ {0}
      /\ kind \in {"bucket", "log", "costed log", "counter"}
      /\ tokens = Limit /\ elapsed = 0 /\ times = <<>> /\ granted = <<>> /\ failed = <<>>
      /\ count = 0 /\ ttl = 0 /\ expiring = FALSE
  BY DEF Limiter!WindowAssumption, Limiter!Init
<1>2. PICK e : e = <<>>
  OBVIOUS
<1>3. /\ e \in Seq(0..Window) /\ Len(e) = 0 /\ 1..Len(e) = {}
      /\ times = e /\ granted = e /\ failed = e
  <2>1. e \in Seq(0..Window) /\ Len(e) = 0 /\ 1..Len(e) = {}
    BY <1>2
  <2>2. times = e /\ granted = e /\ failed = e
    BY <1>1, <1>2
  <2>3. QED
    BY <2>1, <2>2
<1>4. Limit \in Nat /\ 0 < Limit /\ Window \in Nat
  BY DEF Limiter!WindowAssumption
<1>5. Ages(e)
  BY <1>3 DEF Ages
<1>6. Limiter!TypeOK
  <2>1. tokens = Limit /\ elapsed = 0 /\ count = 0 /\ ttl = 0
    BY <1>1
  <2>2. tokens \in 0..Limit /\ elapsed \in 0..Limit /\ count \in 0..(Limit + 1) /\ ttl \in 0..Window
    BY <1>4, <2>1
  <2>3. QED
    BY <1>1, <1>3, <2>2 DEF Limiter!TypeOK, Limiter!Ages
<1>7. Recent(granted) /\ Recent(failed) /\ Ages(times)
  BY <1>3, <1>5 DEF Recent
<1>8. BucketInv
  BY <1>3 DEF BucketInv
<1>9. LogInv
  <2>1. YoungOf(e, e)
    BY <1>3 DEF YoungOf
  <2>2. e = Limiter!Young(e)
    BY <1>5, <2>1, YoungIsOne
  <2>3. Len(granted) <= Limit
    BY <1>3, <1>4
  <2>4. QED
    BY <1>3, <2>2, <2>3 DEF LogInv
<1>10. CounterInv
  <2>1. count = 0 /\ expiring = FALSE /\ ttl = 0
    BY <1>1
  <2>2. QED
    BY <1>3, <2>1 DEF CounterInv
<1>11. QED
  BY <1>6, <1>7, <1>8, <1>9, <1>10 DEF WindowInv

(* What comes first in a record moves the others back by as many.           *)
LEMMA NowKeeps ==
  ASSUME Limiter!WindowAssumption, NEW s, Recent(s), NEW n \in Nat, NEW t, t = Limiter!Now(n) \o s
  PROVE  /\ Recent(t) /\ Len(t) = n + Len(s) /\ Len(t) = Len(s) + n
         /\ \A i \in 1..(n + Len(s)) : t[i] = IF i <= n THEN 0 ELSE s[i - n]
<1>1. Window \in Nat \ {0} /\ Len(s) \in Nat /\ Ages(s)
  BY LenProperties DEF Limiter!WindowAssumption, Recent, Ages
<1>2. /\ Ages(t) /\ Len(t) = n + Len(s)
      /\ \A i \in 1..(n + Len(s)) : t[i] = IF i <= n THEN 0 ELSE s[i - n]
  BY <1>1, NowFirst
<1>3. ASSUME NEW i \in 1..Len(t)
      PROVE  t[i] < Window
  <2>1. CASE i <= n
    BY <1>1, <1>2, <2>1
  <2>2. CASE ~(i <= n)
    <3>1. i - n \in 1..Len(s) /\ t[i] = s[i - n]
      BY <1>1, <1>2, <2>2
    <3>2. QED
      BY <3>1 DEF Recent
  <2>3. QED
    BY <2>1, <2>2
<1>4. n + Len(s) = Len(s) + n
  BY <1>1
<1>5. QED
  BY <1>2, <1>3, <1>4 DEF Recent

LEMMA GrantKeeps ==
  ASSUME Limiter!WindowAssumption, Recent(granted), NEW n \in Nat, Limiter!Grant(n)
  PROVE  /\ Recent(granted') /\ Len(granted') = n + Len(granted) /\ Len(granted') = Len(granted) + n
         /\ \A i \in 1..(n + Len(granted)) :
               granted'[i] = IF i <= n THEN 0 ELSE granted[i - n]
BY NowKeeps DEF Limiter!Grant

LEMMA ConsumeKeeps ==
  ASSUME Limiter!WindowAssumption, WindowInv, Limiter!Consume
  PROVE  WindowInv'
<1>1. /\ Window \in Nat \ {0} /\ Limit \in Nat \ {0} /\ tokens \in 0..Limit /\ elapsed \in 0..Limit
      /\ Len(granted) \in Nat /\ \A i \in 1..Len(granted) : granted[i] \in 0..(Window - 1)
  BY WindowFacts
<1>2. /\ kind = "bucket" /\ kind' = kind /\ times' = times /\ elapsed' = 0
      /\ count' = count /\ ttl' = ttl /\ expiring' = expiring /\ failed' = failed
  BY DEF Limiter!Consume, Limiter!counterVars
<1>3. PICK r : r = Limiter!Refilled
  OBVIOUS
<1>4. r \in 0..Limit
  BY <1>1, <1>3 DEF Limiter!Refilled
<1>5. \A i \in 1..Len(granted) : i + r <= Limit + granted[i]
  BY <1>2, <1>3 DEF WindowInv, BucketInv
<1>6. Recent(granted) /\ Ages(times)
  BY DEF WindowInv
<1>7. tokens' \in 0..Limit /\ Recent(granted') /\ \A i \in 1..Len(granted') : i + tokens' <= Limit + granted'[i]
  <2>1. CASE r >= 1
    <3>1. tokens' = r - 1 /\ Limiter!Grant(1)
      BY <1>3, <2>1 DEF Limiter!Consume
    <3>2. /\ Recent(granted') /\ Len(granted') = 1 + Len(granted)
          /\ \A i \in 1..(1 + Len(granted)) : granted'[i] = IF i <= 1 THEN 0 ELSE granted[i - 1]
      BY <1>6, <3>1, GrantKeeps
    <3>3. ASSUME NEW i \in 1..Len(granted')
          PROVE  i + tokens' <= Limit + granted'[i]
      <4>1. CASE i = 1
        BY <1>1, <1>4, <3>1, <3>2, <4>1
      <4>2. CASE i # 1
        <5>1. i - 1 \in 1..Len(granted) /\ granted'[i] = granted[i - 1]
          BY <1>1, <3>2, <4>2
        <5>2. (i - 1) + r <= Limit + granted[i - 1] /\ granted[i - 1] \in Int
          BY <1>1, <1>5, <5>1
        <5>3. QED
          BY <1>1, <1>4, <3>1, <5>1, <5>2
      <4>3. QED
        BY <4>1, <4>2
    <3>4. QED
      BY <1>1, <1>4, <2>1, <3>1, <3>2, <3>3
  <2>2. CASE ~(r >= 1)
    <3>1. tokens' = r /\ granted' = granted
      BY <1>3, <2>2 DEF Limiter!Consume
    <3>2. Recent(granted')
      BY <1>6, <3>1 DEF Recent, Ages
    <3>3. QED
      BY <1>4, <1>5, <3>1, <3>2
  <2>3. QED
    BY <2>1, <2>2
<1>8. BucketInv'
  <2>1. Limiter!Refilled' = IF tokens' + 0 < Limit THEN tokens' + 0 ELSE Limit
    BY <1>2 DEF Limiter!Refilled
  <2>2. Limiter!Refilled' = tokens'
    <3>1. PICK t : t = tokens'
      OBVIOUS
    <3>2. Limit \in Nat /\ t \in 0..Limit
      BY <1>1, <1>7, <3>1
    <3>3. t = IF t + 0 < Limit THEN t + 0 ELSE Limit
      BY <3>2
    <3>4. QED
      BY <2>1, <3>1, <3>3
  <2>3. QED
    BY <1>7, <2>2 DEF BucketInv
<1>9. Limiter!TypeOK'
  <2>1. granted' \in Limiter!Ages
    BY <1>7 DEF Recent, Ages, Limiter!Ages
  <2>2. QED
    BY <1>1, <1>2, <1>7, <2>1 DEF WindowInv, Limiter!TypeOK
<1>10. Ages(times)' /\ Recent(failed') /\ LogInv' /\ CounterInv'
  BY <1>2, <1>6 DEF WindowInv, Ages, LogInv, CounterInv
<1>11. QED
  BY <1>7, <1>8, <1>9, <1>10 DEF WindowInv

(* Both logs: what they remember and what they granted are the same again.  *)
LEMMA LogKeeps ==
  ASSUME Limiter!WindowAssumption, WindowInv, kind \in {"log", "costed log"},
         times' = granted', Recent(granted'), Len(granted') <= Limit,
         UNCHANGED <<kind, tokens, elapsed, count, ttl, expiring, failed>>
  PROVE  WindowInv'
<1>1. Ages(times)' /\ granted' \in Limiter!Ages /\ times' \in Limiter!Ages
  BY DEF Recent, Ages, Limiter!Ages
<1>2. LogInv'
  <2>1. PICK g : g = granted'
    OBVIOUS
  <2>2. Ages(g) /\ \A i \in 1..Len(g) : g[i] < Window
    BY <2>1 DEF Recent, Ages
  <2>3. g = Limiter!Young(g)
    BY <2>2, YoungOfYoung
  <2>4. Limiter!Young(times)' = Limiter!Young(g)
    BY <2>1 DEF Limiter!Young
  <2>5. QED
    BY <2>1, <2>3, <2>4 DEF LogInv
<1>3. BucketInv' /\ CounterInv' /\ Recent(failed')
  BY DEF WindowInv, BucketInv, CounterInv
<1>4. Limiter!TypeOK'
  BY <1>1 DEF WindowInv, Limiter!TypeOK
<1>5. QED
  BY <1>1, <1>2, <1>3, <1>4 DEF WindowInv

LEMMA LogGrants ==
  ASSUME Limiter!WindowAssumption, WindowInv, kind \in {"log", "costed log"}, NEW n \in Nat,
         Limiter!HasRoom(Limiter!Young(times), n),
         times' = Limiter!Now(n) \o Limiter!Young(times), Limiter!Grant(n)
  PROVE  times' = granted' /\ Recent(granted') /\ Len(granted') <= Limit
<1>1. granted = Limiter!Young(times) /\ Recent(granted)
  BY DEF WindowInv, LogInv
<1>2. times' = granted'
  BY <1>1 DEF Limiter!Grant
<1>3. Recent(granted') /\ Len(granted') = Len(granted) + n
  BY <1>1, GrantKeeps
<1>4. Len(granted) + n <= Limit
  BY <1>1 DEF Limiter!HasRoom
<1>5. Len(granted') <= Limit
  BY <1>3, <1>4
<1>6. QED
  BY <1>2, <1>3, <1>5

LEMMA CheckLimitKeeps ==
  ASSUME Limiter!WindowAssumption, WindowInv, Limiter!CheckLimit
  PROVE  WindowInv'
<1>1. kind = "log" /\ UNCHANGED <<kind, tokens, elapsed, count, ttl, expiring, failed>>
  BY DEF Limiter!CheckLimit, Limiter!bucketVars, Limiter!counterVars
<1>2. times' = granted' /\ Recent(granted') /\ Len(granted') <= Limit
  <2>1. CASE Limiter!HasRoom(Limiter!Young(times), 1)
    <3>1. times' = Limiter!Now(1) \o Limiter!Young(times) /\ Limiter!Grant(1)
      BY <2>1 DEF Limiter!CheckLimit
    <3>2. 1 \in Nat
      OBVIOUS
    <3>3. QED
      BY <1>1, <2>1, <3>1, <3>2, LogGrants
  <2>2. CASE ~Limiter!HasRoom(Limiter!Young(times), 1)
    <3>1. times' = Limiter!Young(times) /\ granted' = granted
      BY <2>2 DEF Limiter!CheckLimit
    <3>2. QED
      BY <1>1, <3>1 DEF WindowInv, LogInv, Recent, Ages
  <2>3. QED
    BY <2>1, <2>2
<1>3. QED
  BY <1>1, <1>2, LogKeeps

LEMMA AllowKeeps ==
  ASSUME Limiter!WindowAssumption, WindowInv, NEW cost \in Costs, Limiter!Allow(cost)
  PROVE  WindowInv'
<1>1. kind = "costed log" /\ UNCHANGED <<kind, tokens, elapsed, count, ttl, expiring, failed>>
  BY DEF Limiter!Allow, Limiter!bucketVars, Limiter!counterVars
<1>2. cost \in Nat
  BY DEF Limiter!WindowAssumption
<1>3. /\ Limiter!HasRoom(Limiter!Young(times), cost)
      /\ times' = Limiter!Now(cost) \o Limiter!Young(times) /\ Limiter!Grant(cost)
  BY DEF Limiter!Allow
<1>4. times' = granted' /\ Recent(granted') /\ Len(granted') <= Limit
  BY <1>1, <1>2, <1>3, LogGrants
<1>5. QED
  BY <1>1, <1>4, LogKeeps

(* A grant moves the others on by one: one more of the window's own, or of  *)
(* the failures.                                                            *)
LEMMA WithinOfGrants ==
  ASSUME NEW g, Len(g) \in Nat, NEW b, Len(b) \in Nat, NEW n \in Nat,
         NEW h, \A i \in 1..(1 + Len(g)) : h[i] = IF i <= 1 THEN 0 ELSE g[i - 1]
  PROVE  /\ Within(h, b, 1, n + 1)
         /\ \A i \in 1..Len(g) : Within(g, b, i, n) => Within(h, b, i + 1, n + 1)
<1>1. Within(h, b, 1, n + 1)
  <2>1. 0 \in 0..Len(b) /\ 1 <= (n + 1) + 0
    OBVIOUS
  <2>2. QED
    BY <2>1 DEF Within
<1>2. ASSUME NEW i \in 1..Len(g), Within(g, b, i, n)
      PROVE  Within(h, b, i + 1, n + 1)
  <2>1. PICK f \in 0..Len(b) : (f # 0 => b[f] <= g[i]) /\ i <= n + f
    BY <1>2 DEF Within
  <2>2. i + 1 \in 1..(1 + Len(g)) /\ ~(i + 1 <= 1) /\ (i + 1) - 1 = i
    OBVIOUS
  <2>3. h[i + 1] = g[i]
    BY <2>2
  <2>4. i + 1 <= (n + 1) + f
    BY <2>1
  <2>5. QED
    BY <2>1, <2>3, <2>4 DEF Within
<1>3. QED
  BY <1>1, <1>2

LEMMA WithinOfFailures ==
  ASSUME NEW g, Len(g) \in Nat, \A i \in 1..Len(g) : g[i] \in Nat,
         NEW b, Len(b) \in Nat, NEW n \in Nat,
         NEW h, \A i \in 1..(1 + Len(g)) : h[i] = IF i <= 1 THEN 0 ELSE g[i - 1],
         NEW d, Len(d) = 1 + Len(b),
         \A i \in 1..(1 + Len(b)) : d[i] = IF i <= 1 THEN 0 ELSE b[i - 1]
  PROVE  /\ Within(h, d, 1, n)
         /\ \A i \in 1..Len(g) : Within(g, b, i, n) => Within(h, d, i + 1, n)
<1>1. Within(h, d, 1, n)
  <2>1. 1 \in 0..Len(d) /\ 1 <= n + 1 /\ d[1] = 0 /\ h[1] = 0
    OBVIOUS
  <2>2. 0 <= 0
    OBVIOUS
  <2>3. QED
    BY <2>1, <2>2 DEF Within
<1>2. ASSUME NEW i \in 1..Len(g), Within(g, b, i, n)
      PROVE  Within(h, d, i + 1, n)
  <2>1. PICK f \in 0..Len(b) : (f # 0 => b[f] <= g[i]) /\ i <= n + f
    BY <1>2 DEF Within
  <2>2. i + 1 \in 1..(1 + Len(g)) /\ ~(i + 1 <= 1) /\ (i + 1) - 1 = i
    OBVIOUS
  <2>3. h[i + 1] = g[i]
    BY <2>2
  <2>4. f + 1 \in 0..Len(d) /\ f + 1 \in 1..(1 + Len(b)) /\ i + 1 <= n + (f + 1)
    BY <2>1
  <2>5. d[f + 1] <= g[i]
    <3>1. CASE f = 0
      <4>1. f + 1 <= 1
        BY <3>1
      <4>2. d[f + 1] = 0
        BY <2>4, <4>1
      <4>3. g[i] \in Nat
        OBVIOUS
      <4>4. QED
        BY <4>2, <4>3
    <3>2. CASE f # 0
      <4>1. ~(f + 1 <= 1) /\ (f + 1) - 1 = f
        BY <2>1, <3>2
      <4>2. d[f + 1] = b[f]
        BY <2>4, <4>1
      <4>3. QED
        BY <2>1, <3>2, <4>2
    <3>3. QED
      BY <3>1, <3>2
  <2>6. QED
    BY <2>3, <2>4, <2>5 DEF Within
<1>3. QED
  BY <1>1, <1>2

LEMMA WithinMore ==
  ASSUME NEW g, NEW b, Len(b) \in Nat, NEW i \in Nat, NEW n \in Nat, NEW m \in Nat, n <= m,
         Within(g, b, i, n)
  PROVE  Within(g, b, i, m)
<1>1. PICK f \in 0..Len(b) : (f # 0 => b[f] <= g[i]) /\ i <= n + f
  BY DEF Within
<1>2. i <= m + f
  BY <1>1
<1>3. QED
  BY <1>1, <1>2 DEF Within

LEMMA NowOne ==
  ASSUME Limiter!WindowAssumption, NEW s, Recent(s), NEW t, t = Limiter!Now(1) \o s
  PROVE  /\ Len(s) \in Nat /\ Len(t) = 1 + Len(s) /\ \A i \in 1..Len(s) : s[i] \in Nat
         /\ \A i \in 1..(1 + Len(s)) : t[i] = IF i <= 1 THEN 0 ELSE s[i - 1]
<1>1. Len(s) \in Nat /\ \A i \in 1..Len(s) : s[i] \in 0..Window
  BY LenProperties, ElementOfSeq DEF Recent, Ages
<1>2. 1 \in Nat /\ \A i \in 1..Len(s) : s[i] \in Nat
  BY <1>1 DEF Limiter!WindowAssumption
<1>3. QED
  BY <1>1, <1>2, NowKeeps

LEMMA CounterGrows ==
  ASSUME Limiter!WindowAssumption, NEW g, Recent(g), NEW b, Recent(b), NEW h, h = Limiter!Now(1) \o g,
         NEW c \in Nat, NEW e \in Nat,
         NEW d, (e = c + 1 /\ d = b) \/ (e \in {c, c + 1} /\ d = Limiter!Now(1) \o b), NEW n \in Nat
  PROVE  /\ Within(h, d, 1, n + e)
         /\ \A i \in 1..Len(g) : Within(g, b, i, n + c) => Within(h, d, i + 1, n + e)
<1>1. /\ Len(g) \in Nat /\ \A i \in 1..Len(g) : g[i] \in Nat
      /\ \A i \in 1..(1 + Len(g)) : h[i] = IF i <= 1 THEN 0 ELSE g[i - 1]
  BY NowOne
<1>2. Len(b) \in Nat /\ n + c \in Nat /\ n + e \in Nat
  BY LenProperties DEF Recent, Ages
<1>3. CASE e = c + 1 /\ d = b
  <2>1. n + e = (n + c) + 1
    BY <1>3
  <2>2. QED
    BY <1>1, <1>2, <1>3, <2>1, WithinOfGrants
<1>4. CASE e \in {c, c + 1} /\ d = Limiter!Now(1) \o b
  <2>1. Len(d) = 1 + Len(b) /\ \A i \in 1..(1 + Len(b)) : d[i] = IF i <= 1 THEN 0 ELSE b[i - 1]
    BY <1>4, NowOne
  <2>2. Len(d) \in Nat /\ n + c <= n + e
    BY <1>2, <1>4, <2>1
  <2>3. /\ Within(h, d, 1, n + c)
        /\ \A i \in 1..Len(g) : Within(g, b, i, n + c) => Within(h, d, i + 1, n + c)
    <3>1. PICK m \in Nat : m = n + c
      BY <1>2
    <3>2. /\ Within(h, d, 1, m)
          /\ \A i \in 1..Len(g) : Within(g, b, i, m) => Within(h, d, i + 1, m)
      BY <1>1, <1>2, <2>1, WithinOfFailures
    <3>3. QED
      BY <3>1, <3>2
  <2>4. 1 \in Nat /\ \A i \in 1..Len(g) : i + 1 \in Nat
    BY <1>1
  <2>5. QED
    BY <1>2, <2>2, <2>3, <2>4, WithinMore
<1>5. QED
  BY <1>3, <1>4

(* The counter admits one more of its window, or one for a failure, or      *)
(* nothing.                                                                 *)
LEMMA CounterGrants ==
  ASSUME Limiter!WindowAssumption, WindowInv, kind = "counter",
         UNCHANGED <<kind, tokens, elapsed, times>>,
         count' \in 0..(Limit + 1), ttl' \in 0..Window, expiring' \in BOOLEAN,
         expiring' => count' # 0 /\ ttl' = 0, ttl' # 0 => count' # 0,
         \/ /\ Current' = Current /\ ttl' \in {0, ttl}
            /\ granted' = granted /\ failed' = failed
         \/ /\ Current' = Current + 1 /\ ttl' \in {0, ttl, Window}
            /\ Limiter!Grant(1) /\ failed' = failed
         \/ /\ Current' \in {Current, Current + 1} /\ ttl' = ttl
            /\ Limiter!Grant(1) /\ failed' = Limiter!Now(1) \o failed
  PROVE  WindowInv'
<1>1. /\ Window \in Nat /\ Limit \in Nat /\ Current \in Nat /\ Len(granted) \in Nat
      /\ ttl \in 0..Window /\ \A i \in 1..Len(granted) : granted[i] \in 0..(Window - 1)
  BY WindowFacts
<1>2. Recent(granted) /\ Recent(failed)
  BY DEF WindowInv
<1>3. \A i \in 1..Len(granted) :
        /\ Within(granted, failed, i, Limit + Current)
        /\ ttl # 0 /\ granted[i] + ttl < Window => Within(granted, failed, i, Current)
  BY DEF WindowInv, CounterInv
<1>4. /\ Recent(granted') /\ Recent(failed')
      /\ \A i \in 1..Len(granted') :
            /\ Within(granted', failed', i, Limit + Current')
            /\ ttl' # 0 /\ granted'[i] + ttl' < Window => Within(granted', failed', i, Current')
  <2>1. CASE Current' = Current /\ ttl' \in {0, ttl} /\ granted' = granted /\ failed' = failed
    BY <1>2, <1>3, <2>1
  <2>2. CASE Limiter!Grant(1) /\ (failed' = failed \/ failed' = Limiter!Now(1) \o failed)
    <3>1. /\ Recent(granted') /\ Len(granted') = 1 + Len(granted)
          /\ \A i \in 1..(1 + Len(granted)) : granted'[i] = IF i <= 1 THEN 0 ELSE granted[i - 1]
      BY <1>2, <2>2, GrantKeeps
    <3>2. Recent(failed')
      BY <1>2, <2>2, NowKeeps
    <3>3. PICK e : e = Current'
      OBVIOUS
    <3>4. PICK c : c = Current
      OBVIOUS
    <3>5. /\ c \in Nat /\ e \in Nat
          /\ \/ e = c + 1 /\ failed' = failed
             \/ e \in {c, c + 1} /\ failed' = Limiter!Now(1) \o failed
      <4>1. granted' # granted /\ c \in Nat
        BY <1>1, <3>1, <3>4
      <4>2. e = c + 1 \/ e \in {c, c + 1}
        BY <3>3, <3>4, <4>1
      <4>3. e \in Nat
        BY <4>1, <4>2
      <4>4. QED
        BY <3>3, <3>4, <4>1, <4>3
    <3>6. ASSUME NEW n \in Nat
          PROVE  /\ Within(granted', failed', 1, n + e)
                 /\ \A i \in 1..Len(granted) :
                       Within(granted, failed, i, n + c) => Within(granted', failed', i + 1, n + e)
      <4>1. granted' = Limiter!Now(1) \o granted
        BY <2>2 DEF Limiter!Grant
      <4>2. PICK h : h = granted'
        OBVIOUS
      <4>3. PICK d : d = failed'
        OBVIOUS
      <4>4. h = Limiter!Now(1) \o granted
        BY <4>1, <4>2
      <4>5. (e = c + 1 /\ d = failed) \/ (e \in {c, c + 1} /\ d = Limiter!Now(1) \o failed)
        BY <3>5, <4>3
      <4>6. /\ Within(h, d, 1, n + e)
            /\ \A i \in 1..Len(granted) : Within(granted, failed, i, n + c) => Within(h, d, i + 1, n + e)
        BY <1>2, <3>5, <4>4, <4>5, CounterGrows
      <4>7. QED
        BY <4>2, <4>3, <4>6
    <3>7. 0 \in Nat /\ Limit \in Nat /\ 0 + c = c /\ 0 + e = e
      BY <1>1, <3>5
    <3>8. ASSUME NEW i \in 1..Len(granted')
          PROVE  /\ Within(granted', failed', i, Limit + e)
                 /\ ttl' # 0 /\ granted'[i] + ttl' < Window => Within(granted', failed', i, e)
      <4>1. CASE i = 1
        <5>1. Within(granted', failed', 1, Limit + e) /\ Within(granted', failed', 1, 0 + e)
          BY <3>6, <3>7
        <5>2. QED
          BY <3>7, <4>1, <5>1
      <4>2. CASE i # 1
        <5>1. PICK k : k = i - 1
          OBVIOUS
        <5>2. k \in 1..Len(granted) /\ i = k + 1 /\ granted'[i] = granted[k]
          BY <1>1, <3>1, <4>2, <5>1
        <5>3. Within(granted', failed', i, Limit + e)
          BY <1>3, <3>4, <3>6, <3>7, <5>2
        <5>4. ASSUME ttl' # 0, granted'[i] + ttl' < Window
              PROVE  Within(granted', failed', i, e)
          <6>1. granted[k] \in 0..(Window - 1) /\ ttl' \in {ttl, Window}
            BY <1>1, <2>2, <5>2, <5>4
          <6>2. ttl' = ttl
            BY <1>1, <5>2, <5>4, <6>1
          <6>3. Within(granted, failed, k, 0 + c)
            BY <1>3, <3>4, <3>7, <5>2, <5>4, <6>2
          <6>4. Within(granted', failed', k + 1, 0 + e)
            BY <3>6, <3>7, <5>2, <6>3
          <6>5. QED
            BY <3>7, <5>2, <6>4
        <5>5. QED
          BY <5>3, <5>4
      <4>3. QED
        BY <4>1, <4>2
    <3>9. QED
      BY <3>1, <3>2, <3>3, <3>8
  <2>3. QED
    BY <2>1, <2>2
<1>5. CounterInv'
  BY <1>4 DEF CounterInv
<1>6. Limiter!TypeOK'
  <2>1. granted' \in Limiter!Ages /\ failed' \in Limiter!Ages
    BY <1>4 DEF Recent, Ages, Limiter!Ages
  <2>2. QED
    BY <2>1 DEF WindowInv, Limiter!TypeOK
<1>7. Ages(times)' /\ BucketInv' /\ LogInv'
  BY DEF WindowInv, Ages, BucketInv, LogInv
<1>8. QED
  BY <1>4, <1>5, <1>6, <1>7 DEF WindowInv

LEMMA IncrKeeps ==
  ASSUME Limiter!WindowAssumption, WindowInv, Limiter!Incr
  PROVE  WindowInv'
<1>1. /\ kind = "counter" /\ UNCHANGED <<kind, tokens, elapsed, times, ttl, failed>>
      /\ count' = (IF count > Limit THEN count ELSE count + 1)
      /\ expiring' = (expiring \/ count = 0)
  BY DEF Limiter!Incr, Limiter!Counted, Limiter!bucketVars
<1>2. Limit \in Nat /\ 0 < Limit /\ count \in 0..(Limit + 1)
  <2>1. Limit \in Nat /\ 0 < Limit
    BY DEF Limiter!WindowAssumption
  <2>2. QED
    BY <2>1, WindowFacts
<1>3. expiring \in BOOLEAN /\ ttl \in 0..Window
  BY WindowFacts
<1>4. (expiring => count # 0 /\ ttl = 0) /\ (ttl # 0 => count # 0)
  BY DEF WindowInv, CounterInv
<1>5. count' \in 0..(Limit + 1) /\ count' # 0
  BY <1>1, <1>2
<1>6. expiring' \in BOOLEAN /\ (expiring' => ttl' = 0) /\ ttl' \in 0..Window
      /\ ttl' \in {0, ttl}
  BY <1>1, <1>3, <1>4
<1>7. \/ Current' = Current /\ granted' = granted
      \/ Current' = Current + 1 /\ Limiter!Grant(1)
  <2>1. CASE count = 0
    <3>1. ~expiring /\ expiring' /\ count' = 1 /\ granted' = granted
      <4>1. ~expiring /\ expiring'
        BY <1>1, <1>4, <2>1
      <4>2. ~(count > Limit) /\ ~(count > 0) /\ count + 1 = 1
        BY <1>2, <2>1
      <4>3. granted' = granted
        BY <4>2 DEF Limiter!Incr
      <4>4. QED
        BY <1>1, <4>1, <4>2, <4>3
    <3>2. Current = 0 - 0
      BY <1>2, <2>1, <3>1 DEF Current
    <3>3. Current' = 1 - 1
      BY <1>2, <3>1 DEF Current
    <3>4. QED
      BY <3>1, <3>2, <3>3
  <2>2. CASE count > 0 /\ count < Limit
    <3>1. Limiter!Grant(1)
      BY <2>2 DEF Limiter!Incr
    <3>2. expiring' = expiring /\ count' = count + 1 /\ count + 1 <= Limit
      BY <1>1, <1>2, <1>3, <2>2
    <3>3. (IF count' < Limit THEN count' ELSE Limit) = count + 1
      BY <1>2, <3>2
    <3>4. Current' = (count + 1) - (IF expiring THEN 1 ELSE 0)
      BY <3>2, <3>3 DEF Current
    <3>5. Current = count - (IF expiring THEN 1 ELSE 0)
      BY <2>2 DEF Current
    <3>6. Current' = Current + 1
      <4>1. CASE expiring
        <5>1. Current' = (count + 1) - 1 /\ Current = count - 1
          BY <3>4, <3>5, <4>1
        <5>2. QED
          BY <1>2, <5>1
      <4>2. CASE ~expiring
        <5>1. Current' = (count + 1) - 0 /\ Current = count - 0
          BY <3>4, <3>5, <4>2
        <5>2. QED
          BY <1>2, <5>1
      <4>3. QED
        BY <4>1, <4>2
    <3>7. QED
      BY <3>1, <3>6
  <2>3. CASE count >= Limit
    <3>1. granted' = granted
      BY <1>2, <2>3 DEF Limiter!Incr
    <3>2. ~(count' < Limit) /\ ~(count < Limit) /\ expiring' = expiring
      BY <1>1, <1>2, <1>3, <2>3
    <3>3. Current' = Current
      BY <3>2 DEF Current
    <3>4. QED
      BY <3>1, <3>3
  <2>4. QED
    BY <1>2, <2>1, <2>2, <2>3
<1>8. QED
  BY <1>1, <1>5, <1>6, <1>7, CounterGrants

LEMMA ExpireKeeps ==
  ASSUME Limiter!WindowAssumption, WindowInv, NEW executed \in BOOLEAN, Limiter!Expire(executed)
  PROVE  WindowInv'
<1>1. /\ expiring /\ expiring' = FALSE /\ Limiter!Grant(1)
      /\ ttl' = (IF executed THEN Window ELSE 0)
      /\ UNCHANGED <<kind, tokens, elapsed, times, count, failed>>
  BY DEF Limiter!Expire, Limiter!bucketVars
<1>2. kind = "counter" /\ count # 0
  BY <1>1 DEF WindowInv, CounterInv
<1>3. Limit \in Nat /\ Window \in Nat /\ count \in 0..(Limit + 1)
  BY WindowFacts
<1>4. Current' = Current + 1
  <2>1. PICK c : c = IF count < Limit THEN count ELSE Limit
    OBVIOUS
  <2>2. c \in Int
    BY <1>3, <2>1
  <2>3. Current = c - 1 /\ Current' = c - 0
    BY <1>1, <2>1 DEF Current
  <2>4. QED
    BY <2>2, <2>3
<1>5. ttl' \in {0, Window} /\ ttl' \in 0..Window
  BY <1>1, <1>3
<1>6. QED
  BY <1>1, <1>2, <1>3, <1>4, <1>5, CounterGrants

LEMMA FailsOpenKeeps ==
  ASSUME Limiter!WindowAssumption, WindowInv, NEW executed \in BOOLEAN, Limiter!FailsOpen(executed)
  PROVE  WindowInv'
<1>1. /\ kind = "counter" /\ Limiter!Grant(1) /\ failed' = Limiter!Now(1) \o failed
      /\ UNCHANGED <<kind, tokens, elapsed, times, ttl, expiring>>
      /\ count' = count \/ count' = (IF count > Limit THEN count ELSE count + 1)
  BY DEF Limiter!FailsOpen, Limiter!Counted, Limiter!bucketVars
<1>2. Limit \in Nat /\ count \in 0..(Limit + 1) /\ expiring \in BOOLEAN /\ ttl \in 0..Window
  BY WindowFacts
<1>3. (expiring => count # 0 /\ ttl = 0) /\ (ttl # 0 => count # 0)
  BY DEF WindowInv, CounterInv
<1>4. count' \in 0..(Limit + 1) /\ (count # 0 => count' # 0)
  BY <1>1, <1>2
<1>5. Current' \in {Current, Current + 1}
  <2> DEFINE c == IF count < Limit THEN count ELSE Limit
             d == IF count' < Limit THEN count' ELSE Limit
             e == IF expiring THEN 1 ELSE 0
  <2>1. c \in Nat /\ d \in {c, c + 1} /\ e \in Nat
    BY <1>1, <1>2
  <2>2. Current = c - e /\ Current' = d - e
    BY <1>1 DEF Current
  <2>. HIDE DEF c, d, e
  <2>3. QED
    BY <2>1, <2>2
<1>6. /\ ttl' \in 0..Window /\ expiring' \in BOOLEAN
      /\ (expiring' => count' # 0 /\ ttl' = 0) /\ (ttl' # 0 => count' # 0)
  BY <1>1, <1>2, <1>3, <1>4
<1>7. QED
  BY <1>1, <1>4, <1>5, <1>6, CounterGrants

(* The young of a record after a tick.                                      *)
LEMMA OlderRecord ==
  ASSUME Limiter!WindowAssumption, NEW s, Recent(s)
  PROVE  /\ Ages(Limiter!Older(s)) /\ Len(Limiter!Older(s)) = Len(s)
         /\ \A i \in 1..Len(s) : Limiter!Older(s)[i] = s[i] + 1
<1>1. s \in Seq(0..Window) /\ Len(s) \in Nat /\ Window \in Nat
      /\ DOMAIN s = 1..Len(s)
  BY LenProperties DEF Recent, Ages, Limiter!WindowAssumption
<1>2. ASSUME NEW i \in 1..Len(s)
      PROVE  s[i] \in 0..Window /\ s[i] + 1 \in 0..Window
  <2>1. s[i] \in 0..Window /\ s[i] < Window
    BY <1>1, ElementOfSeq DEF Recent
  <2>2. QED
    BY <1>1, <2>1
<1>3. PICK o : o = Limiter!Older(s)
  OBVIOUS
<1>4. o = [i \in 1..Len(s) |-> s[i] + 1]
  BY <1>1, <1>3 DEF Limiter!Older
<1>5. o \in Seq(0..Window) /\ Len(o) = Len(s)
  BY <1>1, <1>2, <1>4
<1>6. \A i \in 1..Len(s) : o[i] = s[i] + 1
  BY <1>4
<1>7. ASSUME NEW i \in 1..Len(o), NEW j \in 1..Len(o), i <= j
      PROVE  o[i] <= o[j]
  <2>1. s[i] <= s[j] /\ s[i] \in 0..Window /\ s[j] \in 0..Window
    BY <1>2, <1>5, <1>7 DEF Recent, Ages
  <2>2. s[i] + 1 <= s[j] + 1
    BY <1>1, <2>1
  <2>3. QED
    BY <1>5, <1>6, <2>2
<1>8. QED
  BY <1>3, <1>5, <1>6, <1>7 DEF Ages

LEMMA TickForgets ==
  ASSUME Limiter!WindowAssumption, NEW s, Recent(s), NEW y, y = Limiter!Young(Limiter!Older(s))
  PROVE  /\ Recent(y) /\ Len(y) <= Len(s)
         /\ \A i \in 1..Len(y) : y[i] = s[i] + 1
         /\ \A i \in 1..Len(s) : i > Len(y) => s[i] + 1 = Window
<1>1. PICK o : o = Limiter!Older(s)
  OBVIOUS
<1>2. /\ Ages(o) /\ Len(o) = Len(s)
      /\ \A i \in 1..Len(s) : o[i] = s[i] + 1
  BY <1>1, OlderRecord
<1>3. YoungOf(y, o) /\ Ages(y)
  BY <1>1, <1>2, YoungIs
<1>4. Len(y) \in Nat /\ Len(s) \in Nat
  BY <1>2, <1>3, LenProperties DEF Ages
<1>5. Len(y) <= Len(s) /\ \A i \in 1..Len(y) : y[i] = o[i] /\ o[i] < Window
  BY <1>2, <1>3 DEF YoungOf
<1>6. \A i \in 1..Len(y) : y[i] = s[i] + 1 /\ y[i] < Window
  <2> SUFFICES ASSUME NEW i \in 1..Len(y)
               PROVE  y[i] = s[i] + 1 /\ y[i] < Window
    OBVIOUS
  <2>1. i \in 1..Len(s)
    BY <1>4, <1>5
  <2>2. QED
    BY <1>2, <1>5, <2>1
<1>7. \A i \in 1..Len(s) : i > Len(y) => s[i] + 1 = Window
  BY <1>2, <1>3 DEF YoungOf
<1>8. Recent(y)
  BY <1>2, <1>3, <1>6 DEF Recent, Ages
<1>9. QED
  BY <1>2, <1>5, <1>6, <1>7, <1>8

LEMMA TickAges ==
  ASSUME Limiter!WindowAssumption, WindowInv, Limiter!Tick
  PROVE  /\ Ages(times') /\ Len(times') = Len(times)
         /\ \A i \in 1..Len(times) :
               times'[i] = IF times[i] < Window THEN times[i] + 1 ELSE Window
<1>1. PICK t : t = times'
  OBVIOUS
<1>2. Window \in Nat /\ Len(times) \in Nat /\ DOMAIN times = 1..Len(times)
      /\ \A i \in 1..Len(times) : times[i] \in 0..Window
  BY WindowFacts, LenProperties DEF WindowInv, Ages
<1>3. t = [i \in 1..Len(times) |-> IF times[i] < Window THEN times[i] + 1 ELSE Window]
  BY <1>1, <1>2 DEF Limiter!Tick
<1>4. \A i \in 1..Len(times) : t[i] = IF times[i] < Window THEN times[i] + 1 ELSE Window
  BY <1>3
<1>5. ASSUME NEW i \in 1..Len(times)
      PROVE  t[i] \in 0..Window
  BY <1>2, <1>4
<1>6. t \in Seq(0..Window) /\ Len(t) = Len(times)
  BY <1>2, <1>3, <1>4, <1>5
<1>7. ASSUME NEW i \in 1..Len(t), NEW j \in 1..Len(t), i <= j
      PROVE  t[i] <= t[j]
  <2>1. times[i] <= times[j] /\ times[i] \in 0..Window /\ times[j] \in 0..Window
    BY <1>2, <1>6, <1>7 DEF WindowInv, Ages
  <2>2. /\ t[i] = (IF times[i] < Window THEN times[i] + 1 ELSE Window)
        /\ t[j] = (IF times[j] < Window THEN times[j] + 1 ELSE Window)
    BY <1>4, <1>6
  <2>3. QED
    BY <1>2, <2>1, <2>2
<1>8. QED
  BY <1>1, <1>4, <1>6, <1>7 DEF Ages

(* A capped sum grows by no more than what is added.                        *)
LEMMA CappedGrows ==
  ASSUME NEW a \in Nat, NEW e \in Nat, NEW f \in Nat, f <= e + 1, NEW l \in Nat,
         NEW r, r = IF a + e < l THEN a + e ELSE l, NEW p, p = IF a + f < l THEN a + f ELSE l
  PROVE  r \in Nat /\ p \in Nat /\ p <= r + 1
OBVIOUS

LEMMA TickKeepsBucket ==
  ASSUME Limiter!WindowAssumption, WindowInv, Limiter!Tick
  PROVE  BucketInv'
<1>1. Recent(granted) /\ granted' = Limiter!Young(Limiter!Older(granted))
      /\ tokens' = tokens /\ kind' = kind
      /\ elapsed' = IF elapsed < Limit THEN elapsed + 1 ELSE elapsed
  BY DEF WindowInv, Limiter!Tick
<1>2. Limit \in Nat /\ tokens \in 0..Limit /\ elapsed \in 0..Limit
  BY WindowFacts
<1>3. \A i \in 1..Len(granted) : granted[i] \in 0..(Window - 1)
  BY WindowFacts
<1>4. Window \in Nat /\ Len(granted) \in Nat
  BY WindowFacts
<1>5. /\ Recent(granted') /\ Len(granted') <= Len(granted)
      /\ \A i \in 1..Len(granted') : granted'[i] = granted[i] + 1
  BY <1>1, TickForgets
<1>6. Len(granted') \in Nat
  BY <1>5, LenProperties DEF Recent, Ages
<1>7. PICK r : r = Limiter!Refilled
  OBVIOUS
<1>8. PICK p : p = Limiter!Refilled'
  OBVIOUS
<1>9. r = (IF tokens + elapsed < Limit THEN tokens + elapsed ELSE Limit)
  BY <1>7 DEF Limiter!Refilled
<1>10. p = (IF tokens + elapsed' < Limit THEN tokens + elapsed' ELSE Limit)
  BY <1>1, <1>8 DEF Limiter!Refilled
<1>11. elapsed' \in Nat /\ elapsed' <= elapsed + 1
  BY <1>1, <1>2
<1>12. r \in Nat /\ p \in Nat /\ p <= r + 1
  <2>1. PICK f : f = elapsed'
    OBVIOUS
  <2>2. f \in Nat /\ f <= elapsed + 1
    BY <1>11, <2>1
  <2>3. Limit \in Nat /\ tokens \in Nat /\ elapsed \in Nat
    <3>1. Limit \in Nat
      BY <1>2
    <3>2. tokens \in Nat
      BY <1>2
    <3>3. elapsed \in Nat
      BY <1>2
    <3>4. QED
      BY <3>1, <3>2, <3>3
  <2>4. /\ r = (IF tokens + elapsed < Limit THEN tokens + elapsed ELSE Limit)
        /\ p = (IF tokens + f < Limit THEN tokens + f ELSE Limit)
    BY <1>9, <1>10, <2>1
  <2>5. QED
    BY <2>2, <2>3, <2>4, CappedGrows
<1>13. ASSUME kind = "bucket", NEW i \in 1..Len(granted')
       PROVE  i + p <= Limit + granted'[i]
  <2>1. i \in 1..Len(granted)
    BY <1>4, <1>5, <1>6
  <2>2. i + r <= Limit + granted[i] /\ granted[i] \in Nat /\ i \in Nat
    BY <1>3, <1>7, <1>13, <2>1 DEF WindowInv, BucketInv
  <2>3. granted'[i] = granted[i] + 1
    BY <1>5
  <2>4. i + p <= Limit + (granted[i] + 1)
    BY <1>2, <1>12, <2>2
  <2>5. QED
    BY <2>3, <2>4
<1>14. QED
  BY <1>1, <1>8, <1>13 DEF BucketInv

LEMMA TickKeepsLog ==
  ASSUME Limiter!WindowAssumption, WindowInv, Limiter!Tick
  PROVE  LogInv'
<1>1. Recent(granted) /\ granted' = Limiter!Young(Limiter!Older(granted)) /\ kind' = kind
  BY DEF WindowInv, Limiter!Tick
<1>2. /\ Recent(granted') /\ Len(granted') <= Len(granted)
      /\ \A i \in 1..Len(granted') : granted'[i] = granted[i] + 1
      /\ \A i \in 1..Len(granted) : i > Len(granted') => granted[i] + 1 = Window
  BY <1>1, TickForgets
<1>3. PICK y : y = granted'
  OBVIOUS
<1>4. PICK t : t = times'
  OBVIOUS
<1>5. /\ Ages(t) /\ Len(t) = Len(times)
      /\ \A i \in 1..Len(times) : t[i] = IF times[i] < Window THEN times[i] + 1 ELSE Window
  BY <1>4, TickAges
<1>6. Limit \in Nat /\ Len(granted) \in Nat /\ Len(times) \in Nat
  BY WindowFacts
<1>7. Ages(y) /\ Len(y) \in Nat /\ \A i \in 1..Len(y) : y[i] < Window
  BY <1>2, <1>3, LenProperties DEF Recent, Ages
<1>8. Window \in Nat /\ \A i \in 1..Len(granted) : granted[i] \in 0..(Window - 1)
  BY WindowFacts
<1>9. ASSUME kind \in {"log", "costed log"}
      PROVE  y = Limiter!Young(t) /\ Len(y) <= Limit
  <2>1. granted = Limiter!Young(times) /\ Len(granted) <= Limit /\ Ages(times)
    BY <1>9 DEF WindowInv, LogInv
  <2>2. YoungOf(granted, times)
    BY <2>1, YoungIs
  <2>3. /\ Len(granted) <= Len(times)
        /\ \A i \in 1..Len(granted) : granted[i] = times[i]
        /\ \A i \in 1..Len(times) : i > Len(granted) => times[i] = Window
    BY <2>2 DEF YoungOf
  <2>4. Len(y) <= Len(granted) /\ Len(y) <= Len(t) /\ Len(y) <= Limit
    BY <1>2, <1>3, <1>5, <1>6, <1>7, <2>1, <2>3
  <2>5. \A i \in 1..Len(granted) : t[i] = granted[i] + 1
    <3> SUFFICES ASSUME NEW i \in 1..Len(granted)
                 PROVE  t[i] = granted[i] + 1
      OBVIOUS
    <3>1. i \in 1..Len(times) /\ times[i] = granted[i] /\ granted[i] \in 0..(Window - 1)
      BY <1>6, <1>8, <2>3
    <3>2. times[i] < Window
      BY <1>8, <3>1
    <3>3. QED
      BY <1>5, <3>1, <3>2
  <2>6. \A i \in 1..Len(y) : y[i] = t[i] /\ t[i] < Window
    <3> SUFFICES ASSUME NEW i \in 1..Len(y)
                 PROVE  y[i] = t[i] /\ t[i] < Window
      OBVIOUS
    <3>1. i \in 1..Len(granted)
      BY <1>6, <1>7, <2>4
    <3>2. y[i] = granted[i] + 1 /\ t[i] = granted[i] + 1
      BY <1>2, <1>3, <2>5, <3>1
    <3>3. QED
      BY <1>7, <3>2
  <2>7. \A i \in 1..Len(t) : i > Len(y) => t[i] = Window
    <3> SUFFICES ASSUME NEW i \in 1..Len(t), i > Len(y)
                 PROVE  t[i] = Window
      OBVIOUS
    <3>1. CASE i <= Len(granted)
      <4>1. i \in 1..Len(granted)
        BY <1>5, <1>6, <3>1
      <4>2. granted[i] + 1 = Window
        BY <1>2, <1>3, <4>1
      <4>3. QED
        BY <2>5, <4>1, <4>2
    <3>2. CASE ~(i <= Len(granted))
      <4>1. i \in 1..Len(times) /\ i > Len(granted)
        BY <1>5, <1>6, <3>2
      <4>2. times[i] = Window
        BY <2>3, <4>1
      <4>3. ~(times[i] < Window)
        BY <1>8, <4>2
      <4>4. QED
        BY <1>5, <4>1, <4>3
    <3>3. QED
      BY <3>1, <3>2
  <2>8. YoungOf(y, t)
    BY <1>7, <2>4, <2>6, <2>7 DEF YoungOf, Ages
  <2>9. QED
    BY <1>5, <2>4, <2>8, YoungIsOne
<1>10. Limiter!Young(times)' = Limiter!Young(t)
  BY <1>4 DEF Limiter!Young
<1>11. QED
  BY <1>1, <1>3, <1>9, <1>10 DEF LogInv

LEMMA TickKeepsCounter ==
  ASSUME Limiter!WindowAssumption, WindowInv, Limiter!Tick
  PROVE  CounterInv'
<1>1. /\ Recent(granted) /\ granted' = Limiter!Young(Limiter!Older(granted))
      /\ Recent(failed) /\ failed' = Limiter!Young(Limiter!Older(failed))
      /\ kind' = kind /\ expiring' = expiring
      /\ ttl' = (IF ttl = 0 THEN 0 ELSE ttl - 1) /\ count' = (IF ttl = 1 THEN 0 ELSE count)
  BY DEF WindowInv, Limiter!Tick
<1>2. /\ Recent(granted') /\ Len(granted') <= Len(granted)
      /\ \A i \in 1..Len(granted') : granted'[i] = granted[i] + 1
      /\ Recent(failed') /\ Len(failed') <= Len(failed)
      /\ \A i \in 1..Len(failed') : failed'[i] = failed[i] + 1
      /\ \A i \in 1..Len(failed) : i > Len(failed') => failed[i] + 1 = Window
  BY <1>1, TickForgets
<1>3. Limit \in Nat /\ Len(granted) \in Nat /\ Current \in 0..Limit
  BY WindowFacts
<1>4. Window \in Nat /\ ttl \in 0..Window
  BY WindowFacts
<1>5. \A i \in 1..Len(granted) : granted[i] \in 0..(Window - 1)
  BY WindowFacts
<1>6. Len(granted') \in Nat /\ \A i \in 1..Len(granted') : granted'[i] < Window
  BY <1>2, LenProperties DEF Recent, Ages
<1>7. (expiring => kind = "counter" /\ count # 0 /\ ttl = 0) /\ (ttl # 0 => count # 0)
  BY DEF WindowInv, CounterInv
<1>8. (expiring' => kind' = "counter" /\ count' # 0 /\ ttl' = 0) /\ (ttl' # 0 => count' # 0)
  <2>1. CASE ttl = 0
    BY <1>1, <1>7, <2>1
  <2>2. CASE ttl = 1
    BY <1>1, <1>7, <2>2
  <2>3. CASE ttl # 0 /\ ttl # 1
    BY <1>1, <1>7, <2>3
  <2>4. QED
    BY <2>1, <2>2, <2>3
<1>9. Len(failed') \in Nat /\ Len(failed) \in Nat
      /\ \A i \in 1..Len(failed) : failed[i] \in 0..(Window - 1)
  BY <1>2, WindowFacts, LenProperties DEF Recent, Ages
(* The failures since a grant that is still young are young themselves.     *)
<1>10. ASSUME NEW i \in 1..Len(granted'), NEW n \in Nat, Within(granted, failed, i, n)
       PROVE  Within(granted', failed', i, n)
  <2>1. PICK f \in 0..Len(failed) : (f # 0 => failed[f] <= granted[i]) /\ i <= n + f
    BY <1>10 DEF Within
  <2>2. i \in 1..Len(granted) /\ granted'[i] = granted[i] + 1 /\ granted[i] + 1 < Window
    BY <1>2, <1>3, <1>6
  <2>3. CASE f = 0
    BY <1>9, <2>1, <2>3 DEF Within
  <2>4. CASE f # 0
    <3>1. f \in 1..Len(failed) /\ failed[f] + 1 < Window
      BY <1>4, <1>5, <1>9, <2>1, <2>2, <2>4
    <3>2. f \in 1..Len(failed')
      BY <1>2, <1>4, <1>9, <3>1
    <3>3. failed'[f] <= granted'[i]
      BY <1>2, <1>5, <1>9, <2>1, <2>2, <2>4, <3>1, <3>2
    <3>4. QED
      BY <2>1, <3>2, <3>3 DEF Within
  <2>5. QED
    BY <2>3, <2>4
<1>11. ASSUME kind = "counter", NEW i \in 1..Len(granted')
       PROVE  /\ Within(granted', failed', i, Limit + Current')
              /\ ttl' # 0 /\ granted'[i] + ttl' < Window => Within(granted', failed', i, Current')
  <2>1. /\ i \in 1..Len(granted) /\ i \in Nat /\ Within(granted, failed, i, Limit + Current)
        /\ ttl # 0 /\ granted[i] + ttl < Window => Within(granted, failed, i, Current)
    BY <1>2, <1>3, <1>6, <1>11 DEF WindowInv, CounterInv
  <2>2. granted'[i] = granted[i] + 1 /\ granted[i] + 1 < Window
    BY <1>2, <1>6
  <2>3. Current \in Nat /\ Limit + Current \in Nat
    BY <1>3
  <2>4. CASE ttl = 1
    <3>1. ttl' = 0 /\ count' = 0 /\ ~expiring'
      BY <1>1, <1>7, <2>4
    <3>2. Current' = 0 - 0
      BY <1>3, <3>1 DEF Current
    <3>3. Within(granted, failed, i, Current)
      BY <2>1, <2>2, <2>4
    <3>4. Within(granted', failed', i, Current)
      BY <1>10, <2>3, <3>3
    <3>5. Limit + Current' \in Nat /\ Current <= Limit + Current'
      BY <1>3, <3>2
    <3>6. Within(granted', failed', i, Limit + Current')
      BY <1>9, <2>1, <2>3, <3>4, <3>5, WithinMore
    <3>7. QED
      BY <3>1, <3>6
  <2>5. CASE ttl # 1
    <3>1. count' = count /\ expiring' = expiring
      BY <1>1, <2>5
    <3>2. Current' = Current
      BY <3>1 DEF Current
    <3>3. Within(granted', failed', i, Limit + Current')
      BY <1>10, <2>1, <2>3, <3>2
    <3>4. ASSUME ttl' # 0, granted'[i] + ttl' < Window
          PROVE  Within(granted', failed', i, Current')
      <4>1. ttl # 0 /\ ttl' = ttl - 1
        BY <1>1, <3>4
      <4>2. granted[i] + ttl < Window
        BY <1>4, <1>5, <2>1, <2>2, <3>4, <4>1
      <4>3. Within(granted', failed', i, Current)
        BY <1>10, <2>1, <2>3, <4>1, <4>2
      <4>4. QED
        BY <3>2, <4>3
    <3>5. QED
      BY <3>3, <3>4
  <2>6. QED
    BY <2>4, <2>5
<1>12. QED
  BY <1>1, <1>8, <1>11 DEF CounterInv

LEMMA TickKeepsWindow ==
  ASSUME Limiter!WindowAssumption, WindowInv, Limiter!Tick
  PROVE  WindowInv'
<1>1. Ages(times)' /\ BucketInv' /\ LogInv' /\ CounterInv'
  BY TickAges, TickKeepsBucket, TickKeepsLog, TickKeepsCounter DEF Ages
<1>2. Recent(granted') /\ Recent(failed')
  BY TickForgets DEF WindowInv, Limiter!Tick
<1>3. /\ kind' = kind /\ tokens' = tokens /\ expiring' = expiring
      /\ elapsed' = (IF elapsed < Limit THEN elapsed + 1 ELSE elapsed)
      /\ ttl' = (IF ttl = 0 THEN 0 ELSE ttl - 1) /\ count' = (IF ttl = 1 THEN 0 ELSE count)
  BY DEF Limiter!Tick
<1>4. Limit \in Nat /\ elapsed \in 0..Limit /\ count \in 0..(Limit + 1)
  BY WindowFacts
<1>5. Window \in Nat /\ ttl \in 0..Window
  BY WindowFacts
<1>6. elapsed' \in 0..Limit
  BY <1>3, <1>4
<1>7. count' \in 0..(Limit + 1)
  BY <1>3, <1>4
<1>8. ttl' \in 0..Window
  BY <1>3, <1>5
<1>9. granted' \in Limiter!Ages /\ times' \in Limiter!Ages /\ failed' \in Limiter!Ages
  BY <1>1, <1>2 DEF Recent, Ages, Limiter!Ages
<1>10. Limiter!TypeOK'
  BY <1>3, <1>6, <1>7, <1>8, <1>9 DEF WindowInv, Limiter!TypeOK
<1>11. QED
  BY <1>1, <1>2, <1>10 DEF WindowInv

LEMMA WindowStep ==
  ASSUME Limiter!WindowAssumption, WindowInv, [Limiter!Next]_limiterVars
  PROVE  WindowInv'
<1>1. CASE Limiter!Tick
  BY <1>1, TickKeepsWindow
<1>2. CASE Limiter!Consume
  BY <1>2, ConsumeKeeps
<1>3. CASE Limiter!CheckLimit
  BY <1>3, CheckLimitKeeps
<1>4. CASE Limiter!Incr
  BY <1>4, IncrKeeps
<1>5. CASE \E cost \in Costs : Limiter!Allow(cost)
  BY <1>5, AllowKeeps
<1>6. CASE \E executed \in BOOLEAN : Limiter!FailsOpen(executed) \/ Limiter!Expire(executed)
  BY <1>6, FailsOpenKeeps, ExpireKeeps
<1>7. CASE UNCHANGED limiterVars
  BY <1>7 DEF limiterVars, WindowInv, Limiter!TypeOK, Limiter!Ages, Ages, Recent, BucketInv,
     Limiter!Refilled, LogInv, Limiter!Young, CounterInv, Current, Within
<1>8. QED
  BY <1>1, <1>2, <1>3, <1>4, <1>5, <1>6, <1>7 DEF Limiter!Next

LEMMA RefilledIsNat ==
  ASSUME Limiter!WindowAssumption, WindowInv
  PROVE  Limiter!Refilled \in Nat
<1>1. PICK x : x = tokens + elapsed
  OBVIOUS
<1>2. tokens \in 0..Limit /\ elapsed \in 0..Limit
  BY DEF WindowInv, Limiter!TypeOK
<1>3. Limit \in Nat
  BY DEF Limiter!WindowAssumption
<1>4. x \in Nat
  BY <1>1, <1>2, <1>3
<1>5. Limiter!Refilled = IF x < Limit THEN x ELSE Limit
  BY <1>1 DEF Limiter!Refilled
<1>6. QED
  BY <1>3, <1>4, <1>5

LEMMA WindowBounds ==
  ASSUME Limiter!WindowAssumption, WindowInv
  PROVE  WindowBound
<1>1. Limit \in Nat /\ Window \in Nat \ {0} /\ Len(granted) \in Nat /\ Current \in 0..Limit
  BY WindowFacts
<1>2. CASE kind = "bucket"
  <2>1. Len(granted) <= Limit + Window - 1
    <3>1. CASE Len(granted) = 0
      BY <1>1, <3>1
    <3>2. CASE Len(granted) # 0
      <4>1. PICK i : i = Len(granted)
        OBVIOUS
      <4>2. i \in 1..Len(granted)
        BY <1>1, <3>2, <4>1
      <4>3. PICK r : r = Limiter!Refilled
        OBVIOUS
      <4>4. r \in Nat
        BY <4>3, RefilledIsNat
      <4>5. i + r <= Limit + granted[i] /\ granted[i] \in 0..(Window - 1)
        BY <1>2, <4>2, <4>3, WindowFacts DEF WindowInv, BucketInv
      <4>6. QED
        BY <1>1, <4>1, <4>2, <4>4, <4>5
    <3>3. QED
      BY <3>1, <3>2
  <2>2. QED
    BY <1>2, <2>1 DEF WindowBound, Limiter!WindowBound
<1>3. CASE kind = "counter"
  <2>1. Len(failed) \in Nat
    BY WindowFacts
  <2>2. Len(granted) <= 2 * Limit + Len(failed)
    <3>1. CASE Len(granted) = 0
      BY <1>1, <2>1, <3>1
    <3>2. CASE Len(granted) # 0
      <4>1. PICK i : i = Len(granted)
        OBVIOUS
      <4>2. i \in 1..Len(granted)
        BY <1>1, <3>2, <4>1
      <4>3. PICK f \in 0..Len(failed) : i <= (Limit + Current) + f
        BY <1>3, <4>2 DEF WindowInv, CounterInv, Within
      <4>4. QED
        BY <1>1, <2>1, <4>1, <4>3
    <3>3. QED
      BY <3>1, <3>2
  <2>3. QED
    BY <1>3, <2>2 DEF WindowBound, Limiter!WindowBound
<1>4. CASE kind \in {"log", "costed log"}
  <2>1. Len(granted) <= Limit
    BY <1>4 DEF WindowInv, LogInv
  <2>2. QED
    BY <1>4, <2>1 DEF WindowBound, Limiter!WindowBound
<1>5. kind \in {"bucket", "log", "costed log", "counter"}
  BY WindowFacts
<1>6. QED
  BY <1>2, <1>3, <1>4, <1>5

(* Theorem: no interval as long as the window admits more than a limiter    *)
(* allows: a sliding log its limit, TokenBucket its capacity and a token    *)
(* for each tick, and the fixed window of rateLimit() twice its limit and   *)
(* one request for each INCR or TTL that failed in the interval, whether or *)
(* not Redis executed it, also when EXPIRE fails and when other requests    *)
(* come between it and INCR.                                                *)
THEOREM WindowBoundHolds == Spec => []WindowBound
<1>1. Limiter!WindowAssumption
  BY PartsAssumption
<1>2. Init => WindowInv
  BY <1>1, PartsBegin, WindowInit
<1>3. WindowInv /\ [Next]_vars => WindowInv'
  BY <1>1, PartsStep, WindowStep
<1>4. WindowInv => WindowBound
  BY <1>1, WindowBounds
<1>5. QED
  BY <1>2, <1>3, <1>4, PTL DEF Spec

-----------------------------------------------------------------------------
(* What filter() and sort() return. *)

(* T[x] are the members of S that come no later than x.  Every place from   *)
(* the first to the last is somebody's, and nobody shares it.               *)
Nested(S, T) ==
    /\ IsFiniteSet(S)
    /\ \A x \in S : T[x] \in SUBSET S /\ x \in T[x]
    /\ \A x, y \in S : x # y => (x \in T[y] <=> y \notin T[x])
    /\ \A x, y \in S : x \in T[y] => T[x] \subseteq T[y]
EachItsPlace(S, T) ==
    /\ Cardinality(S) \in Nat
    /\ \A x \in S : Cardinality(T[x]) \in 1..Cardinality(S)
    /\ \A x, y \in S : x \in T[y] /\ x # y => Cardinality(T[x]) < Cardinality(T[y])
    /\ \A x, y \in S : Cardinality(T[x]) = Cardinality(T[y]) => x = y
    /\ \A k \in 1..Cardinality(S) : \E x \in S : Cardinality(T[x]) = k

LEMMA Places ==
  ASSUME NEW S, NEW T, Nested(S, T)
  PROVE  EachItsPlace(S, T)
<1>0. /\ IsFiniteSet(S)
      /\ \A x \in S : T[x] \in SUBSET S /\ x \in T[x]
      /\ \A x, y \in S : x # y => (x \in T[y] <=> y \notin T[x])
      /\ \A x, y \in S : x \in T[y] => T[x] \subseteq T[y]
  BY DEF Nested
<1>1. Cardinality(S) \in Nat
  BY <1>0, FS_CardinalityType
<1>2. ASSUME NEW x \in S
      PROVE  Cardinality(T[x]) \in 1..Cardinality(S) /\ IsFiniteSet(T[x]) /\ Cardinality(T[x]) \in Nat
  <2>1. T[x] \in SUBSET S /\ x \in T[x] /\ IsFiniteSet(S)
    BY <1>0
  <2>2. IsFiniteSet(T[x]) /\ Cardinality(T[x]) \in Nat /\ Cardinality(T[x]) <= Cardinality(S)
    BY <2>1, FS_Subset, FS_CardinalityType
  <2>3. Cardinality(T[x]) # 0
    BY <2>1, <2>2, FS_EmptySet
  <2>4. QED
    BY <1>1, <2>2, <2>3
<1>3. ASSUME NEW x \in S, NEW y \in S, x \in T[y], x # y
      PROVE  Cardinality(T[x]) < Cardinality(T[y])
  <2>1. T[x] \in SUBSET T[y] /\ y \in T[y] /\ y \notin T[x]
    BY <1>0, <1>3
  <2>2. Cardinality(T[x]) <= Cardinality(T[y]) /\ Cardinality(T[x]) # Cardinality(T[y])
    BY <1>2, <2>1, FS_Subset
  <2>3. QED
    BY <1>2, <2>2
<1>4. ASSUME NEW x \in S, NEW y \in S, Cardinality(T[x]) = Cardinality(T[y]), x # y
      PROVE  FALSE
  <2>1. x \in T[y] \/ y \in T[x]
    BY <1>0, <1>4
  <2>2. Cardinality(T[x]) < Cardinality(T[y]) \/ Cardinality(T[y]) < Cardinality(T[x])
    BY <1>3, <1>4, <2>1
  <2>3. QED
    BY <1>2, <1>4, <2>2
<1>5. ASSUME NEW k \in 1..Cardinality(S)
      PROVE  \E x \in S : Cardinality(T[x]) = k
  <2> DEFINE m == Cardinality(S)
             f == [x \in S |-> Cardinality(T[x])]
  <2>1. f \in [S -> 1..m]
    BY <1>2
  <2>2. \A x, y \in S : f[x] = f[y] => x = y
    BY <1>4
  <2>3. f \in Injection(S, 1..m)
    BY <2>1, <2>2 DEF Injection, IsInjective
  <2>4. IsFiniteSet(1..m) /\ Cardinality(1..m) = m
    BY <1>1, FS_Interval
  <2>5. f \in Surjection(S, 1..m)
    BY <1>0, <2>3, <2>4, FS_Injection
  <2>6. \A t \in 1..m : \E x \in S : f[x] = t
    BY <2>5 DEF Surjection
  <2>7. QED
    BY <2>6
<1>6. QED
  BY <1>1, <1>2, <1>3, <1>4, <1>5 DEF EachItsPlace

(* q lists the numbers in P from the least to the greatest.                 *)
Lists(q, n, P) ==
    /\ n \in Nat /\ q \in [1..n -> P]
    /\ \A k, l \in 1..n : k < l => q[k] < q[l]
    /\ \A p \in P : \E k \in 1..n : q[k] = p

Picks(t, s, q, n) == t = [k \in 1..n |-> s[q[k]]]
Filters(q, n, P) == \A s : Picks(Filtered(s, P), s, q, n)

LEMMA PlacesOf ==
  ASSUME NEW P, P \subseteq Nat, IsFiniteSet(P)
  PROVE  LET T == [i \in P |-> {j \in P : j <= i}] IN
         /\ Cardinality(P) \in Nat
         /\ \A i \in P : Cardinality(T[i]) \in 1..Cardinality(P)
         /\ \A i, j \in P : i < j => Cardinality(T[i]) < Cardinality(T[j])
         /\ \A i, j \in P : Cardinality(T[i]) = Cardinality(T[j]) => i = j
         /\ \A k \in 1..Cardinality(P) : \E i \in P : Cardinality(T[i]) = k
<1> DEFINE T == [i \in P |-> {j \in P : j <= i}]
<1>1. \A i \in P : i \in Nat
  OBVIOUS
<1>2. \A i \in P : T[i] \in SUBSET P /\ i \in T[i]
  BY <1>1
<1>3. \A i, j \in P : i \in T[j] <=> i <= j
  OBVIOUS
<1>4. \A i, j \in P : i # j => (i \in T[j] <=> j \notin T[i])
  BY <1>1, <1>3
<1>5. ASSUME NEW i \in P, NEW j \in P, i \in T[j]
      PROVE  T[i] \subseteq T[j]
  <2>1. i <= j /\ i \in Nat /\ j \in Nat
    BY <1>1, <1>3, <1>5
  <2>2. \A x \in P : x <= i => x <= j
    BY <1>1, <2>1
  <2>3. QED
    BY <2>2
<1>6. \A i, j \in P : i < j => i \in T[j] /\ i # j
  BY <1>1, <1>3
<1> HIDE DEF T
<1>7. /\ Cardinality(P) \in Nat
      /\ \A x \in P : Cardinality(T[x]) \in 1..Cardinality(P)
      /\ \A x, y \in P : x \in T[y] /\ x # y => Cardinality(T[x]) < Cardinality(T[y])
      /\ \A x, y \in P : Cardinality(T[x]) = Cardinality(T[y]) => x = y
      /\ \A k \in 1..Cardinality(P) : \E x \in P : Cardinality(T[x]) = k
  <2>1. Nested(P, T)
    BY <1>2, <1>4, <1>5 DEF Nested
  <2>2. EachItsPlace(P, T)
    BY <2>1, Places, Zenon
  <2>3. QED
    BY <2>2 DEF EachItsPlace
<1>8. QED
  BY <1>6, <1>7 DEF T

(* The numbers in a finite set can be listed, and what a filter returns     *)
(* follows the list.                                                        *)
LEMMA FilterLists ==
  ASSUME NEW P, P \subseteq Nat, IsFiniteSet(P)
  PROVE  \E q : /\ Lists(q, Cardinality(P), P)
                /\ Filters(q, Cardinality(P), P)
<1> DEFINE T == [i \in P |-> {j \in P : j <= i}]
           n == Cardinality(P)
           q == [k \in 1..n |-> CHOOSE i \in P : Cardinality({j \in P : j <= i}) = k]
<1>1. /\ n \in Nat
      /\ \A i, j \in P : i < j => Cardinality(T[i]) < Cardinality(T[j])
      /\ \A i, j \in P : Cardinality(T[i]) = Cardinality(T[j]) => i = j
      /\ \A i \in P : Cardinality(T[i]) \in 1..n
      /\ \A k \in 1..n : \E i \in P : Cardinality(T[i]) = k
  BY PlacesOf
<1>2. \A i \in P : T[i] = {j \in P : j <= i}
  OBVIOUS
<1>3. \A k \in 1..n : q[k] \in P /\ Cardinality(T[q[k]]) = k
  <2> SUFFICES ASSUME NEW k \in 1..n
               PROVE  q[k] \in P /\ Cardinality(T[q[k]]) = k
    OBVIOUS
  <2>1. \E i \in P : Cardinality({j \in P : j <= i}) = k
    BY <1>1, <1>2
  <2>2. q[k] \in P /\ Cardinality({j \in P : j <= q[k]}) = k
    BY <2>1
  <2>3. QED
    BY <1>2, <2>2
<1>4. Filters(q, n, P)
  BY DEF Filtered, Filters, Picks
<1>5. q \in [1..n -> P]
  BY <1>3
<1> HIDE DEF q, T, n
<1>6. ASSUME NEW k \in 1..n, NEW l \in 1..n, k < l
      PROVE  q[k] < q[l]
  <2>0. q[k] \in P /\ q[l] \in P /\ Cardinality(T[q[k]]) = k /\ Cardinality(T[q[l]]) = l
    BY <1>3
  <2>1. q[k] \in Nat /\ q[l] \in Nat /\ k \in Nat /\ l \in Nat
    <3>1. q[k] \in Nat /\ q[l] \in Nat
      BY <2>0
    <3>2. k \in Nat /\ l \in Nat
      OBVIOUS
    <3>3. QED
      BY <3>1, <3>2
  <2>2. q[l] < q[k] => l < k
    BY <1>1, <2>0
  <2>3. q[l] = q[k] => l = k
    BY <1>3
  <2>4. QED
    BY <1>6, <2>1, <2>2, <2>3
<1>7. \A p \in P : \E k \in 1..n : q[k] = p
  <2>1. \A p \in P : Cardinality(T[p]) \in 1..n /\ q[Cardinality(T[p])] = p
    BY <1>1, <1>3
  <2>2. QED
    BY <2>1
<1>8. Lists(q, n, P)
  BY <1>1, <1>5, <1>6, <1>7 DEF Lists
<1>9. QED
  BY <1>4, <1>8 DEF n

(* There is only one such list.                                             *)
LEMMA OneList ==
  ASSUME NEW P, P \subseteq Nat, NEW n, NEW q, Lists(q, n, P)
  PROVE  /\ IsFiniteSet(P) /\ Cardinality(P) = n
         /\ Filters(q, n, P)
<1>1. n \in Nat /\ q \in [1..n -> P] /\ \A k \in 1..n : q[k] \in Nat
  BY DEF Lists
<1>2. \A k, l \in 1..n : k <= l <=> q[k] <= q[l]
  <2> SUFFICES ASSUME NEW k \in 1..n, NEW l \in 1..n
               PROVE  k <= l <=> q[k] <= q[l]
    OBVIOUS
  <2>1. (k < l => q[k] < q[l]) /\ (l < k => q[l] < q[k]) /\ (k = l => q[k] = q[l])
    BY DEF Lists
  <2>2. k \in Nat /\ l \in Nat /\ q[k] \in Nat /\ q[l] \in Nat
    BY <1>1
  <2>3. QED
    BY <2>1, <2>2
<1>3. ASSUME NEW m \in 0..n
      PROVE  LET U == {q[k] : k \in 1..m} IN IsFiniteSet(U) /\ Cardinality(U) = m
  <2> DEFINE U == {q[k] : k \in 1..m}
             f == [k \in 1..m |-> q[k]]
  <2>1. m \in Nat /\ \A k \in 1..m : k \in 1..n /\ k \in Nat
    BY <1>1
  <2>2. \A k, l \in 1..m : q[k] = q[l] => k = l
    <3> SUFFICES ASSUME NEW k \in 1..m, NEW l \in 1..m, q[k] = q[l]
                 PROVE  k = l
      OBVIOUS
    <3>1. k \in 1..n /\ l \in 1..n /\ k \in Nat /\ l \in Nat /\ q[k] \in Nat
      BY <1>1, <2>1
    <3>2. q[k] <= q[l] /\ q[l] <= q[k]
      BY <3>1
    <3>3. k <= l /\ l <= k
      BY <1>2, <3>1, <3>2
    <3>4. QED
      BY <3>1, <3>3
  <2>3. f \in [1..m -> U] /\ \A k \in 1..m : f[k] = q[k]
    OBVIOUS
  <2>4. f \in Injection(1..m, U)
    BY <2>2, <2>3 DEF Injection, IsInjective
  <2>5. f \in Surjection(1..m, U)
    BY <2>3 DEF Surjection
  <2>6. f \in Bijection(1..m, U)
    BY <2>4, <2>5 DEF Bijection
  <2>7. ExistsBijection(1..m, U)
    BY <2>6 DEF ExistsBijection
  <2>8. IsFiniteSet(1..m) /\ Cardinality(1..m) = m
    BY <2>1, FS_Interval
  <2>9. QED
    BY <2>7, <2>8, FS_Bijection
<1>4. P = {q[k] : k \in 1..n}
  BY <1>1 DEF Lists
<1>5. IsFiniteSet(P) /\ Cardinality(P) = n
  <2>1. n \in 0..n
    BY <1>1
  <2>2. QED
    BY <1>3, <1>4, <2>1
<1>6. ASSUME NEW k \in 1..n
      PROVE  Cardinality({j \in P : j <= q[k]}) = k
  <2>1. {j \in P : j <= q[k]} = {q[l] : l \in {x \in 1..n : x <= k}}
    BY <1>2, <1>4
  <2>2. {x \in 1..n : x <= k} = 1..k /\ k \in 0..n
    BY <1>1
  <2>3. Cardinality({q[l] : l \in 1..k}) = k
    BY <1>3, <2>2
  <2>4. QED
    BY <2>1, <2>2, <2>3
<1>7. ASSUME NEW k \in 1..n
      PROVE  (CHOOSE i \in P : Cardinality({j \in P : j <= i}) = k) = q[k]
  <2>1. q[k] \in P /\ Cardinality({j \in P : j <= q[k]}) = k
    BY <1>1, <1>6
  <2>2. PICK c : c = CHOOSE i \in P : Cardinality({j \in P : j <= i}) = k
    OBVIOUS
  <2>3. c \in P /\ Cardinality({j \in P : j <= c}) = k
    BY <2>1, <2>2
  <2>4. PICK l \in 1..n : c = q[l]
    BY <1>4, <2>3
  <2>5. Cardinality({j \in P : j <= c}) = l
    BY <1>6, <2>4
  <2>6. QED
    BY <2>2, <2>3, <2>4, <2>5
<1>8. \A s : Filtered(s, P) = [k \in 1..n |-> s[q[k]]]
  <2> SUFFICES ASSUME NEW s
               PROVE  Filtered(s, P) = [k \in 1..n |-> s[q[k]]]
    OBVIOUS
  <2>1. Filtered(s, P) = [k \in 1..n |->
                            s[CHOOSE i \in P : Cardinality({j \in P : j <= i}) = k]]
    BY <1>5 DEF Filtered
  <2>2. QED
    BY <1>7, <2>1, Zenon
<1>9. QED
  BY <1>5, <1>8 DEF Filters, Picks

LEMMA FilteredIs ==
  ASSUME NEW A, NEW s \in Seq(A), NEW P, P \subseteq 1..Len(s)
  PROVE  \E q, n : /\ Lists(q, n, P) /\ Cardinality(P) = n
                   /\ Picks(Filtered(s, P), s, q, n)
                   /\ Filtered(s, P) \in Seq(A) /\ Len(Filtered(s, P)) = n
<1>1. Len(s) \in Nat /\ \A i \in 1..Len(s) : s[i] \in A
  BY LenProperties, ElementOfSeq
<1>2. IsFiniteSet(1..Len(s)) /\ P \in SUBSET (1..Len(s))
  BY <1>1, FS_Interval
<1>3. IsFiniteSet(P) /\ P \subseteq Nat
  <2>1. IsFiniteSet(P)
    BY <1>2, FS_Subset
  <2>2. P \subseteq Nat
    BY <1>1
  <2>3. QED
    BY <2>1, <2>2
<1>4. PICK q : Lists(q, Cardinality(P), P) /\ Filters(q, Cardinality(P), P)
  BY <1>3, FilterLists
<1>5. PICK n : n = Cardinality(P)
  OBVIOUS
<1>6. n \in Nat /\ \A k \in 1..n : q[k] \in P
  BY <1>4, <1>5 DEF Lists
<1>7. \A k \in 1..n : s[q[k]] \in A
  BY <1>1, <1>6
<1>8. Lists(q, n, P) /\ Cardinality(P) = n /\ Picks(Filtered(s, P), s, q, n)
  BY <1>4, <1>5, Zenon DEF Filters
<1>9. Filtered(s, P) \in Seq(A) /\ Len(Filtered(s, P)) = n
  BY <1>6, <1>7, <1>8 DEF Picks
<1>10. QED
  BY <1>8, <1>9, Zenon

(* An element put at the end is kept last, or dropped. *)
Grown(s, t, P, e) ==
    /\ Filtered(t, P) = Filtered(s, P)
    /\ Filtered(t, P \cup {Len(s) + 1}) = Append(Filtered(s, P), e)

LEMMA FilteredGrows ==
  ASSUME NEW A, NEW s \in Seq(A), NEW P, P \subseteq 1..Len(s), NEW e \in A,
         NEW t, t = Append(s, e)
  PROVE  Grown(s, t, P, e)
<1>1. PICK q, n : /\ Lists(q, n, P) /\ Picks(Filtered(s, P), s, q, n)
                  /\ Filtered(s, P) \in Seq(A) /\ Len(Filtered(s, P)) = n
  BY FilteredIs
<1>2. PICK m \in Nat : m = Len(s)
  BY LenProperties
<1>3. /\ t \in Seq(A) /\ Len(t) = m + 1
      /\ \A i \in 1..m : t[i] = s[i]
      /\ t[m + 1] = e
  BY <1>2, AppendProperties
<1>4. m + 1 = Len(s) + 1
  BY <1>2
<1>5. /\ n \in Nat /\ q \in [1..n -> P] /\ P \subseteq Nat
      /\ \A k \in 1..n : q[k] \in P /\ q[k] \in 1..m /\ q[k] \in Nat /\ q[k] <= m
  <2>1. n \in Nat /\ q \in [1..n -> P] /\ P \subseteq 1..m
    BY <1>1, <1>2 DEF Lists
  <2>2. \A i \in 1..m : i \in Nat /\ i <= m
    OBVIOUS
  <2>3. QED
    BY <2>1, <2>2
<1>6. Filtered(t, P) = Filtered(s, P)
  <2>1. Filtered(t, P) = [k \in 1..n |-> t[q[k]]]
    <3>1. P \subseteq Nat /\ Lists(q, n, P)
      BY <1>1, <1>5
    <3>2. Filters(q, n, P)
      BY <3>1, OneList, Zenon
    <3>3. QED
      BY <3>2, Zenon DEF Filters, Picks
  <2>2. \A k \in 1..n : t[q[k]] = s[q[k]]
    BY <1>3, <1>5
  <2>3. QED
    BY <1>1, <2>1, <2>2 DEF Picks
<1>7. Filtered(t, P \cup {m + 1}) = Append(Filtered(s, P), e)
  <2> DEFINE r == [k \in 1..(n + 1) |-> IF k = n + 1 THEN m + 1 ELSE q[k]]
             Q == P \cup {m + 1}
  <2>1. \A k \in 1..(n + 1) : k = n + 1 \/ k \in 1..n
    BY <1>5
  <2>2. n + 1 \in Nat /\ Q \subseteq Nat /\ r \in [1..(n + 1) -> Q]
    BY <1>5, <2>1
  <2>3. /\ r[n + 1] = m + 1 /\ n + 1 \in 1..(n + 1)
        /\ \A k \in 1..n : r[k] = q[k] /\ k \in 1..(n + 1) /\ k < n + 1
    BY <1>5
  <2> HIDE DEF r
  <2>4. ASSUME NEW k \in 1..(n + 1), NEW l \in 1..(n + 1), k < l
        PROVE  r[k] < r[l]
    <3>1. k \in 1..n
      BY <1>5, <2>4
    <3>2. CASE l \in 1..n
      <4>1. q[k] < q[l]
        BY <1>1, <2>4, <3>1, <3>2 DEF Lists
      <4>2. QED
        BY <2>3, <3>1, <3>2, <4>1
    <3>3. CASE l = n + 1
      <4>1. r[k] = q[k] /\ r[l] = m + 1
        BY <2>3, <3>1, <3>3
      <4>2. q[k] \in Nat /\ q[k] <= m
        BY <1>5, <3>1
      <4>3. QED
        BY <4>1, <4>2
    <3>4. QED
      BY <2>1, <3>2, <3>3
  <2>5. ASSUME NEW p \in Q
        PROVE  \E k \in 1..(n + 1) : r[k] = p
    <3>1. CASE p \in P
      <4>1. PICK k \in 1..n : q[k] = p
        BY <1>1, <3>1 DEF Lists
      <4>2. QED
        BY <2>3, <4>1
    <3>2. CASE p = m + 1
      BY <2>3, <3>2
    <3>3. QED
      BY <3>1, <3>2
  <2>6. Lists(r, n + 1, Q)
    BY <2>2, <2>4, <2>5 DEF Lists
  <2>7. Filtered(t, Q) = [k \in 1..(n + 1) |-> t[r[k]]]
    <3>1. Q \subseteq Nat /\ Lists(r, n + 1, Q)
      BY <2>2, <2>6
    <3> HIDE DEF Q
    <3>2. Filters(r, n + 1, Q)
      BY <3>1, OneList, Zenon
    <3>3. QED
      BY <3>2, Zenon DEF Filters, Picks
  <2>8. \A k \in 1..(n + 1) : t[r[k]] = IF k = n + 1 THEN e ELSE s[q[k]]
    BY <1>3, <1>5, <2>1, <2>3
  <2>9. PICK u : u = Filtered(s, P)
    OBVIOUS
  <2>10. /\ u \in Seq(A) /\ Len(u) = n /\ \A k \in 1..n : u[k] = s[q[k]]
    BY <1>1, <2>9 DEF Picks
  <2>11. PICK v : v = Append(u, e)
    OBVIOUS
  <2>12. v \in Seq(A) /\ Len(v) = n + 1 /\ (\A k \in 1..n : v[k] = u[k]) /\ v[n + 1] = e
    BY <2>10, <2>11, AppendProperties
  <2>13. DOMAIN v = 1..(n + 1) /\ v = [k \in 1..(n + 1) |-> v[k]]
    BY <2>12, LenProperties
  <2>14. \A k \in 1..(n + 1) : v[k] = t[r[k]]
    BY <2>1, <2>3, <2>8, <2>10, <2>12
  <2>15. v = Filtered(t, Q)
    BY <2>7, <2>13, <2>14
  <2>16. QED
    BY <2>9, <2>11, <2>15
<1>8. QED
  BY <1>4, <1>6, <1>7, Zenon DEF Grown

(* q lists the places of a sequence as a sort by key leaves them.           *)
Sorts(q, n, key) ==
    /\ q \in [1..n -> 1..n]
    /\ \A k, l \in 1..n : q[k] = q[l] => k = l
    /\ \A p \in 1..n : \E k \in 1..n : q[k] = p
    /\ \A k, l \in 1..n : k < l => AtOrBefore(key, q[k], q[l])

LEMMA SortedIs ==
  ASSUME NEW A, NEW s \in Seq(A), NEW key, \A i \in 1..Len(s) : key[i] \in Int
  PROVE  \E q : /\ Sorts(q, Len(s), key)
                /\ SortedBy(s, key) = [k \in 1..Len(s) |-> s[q[k]]]
                /\ SortedBy(s, key) \in Seq(A) /\ Len(SortedBy(s, key)) = Len(s)
<1>1. PICK n \in Nat : n = Len(s)
  BY LenProperties
<1> DEFINE S == DOMAIN s
           T == [i \in S |-> {j \in S : AtOrBefore(key, j, i)}]
           place == [i \in S |-> Cardinality({j \in S : AtOrBefore(key, j, i)})]
           q == [k \in S |-> CHOOSE i \in S : place[i] = k]
<1>2. IsFiniteSet(S) /\ Cardinality(S) = n /\ S = 1..n
  <2>1. S = 1..n
    BY <1>1, LenProperties
  <2>2. IsFiniteSet(1..n) /\ Cardinality(1..n) = n
    BY FS_Interval
  <2>3. QED
    BY <2>1, <2>2
<1>3. \A i \in S : i \in Nat /\ key[i] \in Int
  BY <1>1, <1>2
<1>4. \A i, j \in S : i \in T[j] <=> AtOrBefore(key, i, j)
  OBVIOUS
<1>5. \A i \in S : T[i] \in SUBSET S /\ i \in T[i]
  BY <1>3 DEF AtOrBefore
<1>6. \A i, j \in S : i # j => (i \in T[j] <=> j \notin T[i])
  BY <1>3, <1>4 DEF AtOrBefore
<1>7. ASSUME NEW i \in S, NEW j \in S, i \in T[j]
      PROVE  T[i] \subseteq T[j]
  <2>1. AtOrBefore(key, i, j)
    BY <1>4, <1>7
  <2>2. \A x \in S : AtOrBefore(key, x, i) => AtOrBefore(key, x, j)
    BY <1>3, <2>1 DEF AtOrBefore
  <2>3. QED
    BY <2>2
<1>8. SortedBy(s, key) = [k \in S |-> s[q[k]]]
  <2>1. SortedBy(s, key) = [k \in S |-> s[CHOOSE i \in S : place[i] = k]]
    BY Zenon DEF SortedBy
  <2> HIDE DEF place
  <2>2. QED
    BY <2>1
<1>80. \A i \in S : place[i] = Cardinality(T[i])
  OBVIOUS
<1> HIDE DEF T, place, S
<1>9. /\ \A x \in S : Cardinality(T[x]) \in 1..n
      /\ \A x, y \in S : x \in T[y] /\ x # y => Cardinality(T[x]) < Cardinality(T[y])
      /\ \A x, y \in S : Cardinality(T[x]) = Cardinality(T[y]) => x = y
      /\ \A k \in 1..n : \E x \in S : Cardinality(T[x]) = k
  <2>1. \A i, j \in S : i \in T[j] => T[i] \subseteq T[j]
    BY <1>7
  <2>2. /\ \A x \in S : Cardinality(T[x]) \in 1..Cardinality(S)
        /\ \A x, y \in S : x \in T[y] /\ x # y => Cardinality(T[x]) < Cardinality(T[y])
        /\ \A x, y \in S : Cardinality(T[x]) = Cardinality(T[y]) => x = y
        /\ \A k \in 1..Cardinality(S) : \E x \in S : Cardinality(T[x]) = k
    <3>1. Nested(S, T)
      BY <1>2, <1>5, <1>6, <2>1 DEF Nested
    <3>2. EachItsPlace(S, T)
      BY <3>1, Places, Zenon
    <3>3. QED
      BY <3>2 DEF EachItsPlace
  <2>3. QED
    BY <1>2, <2>2
<1>10. \A k \in S : q[k] \in S /\ Cardinality(T[q[k]]) = k
  <2> SUFFICES ASSUME NEW k \in S
               PROVE  q[k] \in S /\ Cardinality(T[q[k]]) = k
    OBVIOUS
  <2>1. \E i \in S : place[i] = k
    BY <1>2, <1>9, <1>80
  <2>2. q[k] \in S /\ place[q[k]] = k
    BY <2>1
  <2>3. QED
    BY <1>80, <2>2
<1>11. q \in [S -> S]
  BY <1>10
<1> HIDE DEF q
<1>12. \A k, l \in S : q[k] = q[l] => k = l
  BY <1>10
<1>13. \A p \in S : \E k \in S : q[k] = p
  <2> SUFFICES ASSUME NEW p \in S
               PROVE  \E k \in S : q[k] = p
    OBVIOUS
  <2>1. PICK k \in S : k = Cardinality(T[p])
    BY <1>2, <1>9
  <2>2. q[k] \in S /\ Cardinality(T[q[k]]) = k
    BY <1>10
  <2>3. q[k] = p
    BY <1>9, <2>1, <2>2
  <2>4. QED
    BY <2>3
<1>14. ASSUME NEW k \in S, NEW l \in S, k < l
       PROVE  AtOrBefore(key, q[k], q[l])
  <2>1. q[k] \in S /\ q[l] \in S /\ Cardinality(T[q[k]]) = k /\ Cardinality(T[q[l]]) = l
    BY <1>10
  <2>2. k \in Nat /\ l \in Nat
    BY <1>3
  <2>3. q[l] \in T[q[k]] /\ q[l] # q[k] => l < k
    <3>1. PICK a, b : a = q[k] /\ b = q[l]
      OBVIOUS
    <3>2. b \in T[a] /\ b # a => Cardinality(T[b]) < Cardinality(T[a])
      BY <1>9, <2>1, <3>1
    <3>3. Cardinality(T[b]) = l /\ Cardinality(T[a]) = k
      BY <2>1, <3>1
    <3>4. b \in T[a] /\ b # a => l < k
      BY <3>2, <3>3, Zenon
    <3>5. QED
      BY <3>1, <3>4, Zenon
  <2>4. q[k] # q[l]
    BY <1>14, <2>1, <2>2
  <2>5. q[k] \in T[q[l]]
    <3>1. ~(l < k)
      BY <1>14, <2>2
    <3>2. q[l] \notin T[q[k]]
      BY <2>3, <2>4, <3>1
    <3>3. q[k] \in T[q[l]] <=> q[l] \notin T[q[k]]
      BY <1>6, <2>1, <2>4, Zenon
    <3>4. QED
      BY <3>2, <3>3
  <2>6. QED
    BY <1>4, <2>1, <2>5
<1>15. Sorts(q, n, key)
  BY <1>2, <1>11, <1>12, <1>13, <1>14 DEF Sorts
<1>16. SortedBy(s, key) \in Seq(A) /\ Len(SortedBy(s, key)) = n
  <2>1. \A k \in S : s[q[k]] \in A
    BY <1>1, <1>2, <1>10, ElementOfSeq
  <2>2. QED
    BY <1>1, <1>2, <1>8, <2>1
<1>17. QED
  BY <1>1, <1>2, <1>8, <1>15, <1>16

(* The parts' arrays are these. *)
LEMMA SameArrays ==
  /\ \A s, P : Timeline!Filtered(s, P) = Filtered(s, P) /\ Store!Filtered(s, P) = Filtered(s, P)
  /\ \A s, key : /\ Timeline!SortedBy(s, key) = SortedBy(s, key)
                 /\ Store!SortedBy(s, key) = SortedBy(s, key)
<1>2. \A s, P : Timeline!Filtered(s, P) = Filtered(s, P) /\ Store!Filtered(s, P) = Filtered(s, P)
  BY Zenon DEF Timeline!Filtered, Store!Filtered, Filtered, Timeline!Cardinality, Store!Cardinality, Cardinality,
               Timeline!IsFiniteSet, Store!IsFiniteSet, IsFiniteSet
<1>3. \A s, key : /\ Timeline!SortedBy(s, key) = SortedBy(s, key)
                 /\ Store!SortedBy(s, key) = SortedBy(s, key)
  BY Zenon DEF Timeline!SortedBy, Store!SortedBy, SortedBy, Timeline!Cardinality, Store!Cardinality, Cardinality,
               Timeline!IsFiniteSet, Store!IsFiniteSet, IsFiniteSet, Timeline!AtOrBefore, Store!AtOrBefore, AtOrBefore
<1>4. QED
  BY <1>2, <1>3

(* A finite set of numbers has a greatest one. *)
LEMMA GreatestOf ==
  ASSUME NEW S, S \subseteq Nat, IsFiniteSet(S), S # {}
  PROVE  \E n \in S : \A s \in S : s <= n
<1>1. Cardinality(S) \in Nat \ {0}
  BY FS_CardinalityType, FS_EmptySet
<1>2. PICK q, n : n = Cardinality(S) /\ Lists(q, n, S)
  BY FilterLists
<1>3. n \in 1..n /\ q[n] \in S
  BY <1>1, <1>2 DEF Lists
<1>4. ASSUME NEW s \in S
      PROVE  s <= q[n]
  <2>1. PICK k \in 1..n : q[k] = s
    BY <1>2 DEF Lists
  <2>2. k = n \/ k < n
    BY <1>1, <1>2
  <2>3. s = q[n] \/ s < q[n]
    BY <1>2, <1>3, <2>1, <2>2 DEF Lists
  <2>4. s \in Nat /\ q[n] \in Nat
    BY <1>3
  <2>5. QED
    BY <2>3, <2>4
<1>5. QED
  BY <1>3, <1>4

-----------------------------------------------------------------------------
(* q lists the places of a sequence in one way only.                        *)
LEMMA OneSort ==
  ASSUME NEW A, NEW s \in Seq(A), NEW key, \A i \in 1..Len(s) : key[i] \in Int,
         NEW q, Sorts(q, Len(s), key)
  PROVE  SortedBy(s, key) = [k \in 1..Len(s) |-> s[q[k]]]
<1>1. PICK n \in Nat : n = Len(s)
  BY LenProperties
<1>2. PICK r : /\ Sorts(r, n, key)
               /\ SortedBy(s, key) = [k \in 1..n |-> s[r[k]]]
  BY <1>1, SortedIs
<1>3. Sorts(q, n, key) /\ \A i \in 1..n : key[i] \in Int /\ i \in Nat
  BY <1>1
<1> DEFINE M == {k \in 1..n : q[k] # r[k]}
<1>4. ASSUME M # {}
      PROVE  FALSE
  <2>1. PICK k \in M : \A l \in M : k <= l
    <3>1. M \subseteq Nat
      OBVIOUS
    <3>2. QED
      BY <1>4, <3>1, LeastOf
  <2>2. k \in 1..n /\ q[k] # r[k] /\ q[k] \in 1..n /\ r[k] \in 1..n
    BY <1>2, <1>3, <2>1 DEF Sorts
  <2>3. \A l \in 1..n : l < k => q[l] = r[l]
    BY <2>1
  <2>4. PICK l \in 1..n : q[l] = r[k]
    BY <1>3, <2>2 DEF Sorts
  <2>5. PICK m \in 1..n : r[m] = q[k]
    BY <1>2, <2>2 DEF Sorts
  <2>6. k < l
    <3>1. l < k => l = k
      BY <1>2, <2>2, <2>3, <2>4 DEF Sorts
    <3>2. l # k
      BY <2>2, <2>4
    <3>3. QED
      BY <2>2, <3>1, <3>2
  <2>7. k < m
    <3>1. m < k => m = k
      BY <1>3, <2>2, <2>3, <2>5 DEF Sorts
    <3>2. m # k
      BY <2>2, <2>5
    <3>3. QED
      BY <2>2, <3>1, <3>2
  <2>8. AtOrBefore(key, q[k], r[k])
    BY <1>3, <2>2, <2>4, <2>6 DEF Sorts
  <2>9. AtOrBefore(key, r[k], q[k])
    BY <1>2, <2>2, <2>5, <2>7 DEF Sorts
  <2>10. QED
    BY <1>3, <2>2, <2>8, <2>9 DEF AtOrBefore
<1>5. \A k \in 1..n : q[k] = r[k]
  BY <1>4
<1>6. QED
  BY <1>1, <1>2, <1>5

(* t is s with e put at place k.                                            *)
Inserts(t, s, k, e) ==
    /\ k \in 1..(Len(s) + 1) /\ Len(t) = Len(s) + 1
    /\ \A i \in 1..Len(s) : i < k => t[i] = s[i]
    /\ t[k] = e
    /\ \A i \in 1..Len(s) : k <= i => t[i + 1] = s[i]

(* Events sorted by their times.                                            *)
Sorted(s) == SortedBy(s, [i \in DOMAIN s |-> s[i].time])
InOrder(s) == \A i, j \in 1..Len(s) : i < j => s[i].time <= s[j].time

LEMMA SortedEvents ==
  ASSUME NEW A, NEW s \in Seq(A), \A a \in A : a.time \in Int
  PROVE  /\ Sorted(s) \in Seq(A) /\ Len(Sorted(s)) = Len(s) /\ InOrder(Sorted(s))
         /\ \A k \in 1..Len(s) : \E i \in 1..Len(s) : Sorted(s)[k] = s[i]
         /\ \A i \in 1..Len(s) : \E k \in 1..Len(s) : Sorted(s)[k] = s[i]
<1>1. PICK n \in Nat : n = Len(s) /\ DOMAIN s = 1..n /\ \A i \in 1..n : s[i] \in A
  BY LenProperties, ElementOfSeq
<1>2. PICK key : key = [i \in DOMAIN s |-> s[i].time]
  OBVIOUS
<1>3. \A i \in 1..n : key[i] = s[i].time /\ key[i] \in Int
  BY <1>1, <1>2
<1>4. PICK t : t = Sorted(s)
  OBVIOUS
<1>5. PICK q : Sorts(q, n, key) /\ t = [k \in 1..n |-> s[q[k]]] /\ t \in Seq(A) /\ Len(t) = n
  BY <1>1, <1>2, <1>3, <1>4, SortedIs DEF Sorted
<1>6. \A k \in 1..n : q[k] \in 1..n /\ t[k] = s[q[k]]
  BY <1>5 DEF Sorts
<1>7. \A i \in 1..n : \E k \in 1..n : t[k] = s[i]
  BY <1>5, <1>6 DEF Sorts
<1>8. ASSUME NEW k \in 1..n, NEW l \in 1..n, k < l
      PROVE  t[k].time <= t[l].time
  <2>1. AtOrBefore(key, q[k], q[l])
    BY <1>5, <1>8 DEF Sorts
  <2>2. key[q[k]] <= key[q[l]]
    BY <1>3, <1>6, <2>1 DEF AtOrBefore
  <2>3. QED
    BY <1>3, <1>6, <2>2
<1>9. InOrder(t)
  BY <1>5, <1>8 DEF InOrder
<1>10. QED
  BY <1>1, <1>4, <1>5, <1>6, <1>7, <1>9

(* One more event goes behind those that are not later than it.             *)
LEMMA SortInserts ==
  ASSUME NEW A, NEW s \in Seq(A), NEW e \in A, \A a \in A : a.time \in Int
  PROVE  \E k : /\ Inserts(Sorted(Append(s, e)), Sorted(s), k, e)
                /\ \A i \in 1..Len(s) : i < k => Sorted(s)[i].time <= e.time
                /\ \A i \in 1..Len(s) : k <= i => Sorted(s)[i].time > e.time
<1>1. PICK n \in Nat : n = Len(s) /\ DOMAIN s = 1..n /\ \A i \in 1..n : s[i] \in A
  BY LenProperties, ElementOfSeq
<1>2. PICK key : key = [i \in DOMAIN s |-> s[i].time]
  OBVIOUS
<1>3. \A i \in 1..n : key[i] = s[i].time /\ key[i] \in Int
  BY <1>1, <1>2
<1>4. PICK u : u = Sorted(s)
  OBVIOUS
<1>5. PICK q : Sorts(q, n, key) /\ u = [k \in 1..n |-> s[q[k]]] /\ Len(u) = n
  BY <1>1, <1>2, <1>3, <1>4, SortedIs DEF Sorted
<1>6. \A k \in 1..n : q[k] \in 1..n /\ q[k] \in Nat /\ u[k] = s[q[k]] /\ u[k].time = key[q[k]] /\ key[q[k]] \in Int
  <2> SUFFICES ASSUME NEW k \in 1..n
               PROVE  /\ q[k] \in 1..n /\ q[k] \in Nat /\ u[k] = s[q[k]]
                      /\ u[k].time = key[q[k]] /\ key[q[k]] \in Int
    OBVIOUS
  <2>1. q[k] \in 1..n /\ u[k] = s[q[k]]
    BY <1>5 DEF Sorts
  <2>2. q[k] \in Nat
    BY <2>1
  <2>3. key[q[k]] = s[q[k]].time /\ key[q[k]] \in Int
    BY <1>3, <2>1
  <2>4. QED
    BY <2>1, <2>2, <2>3
<1>7. e.time \in Int /\ \A i, j \in 1..n : i < j => u[i].time <= u[j].time
  BY <1>1, <1>4, SortedEvents DEF InOrder
<1> DEFINE M == {k \in 1..(n + 1) : k = n + 1 \/ u[k].time > e.time}
<1>8. PICK k \in M : \A l \in M : k <= l
  <2>1. n + 1 \in M /\ M \subseteq Nat
    OBVIOUS
  <2>2. QED
    BY <2>1, LeastOf
<1>9. k \in 1..(n + 1) /\ k \in Nat
  BY <1>8
<1>10. \A i \in 1..n : i < k => u[i].time <= e.time
  <2> SUFFICES ASSUME NEW i \in 1..n, i < k
               PROVE  u[i].time <= e.time
    OBVIOUS
  <2>1. i \in 1..(n + 1) /\ ~(k <= i)
    BY <1>9
  <2>2. ~(u[i].time > e.time)
    BY <1>8, <2>1
  <2>3. QED
    BY <1>6, <1>7, <2>2
<1>11. \A i \in 1..n : k <= i => u[i].time > e.time
  <2> SUFFICES ASSUME NEW i \in 1..n, k <= i
               PROVE  u[i].time > e.time
    OBVIOUS
  <2>1. k \in 1..n /\ k # n + 1
    BY <1>9
  <2>2. u[k].time > e.time
    BY <1>8, <2>1
  <2>3. u[k].time <= u[i].time
    <3>1. CASE k = i
      BY <1>6, <3>1
    <3>2. CASE k < i
      BY <1>7, <2>1, <3>2
    <3>3. QED
      BY <1>9, <3>1, <3>2
  <2>4. QED
    BY <1>6, <1>7, <2>1, <2>2, <2>3
<1>12. PICK t : t = Append(s, e)
  OBVIOUS
<1>13. t \in Seq(A) /\ Len(t) = n + 1 /\ DOMAIN t = 1..(n + 1) /\ (\A i \in 1..n : t[i] = s[i]) /\ t[n + 1] = e
  BY <1>1, <1>12, AppendProperties, LenProperties
<1>14. PICK last : last = [i \in DOMAIN t |-> t[i].time]
  OBVIOUS
<1>15. /\ \A i \in 1..n : last[i] = key[i]
       /\ last[n + 1] = e.time /\ \A i \in 1..(n + 1) : last[i] \in Int
  <2>1. \A i \in 1..(n + 1) : (i = n + 1 \/ i \in 1..n) /\ last[i] = t[i].time
    BY <1>13, <1>14
  <2>2. n + 1 \in 1..(n + 1) /\ \A i \in 1..n : i \in 1..(n + 1)
    OBVIOUS
  <2>3. QED
    BY <1>3, <1>7, <1>13, <2>1, <2>2
<1> DEFINE r == [i \in 1..(n + 1) |-> IF i < k THEN q[i] ELSE IF i = k THEN n + 1 ELSE q[i - 1]]
<1>16. \A i \in 1..(n + 1) :
          /\ i < k => i \in 1..n /\ r[i] = q[i]
          /\ i = k => r[i] = n + 1
          /\ i > k => i - 1 \in 1..n /\ k <= i - 1 /\ r[i] = q[i - 1]
          /\ i < k \/ i = k \/ i > k
  BY <1>9
<1>17. r \in [1..(n + 1) -> 1..(n + 1)]
  <2> SUFFICES ASSUME NEW i \in 1..(n + 1)
               PROVE  r[i] \in 1..(n + 1)
    OBVIOUS
  <2> HIDE DEF r
  <2>1. n + 1 \in 1..(n + 1) /\ \A j \in 1..n : j \in 1..(n + 1)
    OBVIOUS
  <2>2. QED
    BY <1>6, <1>16, <2>1
<1> HIDE DEF r, M
<1>18. Sorts(r, n + 1, last)
  <2>1. ASSUME NEW i \in 1..(n + 1), NEW j \in 1..(n + 1), i < j
        PROVE  AtOrBefore(last, r[i], r[j]) /\ r[i] # r[j]
    <3>1. i \in Nat /\ j \in Nat
      OBVIOUS
    <3>2. ASSUME NEW a \in 1..n, NEW b \in 1..n, a < b
          PROVE  AtOrBefore(last, q[a], q[b]) /\ q[a] # q[b]
      <4>1. AtOrBefore(key, q[a], q[b]) /\ q[a] # q[b]
        <5>1. a # b
          BY <3>2
        <5>2. QED
          BY <1>5, <3>2, <5>1 DEF Sorts
      <4>2. last[q[a]] = key[q[a]] /\ last[q[b]] = key[q[b]]
        BY <1>6, <1>15
      <4>3. QED
        BY <4>1, <4>2 DEF AtOrBefore
    <3>3. CASE j < k
      <4>1. i < k
        BY <1>9, <2>1, <3>1, <3>3
      <4>2. QED
        BY <1>16, <2>1, <3>2, <3>3, <4>1
    <3>4. CASE j = k
      <4>1. i < k
        BY <2>1, <3>4
      <4>2. i \in 1..n /\ r[i] = q[i] /\ r[j] = n + 1
        BY <1>16, <3>4, <4>1
      <4>3. q[i] <= n + 1 /\ q[i] # n + 1 /\ last[q[i]] = u[i].time /\ u[i].time <= e.time
        BY <1>6, <1>10, <1>15, <4>1, <4>2
      <4>4. last[q[i]] < last[n + 1] \/ last[q[i]] = last[n + 1]
        BY <1>6, <1>7, <1>15, <4>2, <4>3
      <4>5. QED
        BY <4>2, <4>3, <4>4 DEF AtOrBefore
    <3>5. CASE j > k /\ i < k
      <4>1. i \in 1..n /\ j - 1 \in 1..n /\ r[i] = q[i] /\ r[j] = q[j - 1] /\ i < j - 1
        BY <1>9, <1>16, <3>1, <3>5
      <4>2. QED
        BY <3>2, <4>1
    <3>6. CASE j > k /\ i = k
      <4>1. j - 1 \in 1..n /\ k <= j - 1 /\ r[i] = n + 1 /\ r[j] = q[j - 1]
        BY <1>16, <3>6
      <4>2. q[j - 1] # n + 1 /\ last[q[j - 1]] = u[j - 1].time /\ u[j - 1].time > e.time
        BY <1>6, <1>11, <1>15, <4>1
      <4>3. last[n + 1] < last[q[j - 1]]
        BY <1>6, <1>7, <1>15, <4>1, <4>2
      <4>4. QED
        BY <4>1, <4>2, <4>3 DEF AtOrBefore
    <3>7. CASE j > k /\ i > k
      <4>1. i - 1 \in 1..n /\ j - 1 \in 1..n /\ r[i] = q[i - 1] /\ r[j] = q[j - 1] /\ i - 1 < j - 1
        BY <1>9, <1>16, <2>1, <3>1, <3>7
      <4>2. QED
        BY <3>2, <4>1
    <3>8. QED
      BY <1>16, <3>3, <3>4, <3>5, <3>6, <3>7
  <2>2. ASSUME NEW i \in 1..(n + 1), NEW j \in 1..(n + 1), r[i] = r[j]
        PROVE  i = j
    <3>1. ~(i < j) /\ ~(j < i)
      BY <2>1, <2>2
    <3>2. QED
      BY <3>1
  <2>3. ASSUME NEW p \in 1..(n + 1)
        PROVE  \E i \in 1..(n + 1) : r[i] = p
    <3>1. CASE p = n + 1
      BY <1>9, <1>16, <3>1
    <3>2. CASE p # n + 1
      <4>1. p \in 1..n
        BY <3>2
      <4>2. PICK i \in 1..n : q[i] = p
        BY <1>5, <4>1 DEF Sorts
      <4>3. CASE i < k
        <5>1. i \in 1..(n + 1)
          OBVIOUS
        <5>2. QED
          BY <1>16, <4>2, <4>3, <5>1
      <4>4. CASE k <= i
        <5>1. i + 1 \in 1..(n + 1) /\ i + 1 > k /\ (i + 1) - 1 = i
          BY <1>9, <4>4
        <5>2. QED
          BY <1>16, <4>2, <5>1
      <4>5. QED
        BY <1>9, <4>3, <4>4
    <3>3. QED
      BY <3>1, <3>2
  <2>4. QED
    BY <1>17, <2>1, <2>2, <2>3 DEF Sorts
<1>19. PICK v : v = Sorted(t)
  OBVIOUS
<1>20. v = [i \in 1..(n + 1) |-> t[r[i]]]
  <2>1. \A i \in 1..Len(t) : last[i] \in Int
    BY <1>13, <1>15
  <2>2. v = SortedBy(t, last)
    BY <1>14, <1>19 DEF Sorted
  <2>3. Sorts(r, Len(t), last)
    BY <1>13, <1>18
  <2>4. v = [i \in 1..Len(t) |-> t[r[i]]]
    BY <1>13, <2>1, <2>2, <2>3, OneSort
  <2>5. QED
    BY <1>13, <2>4
<1>21. Len(v) = n + 1
  BY <1>20
<1>22. ASSUME NEW i \in 1..n, i < k
       PROVE  v[i] = u[i]
  <2>1. i \in 1..(n + 1)
    OBVIOUS
  <2>2. v[i] = t[q[i]]
    BY <1>16, <1>20, <1>22, <2>1
  <2>3. QED
    BY <1>6, <1>13, <2>2
<1>23. v[k] = e
  BY <1>9, <1>13, <1>16, <1>20
<1>24. ASSUME NEW i \in 1..n, k <= i
       PROVE  v[i + 1] = u[i]
  <2>1. i + 1 \in 1..(n + 1) /\ i + 1 > k /\ (i + 1) - 1 = i
    BY <1>9, <1>24
  <2>2. v[i + 1] = t[q[i]]
    BY <1>16, <1>20, <2>1
  <2>3. QED
    BY <1>6, <1>13, <2>2
<1>25. Inserts(v, u, k, e)
  BY <1>5, <1>9, <1>21, <1>22, <1>23, <1>24 DEF Inserts
<1>26. QED
  BY <1>1, <1>4, <1>10, <1>11, <1>12, <1>19, <1>25

-----------------------------------------------------------------------------
(* g runs over s from a: each state is what F makes of the one before and   *)
(* the next element.                                                        *)
Runs(g, s, a, F) == g[0] = a /\ \A k \in 1..Len(s) : g[k] = F[s[k]][g[k - 1]]

(* There is a run, and its states are in the range of F.                    *)
LEMMA RunTyped ==
  ASSUME NEW X, NEW A, NEW F \in [A -> [X -> X]], NEW a \in X, NEW s \in Seq(A),
         NEW g, Runs(g, s, a, F)
  PROVE  \A k \in 0..Len(s) : g[k] \in X
<1>1. PICK n \in Nat : n = Len(s) /\ \A i \in 1..n : s[i] \in A
  BY LenProperties, ElementOfSeq
<1> DEFINE M == {k \in 0..n : g[k] \notin X}
<1>2. ASSUME M # {}
      PROVE  FALSE
  <2>1. M \subseteq Nat
    OBVIOUS
  <2>2. PICK k \in M : \A l \in M : k <= l
    BY <1>2, <2>1, LeastOf
  <2>3. k # 0
    BY <2>2 DEF Runs
  <2>4. k \in 1..n /\ k - 1 \in 0..n /\ ~(k <= k - 1)
    BY <2>3
  <2>5. g[k - 1] \in X /\ g[k] = F[s[k]][g[k - 1]] /\ s[k] \in A
    BY <1>1, <2>2, <2>4 DEF Runs
  <2>6. QED
    BY <2>2, <2>5
<1>3. QED
  BY <1>1, <1>2

LEMMA RunExists ==
  ASSUME NEW X, NEW A, NEW F \in [A -> [X -> X]], NEW a \in X, NEW s \in Seq(A)
  PROVE  \E g : Runs(g, s, a, F)
<1>1. PICK n \in Nat : n = Len(s)
  BY LenProperties
<1> DEFINE Until(g, m) == g[0] = a /\ \A k \in 1..m : g[k] = F[s[k]][g[k - 1]]
           M == {m \in 0..n : ~ \E g : Until(g, m)}
<1>2. ASSUME M # {}
      PROVE  FALSE
  <2>1. M \subseteq Nat
    OBVIOUS
  <2>2. PICK m \in M : \A l \in M : m <= l
    BY <1>2, <2>1, LeastOf
  <2>3. CASE m = 0
    <3>1. Until([k \in {0} |-> a], 0)
      OBVIOUS
    <3>2. QED
      BY <2>2, <2>3, <3>1
  <2>4. CASE m # 0
    <3>1. m \in 1..n /\ m - 1 \in 0..n /\ ~(m <= m - 1)
      BY <2>4
    <3>2. PICK g : Until(g, m - 1)
      BY <2>2, <3>1
    <3> DEFINE h == [k \in 0..m |-> IF k = m THEN F[s[m]][g[m - 1]] ELSE g[k]]
    <3>3. /\ h[m] = F[s[m]][g[m - 1]] /\ m \in 1..m
          /\ \A k \in 0..(m - 1) : h[k] = g[k]
      BY <3>1
    <3> HIDE DEF h
    <3>4. ASSUME NEW k \in 1..m
          PROVE  h[k] = F[s[k]][h[k - 1]]
      <4>1. k - 1 \in 0..(m - 1)
        BY <3>1
      <4>2. CASE k = m
        BY <3>3, <4>1, <4>2
      <4>3. CASE k # m
        <5>1. k \in 1..(m - 1) /\ k \in 0..(m - 1)
          BY <3>1, <4>3
        <5>2. g[k] = F[s[k]][g[k - 1]]
          BY <3>2, <5>1
        <5>3. QED
          BY <3>3, <4>1, <5>1, <5>2
      <4>4. QED
        BY <4>2, <4>3
    <3>5. h[0] = a
      <4>1. 0 \in 0..(m - 1)
        BY <3>1
      <4>2. QED
        BY <3>2, <3>3, <4>1
    <3>6. Until(h, m)
      BY <3>4, <3>5
    <3> HIDE DEF Until
    <3>7. QED
      BY <2>2, <3>6
  <2>5. QED
    BY <2>3, <2>4
<1>3. \E g : Until(g, n)
  <2>1. n \in 0..n
    OBVIOUS
  <2>2. QED
    BY <1>2, <2>1
<1>4. QED
  BY <1>1, <1>3 DEF Runs

(* E makes of the states after later elements what e makes of them before.  *)
Swaps(F, e, E, s, p, X) ==
    \A i \in 1..Len(s), x \in X : p <= i =>
        F[s[i]][F[e][x]] = E[F[s[i]][x]] /\ F[s[i]][E[x]] = E[F[s[i]][x]]

(* A run over s, and t, which is s with e put in at place p; what there is  *)
(* to show of them.                                                         *)
PutIn(X, A, F, a, s, g, e, t, p, E) ==
    /\ F \in [A -> [X -> X]] /\ a \in X /\ s \in Seq(A) /\ Runs(g, s, a, F)
    /\ e \in A /\ Inserts(t, s, p, e)
    /\ E \in [X -> X] /\ Swaps(F, e, E, s, p, X)
Lands(F, a, s, g, e, t, p, E) ==
    \E h : Runs(h, t, a, F)
             /\ h[Len(t)] = IF p = Len(t) THEN F[e][g[Len(s)]] ELSE E[g[Len(s)]]

LEMMA RunInserts ==
  ASSUME NEW X, NEW A, NEW F, NEW a, NEW s, NEW g, NEW e, NEW t, NEW p, NEW E,
         PutIn(X, A, F, a, s, g, e, t, p, E)
  PROVE  Lands(F, a, s, g, e, t, p, E)
<1>0. /\ F \in [A -> [X -> X]] /\ a \in X /\ s \in Seq(A) /\ Runs(g, s, a, F)
      /\ e \in A /\ Inserts(t, s, p, e)
      /\ E \in [X -> X] /\ Swaps(F, e, E, s, p, X)
  BY DEF PutIn
<1>1. PICK n \in Nat : n = Len(s)
  BY <1>0, LenProperties
<1>2. /\ p \in 1..(n + 1) /\ Len(t) = n + 1 /\ t[p] = e
      /\ \A i \in 1..n : i < p => t[i] = s[i]
      /\ \A i \in 1..n : p <= i => t[i + 1] = s[i]
  BY <1>0, <1>1 DEF Inserts
<1>3. \A k \in 0..n : g[k] \in X
  BY <1>0, <1>1, RunTyped
<1> DEFINE h == [k \in 0..(n + 1) |-> IF k < p THEN g[k]
                                      ELSE IF k = p THEN F[e][g[k - 1]] ELSE E[g[k - 1]]]
<1>4. \A k \in 0..(n + 1) : /\ k < p => h[k] = g[k]
                            /\ k = p => h[k] = F[e][g[k - 1]]
                            /\ k > p => h[k] = E[g[k - 1]]
  BY <1>2
<1> HIDE DEF h
<1>5. h[0] = a
  <2>1. 0 \in 0..(n + 1) /\ 0 < p
    BY <1>2
  <2>2. QED
    BY <1>0, <1>4, <2>1 DEF Runs
<1>6. ASSUME NEW k \in 1..(n + 1)
      PROVE  h[k] = F[t[k]][h[k - 1]]
  <2>1. k \in 0..(n + 1) /\ k - 1 \in 0..(n + 1) /\ k - 1 \in 0..n
    OBVIOUS
  <2>2. CASE k < p
    <3>1. k \in 1..n /\ k - 1 < p
      BY <1>2, <2>2
    <3>2. g[k] = F[s[k]][g[k - 1]]
      BY <1>0, <1>1, <3>1 DEF Runs
    <3>3. QED
      BY <1>2, <1>4, <2>1, <2>2, <3>1, <3>2
  <2>3. CASE k = p
    <3>1. k - 1 < p
      BY <2>3
    <3>2. QED
      BY <1>2, <1>4, <2>1, <2>3, <3>1
  <2>4. CASE k > p
    <3>1. PICK i : i = k - 1
      OBVIOUS
    <3>2. i \in 1..n /\ p <= i /\ i + 1 = k /\ i - 1 \in 0..n
      BY <1>2, <2>4, <3>1
    <3>3. t[k] = s[i] /\ g[i] = F[s[i]][g[i - 1]] /\ g[i - 1] \in X
      BY <1>0, <1>1, <1>2, <1>3, <3>2 DEF Runs
    <3>4. h[k] = E[g[i]]
      BY <1>4, <2>1, <2>4, <3>1
    <3>5. F[s[i]][h[i]] = E[F[s[i]][g[i - 1]]]
      <4>1. CASE i = p
        <5>1. h[i] = F[e][g[i - 1]]
          BY <1>4, <2>1, <3>1, <4>1
        <5>2. QED
          BY <1>1, <3>2, <3>3, <5>1, <1>0 DEF Swaps
      <4>2. CASE i > p
        <5>1. h[i] = E[g[i - 1]]
          BY <1>4, <2>1, <3>1, <4>2
        <5>2. QED
          BY <1>1, <3>2, <3>3, <5>1, <1>0 DEF Swaps
      <4>3. QED
        BY <1>2, <3>2, <4>1, <4>2
    <3>6. QED
      BY <3>1, <3>3, <3>4, <3>5
  <2>5. QED
    BY <1>2, <2>2, <2>3, <2>4
<1>7. h[n + 1] = IF p = n + 1 THEN F[e][g[n]] ELSE E[g[n]]
  <2>1. n + 1 \in 0..(n + 1) /\ (n + 1) - 1 = n /\ (p = n + 1 \/ n + 1 > p)
    BY <1>2
  <2>2. QED
    BY <1>4, <2>1
<1>8. Runs(h, t, a, F)
  BY <1>2, <1>5, <1>6 DEF Runs
<1>9. QED
  BY <1>1, <1>2, <1>7, <1>8 DEF Lands

(* Two runs of the same are the same.                                       *)
LEMMA SameReplay ==
  ASSUME NEW n \in Nat, NEW f, NEW g, f[0] = g[0],
         \A k \in 1..n : f[k - 1] = g[k - 1] => f[k] = g[k]
  PROVE  \A k \in 0..n : f[k] = g[k]
<1> DEFINE M == {k \in 0..n : f[k] # g[k]}
<1>1. SUFFICES ASSUME M # {}
               PROVE  FALSE
  OBVIOUS
<1>2. M \subseteq Nat
  OBVIOUS
<1>3. PICK k \in M : \A l \in M : k <= l
  BY <1>1, <1>2, LeastOf
<1>4. k \in 1..n /\ k - 1 \in 0..n /\ ~(k <= k - 1)
  OBVIOUS
<1>5. f[k - 1] = g[k - 1]
  BY <1>3, <1>4
<1>6. QED
  BY <1>4, <1>5


-----------------------------------------------------------------------------
Shown == [status : {"none", "PENDING", "SHIPPED"}, total : Nat, items : Nat]
Known == [status : {"UNKNOWN", "PLACED", "RESERVED", "PAID", "SHIPPED"}, paid : Nat, items : Nat]

LEMMA EventTypes ==
  ASSUME Store!EventsAssumption
  PROVE  /\ \A e \in Store!DemoEvent :
              /\ e.type \in {"OrderCreated", "ItemAdded", "OrderShipped"}
              /\ e.order \in Order /\ e.amount \in Nat /\ e.time \in Time /\ e.time \in Int
         /\ \A e \in Store!AuditEvent :
              /\ e.type \in {"OrderPlaced", "InventoryReserved", "PaymentProcessed", "OrderShipped"}
              /\ e.order \in Order /\ e.amount \in Nat /\ e.time \in Time /\ e.time \in Int
<1>1. Amount \subseteq Nat /\ Time \subseteq Nat
  BY DEF Store!EventsAssumption
<1>2. \A t \in Time : t \in Int
  BY <1>1
<1>3. \A e \in Store!DemoEvent :
        /\ e.type \in {"OrderCreated", "ItemAdded", "OrderShipped"}
        /\ e.order \in Order /\ e.amount \in Amount /\ e.time \in Time
  BY DEF Store!DemoEvent, Store!Event
<1>4. \A e \in Store!AuditEvent :
        /\ e.type \in {"OrderPlaced", "InventoryReserved", "PaymentProcessed", "OrderShipped"}
        /\ e.order \in Order /\ e.amount \in Amount /\ e.time \in Time
  BY DEF Store!AuditEvent, Store!Event
<1>5. \A a \in Amount : a \in Nat
  BY <1>1
<1>6. QED
  BY <1>2, <1>3, <1>4, <1>5

(* What an event that creates nothing does to an order of the view.         *)
LEMMA Handles ==
  ASSUME Store!EventsAssumption, NEW e \in Store!DemoEvent, NEW x \in Shown
  PROVE  /\ Store!handleEvent(x, e) \in Shown
         /\ Store!Creates(e) =>
              Store!handleEvent(x, e) = [status |-> "PENDING", total |-> 0, items |-> 0]
         /\ ~Store!Creates(e) /\ x = Store!NoOrder => Store!handleEvent(x, e) = x
         /\ e.type = "ItemAdded" /\ x # Store!NoOrder =>
              /\ Store!handleEvent(x, e) = [x EXCEPT !.total = x.total + e.amount, !.items = x.items + 1]
              /\ Store!handleEvent(x, e) # Store!NoOrder
         /\ e.type = "OrderShipped" /\ x # Store!NoOrder =>
              /\ Store!handleEvent(x, e) = [x EXCEPT !.status = "SHIPPED"]
              /\ Store!handleEvent(x, e) # Store!NoOrder
<1>1. e.type \in {"OrderCreated", "ItemAdded", "OrderShipped"} /\ e.amount \in Nat
  BY EventTypes
<1>2. /\ x.total \in Nat /\ x.items \in Nat /\ x.total + e.amount \in Nat /\ x.items + 1 \in Nat
      /\ x.items + 1 # 0
  BY <1>1 DEF Shown
<1>3. CASE e.type = "OrderCreated"
  BY <1>3 DEF Store!handleEvent, Store!Creates, Shown
<1>4. CASE e.type # "OrderCreated" /\ x = Store!NoOrder
  <2>1. Store!handleEvent(x, e) = x
    BY <1>4 DEF Store!handleEvent
  <2>2. QED
    BY <1>4, <2>1 DEF Store!Creates
<1>5. CASE e.type = "ItemAdded" /\ x # Store!NoOrder
  <2>1. Store!handleEvent(x, e) = [x EXCEPT !.total = x.total + e.amount, !.items = x.items + 1]
    BY <1>5 DEF Store!handleEvent
  <2>2. PICK y : y = [x EXCEPT !.total = x.total + e.amount, !.items = x.items + 1]
    OBVIOUS
  <2>3. y \in Shown /\ y.items # 0
    BY <1>2, <2>2 DEF Shown
  <2>4. y # Store!NoOrder
    BY <2>3 DEF Store!NoOrder
  <2>5. QED
    BY <1>5, <2>1, <2>2, <2>3, <2>4 DEF Store!Creates
<1>6. CASE e.type = "OrderShipped" /\ x # Store!NoOrder
  <2>1. Store!handleEvent(x, e) = [x EXCEPT !.status = "SHIPPED"]
    BY <1>6 DEF Store!handleEvent
  <2>2. PICK y : y = [x EXCEPT !.status = "SHIPPED"]
    OBVIOUS
  <2>3. y \in Shown /\ y.status = "SHIPPED"
    BY <2>2 DEF Shown
  <2>4. y # Store!NoOrder
    BY <2>3 DEF Store!NoOrder
  <2>5. QED
    BY <1>6, <2>1, <2>2, <2>3, <2>4 DEF Store!Creates
<1>7. QED
  BY <1>1, <1>3, <1>4, <1>5, <1>6

(* Events that create nothing may be handled in either order.               *)
LEMMA EitherOrder ==
  ASSUME Store!EventsAssumption, NEW e \in Store!DemoEvent, NEW f \in Store!DemoEvent,
         ~Store!Creates(e), ~Store!Creates(f), NEW x \in Shown
  PROVE  Store!handleEvent(Store!handleEvent(x, e), f) = Store!handleEvent(Store!handleEvent(x, f), e)
<1>1. PICK y : y = Store!handleEvent(x, e)
  OBVIOUS
<1>2. PICK z : z = Store!handleEvent(x, f)
  OBVIOUS
<1>3. y \in Shown /\ z \in Shown /\ e.amount \in Nat /\ f.amount \in Nat
  BY <1>1, <1>2, Handles, EventTypes
<1>4. CASE x = Store!NoOrder
  BY <1>4, Handles
<1>5. CASE x # Store!NoOrder
  <2>1. /\ e.type = "ItemAdded" \/ e.type = "OrderShipped"
        /\ f.type = "ItemAdded" \/ f.type = "OrderShipped"
    BY EventTypes DEF Store!Creates
  <2>2. y # Store!NoOrder /\ z # Store!NoOrder
    BY <1>1, <1>2, <1>5, <2>1, Handles
  <2>3. CASE e.type = "ItemAdded" /\ f.type = "ItemAdded"
    <3>1. /\ y = [x EXCEPT !.total = x.total + e.amount, !.items = x.items + 1]
          /\ z = [x EXCEPT !.total = x.total + f.amount, !.items = x.items + 1]
      BY <1>1, <1>2, <1>5, <2>3, Handles
    <3>2. /\ Store!handleEvent(y, f) = [y EXCEPT !.total = y.total + f.amount, !.items = y.items + 1]
          /\ Store!handleEvent(z, e) = [z EXCEPT !.total = z.total + e.amount, !.items = z.items + 1]
      BY <1>3, <2>2, <2>3, Handles
    <3>3. /\ y.total + f.amount = z.total + e.amount /\ y.items + 1 = z.items + 1
          /\ y.status = x.status /\ z.status = x.status
      BY <1>3, <3>1 DEF Shown
    <3>4. /\ Store!handleEvent(y, f) = [status |-> y.status, total |-> y.total + f.amount, items |-> y.items + 1]
          /\ Store!handleEvent(z, e) = [status |-> z.status, total |-> z.total + e.amount, items |-> z.items + 1]
      BY <1>3, <3>2 DEF Shown
    <3>5. QED
      BY <1>1, <1>2, <3>3, <3>4
  <2>4. CASE e.type = "ItemAdded" /\ f.type = "OrderShipped"
    <3>1. /\ y = [x EXCEPT !.total = x.total + e.amount, !.items = x.items + 1]
          /\ z = [x EXCEPT !.status = "SHIPPED"]
      BY <1>1, <1>2, <1>5, <2>4, Handles
    <3>2. /\ Store!handleEvent(y, f) = [y EXCEPT !.status = "SHIPPED"]
          /\ Store!handleEvent(z, e) = [z EXCEPT !.total = z.total + e.amount, !.items = z.items + 1]
      BY <1>3, <2>2, <2>4, Handles
    <3>3. [y EXCEPT !.status = "SHIPPED"]
            = [z EXCEPT !.total = z.total + e.amount, !.items = z.items + 1]
      BY <1>3, <3>1 DEF Shown
    <3>4. QED
      BY <1>1, <1>2, <3>2, <3>3
  <2>5. CASE e.type = "OrderShipped" /\ f.type = "ItemAdded"
    <3>1. /\ y = [x EXCEPT !.status = "SHIPPED"]
          /\ z = [x EXCEPT !.total = x.total + f.amount, !.items = x.items + 1]
      BY <1>1, <1>2, <1>5, <2>5, Handles
    <3>2. /\ Store!handleEvent(y, f) = [y EXCEPT !.total = y.total + f.amount, !.items = y.items + 1]
          /\ Store!handleEvent(z, e) = [z EXCEPT !.status = "SHIPPED"]
      BY <1>3, <2>2, <2>5, Handles
    <3>3. [y EXCEPT !.total = y.total + f.amount, !.items = y.items + 1]
            = [z EXCEPT !.status = "SHIPPED"]
      BY <1>3, <3>1 DEF Shown
    <3>4. QED
      BY <1>1, <1>2, <3>2, <3>3
  <2>6. CASE e.type = "OrderShipped" /\ f.type = "OrderShipped"
    <3>1. y = [x EXCEPT !.status = "SHIPPED"] /\ z = [x EXCEPT !.status = "SHIPPED"]
      <4>1. Store!handleEvent(x, e) = [x EXCEPT !.status = "SHIPPED"]
        BY <1>5, <2>6, Handles
      <4>2. Store!handleEvent(x, f) = [x EXCEPT !.status = "SHIPPED"]
        BY <1>5, <2>6, Handles
      <4>3. QED
        BY <1>1, <1>2, <4>1, <4>2
    <3>2. /\ Store!handleEvent(y, f) = [y EXCEPT !.status = "SHIPPED"]
          /\ Store!handleEvent(z, e) = [z EXCEPT !.status = "SHIPPED"]
      <4>1. Store!handleEvent(y, f) = [y EXCEPT !.status = "SHIPPED"]
        BY <1>3, <2>2, <2>6, Handles
      <4>2. Store!handleEvent(z, e) = [z EXCEPT !.status = "SHIPPED"]
        BY <1>3, <2>2, <2>6, Handles
      <4>3. QED
        BY <4>1, <4>2
    <3>3. QED
      BY <1>1, <1>2, <3>1, <3>2
  <2>7. QED
    BY <2>1, <2>3, <2>4, <2>5, <2>6
<1>6. QED
  BY <1>4, <1>5

(* Any event on top of e, and e with the status left as it was.             *)
StatusAside(x, e) == [Store!Applied(x, e) EXCEPT !.status = x.status]

LEMMA Applies ==
  ASSUME Store!EventsAssumption, NEW e \in Store!AuditEvent, NEW f \in Store!AuditEvent, NEW x \in Known
  PROVE  /\ Store!Applied(x, e) \in Known /\ StatusAside(x, e) \in Known
         /\ Store!Applied(Store!Applied(x, e), f) = StatusAside(Store!Applied(x, f), e)
         /\ Store!Applied(StatusAside(x, e), f) = StatusAside(Store!Applied(x, f), e)
<1> DEFINE Paid(g) == IF g.type = "PaymentProcessed" THEN g.amount ELSE 0
           Items(g) == IF g.type = "InventoryReserved" THEN 1 ELSE 0
           State(g) == CASE g.type = "OrderPlaced" -> "PLACED"
                         [] g.type = "InventoryReserved" -> "RESERVED"
                         [] g.type = "PaymentProcessed" -> "PAID"
                         [] g.type = "OrderShipped" -> "SHIPPED"
<1>1. ASSUME NEW g \in Store!AuditEvent
      PROVE  /\ Paid(g) \in Nat /\ Items(g) \in Nat
             /\ State(g) \in {"PLACED", "RESERVED", "PAID", "SHIPPED"}
             /\ \A y \in Known : Store!Applied(y, g)
                  = [status |-> State(g), paid |-> y.paid + Paid(g), items |-> y.items + Items(g)]
  <2>1. /\ g.type \in {"OrderPlaced", "InventoryReserved", "PaymentProcessed", "OrderShipped"}
        /\ g.amount \in Nat
    BY EventTypes
  <2>2. \A y \in Known : /\ y.paid \in Nat /\ y.items \in Nat
                         /\ y = [status |-> y.status, paid |-> y.paid, items |-> y.items]
                         /\ y.paid + 0 = y.paid /\ y.items + 0 = y.items
    BY DEF Known
  <2>3. CASE g.type = "OrderPlaced"
    <3>1. Paid(g) = 0 /\ Items(g) = 0 /\ State(g) = "PLACED"
      BY <2>3
    <3>2. \A y : Store!Applied(y, g) = [y EXCEPT !.status = "PLACED"]
      BY <2>3 DEF Store!Applied
    <3> HIDE DEF Paid, Items, State
    <3>3. QED
      BY <2>1, <2>2, <3>1, <3>2
  <2>4. CASE g.type = "InventoryReserved"
    <3>1. Paid(g) = 0 /\ Items(g) = 1 /\ State(g) = "RESERVED"
      BY <2>4
    <3>2. \A y : Store!Applied(y, g) = [y EXCEPT !.status = "RESERVED", !.items = @ + 1]
      BY <2>4 DEF Store!Applied
    <3>3. ASSUME NEW y \in Known
          PROVE  [y EXCEPT !.status = "RESERVED", !.items = @ + 1] = [status |-> "RESERVED", paid |-> y.paid, items |-> y.items + 1]
      <4>1. PICK z : z = [y EXCEPT !.status = "RESERVED", !.items = @ + 1]
        OBVIOUS
      <4>2. y.paid \in Nat /\ y.items \in Nat /\ y.paid + g.amount \in Nat /\ y.items + 1 \in Nat
        BY <2>1 DEF Known
      <4>3. z \in Known /\ z.status = "RESERVED" /\ z.paid = y.paid /\ z.items = y.items + 1
        BY <4>1, <4>2 DEF Known
      <4>4. QED
        BY <4>1, <4>3 DEF Known
    <3> HIDE DEF Paid, Items, State
    <3>4. \A y \in Known : Store!Applied(y, g)
            = [status |-> State(g), paid |-> y.paid + Paid(g), items |-> y.items + Items(g)]
      BY <2>2, <3>1, <3>2, <3>3
    <3>5. QED
      BY <2>1, <3>1, <3>4
  <2>5. CASE g.type = "PaymentProcessed"
    <3>1. Paid(g) = g.amount /\ Items(g) = 0 /\ State(g) = "PAID"
      BY <2>5
    <3>2. \A y : Store!Applied(y, g) = [y EXCEPT !.status = "PAID", !.paid = @ + g.amount]
      BY <2>5 DEF Store!Applied
    <3>3. ASSUME NEW y \in Known
          PROVE  [y EXCEPT !.status = "PAID", !.paid = @ + g.amount] = [status |-> "PAID", paid |-> y.paid + g.amount, items |-> y.items]
      <4>1. PICK z : z = [y EXCEPT !.status = "PAID", !.paid = @ + g.amount]
        OBVIOUS
      <4>2. y.paid \in Nat /\ y.items \in Nat /\ y.paid + g.amount \in Nat /\ y.items + 1 \in Nat
        BY <2>1 DEF Known
      <4>3. z \in Known /\ z.status = "PAID" /\ z.paid = y.paid + g.amount /\ z.items = y.items
        BY <4>1, <4>2 DEF Known
      <4>4. QED
        BY <4>1, <4>3 DEF Known
    <3> HIDE DEF Paid, Items, State
    <3>4. \A y \in Known : Store!Applied(y, g)
            = [status |-> State(g), paid |-> y.paid + Paid(g), items |-> y.items + Items(g)]
      BY <2>2, <3>1, <3>2, <3>3
    <3>5. QED
      BY <2>1, <3>1, <3>4
  <2>6. CASE g.type = "OrderShipped"
    <3>1. Paid(g) = 0 /\ Items(g) = 0 /\ State(g) = "SHIPPED"
      BY <2>6
    <3>2. \A y : Store!Applied(y, g) = [y EXCEPT !.status = "SHIPPED"]
      BY <2>6 DEF Store!Applied
    <3> HIDE DEF Paid, Items, State
    <3>3. QED
      BY <2>1, <2>2, <3>1, <3>2
  <2> HIDE DEF Paid, Items, State
  <2>7. QED
    BY <2>1, <2>3, <2>4, <2>5, <2>6
<1> HIDE DEF Paid, Items, State
<1>2. x.paid \in Nat /\ x.items \in Nat /\ x.status \in {"UNKNOWN", "PLACED", "RESERVED", "PAID", "SHIPPED"}
  BY DEF Known
<1>3. ASSUME NEW g \in Store!AuditEvent, NEW y \in Known
      PROVE  /\ Store!Applied(y, g) \in Known /\ StatusAside(y, g) \in Known
             /\ StatusAside(y, g) = [status |-> y.status, paid |-> y.paid + Paid(g), items |-> y.items + Items(g)]
  <2>1. /\ y.paid + Paid(g) \in Nat /\ y.items + Items(g) \in Nat
        /\ y.status \in {"UNKNOWN", "PLACED", "RESERVED", "PAID", "SHIPPED"}
    BY <1>1 DEF Known
  <2>2. QED
    BY <1>1, <2>1 DEF Known, StatusAside
<1>4. PICK y \in Known : y = Store!Applied(x, e)
  BY <1>3
<1>5. PICK z \in Known : z = Store!Applied(x, f)
  BY <1>3
<1>6. PICK w \in Known : w = StatusAside(x, e)
  BY <1>3
<1>7. /\ y.paid = x.paid + Paid(e) /\ y.items = x.items + Items(e)
      /\ w.paid = x.paid + Paid(e) /\ w.items = x.items + Items(e)
      /\ z.paid = x.paid + Paid(f) /\ z.items = x.items + Items(f) /\ z.status = State(f)
  <2>1. y = [status |-> State(e), paid |-> x.paid + Paid(e), items |-> x.items + Items(e)]
    BY <1>1, <1>4
  <2>2. z = [status |-> State(f), paid |-> x.paid + Paid(f), items |-> x.items + Items(f)]
    BY <1>1, <1>5
  <2>3. w = [status |-> x.status, paid |-> x.paid + Paid(e), items |-> x.items + Items(e)]
    BY <1>3, <1>6
  <2>4. QED
    BY <2>1, <2>2, <2>3
<1>8. /\ (x.paid + Paid(e)) + Paid(f) = (x.paid + Paid(f)) + Paid(e)
      /\ (x.items + Items(e)) + Items(f) = (x.items + Items(f)) + Items(e)
  BY <1>1, <1>2
<1>9. /\ Store!Applied(y, f)
           = [status |-> State(f), paid |-> y.paid + Paid(f), items |-> y.items + Items(f)]
      /\ Store!Applied(w, f)
           = [status |-> State(f), paid |-> w.paid + Paid(f), items |-> w.items + Items(f)]
      /\ StatusAside(z, e)
           = [status |-> z.status, paid |-> z.paid + Paid(e), items |-> z.items + Items(e)]
  BY <1>1, <1>3
<1>10. Store!Applied(y, f) = StatusAside(z, e) /\ Store!Applied(w, f) = StatusAside(z, e)
  BY <1>7, <1>8, <1>9
<1>11. QED
  BY <1>3, <1>4, <1>5, <1>6, <1>10

(* The replays are runs of these. *)
handleF == [e \in Store!DemoEvent |-> [x \in Shown |-> Store!handleEvent(x, e)]]
appliedF == [e \in Store!AuditEvent |-> [x \in Known |-> Store!Applied(x, e)]]

LEMMA FirstStates == Store!NoOrder \in Shown /\ Store!Unknown \in Known
BY DEF Store!NoOrder, Shown, Store!Unknown, Known

LEMMA ReplayTypes ==
  ASSUME Store!EventsAssumption
  PROVE  /\ handleF \in [Store!DemoEvent -> [Shown -> Shown]]
         /\ \A e \in Store!DemoEvent, x \in Shown : handleF[e][x] = Store!handleEvent(x, e)
         /\ appliedF \in [Store!AuditEvent -> [Known -> Known]]
         /\ \A e \in Store!AuditEvent, x \in Known : appliedF[e][x] = Store!Applied(x, e)
<1>1. \A e \in Store!DemoEvent, x \in Shown : Store!handleEvent(x, e) \in Shown
  BY Handles
<1>2. \A e \in Store!AuditEvent, x \in Known : Store!Applied(x, e) \in Known
  BY Applies
<1>3. QED
  BY <1>1, <1>2 DEF handleF, appliedF

LEMMA ViewOf ==
  ASSUME Store!EventsAssumption, NEW s \in Seq(Store!DemoEvent)
  PROVE  /\ Store!viewOf(s) \in Shown
         /\ \A g : Runs(g, s, Store!NoOrder, handleF) => g[Len(s)] = Store!viewOf(s)
<1>1. PICK n \in Nat : n = Len(s) /\ \A k \in 1..n : s[k] \in Store!DemoEvent
  BY LenProperties, ElementOfSeq
<1> DEFINE Viewing(g) == g = [k \in 0..Len(s) |->
                                 IF k = 0 THEN Store!NoOrder ELSE Store!handleEvent(g[k - 1], s[k])]
<1>2. ASSUME NEW g, Runs(g, s, Store!NoOrder, handleF)
      PROVE  g[n] = Store!viewOf(s) /\ g[n] \in Shown
  <2>1. \A k \in 0..n : g[k] \in Shown
    BY <1>1, <1>2, FirstStates, ReplayTypes, RunTyped
  <2>2. PICK h : h = [k \in 0..n |-> g[k]]
    OBVIOUS
  <2>3. ASSUME NEW k \in 0..n
        PROVE  h[k] = IF k = 0 THEN Store!NoOrder ELSE Store!handleEvent(h[k - 1], s[k])
    <3>1. CASE k = 0
      BY <1>2, <2>2, <3>1 DEF Runs
    <3>2. CASE k # 0
      <4>1. k \in 1..n /\ k - 1 \in 0..n
        BY <3>2
      <4>2. g[k] = handleF[s[k]][g[k - 1]]
        BY <1>1, <1>2, <4>1 DEF Runs
      <4>3. handleF[s[k]][g[k - 1]] = Store!handleEvent(g[k - 1], s[k])
        BY <1>1, <2>1, <4>1, ReplayTypes
      <4>4. QED
        BY <2>2, <3>2, <4>1, <4>2, <4>3
    <3>3. QED
      BY <3>1, <3>2
  <2>4. h = [k \in 0..n |-> h[k]]
    BY <2>2
  <2>5. Viewing(h)
    BY <1>1, <2>3, <2>4
  <2>6. PICK f : f = CHOOSE x : Viewing(x)
    OBVIOUS
  <2>7. Viewing(f)
    BY <2>5, <2>6
  <2>8. Store!viewOf(s) = f[n]
    BY <1>1, <2>6, Zenon DEF Store!viewOf
  <2>9. f[0] = h[0] /\ \A k \in 1..n : f[k - 1] = h[k - 1] => f[k] = h[k]
    BY <1>1, <2>5, <2>7
  <2> HIDE DEF Viewing
  <2>10. \A k \in 0..n : f[k] = h[k]
    BY <2>9, SameReplay
  <2>11. n \in 0..n
    OBVIOUS
  <2>12. QED
    BY <2>1, <2>2, <2>8, <2>10, <2>11
<1>3. PICK g : Runs(g, s, Store!NoOrder, handleF)
  BY FirstStates, ReplayTypes, RunExists
<1>4. QED
  BY <1>1, <1>2, <1>3

LEMMA BuildOf ==
  ASSUME Store!EventsAssumption, NEW s \in Seq(Store!AuditEvent)
  PROVE  /\ Store!buildState(s) \in Known
         /\ \A g : Runs(g, s, Store!Unknown, appliedF) => g[Len(s)] = Store!buildState(s)
<1>1. PICK n \in Nat : n = Len(s) /\ \A k \in 1..n : s[k] \in Store!AuditEvent
  BY LenProperties, ElementOfSeq
<1> DEFINE Building(g) == g = [k \in 0..Len(s) |->
                                 IF k = 0 THEN Store!Unknown ELSE Store!Applied(g[k - 1], s[k])]
<1>2. ASSUME NEW g, Runs(g, s, Store!Unknown, appliedF)
      PROVE  g[n] = Store!buildState(s) /\ g[n] \in Known
  <2>1. \A k \in 0..n : g[k] \in Known
    BY <1>1, <1>2, FirstStates, ReplayTypes, RunTyped
  <2>2. PICK h : h = [k \in 0..n |-> g[k]]
    OBVIOUS
  <2>3. ASSUME NEW k \in 0..n
        PROVE  h[k] = IF k = 0 THEN Store!Unknown ELSE Store!Applied(h[k - 1], s[k])
    <3>1. CASE k = 0
      BY <1>2, <2>2, <3>1 DEF Runs
    <3>2. CASE k # 0
      <4>1. k \in 1..n /\ k - 1 \in 0..n
        BY <3>2
      <4>2. g[k] = appliedF[s[k]][g[k - 1]]
        BY <1>1, <1>2, <4>1 DEF Runs
      <4>3. appliedF[s[k]][g[k - 1]] = Store!Applied(g[k - 1], s[k])
        BY <1>1, <2>1, <4>1, ReplayTypes
      <4>4. QED
        BY <2>2, <3>2, <4>1, <4>2, <4>3
    <3>3. QED
      BY <3>1, <3>2
  <2>4. h = [k \in 0..n |-> h[k]]
    BY <2>2
  <2>5. Building(h)
    BY <1>1, <2>3, <2>4
  <2>6. PICK f : f = CHOOSE x : Building(x)
    OBVIOUS
  <2>7. Building(f)
    BY <2>5, <2>6
  <2>8. Store!buildState(s) = f[n]
    BY <1>1, <2>6, Zenon DEF Store!buildState
  <2>9. f[0] = h[0] /\ \A k \in 1..n : f[k - 1] = h[k - 1] => f[k] = h[k]
    BY <1>1, <2>5, <2>7
  <2> HIDE DEF Building
  <2>10. \A k \in 0..n : f[k] = h[k]
    BY <2>9, SameReplay
  <2>11. n \in 0..n
    OBVIOUS
  <2>12. QED
    BY <2>1, <2>2, <2>8, <2>10, <2>11
<1>3. PICK g : Runs(g, s, Store!Unknown, appliedF)
  BY FirstStates, ReplayTypes, RunExists
<1>4. QED
  BY <1>1, <1>2, <1>3

(* An event put where no later one creates the order, and which creates it  *)
(* only at the end, does to the replay what it does to the view.            *)
LEMMA ViewInserts ==
  ASSUME Store!EventsAssumption, NEW s \in Seq(Store!DemoEvent), NEW t \in Seq(Store!DemoEvent),
         NEW e \in Store!DemoEvent, NEW p, Inserts(t, s, p, e),
         \A i \in 1..Len(s) : p <= i => ~Store!Creates(s[i]) /\ ~Store!Creates(e)
  PROVE  Store!viewOf(t) = Store!handleEvent(Store!viewOf(s), e)
<1>1. PICK n \in Nat : n = Len(s) /\ \A k \in 1..n : s[k] \in Store!DemoEvent
  BY LenProperties, ElementOfSeq
<1>2. PICK g : Runs(g, s, Store!NoOrder, handleF)
  BY FirstStates, ReplayTypes, RunExists
<1>3. g[n] = Store!viewOf(s) /\ Store!viewOf(s) \in Shown
  BY <1>1, <1>2, ViewOf
<1>4. PICK E : E = handleF[e]
  OBVIOUS
<1>5. E \in [Shown -> Shown] /\ \A x \in Shown : E[x] = Store!handleEvent(x, e)
  BY <1>4, ReplayTypes
<1>6. ASSUME NEW i \in 1..n, NEW x \in Shown, p <= i
      PROVE  handleF[s[i]][E[x]] = E[handleF[s[i]][x]]
  <2>1. s[i] \in Store!DemoEvent /\ ~Store!Creates(s[i]) /\ ~Store!Creates(e)
    BY <1>1, <1>6
  <2>2. /\ Store!handleEvent(x, e) \in Shown /\ Store!handleEvent(x, s[i]) \in Shown
        /\ Store!handleEvent(Store!handleEvent(x, e), s[i])
              = Store!handleEvent(Store!handleEvent(x, s[i]), e)
    BY <2>1, Handles, EitherOrder
  <2>3. QED
    BY <1>5, <2>1, <2>2, ReplayTypes
<1>7. PICK h : /\ Runs(h, t, Store!NoOrder, handleF)
               /\ h[Len(t)] = IF p = Len(t) THEN handleF[e][g[n]] ELSE E[g[n]]
  <2>1. Swaps(handleF, e, E, s, p, Shown)
    BY <1>1, <1>4, <1>6 DEF Swaps
  <2>2. PutIn(Shown, Store!DemoEvent, handleF, Store!NoOrder, s, g, e, t, p, E)
    BY <1>2, <1>5, <2>1, FirstStates, ReplayTypes DEF PutIn
  <2>3. Lands(handleF, Store!NoOrder, s, g, e, t, p, E)
    BY <2>2, RunInserts, Zenon
  <2>4. QED
    BY <1>1, <2>3 DEF Lands
<1>8. h[Len(t)] = Store!viewOf(t)
  BY <1>7, ViewOf
<1>9. QED
  BY <1>3, <1>4, <1>5, <1>7, <1>8

(* An event put before others leaves the status as it was.                  *)
LEMMA BuildInserts ==
  ASSUME Store!EventsAssumption, NEW s \in Seq(Store!AuditEvent), NEW t \in Seq(Store!AuditEvent),
         NEW e \in Store!AuditEvent, NEW p, Inserts(t, s, p, e)
  PROVE  Store!buildState(t) = IF p = Len(t) THEN Store!Applied(Store!buildState(s), e)
                               ELSE StatusAside(Store!buildState(s), e)
<1>1. PICK n \in Nat : n = Len(s) /\ \A k \in 1..n : s[k] \in Store!AuditEvent
  BY LenProperties, ElementOfSeq
<1>2. PICK g : Runs(g, s, Store!Unknown, appliedF)
  BY FirstStates, ReplayTypes, RunExists
<1>3. g[n] = Store!buildState(s) /\ Store!buildState(s) \in Known
  BY <1>1, <1>2, BuildOf
<1>4. PICK E : E = [x \in Known |-> StatusAside(x, e)]
  OBVIOUS
<1>5. E \in [Known -> Known] /\ \A x \in Known : E[x] = StatusAside(x, e)
  <2>1. \A x \in Known : StatusAside(x, e) \in Known
    BY Applies
  <2>2. QED
    BY <1>4, <2>1
<1>6. ASSUME NEW i \in 1..n, NEW x \in Known
      PROVE  /\ appliedF[s[i]][appliedF[e][x]] = E[appliedF[s[i]][x]]
             /\ appliedF[s[i]][E[x]] = E[appliedF[s[i]][x]]
  <2>1. PICK f \in Store!AuditEvent : f = s[i]
    BY <1>1
  <2>2. /\ Store!Applied(x, e) \in Known /\ Store!Applied(x, f) \in Known /\ StatusAside(x, e) \in Known
        /\ Store!Applied(Store!Applied(x, e), f) = StatusAside(Store!Applied(x, f), e)
        /\ Store!Applied(StatusAside(x, e), f) = StatusAside(Store!Applied(x, f), e)
    BY Applies
  <2>3. /\ appliedF[e][x] = Store!Applied(x, e) /\ appliedF[f][x] = Store!Applied(x, f)
        /\ appliedF[f][Store!Applied(x, e)] = Store!Applied(Store!Applied(x, e), f)
        /\ appliedF[f][StatusAside(x, e)] = Store!Applied(StatusAside(x, e), f)
        /\ E[x] = StatusAside(x, e) /\ E[Store!Applied(x, f)] = StatusAside(Store!Applied(x, f), e)
    BY <1>5, <2>2, ReplayTypes
  <2>4. QED
    BY <2>1, <2>2, <2>3
<1>7. PICK h : /\ Runs(h, t, Store!Unknown, appliedF)
               /\ h[Len(t)] = IF p = Len(t) THEN appliedF[e][g[n]] ELSE E[g[n]]
  <2>1. Swaps(appliedF, e, E, s, p, Known)
    BY <1>1, <1>6 DEF Swaps
  <2>2. PutIn(Known, Store!AuditEvent, appliedF, Store!Unknown, s, g, e, t, p, E)
    BY <1>2, <1>5, <2>1, FirstStates, ReplayTypes DEF PutIn
  <2>3. Lands(appliedF, Store!Unknown, s, g, e, t, p, E)
    BY <2>2, RunInserts, Zenon
  <2>4. QED
    BY <1>1, <2>3 DEF Lands
<1>8. h[Len(t)] = Store!buildState(t)
  BY <1>7, BuildOf
<1>9. appliedF[e][g[n]] = Store!Applied(Store!buildState(s), e) /\ E[g[n]] = StatusAside(Store!buildState(s), e)
  BY <1>3, <1>5, ReplayTypes
<1>10. QED
  BY <1>7, <1>8, <1>9

-----------------------------------------------------------------------------
(* The events of an order, and those of them up to a time. *)
Mine(s, o) == Filtered(s, {i \in DOMAIN s : s[i].order = o})
Until(s, u) == Filtered(s, {i \in DOMAIN s : s[i].time <= u})

(* q tells which event of s is which of m, in the order in which they came. *)
Drawn(m, s, o, q) ==
    /\ \A k \in 1..Len(m) : q[k] \in 1..Len(s) /\ s[q[k]].order = o /\ m[k] = s[q[k]]
    /\ \A k, l \in 1..Len(m) : k < l => q[k] < q[l]

(* An order's events are all of them, in the order in which they came.      *)
LEMMA MineIs ==
  ASSUME NEW A, NEW s \in Seq(A), NEW o
  PROVE  /\ Mine(s, o) \in Seq(A)
         /\ \A i \in 1..Len(s) : s[i].order = o => \E k \in 1..Len(Mine(s, o)) : Mine(s, o)[k] = s[i]
         /\ \E q : Drawn(Mine(s, o), s, o, q)
<1>1. DOMAIN s = 1..Len(s)
  BY LenProperties
<1> DEFINE P == {i \in DOMAIN s : s[i].order = o}
<1>2. P \subseteq 1..Len(s) /\ (\A p \in P : s[p].order = o) /\ \A i \in 1..Len(s) : s[i].order = o => i \in P
  BY <1>1
<1>3. PICK m : m = Filtered(s, P)
  OBVIOUS
<1>4. m = Mine(s, o)
  BY <1>3 DEF Mine
<1> HIDE DEF P
<1>5. PICK q, n : /\ Lists(q, n, P) /\ Picks(m, s, q, n)
                  /\ m \in Seq(A) /\ Len(m) = n
  BY <1>2, <1>3, FilteredIs, Zenon
<1>6. \A k \in 1..n : q[k] \in P /\ m[k] = s[q[k]]
  BY <1>5 DEF Lists, Picks
<1>7. \A k \in 1..n : q[k] \in 1..Len(s) /\ s[q[k]].order = o /\ m[k] = s[q[k]]
  BY <1>2, <1>6
<1>8. \A k, l \in 1..n : k < l => q[k] < q[l]
  BY <1>5 DEF Lists
<1>9. \A i \in 1..Len(s) : s[i].order = o => \E k \in 1..n : m[k] = s[i]
  BY <1>2, <1>5, <1>6 DEF Lists
<1>10. Drawn(m, s, o, q)
  BY <1>5, <1>7, <1>8 DEF Drawn
<1>11. QED
  BY <1>4, <1>5, <1>9, <1>10

LEMMA MineGrows ==
  ASSUME NEW A, NEW s \in Seq(A), NEW e \in A, NEW o
  PROVE  Mine(Append(s, e), o) = IF e.order = o THEN Append(Mine(s, o), e) ELSE Mine(s, o)
<1>1. PICK n \in Nat : n = Len(s)
  BY LenProperties
<1>2. PICK t : t = Append(s, e)
  OBVIOUS
<1>3. DOMAIN t = 1..(n + 1) /\ DOMAIN s = 1..n /\ (\A k \in 1..n : t[k] = s[k]) /\ t[n + 1] = e
  BY <1>1, <1>2, AppendProperties, LenProperties
<1>4. \A k \in 1..(n + 1) : k = n + 1 \/ k \in 1..n
  OBVIOUS
<1>5. n + 1 \in 1..(n + 1) /\ \A k \in 1..n : k \in 1..(n + 1)
  OBVIOUS
<1> DEFINE P == {i \in DOMAIN s : s[i].order = o}
           Q == {i \in DOMAIN t : t[i].order = o}
<1>6. P \subseteq 1..Len(s)
  BY <1>1, <1>3
<1>7. Q = IF e.order = o THEN P \cup {n + 1} ELSE P
  BY <1>3, <1>4, <1>5
<1>8. Mine(s, o) = Filtered(s, P) /\ Mine(t, o) = Filtered(t, Q)
  BY DEF Mine
<1> HIDE DEF P, Q
<1>9. Grown(s, t, P, e)
  BY <1>2, <1>6, FilteredGrows
<1>91. n + 1 = Len(s) + 1
  BY <1>1
<1>10. QED
  BY <1>1, <1>2, <1>7, <1>8, <1>9, <1>91, Zenon DEF Grown

(* Those up to a time, of events in order, are the first of them. *)
LEMMA UntilIs ==
  ASSUME NEW A, NEW s \in Seq(A), NEW u, NEW p \in 0..Len(s),
         \A i \in 1..Len(s) : s[i].time <= u <=> i <= p
  PROVE  /\ Until(s, u) \in Seq(A) /\ Len(Until(s, u)) = p
         /\ \A i \in 1..p : Until(s, u)[i] = s[i]
<1>1. PICK n \in Nat : n = Len(s) /\ DOMAIN s = 1..n
  BY LenProperties
<1>2. PICK P : P = {i \in DOMAIN s : s[i].time <= u}
  OBVIOUS
<1>3. p \in 0..n /\ p \in Nat
  BY <1>1
<1>4. P = 1..p
  <2>1. \A i : i \in P <=> i \in 1..n /\ i <= p
    BY <1>1, <1>2
  <2>2. \A i : i \in 1..p <=> i \in 1..n /\ i <= p
    BY <1>3
  <2>3. QED
    BY <2>1, <2>2
<1>5. PICK id : id = [k \in 1..p |-> k]
  OBVIOUS
<1>6. Lists(id, p, P)
  BY <1>3, <1>4, <1>5 DEF Lists
<1>7. P \subseteq 1..n /\ P \subseteq Nat
  BY <1>3, <1>4
<1>8. Filters(id, p, P)
  BY <1>6, <1>7, OneList, Zenon
<1>9. PICK v : v = Filtered(s, P)
  OBVIOUS
<1>10. v = [k \in 1..p |-> s[id[k]]]
  BY <1>8, <1>9, Zenon DEF Filters, Picks
<1>11. v \in Seq(A)
  BY <1>1, <1>7, <1>9, FilteredIs
<1>12. Len(v) = p /\ \A i \in 1..p : v[i] = s[i]
  BY <1>3, <1>5, <1>10
<1>13. v = Until(s, u)
  BY <1>2, <1>9 DEF Until
<1>14. QED
  BY <1>11, <1>12, <1>13

LEMMA UntilWhere ==
  ASSUME NEW A, NEW s \in Seq(A), \A a \in A : a.time \in Int, InOrder(s), NEW u \in Int
  PROVE  \E p \in 0..Len(s) : \A i \in 1..Len(s) : s[i].time <= u <=> i <= p
<1>1. PICK n \in Nat : n = Len(s) /\ \A i \in 1..n : s[i] \in A
  BY LenProperties, ElementOfSeq
<1>2. \A i \in 1..n : s[i].time \in Int
  BY <1>1
<1> DEFINE M == {k \in 1..(n + 1) : k = n + 1 \/ ~(s[k].time <= u)}
<1>3. PICK k \in M : \A l \in M : k <= l
  <2>1. n + 1 \in M /\ M \subseteq Nat
    OBVIOUS
  <2>2. QED
    BY <2>1, LeastOf
<1>4. k \in 1..(n + 1) /\ k \in Nat
  BY <1>3
<1>5. ASSUME NEW i \in 1..n
      PROVE  s[i].time <= u <=> i <= k - 1
  <2>1. CASE i < k
    <3>1. i \in 1..(n + 1) /\ ~(k <= i)
      BY <1>4, <2>1
    <3>2. i \notin M
      BY <1>3, <3>1
    <3>3. QED
      BY <1>4, <2>1, <3>1, <3>2
  <2>2. CASE ~(i < k)
    <3>1. k \in 1..n /\ k # n + 1 /\ k <= i
      BY <1>4, <2>2
    <3>2. ~(s[k].time <= u)
      BY <1>3, <3>1
    <3>3. s[k].time <= s[i].time
      <4>1. CASE k = i
        BY <1>2, <4>1
      <4>2. CASE k # i
        <5>1. k < i
          BY <1>4, <3>1, <4>2
        <5>2. QED
          BY <1>1, <3>1, <5>1 DEF InOrder
      <4>3. QED
        BY <4>1, <4>2
    <3>4. QED
      BY <1>2, <1>4, <3>1, <3>2, <3>3
  <2>3. QED
    BY <2>1, <2>2
<1>6. k - 1 \in 0..n
  BY <1>4
<1>7. QED
  BY <1>1, <1>5, <1>6

(* e goes behind those that are not later than it. *)
Behind(s, k, e) ==
    /\ \A i \in 1..Len(s) : i < k => s[i].time <= e.time
    /\ \A i \in 1..Len(s) : k <= i => s[i].time > e.time

Stands(A, s, t, k, e) ==
    /\ s \in Seq(A) /\ t \in Seq(A) /\ e \in A /\ \A x \in A : x.time \in Int
    /\ InOrder(s) /\ Inserts(t, s, k, e) /\ Behind(s, k, e)

AddedUntil(s, t, k, e, u) ==
    /\ ~(e.time <= u) => Until(t, u) = Until(s, u)
    /\ e.time <= u =>
         /\ Inserts(Until(t, u), Until(s, u), k, e)
         /\ k # Len(Until(t, u)) <=> \E i \in 1..Len(s) : s[i].time <= u /\ s[i].time > e.time

(* An event that goes behind those that are not later than it is not among  *)
(* the first when they end before it, and else is put in among them.        *)
LEMMA UntilInserts ==
  ASSUME NEW A, NEW s, NEW t, NEW e, NEW k, NEW u, Stands(A, s, t, k, e), u \in Int
  PROVE  Until(s, u) \in Seq(A) /\ Until(t, u) \in Seq(A) /\ AddedUntil(s, t, k, e, u)
<1>0. /\ s \in Seq(A) /\ t \in Seq(A) /\ e \in A /\ (\A x \in A : x.time \in Int)
      /\ InOrder(s) /\ Inserts(t, s, k, e) /\ Behind(s, k, e)
  BY DEF Stands
<1>1. PICK n \in Nat : n = Len(s) /\ \A i \in 1..n : s[i] \in A
  BY <1>0, LenProperties, ElementOfSeq
<1>2. e.time \in Int /\ \A i \in 1..n : s[i].time \in Int
  BY <1>0, <1>1
<1>20. \A i \in 1..n : (i < k => s[i].time <= e.time) /\ (k <= i => s[i].time > e.time)
  BY <1>0, <1>1 DEF Behind
<1>3. PICK p \in 0..n : \A i \in 1..n : s[i].time <= u <=> i <= p
  BY <1>0, <1>1, UntilWhere
<1>4. PICK a : a = Until(s, u)
  OBVIOUS
<1>5. a \in Seq(A) /\ Len(a) = p /\ \A i \in 1..p : a[i] = s[i]
  BY <1>0, <1>1, <1>3, <1>4, UntilIs
<1>6. /\ k \in 1..(n + 1) /\ Len(t) = n + 1 /\ t[k] = e
      /\ \A i \in 1..n : i < k => t[i] = s[i]
      /\ \A i \in 1..n : k <= i => t[i + 1] = s[i]
  BY <1>0, <1>1 DEF Inserts
<1>7. PICK b : b = Until(t, u)
  OBVIOUS
<1>8. \A j \in 1..(n + 1) :
         /\ j < k => j \in 1..n /\ t[j] = s[j]
         /\ j > k => j - 1 \in 1..n /\ k <= j - 1 /\ t[j] = s[j - 1]
  <2> SUFFICES ASSUME NEW j \in 1..(n + 1)
               PROVE  /\ j < k => j \in 1..n /\ t[j] = s[j]
                      /\ j > k => j - 1 \in 1..n /\ k <= j - 1 /\ t[j] = s[j - 1]
    OBVIOUS
  <2>1. CASE j < k
    BY <1>6, <2>1
  <2>2. CASE j > k
    <3>1. PICK i : i = j - 1
      OBVIOUS
    <3>2. i \in 1..n /\ k <= i /\ i + 1 = j
      BY <1>6, <2>2, <3>1
    <3>3. QED
      BY <1>6, <2>2, <3>1, <3>2
  <2>3. QED
    BY <1>6, <2>1, <2>2
<1>9. CASE ~(e.time <= u)
  <2>1. p < k
    <3>1. ASSUME k <= p
          PROVE  FALSE
      <4>1. k \in 1..n /\ k <= k
        BY <1>3, <1>6, <3>1
      <4>2. s[k].time <= u /\ s[k].time > e.time
        BY <1>3, <1>20, <3>1, <4>1
      <4>3. QED
        BY <1>2, <1>9, <4>1, <4>2
    <3>2. QED
      BY <1>3, <1>6, <3>1
  <2>2. ASSUME NEW j \in 1..(n + 1)
        PROVE  t[j].time <= u <=> j <= p
    <3>1. CASE j < k
      BY <1>3, <1>8, <3>1
    <3>2. CASE j = k
      BY <1>6, <1>9, <2>1, <3>2
    <3>3. CASE j > k
      <4>1. j - 1 \in 1..n /\ k <= j - 1 /\ t[j] = s[j - 1]
        BY <1>8, <3>3
      <4>2. ~(j - 1 <= p) /\ ~(j <= p)
        BY <1>3, <1>6, <2>1, <3>3, <4>1
      <4>3. QED
        BY <1>3, <4>1, <4>2
    <3>4. QED
      BY <1>6, <3>1, <3>2, <3>3
  <2>3. p \in 0..Len(t) /\ p \in Nat /\ \A i \in 1..Len(t) : t[i].time <= u <=> i <= p
    BY <1>3, <1>6, <2>2
  <2>4. b \in Seq(A) /\ Len(b) = p /\ \A i \in 1..p : b[i] = t[i]
    BY <1>0, <1>7, <2>3, UntilIs
  <2>5. \A i \in 1..p : t[i] = s[i]
    BY <1>3, <1>6, <2>1
  <2>6. a = [i \in 1..p |-> a[i]] /\ b = [i \in 1..p |-> b[i]]
    BY <1>5, <2>4, LenProperties
  <2>7. a = b
    BY <1>5, <2>4, <2>5, <2>6
  <2>8. QED
    BY <1>4, <1>5, <1>7, <1>9, <2>4, <2>7 DEF AddedUntil
<1>10. CASE e.time <= u
  <2>1. k <= p + 1
    <3>1. ASSUME p + 1 < k
          PROVE  FALSE
      <4>1. p + 1 \in 1..n /\ ~(p + 1 <= p)
        BY <1>3, <1>6, <3>1
      <4>2. s[p + 1].time <= e.time /\ ~(s[p + 1].time <= u)
        BY <1>3, <1>20, <3>1, <4>1
      <4>3. QED
        BY <1>2, <1>10, <4>1, <4>2
    <3>2. QED
      BY <1>3, <1>6, <3>1
  <2>2. ASSUME NEW j \in 1..(n + 1)
        PROVE  t[j].time <= u <=> j <= p + 1
    <3>1. CASE j < k
      <4>1. j \in 1..n /\ t[j] = s[j] /\ j <= p
        BY <1>3, <1>6, <1>8, <2>1, <3>1
      <4>2. QED
        BY <1>3, <4>1
    <3>2. CASE j = k
      BY <1>6, <1>10, <2>1, <3>2
    <3>3. CASE j > k
      BY <1>3, <1>8, <3>3
    <3>4. QED
      BY <1>6, <3>1, <3>2, <3>3
  <2>3. p + 1 \in 0..Len(t) /\ p \in Nat /\ \A i \in 1..Len(t) : t[i].time <= u <=> i <= p + 1
    BY <1>3, <1>6, <2>2
  <2>4. b \in Seq(A) /\ Len(b) = p + 1 /\ \A i \in 1..(p + 1) : b[i] = t[i]
    BY <1>0, <1>7, <2>3, UntilIs
  <2>5. Inserts(b, a, k, e)
    <3>1. k \in 1..(p + 1) /\ b[k] = e
      BY <1>6, <2>1, <2>3, <2>4
    <3>2. ASSUME NEW i \in 1..p, i < k
          PROVE  b[i] = a[i]
      <4>1. i \in 1..n /\ i \in 1..(p + 1)
        BY <1>3
      <4>2. QED
        BY <1>5, <1>6, <2>4, <3>2, <4>1
    <3>3. ASSUME NEW i \in 1..p, k <= i
          PROVE  b[i + 1] = a[i]
      <4>1. i \in 1..n /\ i + 1 \in 1..(p + 1)
        BY <1>3
      <4>2. QED
        BY <1>5, <1>6, <2>4, <3>3, <4>1
    <3>4. QED
      BY <1>5, <2>4, <3>1, <3>2, <3>3 DEF Inserts
  <2>6. k # p + 1 => \E i \in 1..n : s[i].time <= u /\ s[i].time > e.time
    <3>1. SUFFICES ASSUME k # p + 1
                   PROVE  \E i \in 1..n : s[i].time <= u /\ s[i].time > e.time
      OBVIOUS
    <3>2. k \in 1..n /\ k <= p /\ k <= k
      BY <1>3, <1>6, <2>1, <3>1
    <3>3. s[k].time <= u /\ s[k].time > e.time
      BY <1>3, <1>20, <3>2
    <3>4. QED
      BY <3>2, <3>3
  <2>7. ASSUME NEW i \in 1..n, s[i].time <= u, s[i].time > e.time
        PROVE  k # p + 1
    <3>1. i <= p
      BY <1>3, <2>7
    <3>2. ~(i < k)
      BY <1>2, <1>6, <1>20, <2>7
    <3>3. QED
      BY <1>3, <1>6, <3>1, <3>2
  <2>8. QED
    BY <1>1, <1>4, <1>5, <1>7, <1>10, <2>4, <2>5, <2>6, <2>7 DEF AddedUntil
<1>11. QED
  BY <1>9, <1>10

(* The parts' events of an order are these, sorted.                         *)
LEMMA EventsAre == \A s, o : Store!EventsOf(s, o) = Sorted(Mine(s, o))
<1> SUFFICES ASSUME NEW s, NEW o
             PROVE  Store!EventsOf(s, o) = Sorted(Mine(s, o))
  OBVIOUS
<1>1. PICK m : m = Mine(s, o)
  OBVIOUS
<1>2. Store!Of(s, o) = m
  BY <1>1, SameArrays, Zenon DEF Store!Of, Mine
<1>3. PICK key : key = [i \in DOMAIN m |-> m[i].time]
  OBVIOUS
<1>4. Store!EventsOf(s, o) = Store!SortedBy(m, key)
  BY <1>2, <1>3 DEF Store!EventsOf
<1>5. Sorted(m) = SortedBy(m, key)
  BY <1>3 DEF Sorted
<1>6. QED
  BY <1>1, <1>4, <1>5, SameArrays, Zenon

(* No creation is out of time, nor is anything that came before or after it.*)
CreatedInTime(m) ==
    \A i, j \in 1..Len(m) : i < j /\ (Store!Creates(m[i]) \/ Store!Creates(m[j])) => m[i].time <= m[j].time

StoreInv ==
    /\ log \in Seq(Store!DemoEvent) /\ audit \in Seq(Store!AuditEvent)
    /\ view \in [Order -> Shown]
    /\ \A o \in Order : CreatedInTime(Mine(log, o)) => Store!viewOf(Sorted(Mine(log, o))) = view[o]

LEMMA StoreInit ==
  ASSUME Store!Init
  PROVE  StoreInv
<1>1. log = <<>> /\ view = [o \in Order |-> Store!NoOrder] /\ audit = <<>>
  BY DEF Store!Init
<1>2. ASSUME NEW o \in Order
      PROVE  Store!viewOf(Sorted(Mine(log, o))) = Store!NoOrder
  <2>1. PICK s : s = Sorted(Mine(log, o))
    OBVIOUS
  <2>2. PICK m : m = Mine(log, o)
    OBVIOUS
  <2>3. <<>> \in Seq({}) /\ Len(<<>>) = 0
    OBVIOUS
  <2>4. m \in Seq({})
    BY <1>1, <2>2, <2>3, MineIs
  <2>5. s \in Seq({})
    <3>1. \A a \in {} : a.time \in Int
      OBVIOUS
    <3>2. Sorted(m) \in Seq({})
      BY <2>4, <3>1, SortedEvents
    <3>3. QED
      BY <2>1, <2>2, <3>2
  <2>6. Len(s) = 0
    BY <2>5, LenProperties, ElementOfSeq
  <2> DEFINE Viewing(g) == g = [k \in 0..Len(s) |->
                                   IF k = 0 THEN Store!NoOrder ELSE Store!handleEvent(g[k - 1], s[k])]
  <2>7. Viewing([k \in 0..0 |-> Store!NoOrder])
    BY <2>6
  <2>8. PICK f : f = CHOOSE g : Viewing(g)
    OBVIOUS
  <2>9. Viewing(f)
    BY <2>7, <2>8
  <2>10. Store!viewOf(s) = f[Len(s)]
    BY <2>8, Zenon DEF Store!viewOf
  <2>11. QED
    BY <2>1, <2>6, <2>9, <2>10
<1>3. view \in [Order -> Shown] /\ \A o \in Order : view[o] = Store!NoOrder
  BY <1>1, FirstStates
<1>4. log \in Seq(Store!DemoEvent) /\ audit \in Seq(Store!AuditEvent)
  BY <1>1
<1>5. QED
  BY <1>2, <1>3, <1>4 DEF StoreInv

LEMMA PublishKeeps ==
  ASSUME Store!EventsAssumption, StoreInv, NEW e \in Store!DemoEvent, Store!publishEvent(e)
  PROVE  StoreInv'
<1>1. /\ log' = Append(log, e)
      /\ view' = [view EXCEPT ![e.order] = Store!handleEvent(@, e)]
      /\ audit' = audit
  BY DEF Store!publishEvent
<1>2. e.order \in Order /\ \A a \in Store!DemoEvent : a.time \in Int
  BY EventTypes
<1>3. log \in Seq(Store!DemoEvent) /\ view \in [Order -> Shown] /\ audit \in Seq(Store!AuditEvent)
  BY DEF StoreInv
<1>4. log' \in Seq(Store!DemoEvent)
  BY <1>1, <1>3, AppendProperties
<1>5. view' \in [Order -> Shown]
  BY <1>1, <1>2, <1>3, Handles
<1>6. ASSUME NEW o \in Order, CreatedInTime(Mine(log', o))
      PROVE  Store!viewOf(Sorted(Mine(log', o))) = view'[o]
  <2>1. PICK m : m = Mine(log, o)
    OBVIOUS
  <2>2. m \in Seq(Store!DemoEvent) /\ (CreatedInTime(m) => Store!viewOf(Sorted(m)) = view[o])
    BY <1>3, <2>1, MineIs DEF StoreInv
  <2>3. CASE e.order # o
    <3>1. Mine(log', o) = m /\ view'[o] = view[o]
      BY <1>1, <1>3, <2>1, <2>3, MineGrows
    <3>2. QED
      BY <1>6, <2>2, <3>1
  <2>4. CASE e.order = o
    <3>1. PICK w : w = Append(m, e)
      OBVIOUS
    <3>2. Mine(log', o) = w
      BY <1>1, <1>3, <2>1, <2>4, <3>1, MineGrows
    <3>3. PICK n \in Nat : n = Len(m) /\ \A i \in 1..n : m[i] \in Store!DemoEvent
      BY <2>2, LenProperties, ElementOfSeq
    <3>4. /\ w \in Seq(Store!DemoEvent) /\ Len(w) = n + 1
          /\ (\A i \in 1..n : w[i] = m[i]) /\ w[n + 1] = e
      BY <2>2, <3>1, <3>3, AppendProperties
    <3>5. \A i, j \in 1..(n + 1) :
             i < j /\ (Store!Creates(w[i]) \/ Store!Creates(w[j])) => w[i].time <= w[j].time
      BY <1>6, <3>2, <3>4 DEF CreatedInTime
    <3>6. CreatedInTime(m)
      <4>1. \A i \in 1..n : i \in 1..(n + 1)
        OBVIOUS
      <4>2. QED
        BY <3>3, <3>4, <3>5, <4>1 DEF CreatedInTime
    <3>7. \A j \in 1..n : Store!Creates(m[j]) \/ Store!Creates(e) => m[j].time <= e.time
      <4>1. \A j \in 1..n : j \in 1..(n + 1) /\ j < n + 1 /\ n + 1 \in 1..(n + 1)
        OBVIOUS
      <4>2. QED
        BY <3>4, <3>5, <4>1
    <3>8. PICK u : u = Sorted(m)
      OBVIOUS
    <3>9. /\ u \in Seq(Store!DemoEvent) /\ Len(u) = n
          /\ \A k \in 1..n : \E j \in 1..n : u[k] = m[j]
      BY <1>2, <2>2, <3>3, <3>8, SortedEvents
    <3>10. PICK v : v = Sorted(w)
      OBVIOUS
    <3>11. v \in Seq(Store!DemoEvent)
      BY <1>2, <3>4, <3>10, SortedEvents
    <3>12. PICK k : /\ Inserts(v, u, k, e)
                    /\ \A i \in 1..n : k <= i => u[i].time > e.time
      BY <1>2, <2>2, <3>1, <3>3, <3>8, <3>10, SortInserts
    <3>13. ASSUME NEW i \in 1..Len(u), k <= i
           PROVE  ~Store!Creates(u[i]) /\ ~Store!Creates(e)
      <4>1. PICK j \in 1..n : u[i] = m[j]
        BY <3>9, <3>13
      <4>2. u[i].time > e.time /\ u[i].time \in Int /\ e.time \in Int
        BY <1>2, <3>3, <3>9, <3>12, <3>13, <4>1
      <4>3. QED
        BY <3>7, <4>1, <4>2
    <3>14. Store!viewOf(v) = Store!handleEvent(Store!viewOf(u), e)
      BY <3>9, <3>11, <3>12, <3>13, ViewInserts
    <3>15. view'[o] = Store!handleEvent(view[o], e)
      BY <1>1, <1>3, <2>4
    <3>16. QED
      BY <2>2, <3>2, <3>6, <3>8, <3>10, <3>14, <3>15
  <2>5. QED
    BY <2>3, <2>4
<1>7. QED
  BY <1>1, <1>3, <1>4, <1>5, <1>6 DEF StoreInv

LEMMA StoreStep ==
  ASSUME Store!EventsAssumption, StoreInv, [Store!Next]_eventVars
  PROVE  StoreInv'
<1>1. CASE UNCHANGED eventVars
  BY <1>1 DEF eventVars, StoreInv
<1>2. ASSUME NEW e \in Store!AuditEvent, Store!append(e)
      PROVE  StoreInv'
  <2>1. audit' = Append(audit, e) /\ log' = log /\ view' = view
    BY <1>2 DEF Store!append
  <2>2. audit' \in Seq(Store!AuditEvent)
    BY <2>1, AppendProperties DEF StoreInv
  <2>3. QED
    BY <2>1, <2>2 DEF StoreInv
<1>3. CASE Store!Next
  BY <1>2, <1>3, PublishKeeps DEF Store!Next
<1>4. QED
  BY <1>1, <1>3

LEMMA StoreAgrees ==
  ASSUME Store!EventsAssumption, StoreInv
  PROVE  ReplayAgrees
<1>1. log \in Seq(Store!DemoEvent) /\ DOMAIN log = 1..Len(log)
  BY LenProperties DEF StoreInv
<1>2. ASSUME NEW o \in Order, Store!CreationsInTime(o)
      PROVE  Store!viewOf(Store!EventsOf(log, o)) = view[o]
  <2>1. PICK m : m = Mine(log, o)
    OBVIOUS
  <2>2. PICK q : Drawn(m, log, o, q)
    BY <1>1, <2>1, MineIs
  <2>3. \A i, j \in 1..Len(log) :
          /\ i < j /\ log[i].order = o /\ log[j].order = o
          /\ Store!Creates(log[i]) \/ Store!Creates(log[j])
          => log[i].time <= log[j].time
    BY <1>1, <1>2 DEF Store!CreationsInTime
  <2>4. CreatedInTime(m)
    BY <2>2, <2>3 DEF CreatedInTime, Drawn
  <2>5. QED
    BY <2>1, <2>4, EventsAre DEF StoreInv
<1>3. QED
  BY <1>2 DEF ReplayAgrees, Store!ReplayAgrees

(* What the replays of an order up to a time read, before and after a step. *)
LEMMA AsOfIs ==
  ASSUME NEW o, NEW u
  PROVE  /\ Store!asOf(o, u) = Store!buildState(Until(Sorted(Mine(audit, o)), u))
         /\ Store!asOf(o, u)' = Store!buildState(Until(Sorted(Mine(audit', o)), u))
<1>1. ASSUME NEW s
      PROVE  LET mine == Store!EventsOf(s, o)
             IN  Store!Filtered(mine, {i \in DOMAIN mine : mine[i].time <= u}) = Until(Sorted(Mine(s, o)), u)
  <2>1. PICK m : m = Sorted(Mine(s, o))
    OBVIOUS
  <2>2. Store!EventsOf(s, o) = m
    BY <2>1, EventsAre
  <2>3. QED
    BY <2>1, <2>2, SameArrays, Zenon DEF Until
<1>2. Store!getEventsUpTo(o, u) = Until(Sorted(Mine(audit, o)), u)
  BY <1>1, Zenon DEF Store!getEventsUpTo, Store!UpTo
<1>3. Store!getEventsUpTo(o, u)' = Until(Sorted(Mine(audit', o)), u)
  BY <1>1, Zenon DEF Store!getEventsUpTo, Store!UpTo
<1>4. QED
  BY <1>2, <1>3 DEF Store!asOf

LEMMA Travels ==
  ASSUME Store!EventsAssumption, StoreInv, NEW e \in Store!AuditEvent, audit' = Append(audit, e),
         NEW o \in Order, NEW u \in Time
  PROVE  Store!asOf(o, u)' =
            IF ~Store!Counts(o, u, e) THEN Store!asOf(o, u)
            ELSE IF Store!Hidden(o, u, e) THEN StatusAside(Store!asOf(o, u), e)
            ELSE Store!Applied(Store!asOf(o, u), e)
<1>1. audit \in Seq(Store!AuditEvent) /\ DOMAIN audit = 1..Len(audit)
  BY LenProperties DEF StoreInv
<1>2. e.order \in Order /\ (\A a \in Store!AuditEvent : a.time \in Int) /\ e.time \in Int
  BY EventTypes
<1>3. u \in Int
  BY DEF Store!EventsAssumption
<1>4. PICK m : m = Mine(audit, o)
  OBVIOUS
<1>5. m \in Seq(Store!AuditEvent)
  BY <1>1, <1>4, MineIs
<1>6. PICK s : s = Sorted(m)
  OBVIOUS
<1>7. /\ s \in Seq(Store!AuditEvent) /\ Len(s) = Len(m) /\ InOrder(s)
      /\ \A k \in 1..Len(m) : \E i \in 1..Len(m) : s[k] = m[i]
      /\ \A i \in 1..Len(m) : \E k \in 1..Len(m) : s[k] = m[i]
  BY <1>2, <1>5, <1>6, SortedEvents
<1>8. PICK w : w = Mine(Append(audit, e), o)
  OBVIOUS
<1>9. PICK t : t = Sorted(w)
  OBVIOUS
<1>10. Store!asOf(o, u) = Store!buildState(Until(s, u)) /\ Store!asOf(o, u)' = Store!buildState(Until(t, u))
  <2>1. Store!asOf(o, u)' = Store!buildState(Until(Sorted(Mine(audit', o)), u))
    BY AsOfIs, Zenon
  <2>2. QED
    BY <1>4, <1>6, <1>8, <1>9, <2>1, AsOfIs
<1>11. CASE e.order # o
  <2>1. w = m
    BY <1>1, <1>4, <1>8, <1>11, MineGrows
  <2>2. QED
    BY <1>6, <1>9, <1>10, <1>11, <2>1 DEF Store!Counts
<1>12. CASE e.order = o
  <2>1. w = Append(m, e)
    BY <1>1, <1>4, <1>8, <1>12, MineGrows
  <2>2. w \in Seq(Store!AuditEvent)
    BY <1>5, <2>1, AppendProperties
  <2>3. t \in Seq(Store!AuditEvent)
    BY <1>2, <1>9, <2>2, SortedEvents
  <2>4. PICK k : Inserts(t, s, k, e) /\ Behind(s, k, e)
    <3>1. \E k : /\ Inserts(Sorted(Append(m, e)), Sorted(m), k, e)
                 /\ \A i \in 1..Len(m) : i < k => Sorted(m)[i].time <= e.time
                 /\ \A i \in 1..Len(m) : k <= i => Sorted(m)[i].time > e.time
      BY <1>2, <1>5, SortInserts
    <3>2. QED
      BY <1>6, <1>7, <1>9, <2>1, <3>1 DEF Behind
  <2>5. PICK a, b : a = Until(s, u) /\ b = Until(t, u)
    OBVIOUS
  <2>6. a \in Seq(Store!AuditEvent) /\ b \in Seq(Store!AuditEvent) /\ AddedUntil(s, t, k, e, u)
    <3>1. Stands(Store!AuditEvent, s, t, k, e)
      BY <1>2, <1>7, <2>3, <2>4 DEF Stands
    <3>2. QED
      BY <1>3, <2>5, <3>1, UntilInserts
  <2>7. CASE ~(e.time <= u)
    BY <1>10, <2>5, <2>6, <2>7 DEF Store!Counts, AddedUntil
  <2>8. ASSUME e.time <= u
        PROVE  Inserts(b, a, k, e)
    BY <2>5, <2>6, <2>8 DEF AddedUntil
  <2>9. CASE e.time <= u
    <3>1. Store!Counts(o, u, e)
      BY <1>12, <2>9 DEF Store!Counts
    <3>2. k # Len(b) <=> Store!Hidden(o, u, e)
      <4>1. (\E i \in 1..Len(s) : s[i].time <= u /\ s[i].time > e.time)
              <=> \E i \in 1..Len(m) : m[i].time <= u /\ m[i].time > e.time
        BY <1>7
      <4>2. (\E i \in 1..Len(m) : m[i].time <= u /\ m[i].time > e.time)
              <=> \E i \in 1..Len(audit) : audit[i].order = o /\ audit[i].time <= u /\ audit[i].time > e.time
        <5>1. \A i \in 1..Len(audit) : audit[i].order = o => \E j \in 1..Len(m) : m[j] = audit[i]
          BY <1>1, <1>4, MineIs
        <5>2. \A j \in 1..Len(m) : \E i \in 1..Len(audit) : audit[i].order = o /\ m[j] = audit[i]
          <6>1. PICK q : Drawn(m, audit, o, q)
            BY <1>1, <1>4, MineIs
          <6>2. QED
            BY <6>1 DEF Drawn
        <5>3. QED
          BY <5>1, <5>2
      <4>3. Store!Hidden(o, u, e) <=>
              \E i \in 1..Len(audit) : audit[i].order = o /\ audit[i].time <= u /\ audit[i].time > e.time
        BY <1>1 DEF Store!Hidden, Store!Counts
      <4>4. QED
        BY <2>5, <2>6, <2>9, <4>1, <4>2, <4>3 DEF AddedUntil
    <3>3. Store!buildState(b) = IF k = Len(b) THEN Store!Applied(Store!buildState(a), e)
                                ELSE StatusAside(Store!buildState(a), e)
      BY <2>6, <2>8, <2>9, BuildInserts
    <3>4. QED
      BY <1>10, <2>5, <3>1, <3>2, <3>3
  <2>10. QED
    BY <2>7, <2>9
<1>13. QED
  BY <1>11, <1>12

(* Theorem: for any orders, amounts, times and length of the log, replaying *)
(* an order's events, sorted by time, gives what the view accumulated, in   *)
(* whatever order its items and shipments were published, as long as no     *)
(* event of it was published before its creation and is stamped later, or   *)
(* after a creation and is stamped earlier.                                 *)
THEOREM ReplayAgreesHolds == Spec => []ReplayAgrees
<1>1. Store!EventsAssumption
  BY PartsAssumption
<1>2. Init => StoreInv
  BY PartsBegin, StoreInit
<1>3. StoreInv /\ [Next]_vars => StoreInv'
  BY <1>1, PartsStep, StoreStep
<1>4. StoreInv => ReplayAgrees
  BY <1>1, StoreAgrees
<1>5. QED
  BY <1>2, <1>3, <1>4, PTL DEF Spec

(* Theorem: for any orders, amounts, times and length of the log, an event  *)
(* that is appended, however late by its stamp, changes only what the       *)
(* replays of its order up to its time and later ones say: it counts in     *)
(* all their sums, and is the status of those in which no later one is.     *)
THEOREM TimeTravelHolds == Spec => TimeTravel
<1>1. Store!EventsAssumption
  BY PartsAssumption
<1>2. Init => StoreInv
  BY PartsBegin, StoreInit
<1>3. StoreInv /\ [Next]_vars => StoreInv'
  BY <1>1, PartsStep, StoreStep
<1>4. StoreInv /\ [Next]_vars =>
        [\A o \in Order, t \in Time, n \in DOMAIN audit' \ DOMAIN audit :
            LET e == audit'[n]
            IN Store!asOf(o, t)' =
                  IF ~Store!Counts(o, t, e) THEN Store!asOf(o, t)
                  ELSE IF Store!Hidden(o, t, e)
                       THEN [Store!Applied(Store!asOf(o, t), e) EXCEPT !.status = Store!asOf(o, t).status]
                       ELSE Store!Applied(Store!asOf(o, t), e)]_audit
  <2> SUFFICES ASSUME StoreInv, [Next]_vars, audit' # audit,
                      NEW o \in Order, NEW t \in Time, NEW n \in DOMAIN audit' \ DOMAIN audit
               PROVE  Store!asOf(o, t)' =
                         IF ~Store!Counts(o, t, audit'[n]) THEN Store!asOf(o, t)
                         ELSE IF Store!Hidden(o, t, audit'[n])
                              THEN StatusAside(Store!asOf(o, t), audit'[n])
                              ELSE Store!Applied(Store!asOf(o, t), audit'[n])
    BY DEF StatusAside
  <2>1. PICK e \in Store!AuditEvent : audit' = Append(audit, e)
    <3>1. [Store!Next]_eventVars
      BY PartsStep
    <3>2. Store!Next
      BY <3>1 DEF eventVars
    <3>3. QED
      BY <3>2 DEF Store!Next, Store!publishEvent, Store!append
  <2>2. audit'[n] = e
    <3>1. audit \in Seq(Store!AuditEvent)
      BY DEF StoreInv
    <3>2. PICK m \in Nat : m = Len(audit)
      BY <3>1, LenProperties
    <3>3. DOMAIN audit' = 1..(m + 1) /\ audit'[m + 1] = e /\ DOMAIN audit = 1..m
      BY <2>1, <3>1, <3>2, AppendProperties, LenProperties
    <3>4. n = m + 1
      BY <3>3
    <3>5. QED
      BY <3>3, <3>4
  <2>3. QED
    BY <1>1, <2>1, <2>2, Travels
<1>5. QED
  BY <1>2, <1>3, <1>4, PTL DEF Spec, TimeTravel, Store!TimeTravel

-----------------------------------------------------------------------------
Entry == [id : Timeline!Post, score : Score]
(* A ranking: each post once, by falling score. *)
Ranks(f) ==
    /\ f \in Seq(Entry)
    /\ \A i, j \in 1..Len(f) : i < j => f[i].id # f[j].id /\ f[i].score >= f[j].score

LEMMA TopIs ==
  ASSUME Timeline!FeedAssumption
  PROVE  Timeline!Top \in Nat /\ \A s \in Score : s \in Nat /\ s < Timeline!Top
<1>1. Score \subseteq Nat /\ IsFiniteSet(Score) /\ Score # {}
  BY DEF Timeline!FeedAssumption, IsFiniteSet, Timeline!IsFiniteSet
<1>2. PICK c : c = CHOOSE n \in Score : \A s \in Score : s <= n
  OBVIOUS
<1>3. c \in Score /\ \A s \in Score : s <= c
  <2>1. \E n \in Score : \A s \in Score : s <= n
    BY <1>1, GreatestOf
  <2>2. QED
    BY <1>2, <2>1
<1>4. Timeline!Top = 1 + c
  BY <1>2 DEF Timeline!Top
<1>5. c \in Nat
  BY <1>1, <1>3
<1>6. ASSUME NEW s \in Score
      PROVE  s \in Nat /\ s < 1 + c
  <2>1. s \in Nat /\ s <= c
    BY <1>1, <1>3
  <2>2. QED
    BY <1>5, <2>1
<1>7. QED
  BY <1>4, <1>5, <1>6

(* The first of a sequence, at most n. *)
LEMMA FirstIs ==
  ASSUME NEW A, NEW s \in Seq(A), NEW n \in Nat
  PROVE  \E m \in Nat : /\ m = (IF n < Len(s) THEN n ELSE Len(s))
                        /\ m <= n /\ m <= Len(s)
                        /\ Timeline!FirstOf(s, n) \in Seq(A)
                        /\ Len(Timeline!FirstOf(s, n)) = m
                        /\ \A i \in 1..m : i \in 1..Len(s) /\ Timeline!FirstOf(s, n)[i] = s[i]
<1>1. PICK l \in Nat : l = Len(s)
  BY LenProperties
<1>2. PICK m \in Nat : m = IF n < l THEN n ELSE l
  OBVIOUS
<1>3. PICK t : t = Timeline!FirstOf(s, n)
  OBVIOUS
<1>4. t = SubSeq(s, 1, m)
  BY <1>1, <1>2, <1>3 DEF Timeline!FirstOf
<1>5. m <= n /\ m <= l /\ \A i \in 1..m : i \in 1..l
  BY <1>2
<1>6. \A i \in 1..m : s[i] \in A
  BY <1>1, <1>5, ElementOfSeq
<1>7. /\ t \in Seq(A) /\ Len(t) = IF 1 <= m THEN m - 1 + 1 ELSE 0
      /\ \A i \in 1..(m - 1 + 1) : t[i] = s[1 + i - 1]
  BY <1>4, <1>6, SubSeqProperties
<1>8. Len(t) = m /\ \A i \in 1..m : t[i] = s[i]
  BY <1>7
<1>9. QED
  BY <1>1, <1>2, <1>3, <1>5, <1>7, <1>8

LEMMA RankedRanks ==
  ASSUME Timeline!FeedAssumption, NEW score \in [Timeline!Post -> Score]
  PROVE  Ranks(Timeline!Ranked(score))
<1>1. PICK n \in Nat : n = Posts
  BY DEF Timeline!FeedAssumption
<1>2. Timeline!Post = 1..n
  BY <1>1 DEF Timeline!Post
<1>3. PICK s : s = [i \in Timeline!Post |-> [id |-> i, score |-> score[i]]]
  OBVIOUS
<1>4. PICK key : key = [i \in Timeline!Post |-> -score[i]]
  OBVIOUS
<1>5. PICK r : r = Timeline!Ranked(score)
  OBVIOUS
<1>6. r = SortedBy(s, key)
  BY <1>3, <1>4, <1>5, SameArrays, Zenon DEF Timeline!Ranked
<1>7. \A i \in 1..n : s[i] \in Entry /\ s[i].id = i /\ s[i].score = score[i] /\ key[i] = -score[i] /\ score[i] \in Score
  BY <1>2, <1>3, <1>4 DEF Entry
<1>8. s = [i \in 1..n |-> s[i]]
  BY <1>2, <1>3
<1>9. s \in Seq(Entry) /\ Len(s) = n
  BY <1>7, <1>8
<1>10. \A i \in 1..n : score[i] \in Nat /\ key[i] \in Int
  <2> SUFFICES ASSUME NEW i \in 1..n
               PROVE  score[i] \in Nat /\ key[i] \in Int
    OBVIOUS
  <2>1. score[i] \in Nat /\ key[i] = -score[i]
    BY <1>7, TopIs
  <2>2. QED
    BY <2>1
<1>11. PICK q : /\ Sorts(q, n, key) /\ r = [k \in 1..n |-> s[q[k]]]
                /\ r \in Seq(Entry) /\ Len(r) = n
  BY <1>6, <1>9, <1>10, SortedIs
<1>12. ASSUME NEW k \in 1..n, NEW l \in 1..n, k < l
       PROVE  r[k].id # r[l].id /\ r[k].score >= r[l].score
  <2>1. PICK a, b : a = q[k] /\ b = q[l]
    OBVIOUS
  <2>2. a \in 1..n /\ b \in 1..n /\ a # b /\ AtOrBefore(key, a, b)
    BY <1>11, <1>12, <2>1 DEF Sorts
  <2>3. r[k] = s[a] /\ r[l] = s[b]
    BY <1>11, <2>1
  <2>4. /\ r[k].id = a /\ r[l].id = b /\ r[k].score = score[a] /\ r[l].score = score[b]
        /\ key[a] = -score[a] /\ key[b] = -score[b] /\ score[a] \in Nat /\ score[b] \in Nat
    BY <1>7, <1>10, <2>2, <2>3
  <2>5. key[a] <= key[b]
    BY <1>10, <2>2 DEF AtOrBefore
  <2>6. score[a] >= score[b]
    BY <2>4, <2>5
  <2>7. QED
    BY <2>2, <2>4, <2>6
<1>13. QED
  BY <1>5, <1>11, <1>12 DEF Ranks

LEMMA FirstRanks ==
  ASSUME Timeline!FeedAssumption, NEW f, Ranks(f)
  PROVE  /\ Ranks(Timeline!FirstOf(f, TopN))
         /\ Len(Timeline!FirstOf(f, TopN)) <= TopN
<1>1. TopN \in Nat /\ f \in Seq(Entry)
  BY DEF Timeline!FeedAssumption, Ranks
<1>2. PICK t : t = Timeline!FirstOf(f, TopN)
  OBVIOUS
<1>3. PICK m \in Nat : /\ m <= TopN /\ t \in Seq(Entry) /\ Len(t) = m
                       /\ \A i \in 1..m : i \in 1..Len(f) /\ t[i] = f[i]
  BY <1>1, <1>2, FirstIs
<1>4. \A i, j \in 1..m : i < j => t[i].id # t[j].id /\ t[i].score >= t[j].score
  BY <1>3 DEF Ranks
<1>5. QED
  BY <1>2, <1>3, <1>4 DEF Ranks

(* A client has been shown the posts s at the places at of the ranking f,   *)
(* from the best to the cursor c; a post it has passed and not been shown   *)
(* has the score of a page's end, one in b.                                 *)
Passed(at, f, s, c, b) ==
    /\ at \in [1..Len(s) -> 1..Len(f)]
    /\ \A i, j \in 1..Len(s) : i < j => at[i] < at[j]
    /\ \A i \in 1..Len(s) : s[i] = f[at[i]].id /\ c <= f[at[i]].score
    /\ \A p \in 1..Len(f) : c <= f[p].score =>
          f[p].score \in b \/ \E i \in 1..Len(s) : at[i] = p
AllPassed(f, c) == \A p \in 1..Len(f) : c <= f[p].score
FeedInv ==
    /\ Timeline!TypeOK /\ Ranks(feed)
    /\ fresh => \E at : Passed(at, feed, seen, cursor, breaks)
    /\ fresh /\ ~hasMore => AllPassed(feed, cursor)

LEMMA RankScores ==
  ASSUME Timeline!FeedAssumption, NEW f, Ranks(f)
  PROVE  /\ Len(f) \in Nat /\ DOMAIN f = 1..Len(f)
         /\ \A p \in 1..Len(f) : f[p] \in Entry /\ f[p].id \in Timeline!Post
                                 /\ f[p].score \in Score /\ f[p].score \in Nat
<1>1. f \in Seq(Entry)
  BY DEF Ranks
<1>2. \A p \in 1..Len(f) : f[p] \in Entry
  BY <1>1, ElementOfSeq
<1>3. \A p \in 1..Len(f) : f[p].id \in Timeline!Post /\ f[p].score \in Score
  BY <1>2 DEF Entry
<1>4. \A p \in 1..Len(f) : f[p].score \in Nat
  BY <1>3, TopIs
<1>5. QED
  BY <1>1, <1>2, <1>3, <1>4, LenProperties

LEMMA NothingPassed ==
  ASSUME Timeline!FeedAssumption, NEW f, Ranks(f), NEW b
  PROVE  \E at : Passed(at, f, <<>>, Timeline!Top, b)
<1> DEFINE at == [i \in {} |-> 0]
<1>1. Len(<<>>) = 0 /\ 1..Len(<<>>) = {}
  OBVIOUS
<1>2. \A p \in 1..Len(f) : ~(Timeline!Top <= f[p].score)
  <2> SUFFICES ASSUME NEW p \in 1..Len(f)
               PROVE  ~(Timeline!Top <= f[p].score)
    OBVIOUS
  <2>1. f[p].score \in Score
    BY RankScores
  <2>2. PICK x : x = f[p].score
    OBVIOUS
  <2>3. x \in Nat /\ x < Timeline!Top /\ Timeline!Top \in Nat
    BY <2>1, <2>2, TopIs
  <2>4. QED
    BY <2>2, <2>3
<1>3. at \in [1..Len(<<>>) -> 1..Len(f)]
  BY <1>1
<1> HIDE DEF at
<1>4. Passed(at, f, <<>>, Timeline!Top, b)
  BY <1>1, <1>2, <1>3 DEF Passed
<1>5. QED
  BY <1>4

LEMMA FeedInit ==
  ASSUME Timeline!FeedAssumption, Timeline!Init
  PROVE  FeedInv
<1>1. /\ feed = <<>> /\ cursor = Timeline!Top /\ hasMore = TRUE /\ seen = <<>> /\ breaks = {}
      /\ fresh = TRUE
  BY DEF Timeline!Init
<1>2. Len(feed) = 0 /\ TopN \in Nat /\ 0 <= TopN
  BY <1>1 DEF Timeline!FeedAssumption
<1>3. Timeline!TypeOK
  BY <1>1, <1>2 DEF Timeline!TypeOK
<1>4. Ranks(feed)
  BY <1>1 DEF Ranks
<1>5. QED
  BY <1>1, <1>3, <1>4, NothingPassed DEF FeedInv

LEMMA RankKeeps ==
  ASSUME Timeline!FeedAssumption, FeedInv, NEW score \in [Timeline!Post -> Score],
         Timeline!rankAndCacheFeed(score)
  PROVE  FeedInv'
<1>1. /\ feed' = Timeline!FirstOf(Timeline!Ranked(score), TopN)
      /\ fresh' = (hasMore /\ cursor = Timeline!Top) /\ seen' = <<>> /\ breaks' = {}
      /\ cursor' = cursor /\ hasMore' = hasMore
  BY DEF Timeline!rankAndCacheFeed
<1>2. Ranks(feed') /\ Len(feed') <= TopN
  BY <1>1, RankedRanks, FirstRanks
<1>3. hasMore \in BOOLEAN /\ cursor \in Score \cup {Timeline!Top}
  BY DEF FeedInv, Timeline!TypeOK
<1>4. Timeline!TypeOK'
  <2>1. feed' \in Seq([id : Timeline!Post, score : Score])
    BY <1>2 DEF Ranks, Entry
  <2>2. fresh' \in BOOLEAN
    BY <1>1, <1>3
  <2>3. QED
    BY <1>1, <1>2, <1>3, <2>1, <2>2 DEF Timeline!TypeOK
<1>5. fresh' => cursor' = Timeline!Top /\ hasMore'
  BY <1>1
<1>6. fresh' => \E at : Passed(at, feed', seen', cursor', breaks')
  BY <1>1, <1>2, <1>5, NothingPassed
<1>7. QED
  BY <1>2, <1>4, <1>5, <1>6 DEF FeedInv

LEMMA StartOverKeeps ==
  ASSUME Timeline!FeedAssumption, FeedInv, Timeline!StartOver
  PROVE  FeedInv'
<1>1. /\ cursor' = Timeline!Top /\ hasMore' = TRUE /\ seen' = <<>> /\ breaks' = {} /\ fresh' = TRUE
      /\ feed' = feed
  BY DEF Timeline!StartOver
<1>2. Ranks(feed')
  BY <1>1 DEF FeedInv
<1>3. Timeline!TypeOK'
  BY <1>1 DEF FeedInv, Timeline!TypeOK
<1>4. \E at : Passed(at, feed', seen', cursor', breaks')
  BY <1>1, <1>2, NothingPassed
<1>5. QED
  BY <1>1, <1>2, <1>3, <1>4 DEF FeedInv

(* A page shows the first of the posts beyond the cursor. *)
LEMMA PageIs ==
  ASSUME Timeline!FeedAssumption, Ranks(feed), NEW limit \in PageSize
  PROVE  \E q, n, m :
           /\ Lists(q, n, Timeline!Beyond) /\ m \in Nat /\ m <= n
           /\ m = (IF limit < n THEN limit ELSE n)
           /\ Timeline!FirstOf(Timeline!Filtered(feed, Timeline!Beyond), limit) \in Seq(Entry)
           /\ Len(Timeline!FirstOf(Timeline!Filtered(feed, Timeline!Beyond), limit)) = m
           /\ \A k \in 1..m : /\ k \in 1..n
                              /\ Timeline!FirstOf(Timeline!Filtered(feed, Timeline!Beyond), limit)[k]
                                   = feed[q[k]]
<1>1. feed \in Seq(Entry) /\ DOMAIN feed = 1..Len(feed)
  BY RankScores DEF Ranks
<1>2. PICK P : P = Timeline!Beyond
  OBVIOUS
<1>3. P \subseteq 1..Len(feed)
  BY <1>1, <1>2 DEF Timeline!Beyond
<1>4. PICK r : r = Filtered(feed, P)
  OBVIOUS
<1>5. PICK q, n : /\ Lists(q, n, P) /\ Picks(r, feed, q, n)
                  /\ r \in Seq(Entry) /\ Len(r) = n
  BY <1>1, <1>3, <1>4, FilteredIs
<1>6. limit \in Nat
  BY DEF Timeline!FeedAssumption
<1>7. PICK page : page = Timeline!FirstOf(r, limit)
  OBVIOUS
<1>8. PICK m \in Nat : /\ m = (IF limit < Len(r) THEN limit ELSE Len(r)) /\ m <= Len(r)
                       /\ page \in Seq(Entry) /\ Len(page) = m
                       /\ \A k \in 1..m : k \in 1..Len(r) /\ page[k] = r[k]
  BY <1>5, <1>6, <1>7, FirstIs
<1>9. \A k \in 1..n : r[k] = feed[q[k]]
  BY <1>5 DEF Picks
<1>10. Timeline!Filtered(feed, Timeline!Beyond) = r
  BY <1>2, <1>4, SameArrays, Zenon
<1>11. \A k \in 1..m : k \in 1..n /\ page[k] = feed[q[k]]
  BY <1>5, <1>8, <1>9
<1>12. Lists(q, n, Timeline!Beyond) /\ m <= n /\ m = (IF limit < n THEN limit ELSE n)
  BY <1>2, <1>5, <1>8
<1>13. QED
  BY <1>7, <1>8, <1>10, <1>11, <1>12

(* The places at, and after them the first m of the list q.                 *)
Onward(at, l, q, m) == [i \in 1..(l + m) |-> IF i <= l THEN at[i] ELSE q[i - l]]

(* What is left of the ranking, and what a client has been shown when it    *)
(* gets a page of the first m posts of the list q.                          *)
Below(f, c) == {p \in 1..Len(f) : f[p].score < c}
Shows(t, s, f, q, m) ==
    /\ Len(t) = Len(s) + m
    /\ \A i \in 1..Len(s) : t[i] = s[i]
    /\ \A k \in 1..m : t[Len(s) + k] = f[q[k]].id

(* A page that is not empty takes the client past its last post's score.    *)
LEMMA PassesOn ==
  ASSUME Timeline!FeedAssumption, NEW f, Ranks(f), NEW A, NEW s \in Seq(A), NEW c \in Nat, NEW b,
         NEW at, Passed(at, f, s, c, b),
         NEW q, NEW n, NEW P, P = Below(f, c), Lists(q, n, P),
         NEW m \in Nat, m # 0, m <= n, NEW d, d = f[q[m]].score,
         NEW t, Shows(t, s, f, q, m)
  PROVE  /\ \E a : Passed(a, f, t, d, b \cup {d})
         /\ m = n => AllPassed(f, d)
<1>1. PICK l \in Nat : l = Len(s)
  BY LenProperties
<1>21. /\ Len(t) = Len(s) + m
       /\ \A i \in 1..Len(s) : t[i] = s[i]
       /\ \A k \in 1..m : t[Len(s) + k] = f[q[k]].id
  BY DEF Shows
<1>22. \A p \in 1..Len(f) : p \in P <=> f[p].score < c
  BY DEF Below
<1>23. P \subseteq 1..Len(f)
  BY DEF Below
<1>2. /\ Len(f) \in Nat
      /\ \A p \in 1..Len(f) : p \in Nat /\ f[p].score \in Nat
      /\ \A p, r \in 1..Len(f) : p < r => f[p].score >= f[r].score
  <2>1. Len(f) \in Nat /\ \A p \in 1..Len(f) : f[p].score \in Nat
    BY RankScores
  <2>2. \A p \in 1..Len(f) : p \in Nat
    OBVIOUS
  <2>3. \A p, r \in 1..Len(f) : p < r => f[p].score >= f[r].score
    BY DEF Ranks
  <2>4. QED
    BY <2>1, <2>2, <2>3
<1>3. /\ n \in Nat /\ \A k \in 1..n : q[k] \in P
      /\ \A k, j \in 1..n : k < j => q[k] < q[j]
      /\ \A p \in P : \E k \in 1..n : q[k] = p
  BY DEF Lists
<1>4. \A k \in 1..n : q[k] \in 1..Len(f) /\ f[q[k]].score < c /\ q[k] \in Nat /\ f[q[k]].score \in Nat
  <2> SUFFICES ASSUME NEW k \in 1..n
               PROVE  q[k] \in 1..Len(f) /\ f[q[k]].score < c /\ q[k] \in Nat /\ f[q[k]].score \in Nat
    OBVIOUS
  <2>1. q[k] \in P
    BY <1>3
  <2>2. q[k] \in 1..Len(f) /\ f[q[k]].score < c
    BY <1>22, <1>23, <2>1
  <2>3. QED
    BY <1>2, <2>2
<1>5. m \in 1..n /\ \A k \in 1..m : k \in 1..n /\ k \in Nat /\ k <= m
  BY <1>3
<1>6. d \in Nat /\ d < c
  BY <1>4, <1>5
<1>7. \A k \in 1..m : f[q[k]].score >= d
  <2> SUFFICES ASSUME NEW k \in 1..m
               PROVE  f[q[k]].score >= d
    OBVIOUS
  <2>1. CASE k = m
    BY <1>6, <2>1
  <2>2. CASE k # m
    <3>1. k < m /\ k \in 1..n
      BY <1>5, <2>2
    <3>2. q[k] < q[m]
      BY <1>3, <1>5, <3>1
    <3>3. f[q[k]].score >= f[q[m]].score
      BY <1>2, <1>4, <1>5, <3>1, <3>2
    <3>4. QED
      BY <3>3
  <2>3. QED
    BY <2>1, <2>2
<1>8. \A k \in 1..n : k \in 1..m \/ f[q[k]].score = d \/ f[q[k]].score < d
  <2> SUFFICES ASSUME NEW k \in 1..n, k \notin 1..m
               PROVE  f[q[k]].score = d \/ f[q[k]].score < d
    OBVIOUS
  <2>1. m < k
    BY <1>3
  <2>2. q[m] < q[k]
    BY <1>3, <1>5, <2>1
  <2>3. f[q[m]].score >= f[q[k]].score
    BY <1>2, <1>4, <1>5, <2>2
  <2>4. PICK x : x = f[q[k]].score
    OBVIOUS
  <2>5. x \in Nat /\ d >= x
    BY <1>4, <2>3, <2>4
  <2>6. QED
    BY <1>6, <2>4, <2>5
<1>9. /\ at \in [1..l -> 1..Len(f)]
      /\ \A i, j \in 1..l : i < j => at[i] < at[j]
      /\ \A i \in 1..l : s[i] = f[at[i]].id /\ c <= f[at[i]].score
      /\ \A p \in 1..Len(f) : c <= f[p].score =>
            f[p].score \in b \/ \E i \in 1..l : at[i] = p
  BY <1>1 DEF Passed
<1> DEFINE a == Onward(at, l, q, m)
<1>10. /\ \A i \in 1..(l + m) : i \in 1..l \/ \E k \in 1..m : i = l + k
       /\ \A k \in 1..m : l + k \in 1..(l + m) /\ ~(l + k <= l) /\ l + k - l = k /\ l + k \notin 1..l
       /\ \A i \in 1..l : i \in 1..(l + m) /\ i <= l
  <2>1. ASSUME NEW i \in 1..(l + m), i \notin 1..l
        PROVE  \E k \in 1..m : i = l + k
    <3>1. i - l \in 1..m /\ i = l + (i - l)
      BY <2>1
    <3>2. QED
      BY <3>1
  <2>2. \A k \in 1..m : l + k \in 1..(l + m) /\ ~(l + k <= l) /\ l + k - l = k /\ l + k \notin 1..l
    OBVIOUS
  <2>3. \A i \in 1..l : i \in 1..(l + m) /\ i <= l
    OBVIOUS
  <2>4. QED
    BY <2>1, <2>2, <2>3
<1>11. /\ \A i \in 1..l : a[i] = at[i]
       /\ \A k \in 1..m : a[l + k] = q[k]
  BY <1>10 DEF Onward
<1>12. DOMAIN a = 1..(l + m) /\ a = [i \in 1..(l + m) |-> a[i]]
  BY DEF Onward
<1> HIDE DEF a
<1>13. /\ \A i \in 1..l : at[i] \in 1..Len(f) /\ at[i] \in Nat /\ f[at[i]].score \in Nat
       /\ \A k \in 1..m : q[k] \in 1..Len(f) /\ q[k] \in Nat
  BY <1>2, <1>4, <1>5, <1>9
<1>14. a \in [1..(l + m) -> 1..Len(f)]
  <2>1. ASSUME NEW i \in 1..(l + m)
        PROVE  a[i] \in 1..Len(f)
    <3>1. CASE i \in 1..l
      <4>1. a[i] = at[i] /\ at[i] \in 1..Len(f)
        BY <1>11, <1>13, <3>1
      <4>2. QED
        BY <4>1
    <3>2. CASE i \notin 1..l
      <4>1. PICK k \in 1..m : i = l + k
        BY <1>10, <3>2
      <4>2. a[i] = q[k] /\ q[k] \in 1..Len(f)
        BY <1>11, <1>13, <4>1
      <4>3. QED
        BY <4>2
    <3>3. QED
      BY <3>1, <3>2
  <2>2. QED
    BY <1>12, <2>1
<1>15. ASSUME NEW i \in 1..l, NEW k \in 1..m
       PROVE  at[i] < q[k]
  <2>1. PICK x, y : x = at[i] /\ y = q[k]
    OBVIOUS
  <2>2. x \in 1..Len(f) /\ y \in 1..Len(f) /\ x \in Nat /\ y \in Nat
    BY <1>13, <2>1
  <2>3. c <= f[x].score /\ f[y].score < c /\ f[x].score \in Nat /\ f[y].score \in Nat
    BY <1>4, <1>5, <1>9, <1>13, <2>1
  <2>4. y < x => f[y].score >= f[x].score
    BY <1>2, <2>2
  <2>5. x # y /\ ~(y < x)
    BY <2>3, <2>4
  <2>6. QED
    BY <2>1, <2>2, <2>5
<1>16. ASSUME NEW i \in 1..(l + m), NEW j \in 1..(l + m), i < j
       PROVE  a[i] < a[j]
  <2>1. CASE i \in 1..l /\ j \in 1..l
    BY <1>9, <1>11, <1>16, <2>1
  <2>2. CASE i \in 1..l /\ j \notin 1..l
    <3>1. PICK k \in 1..m : j = l + k
      BY <1>10, <2>2
    <3>2. a[i] = at[i] /\ a[j] = q[k]
      BY <1>11, <2>2, <3>1
    <3>3. QED
      BY <1>15, <2>2, <3>2
  <2>3. CASE i \notin 1..l
    <3>1. PICK k \in 1..m : i = l + k
      BY <1>10, <2>3
    <3>2. j \notin 1..l
      BY <1>16, <2>3
    <3>3. PICK h \in 1..m : j = l + h
      BY <1>10, <3>2
    <3>4. k < h
      BY <1>16, <3>1, <3>3
    <3>5. a[i] = q[k] /\ a[j] = q[h] /\ k \in 1..n /\ h \in 1..n
      BY <1>5, <1>11, <3>1, <3>3
    <3>6. q[k] < q[h]
      BY <1>3, <3>4, <3>5
    <3>7. QED
      BY <3>5, <3>6
  <2>4. QED
    BY <2>1, <2>2, <2>3
<1>17. ASSUME NEW i \in 1..(l + m)
       PROVE  t[i] = f[a[i]].id /\ d <= f[a[i]].score
  <2>1. CASE i \in 1..l
    <3>1. t[i] = s[i] /\ a[i] = at[i] /\ s[i] = f[at[i]].id
      BY <1>1, <1>9, <1>11, <1>21, <2>1
    <3>2. PICK x : x = f[at[i]].score
      OBVIOUS
    <3>3. c <= x /\ x \in Nat
      BY <1>9, <1>13, <2>1, <3>2
    <3>4. d <= x
      BY <1>6, <3>3
    <3>5. QED
      BY <3>1, <3>2, <3>4
  <2>2. CASE i \notin 1..l
    <3>1. PICK k \in 1..m : i = l + k
      BY <1>10, <2>2
    <3>2. t[i] = f[q[k]].id /\ a[i] = q[k]
      BY <1>1, <1>11, <1>21, <3>1
    <3>3. PICK x : x = f[q[k]].score
      OBVIOUS
    <3>4. x >= d /\ x \in Nat
      BY <1>4, <1>5, <1>7, <3>3
    <3>5. d <= x
      BY <1>6, <3>4
    <3>6. QED
      BY <3>2, <3>3, <3>5
  <2>3. QED
    BY <2>1, <2>2
<1>18. ASSUME NEW p \in 1..Len(f), d <= f[p].score
       PROVE  f[p].score \in b \cup {d} \/ \E i \in 1..(l + m) : a[i] = p
  <2>1. CASE c <= f[p].score
    <3>1. CASE f[p].score \in b
      BY <3>1
    <3>2. CASE f[p].score \notin b
      <4>1. PICK i \in 1..l : at[i] = p
        BY <1>9, <2>1, <3>2
      <4>2. i \in 1..(l + m) /\ a[i] = p
        BY <1>10, <1>11, <4>1
      <4>3. QED
        BY <4>2
    <3>3. QED
      BY <3>1, <3>2
  <2>2. CASE ~(c <= f[p].score)
    <3>1. f[p].score < c
      BY <1>2, <2>2
    <3>2. PICK k \in 1..n : q[k] = p
      BY <1>3, <1>22, <3>1
    <3>3. CASE k \in 1..m
      BY <1>10, <1>11, <3>2, <3>3
    <3>4. CASE k \notin 1..m
      <4>1. PICK x : x = f[p].score
        OBVIOUS
      <4>2. (x = d \/ x < d) /\ d <= x /\ x \in Nat
        BY <1>2, <1>8, <1>18, <3>2, <3>4, <4>1
      <4>3. x = d
        BY <1>6, <4>2
      <4>4. QED
        BY <4>1, <4>3
    <3>5. QED
      BY <3>3, <3>4
  <2>3. QED
    BY <2>1, <2>2
<1>19. Passed(a, f, t, d, b \cup {d})
  <2>1. Len(t) = l + m
    BY <1>1, <1>21
  <2>2. QED
    BY <1>14, <1>16, <1>17, <1>18, <2>1 DEF Passed
<1>20. ASSUME m = n, NEW p \in 1..Len(f)
       PROVE  d <= f[p].score
  <2>1. PICK x : x = f[p].score
    OBVIOUS
  <2>2. x \in Nat
    BY <1>2, <2>1
  <2>3. CASE x < c
    <3>1. p \in P
      BY <1>22, <2>1, <2>3
    <3>2. PICK k \in 1..n : q[k] = p
      BY <1>3, <1>22, <3>1
    <3>3. x >= d
      BY <1>7, <1>20, <2>1, <3>2
    <3>4. QED
      BY <1>6, <2>1, <2>2, <3>3
  <2>4. CASE ~(x < c)
    BY <1>6, <2>1, <2>2, <2>4
  <2>5. QED
    BY <2>3, <2>4
<1>24. QED
  BY <1>19, <1>20 DEF AllPassed

LEMMA GetFeedKeeps ==
  ASSUME Timeline!FeedAssumption, FeedInv, NEW limit \in PageSize, Timeline!GetFeed(limit)
  PROVE  FeedInv'
<1>1. PICK page : page = Timeline!FirstOf(Timeline!Filtered(feed, Timeline!Beyond), limit)
  OBVIOUS
<1>2. PICK P : P = Timeline!Beyond
  OBVIOUS
<1>3. PICK q, n, m :
           /\ Lists(q, n, P) /\ m \in Nat /\ m <= n
           /\ m = (IF limit < n THEN limit ELSE n)
           /\ page \in Seq(Entry) /\ Len(page) = m
           /\ \A k \in 1..m : k \in 1..n /\ page[k] = feed[q[k]]
  BY <1>1, <1>2, PageIs DEF FeedInv
<1>4. PICK d : d = page[m].score
  OBVIOUS
<1>5. /\ hasMore' = (m = limit)
      /\ cursor' = IF page = <<>> THEN cursor ELSE d
      /\ fresh => /\ seen' = seen \o [i \in DOMAIN page |-> page[i].id]
                  /\ breaks' = IF page = <<>> THEN breaks ELSE breaks \cup {d}
      /\ ~fresh => seen' = seen /\ breaks' = breaks
      /\ feed' = feed /\ fresh' = fresh
  BY <1>1, <1>3, <1>4, Zenon DEF Timeline!GetFeed
<1>6. limit \in Nat /\ limit # 0 /\ n \in Nat
  BY <1>3 DEF Timeline!FeedAssumption, Lists
<1>7. /\ seen \in Seq(Timeline!Post) /\ cursor \in Score \cup {Timeline!Top} /\ breaks \subseteq Score
      /\ fresh \in BOOLEAN /\ hasMore \in BOOLEAN
  BY DEF FeedInv, Timeline!TypeOK
<1>8. cursor \in Nat
  BY <1>7, TopIs
<1>9. page = <<>> <=> m = 0
  BY <1>3, EmptySeq
<1>10. DOMAIN page = 1..m
  BY <1>3, LenProperties
<1>11. \A k \in 1..m : page[k] \in Entry /\ page[k].id \in Timeline!Post /\ page[k].score \in Score
  <2>1. \A k \in 1..m : page[k] \in Entry
    BY <1>3, ElementOfSeq
  <2>2. QED
    BY <2>1 DEF Entry
<1>12. PICK ids : ids = [i \in DOMAIN page |-> page[i].id]
  OBVIOUS
<1>13. ids \in Seq(Timeline!Post) /\ Len(ids) = m /\ \A k \in 1..m : ids[k] = page[k].id
  BY <1>3, <1>10, <1>11, <1>12
<1>14. /\ fresh => /\ seen' \in Seq(Timeline!Post) /\ Len(seen') = Len(seen) + m
                   /\ \A i \in 1..Len(seen) : seen'[i] = seen[i]
                   /\ \A k \in 1..m : seen'[Len(seen) + k] = feed[q[k]].id
  <2> SUFFICES ASSUME fresh
               PROVE  /\ seen' \in Seq(Timeline!Post) /\ Len(seen') = Len(seen) + m
                      /\ \A i \in 1..Len(seen) : seen'[i] = seen[i]
                      /\ \A k \in 1..m : seen'[Len(seen) + k] = feed[q[k]].id
    OBVIOUS
  <2>1. PICK l \in Nat : l = Len(seen)
    BY <1>7, LenProperties
  <2>2. PICK t : t = seen \o ids
    OBVIOUS
  <2>3. /\ t \in Seq(Timeline!Post) /\ Len(t) = l + m
        /\ \A i \in 1..(l + m) : t[i] = IF i <= l THEN seen[i] ELSE ids[i - l]
    BY <1>7, <1>13, <2>1, <2>2, ConcatProperties
  <2>4. \A i \in 1..l : i \in 1..(l + m) /\ i <= l
    BY <1>3
  <2>5. \A k \in 1..m : l + k \in 1..(l + m) /\ ~(l + k <= l) /\ l + k - l = k
    BY <1>3
  <2>6. \A i \in 1..l : t[i] = seen[i]
    BY <2>3, <2>4
  <2>7. \A k \in 1..m : t[l + k] = ids[k]
    BY <2>3, <2>5
  <2>8. seen' = t
    BY <1>5, <1>12, <2>2
  <2>9. \A k \in 1..m : ids[k] = feed[q[k]].id
    BY <1>3, <1>13
  <2>10. QED
    BY <2>1, <2>3, <2>6, <2>7, <2>8, <2>9
<1>15. m # 0 => m \in 1..m /\ d = feed[q[m]].score /\ d \in Score
  BY <1>3, <1>4, <1>11
<1>16. Timeline!TypeOK'
  <2>1. cursor' \in Score \cup {Timeline!Top}
    BY <1>5, <1>7, <1>9, <1>15
  <2>2. breaks' \subseteq Score
    BY <1>5, <1>7, <1>9, <1>15
  <2>3. seen' \in Seq(Timeline!Post)
    BY <1>5, <1>7, <1>14
  <2>4. hasMore' \in BOOLEAN /\ fresh' \in BOOLEAN
    BY <1>5, <1>7
  <2>5. feed' \in Seq([id : Timeline!Post, score : Score]) /\ Len(feed') <= TopN
    BY <1>5 DEF FeedInv, Timeline!TypeOK
  <2>6. QED
    BY <2>1, <2>2, <2>3, <2>4, <2>5 DEF Timeline!TypeOK
<1>17. Ranks(feed')
  BY <1>5 DEF FeedInv
<1>18. P = {p \in 1..Len(feed) : feed[p].score < cursor}
  BY <1>2, RankScores DEF FeedInv, Timeline!Beyond, Timeline!BeyondCursor
<1>19. CASE fresh /\ m # 0
  <2>1. PICK at : Passed(at, feed, seen, cursor, breaks)
    BY <1>19 DEF FeedInv
  <2>2. /\ \E a : Passed(a, feed, seen', d, breaks \cup {d})
        /\ m = n => AllPassed(feed, d)
    <3>1. PICK t : t = seen'
      OBVIOUS
    <3>2. Shows(t, seen, feed, q, m)
      BY <1>14, <1>19, <3>1 DEF Shows
    <3>3. Ranks(feed) /\ seen \in Seq(Timeline!Post) /\ Lists(q, n, P) /\ d = feed[q[m]].score
      BY <1>3, <1>7, <1>15, <1>19 DEF FeedInv
    <3>4. P = Below(feed, cursor) /\ m \in Nat /\ m # 0 /\ m <= n
      BY <1>3, <1>18, <1>19 DEF Below
    <3>5. /\ \E a : Passed(a, feed, t, d, breaks \cup {d})
          /\ m = n => AllPassed(feed, d)
      BY <1>8, <2>1, <3>2, <3>3, <3>4, PassesOn
    <3>6. QED
      BY <3>1, <3>5
  <2>3. cursor' = d /\ breaks' = breaks \cup {d} /\ feed' = feed
    BY <1>5, <1>9, <1>19
  <2>4. ~hasMore' => m = n
    BY <1>3, <1>5, <1>6
  <2>5. QED
    BY <1>16, <1>17, <2>2, <2>3, <2>4 DEF FeedInv
<1>20. CASE fresh /\ m = 0
  <2>1. cursor' = cursor /\ breaks' = breaks /\ feed' = feed
    BY <1>5, <1>9, <1>20
  <2>2. seen' = seen
    <3>1. Len(seen') = Len(seen) /\ \A i \in 1..Len(seen) : seen'[i] = seen[i]
      <4>1. Len(seen) \in Nat
        BY <1>7, LenProperties
      <4>2. QED
        BY <1>14, <1>20, <4>1
    <3>2. QED
      BY <1>7, <1>14, <1>20, <3>1, SeqEqual
  <2>3. n = 0
    BY <1>3, <1>6, <1>20
  <2>4. P = {}
    BY <1>3, <2>3 DEF Lists
  <2>5. ASSUME NEW p \in 1..Len(feed)
        PROVE  cursor <= feed[p].score
    <3>1. ~(feed[p].score < cursor)
      BY <1>18, <2>4
    <3>2. feed[p].score \in Nat
      BY RankScores DEF FeedInv
    <3>3. QED
      BY <1>8, <3>1, <3>2
  <2>6. AllPassed(feed, cursor)
    BY <2>5 DEF AllPassed
  <2>7. \E a : Passed(a, feed, seen, cursor, breaks)
    BY <1>20 DEF FeedInv
  <2>8. QED
    BY <1>16, <1>17, <2>1, <2>2, <2>6, <2>7 DEF FeedInv
<1>21. CASE ~fresh
  BY <1>5, <1>16, <1>17, <1>21 DEF FeedInv
<1>22. QED
  BY <1>19, <1>20, <1>21

LEMMA FeedStep ==
  ASSUME Timeline!FeedAssumption, FeedInv, [Timeline!Next]_feedVars
  PROVE  FeedInv'
<1>1. CASE UNCHANGED feedVars
  BY <1>1 DEF feedVars, FeedInv, Timeline!TypeOK
<1>2. CASE Timeline!Next
  BY <1>2, RankKeeps, GetFeedKeeps, StartOverKeeps DEF Timeline!Next
<1>3. QED
  BY <1>1, <1>2

LEMMA FeedCompletes ==
  ASSUME Timeline!FeedAssumption, FeedInv
  PROVE  PagesComplete
<1>1. SUFFICES ASSUME fresh
               PROVE  /\ \A i, j \in DOMAIN seen : i < j =>
                            /\ seen[i] # seen[j]
                            /\ \A s \in Timeline!ScoreOf(seen[i]), t \in Timeline!ScoreOf(seen[j]) : s >= t
                      /\ \A i \in DOMAIN feed : cursor <= feed[i].score \/ ~hasMore =>
                            feed[i].score \in breaks \/ \E j \in DOMAIN seen : seen[j] = feed[i].id
  BY DEF PagesComplete, Timeline!PagesComplete
<1>2. PICK at : Passed(at, feed, seen, cursor, breaks)
  BY <1>1 DEF FeedInv
<1>3. DOMAIN seen = 1..Len(seen)
  BY LenProperties DEF FeedInv, Timeline!TypeOK
<1>4. DOMAIN feed = 1..Len(feed) /\ \A p \in 1..Len(feed) : p \in Nat
  BY RankScores DEF FeedInv
<1>5. \A p, r \in 1..Len(feed) : p < r => feed[p].id # feed[r].id /\ feed[p].score >= feed[r].score
  BY DEF FeedInv, Ranks
<1>6. \A p, r \in 1..Len(feed) : feed[p].id = feed[r].id => p = r
  <2> SUFFICES ASSUME NEW p \in 1..Len(feed), NEW r \in 1..Len(feed), feed[p].id = feed[r].id
               PROVE  p = r
    OBVIOUS
  <2>1. ~(p < r) /\ ~(r < p)
    BY <1>5
  <2>2. p \in Nat /\ r \in Nat
    BY <1>4
  <2>3. QED
    BY <2>1, <2>2
<1>7. \A p \in 1..Len(feed) : Timeline!ScoreOf(feed[p].id) = {feed[p].score}
  <2> SUFFICES ASSUME NEW p \in 1..Len(feed)
               PROVE  Timeline!ScoreOf(feed[p].id) = {feed[p].score}
    OBVIOUS
  <2>1. {j \in DOMAIN feed : feed[j].id = feed[p].id} = {p}
    BY <1>4, <1>6
  <2>2. {feed[i] : i \in {p}} = {feed[p]}
    OBVIOUS
  <2>3. {x.score : x \in {feed[p]}} = {feed[p].score}
    OBVIOUS
  <2>4. QED
    BY <2>1, <2>2, <2>3 DEF Timeline!ScoreOf
<1>8. ASSUME NEW i \in 1..Len(seen), NEW j \in 1..Len(seen), i < j
      PROVE  /\ seen[i] # seen[j]
             /\ \A s \in Timeline!ScoreOf(seen[i]), t \in Timeline!ScoreOf(seen[j]) : s >= t
  <2>1. PICK p, r : p = at[i] /\ r = at[j]
    OBVIOUS
  <2>2. p \in 1..Len(feed) /\ r \in 1..Len(feed) /\ p < r /\ seen[i] = feed[p].id /\ seen[j] = feed[r].id
    BY <1>2, <1>8, <2>1 DEF Passed
  <2>3. feed[p].id # feed[r].id /\ feed[p].score >= feed[r].score
    BY <1>5, <2>2
  <2>4. Timeline!ScoreOf(seen[i]) = {feed[p].score} /\ Timeline!ScoreOf(seen[j]) = {feed[r].score}
    BY <1>7, <2>2
  <2>5. QED
    BY <2>2, <2>3, <2>4
<1>9. ASSUME NEW p \in 1..Len(feed), cursor <= feed[p].score \/ ~hasMore
      PROVE  feed[p].score \in breaks \/ \E j \in 1..Len(seen) : seen[j] = feed[p].id
  <2>1. cursor <= feed[p].score
    BY <1>1, <1>9 DEF FeedInv, AllPassed
  <2>2. CASE feed[p].score \in breaks
    BY <2>2
  <2>3. CASE feed[p].score \notin breaks
    <3>1. PICK j \in 1..Len(seen) : at[j] = p
      BY <1>2, <2>1, <2>3 DEF Passed
    <3>2. seen[j] = feed[p].id
      BY <1>2, <3>1 DEF Passed
    <3>3. QED
      BY <3>2
  <2>4. QED
    BY <2>2, <2>3
<1>10. QED
  BY <1>3, <1>4, <1>8, <1>9

(* Theorem: for any posts, scores and page sizes, a client that pages       *)
(* through one ranking sees no post twice, sees them by falling score, and  *)
(* misses none that it has passed, except those with the very score at      *)
(* which a page ended.                                                      *)
THEOREM PagesCompleteHolds == Spec => []PagesComplete
<1>1. Timeline!FeedAssumption
  BY PartsAssumption
<1>2. Init => FeedInv
  BY <1>1, PartsBegin, FeedInit
<1>3. FeedInv /\ [Next]_vars => FeedInv'
  BY <1>1, PartsStep, FeedStep
<1>4. FeedInv => PagesComplete
  BY <1>1, FeedCompletes
<1>5. QED
  BY <1>2, <1>3, <1>4, PTL DEF Spec

-----------------------------------------------------------------------------
(* A producer's message is processed at most as often as it is sent. *)
SendsInv == sends \in 0..MaxSends /\ queueApplied \in 0..sends

LEMMA SendsInit ==
  ASSUME Deliver!DeliveryAssumption, Deliver!Init
  PROVE  SendsInv
BY DEF Deliver!DeliveryAssumption, Deliver!Init, SendsInv

LEMMA SendsStep ==
  ASSUME Deliver!DeliveryAssumption, SendsInv, [Deliver!Next]_deliveryVars
  PROVE  SendsInv'
<1>1. MaxSends \in Nat
  BY DEF Deliver!DeliveryAssumption
<1>2. ASSUME NEW ackLost \in BOOLEAN, Deliver!Send(ackLost)
      PROVE  SendsInv'
  <2>1. sends < MaxSends /\ sends' = sends + 1
    BY <1>2 DEF Deliver!Send, Deliver!Sending
  <2>2. queueApplied' = queueApplied \/ queueApplied' = queueApplied + 1
    BY <1>2 DEF Deliver!Send, SendsInv
  <2>3. QED
    BY <1>1, <2>1, <2>2 DEF SendsInv
<1>3. CASE Deliver!SecondScenario
  BY <1>1, <1>3 DEF Deliver!SecondScenario, SendsInv
<1>4. ASSUME UNCHANGED <<sends, queueApplied>>
      PROVE  SendsInv'
  BY <1>4 DEF SendsInv
<1>5. QED
  BY <1>2, <1>3, <1>4 DEF Deliver!Next, Deliver!CreateOrder, Deliver!Tick, Deliver!queueVars, deliveryVars

LEMMA DeliveryTypes ==
  ASSUME Deliver!DeliveryAssumption, DeliveryInv, SendsInv
  PROVE  Deliver!TypeOK
<1>1. applied \in [Order -> Nat]
  BY DEF DeliveryInv
<1>2. sends \in 0..MaxSends /\ queueApplied \in 0..MaxSends
  BY DEF SendsInv, Deliver!DeliveryAssumption
<1>3. QED
  BY <1>1, <1>2 DEF DeliveryInv, Deliver!TypeOK

-----------------------------------------------------------------------------
(* The cache holds at most CacheSize entries, each with some of its time    *)
(* left or over.                                                            *)
Cached == [key : Id, value : {"data"}, left : -1..StaleLimit]
EntriesInv == entries \in Seq(Cached) /\ Len(entries) <= CacheSize

LEMMA RemovedIs ==
  ASSUME NEW A, NEW s \in Seq(A), NEW i \in 1..Len(s)
  PROVE  /\ SWR!Cache!RemoveAt(s, i) \in Seq(A)
         /\ Len(SWR!Cache!RemoveAt(s, i)) = Len(s) - 1
<1>1. PICK n \in Nat : n = Len(s)
  BY LenProperties
<1>2. i \in 1..n /\ i \in Nat /\ n # 0
  BY <1>1
<1>3. PICK a, b : a = SubSeq(s, 1, i - 1) /\ b = SubSeq(s, i + 1, n)
  OBVIOUS
<1>4. /\ \A k \in 1..(i - 1) : k \in 1..n
      /\ \A k \in (i + 1)..n : k \in 1..n
  BY <1>2
<1>5. \A k \in 1..n : s[k] \in A
  BY <1>1, ElementOfSeq
<1>6. a \in Seq(A) /\ Len(a) = i - 1
  <2>1. \A k \in 1..(i - 1) : s[k] \in A
    BY <1>4, <1>5
  <2>2. i - 1 \in Int /\ 1 \in Int
    BY <1>2
  <2>3. a \in Seq(A) /\ Len(a) = IF 1 <= i - 1 THEN i - 1 - 1 + 1 ELSE 0
    BY <1>3, <2>1, <2>2, SubSeqProperties
  <2>4. QED
    BY <1>2, <2>3
<1>7. b \in Seq(A) /\ Len(b) = n - i
  <2>1. \A k \in (i + 1)..n : s[k] \in A
    BY <1>4, <1>5
  <2>2. i + 1 \in Int /\ n \in Int
    BY <1>2
  <2>3. b \in Seq(A) /\ Len(b) = IF i + 1 <= n THEN n - (i + 1) + 1 ELSE 0
    BY <1>3, <2>1, <2>2, SubSeqProperties
  <2>4. QED
    BY <1>2, <2>3
<1>8. PICK c : c = a \o b
  OBVIOUS
<1>9. c \in Seq(A) /\ Len(c) = Len(a) + Len(b)
  BY <1>6, <1>7, <1>8, ConcatProperties
<1>10. SWR!Cache!RemoveAt(s, i) = c
  BY <1>1, <1>3, <1>8 DEF SWR!Cache!RemoveAt
<1>11. Len(c) = n - 1
  BY <1>2, <1>6, <1>7, <1>9
<1>12. QED
  BY <1>1, <1>9, <1>10, <1>11

(* A new first element. *)
LEMMA FirstPut ==
  ASSUME NEW A, NEW s \in Seq(A), NEW e \in A
  PROVE  <<e>> \o s \in Seq(A) /\ Len(<<e>> \o s) = Len(s) + 1
<1>1. <<e>> \in Seq(A) /\ Len(<<e>>) = 1
  OBVIOUS
<1>2. <<e>> \o s \in Seq(A) /\ Len(<<e>> \o s) = 1 + Len(s)
  BY <1>1, ConcatProperties
<1>3. QED
  BY <1>2, LenProperties

LEMMA GetKeepsEntries ==
  ASSUME SWR!SWRAssumption, EntriesInv, NEW k \in Id, SWR!Cache!Get(k)
  PROVE  EntriesInv'
<1>1. PICK s : s = entries
  OBVIOUS
<1>2. s \in Seq(Cached) /\ Len(s) <= CacheSize /\ Len(s) \in Nat /\ DOMAIN s = 1..Len(s) /\ CacheSize \in Nat
  BY <1>1, LenProperties DEF EntriesInv, SWR!SWRAssumption
<1>3. \/ entries' = s
      \/ \E i \in 1..Len(s) : \/ entries' = SWR!Cache!RemoveAt(s, i)
                              \/ entries' = <<s[i]>> \o SWR!Cache!RemoveAt(s, i)
  BY <1>1, <1>2 DEF SWR!Cache!Get, SWR!Cache!PositionsOf
<1>4. CASE entries' = s
  BY <1>2, <1>4 DEF EntriesInv
<1>5. ASSUME NEW i \in 1..Len(s), \/ entries' = SWR!Cache!RemoveAt(s, i)
                                  \/ entries' = <<s[i]>> \o SWR!Cache!RemoveAt(s, i)
      PROVE  EntriesInv'
  <2>1. PICK r : r = SWR!Cache!RemoveAt(s, i)
    OBVIOUS
  <2>2. r \in Seq(Cached) /\ Len(r) = Len(s) - 1
    BY <1>2, <2>1, RemovedIs
  <2>3. s[i] \in Cached
    BY <1>2, ElementOfSeq
  <2>4. <<s[i]>> \o r \in Seq(Cached) /\ Len(<<s[i]>> \o r) = Len(r) + 1
    BY <2>2, <2>3, FirstPut
  <2>5. Len(r) <= CacheSize /\ Len(<<s[i]>> \o r) <= CacheSize
    BY <1>2, <2>2, <2>4
  <2>6. CASE entries' = r
    BY <2>2, <2>5, <2>6 DEF EntriesInv
  <2>7. CASE entries' = <<s[i]>> \o r
    BY <2>4, <2>5, <2>7 DEF EntriesInv
  <2>8. QED
    BY <1>5, <2>1, <2>6, <2>7
<1>6. QED
  BY <1>3, <1>4, <1>5

LEMMA AnsweredKeepsEntries ==
  ASSUME SWR!SWRAssumption, EntriesInv, fetches \in Seq(Fetch), SWR!Answered
  PROVE  EntriesInv'
<1>1. PICK s : s = entries
  OBVIOUS
<1>2. /\ s \in Seq(Cached) /\ Len(s) <= CacheSize /\ Len(s) \in Nat /\ DOMAIN s = 1..Len(s)
      /\ CacheSize \in Nat /\ CacheSize # 0 /\ StaleLimit \in Nat
  BY <1>1, LenProperties DEF EntriesInv, SWR!SWRAssumption
<1>3. PICK e : e = [key |-> Head(fetches).id, value |-> "data", left |-> StaleLimit]
  OBVIOUS
<1>4. e \in Cached
  <2>1. fetches # <<>>
    BY DEF SWR!Answered
  <2>2. Head(fetches) \in Fetch
    BY <2>1, HeadTailProperties
  <2>3. Head(fetches).id \in Id /\ StaleLimit \in -1..StaleLimit
    BY <1>2, <2>2 DEF Fetch
  <2>4. QED
    BY <1>3, <2>3 DEF Cached
<1>5. \/ entries' = <<e>> \o SWR!Cache!Remaining
      \/ \E i \in 1..Len(s) : entries' = <<e>> \o SWR!Cache!RemoveAt(s, i)
  BY <1>1, <1>2, <1>3 DEF SWR!Answered, SWR!Cache!Set, SWR!Cache!PositionsOf
<1>6. SWR!Cache!Remaining \in Seq(Cached) /\ Len(SWR!Cache!Remaining) < CacheSize
  <2>1. CASE s # <<>> /\ Len(s) >= CacheSize
    <3>1. PICK n \in Nat : n = Len(s) /\ n # 0 /\ n = CacheSize
      <4>1. PICK n : n = Len(s)
        OBVIOUS
      <4>2. n \in Nat /\ n <= CacheSize
        BY <1>2, <4>1
      <4>3. n >= CacheSize
        BY <2>1, <4>1
      <4>4. CacheSize \in Nat /\ CacheSize # 0
        BY <1>2
      <4>5. n = CacheSize /\ n # 0
        BY <4>2, <4>3, <4>4
      <4>6. QED
        BY <4>1, <4>2, <4>5
    <3>2. PICK r : r = SubSeq(s, 1, n - 1)
      OBVIOUS
    <3>3. SWR!Cache!Remaining = r
      BY <1>1, <2>1, <3>1, <3>2 DEF SWR!Cache!Remaining, SWR!Cache!Front
    <3>4. \A i \in 1..(n - 1) : s[i] \in Cached
      BY <1>2, <3>1, ElementOfSeq
    <3>5. n - 1 \in Int /\ 1 \in Int
      BY <3>1
    <3>6. r \in Seq(Cached) /\ Len(r) = IF 1 <= n - 1 THEN n - 1 - 1 + 1 ELSE 0
      BY <3>2, <3>4, <3>5, SubSeqProperties
    <3>7. QED
      BY <3>1, <3>3, <3>6
  <2>2. CASE ~(s # <<>> /\ Len(s) >= CacheSize)
    <3>1. SWR!Cache!Remaining = s
      BY <1>1, <2>2 DEF SWR!Cache!Remaining
    <3>2. Len(s) < CacheSize
      BY <1>2, <2>2, EmptySeq
    <3>3. QED
      BY <1>2, <3>1, <3>2
  <2>3. QED
    BY <2>1, <2>2
<1>7. CASE entries' = <<e>> \o SWR!Cache!Remaining
  <2>1. PICK r : r = SWR!Cache!Remaining
    OBVIOUS
  <2>2. <<e>> \o r \in Seq(Cached) /\ Len(<<e>> \o r) = Len(r) + 1 /\ Len(r) \in Nat /\ Len(r) < CacheSize
    BY <1>4, <1>6, <2>1, FirstPut, LenProperties
  <2>3. QED
    BY <1>2, <1>7, <2>1, <2>2 DEF EntriesInv
<1>8. ASSUME NEW i \in 1..Len(s), entries' = <<e>> \o SWR!Cache!RemoveAt(s, i)
      PROVE  EntriesInv'
  <2>1. PICK r : r = SWR!Cache!RemoveAt(s, i)
    OBVIOUS
  <2>2. r \in Seq(Cached) /\ Len(r) = Len(s) - 1
    BY <1>2, <2>1, RemovedIs
  <2>3. <<e>> \o r \in Seq(Cached) /\ Len(<<e>> \o r) = Len(r) + 1
    BY <1>4, <2>2, FirstPut
  <2>4. QED
    BY <1>2, <1>8, <2>1, <2>2, <2>3 DEF EntriesInv
<1>9. QED
  BY <1>5, <1>7, <1>8

LEMMA TickKeepsEntries ==
  ASSUME SWR!SWRAssumption, EntriesInv, SWR!Cache!Tick
  PROVE  EntriesInv'
<1>1. PICK s : s = entries
  OBVIOUS
<1>2. /\ s \in Seq(Cached) /\ Len(s) <= CacheSize /\ Len(s) \in Nat /\ DOMAIN s = 1..Len(s)
      /\ StaleLimit \in Nat
  BY <1>1, LenProperties DEF EntriesInv, SWR!SWRAssumption
<1>3. entries' = [i \in 1..Len(s) |-> [s[i] EXCEPT !.left = IF @ < 0 THEN @ ELSE @ - 1]]
  BY <1>1, <1>2 DEF SWR!Cache!Tick
<1>4. ASSUME NEW i \in 1..Len(s)
      PROVE  [s[i] EXCEPT !.left = IF @ < 0 THEN @ ELSE @ - 1] \in Cached
  <2>1. PICK e \in Cached : e = s[i]
    BY <1>2, ElementOfSeq
  <2>2. PICK l \in -1..StaleLimit : l = e.left
    BY DEF Cached
  <2>3. (IF l < 0 THEN l ELSE l - 1) \in -1..StaleLimit
    BY <1>2
  <2>4. [e EXCEPT !.left = IF l < 0 THEN l ELSE l - 1] \in Cached
    BY <2>3 DEF Cached
  <2>5. QED
    BY <2>1, <2>2, <2>4
<1>5. entries' \in Seq(Cached) /\ Len(entries') = Len(s)
  BY <1>2, <1>3, <1>4
<1>6. QED
  BY <1>2, <1>5 DEF EntriesInv

LEMMA EntriesStep ==
  ASSUME SWR!SWRAssumption, EntriesInv, RefreshInv, [SWR!Next]_swrVars
  PROVE  EntriesInv'
<1>1. CASE SWR!Tick
  BY <1>1, TickKeepsEntries DEF SWR!Tick
<1>2. CASE SWR!Answered
  BY <1>2, AnsweredKeepsEntries DEF RefreshInv, InTime
<1>3. ASSUME NEW k \in Id, SWR!Miss(k) \/ SWR!FreshHit(k) \/ SWR!StaleHit(k)
      PROVE  EntriesInv'
  BY <1>3, GetKeepsEntries DEF SWR!Miss, SWR!FreshHit, SWR!StaleHit
<1>4. CASE UNCHANGED swrVars
  BY <1>4 DEF swrVars, EntriesInv
<1>5. QED
  BY <1>1, <1>2, <1>3, <1>4 DEF SWR!Next

-----------------------------------------------------------------------------
(* An entry of the edge cache ages up to StaleLimit and no further. *)
EdgeInv == edgeCache \in [Id -> (0..StaleLimit) \cup {NoData}]

LEMMA EdgeStep ==
  ASSUME SWR!SWRAssumption, EdgeInv, RefreshInv, [Edge!Next]_edgeVars
  PROVE  EdgeInv'
<1>1. StaleLimit \in Nat
  BY DEF SWR!SWRAssumption
<1>2. CASE Edge!Tick
  <2>1. edgeCache' = [k \in Id |-> Edge!Older(edgeCache[k])]
    BY <1>2 DEF Edge!Tick
  <2>2. ASSUME NEW k \in Id
        PROVE  Edge!Older(edgeCache[k]) \in (0..StaleLimit) \cup {NoData}
    <3>1. PICK x \in (0..StaleLimit) \cup {NoData} : x = edgeCache[k]
      BY DEF EdgeInv
    <3>2. CASE x = NoData \/ x = StaleLimit
      BY <3>1, <3>2 DEF Edge!Older
    <3>3. CASE x # NoData /\ x # StaleLimit
      <4>1. x \in 0..StaleLimit /\ x + 1 \in 0..StaleLimit
        BY <1>1, <3>3
      <4>2. Edge!Older(edgeCache[k]) = x + 1
        BY <3>1, <3>3 DEF Edge!Older
      <4>3. QED
        BY <4>1, <4>2
    <3>4. QED
      BY <3>2, <3>3
  <2>3. QED
    BY <2>1, <2>2 DEF EdgeInv
<1>3. ASSUME NEW fails \in BOOLEAN, Edge!Answered(fails)
      PROVE  EdgeInv'
  <2>1. edgeCache' = edgeCache \/ edgeCache' = [edgeCache EXCEPT ![Head(edgeFetches).id] = 0]
    BY <1>3 DEF Edge!Answered
  <2>2. 0 \in 0..StaleLimit
    BY <1>1
  <2>3. QED
    BY <2>1, <2>2 DEF EdgeInv
<1>4. ASSUME UNCHANGED edgeCache
      PROVE  EdgeInv'
  BY <1>4 DEF EdgeInv
<1>5. QED
  BY <1>2, <1>3, <1>4 DEF Edge!Next, Edge!StaleHit, Edge!Miss, edgeVars

LEMMA LinksTypes ==
  ASSUME Links!ShortenerAssumption, LinksInv
  PROVE  Links!TypeOK
<1>1. \A c \in Code : urls[c] = NoEntry \/ urls[c] \in [url : Url, left : Int]
  BY DEF LinksInv, LinkEntries
<1>2. ASSUME NEW i \in issued
      PROVE  i \in [code : Code, url : Url, left : Nat]
  <2>1. i \in [code : Code, url : Url, left : Int]
    BY DEF LinksInv
  <2>2. i.left >= Second /\ Second \in Nat
    BY DEF LinksInv, IssuedInv, Links!ShortenerAssumption
  <2>3. i.left \in Nat
    BY <2>1, <2>2
  <2>4. QED
    BY <2>1, <2>3
<1>3. QED
  BY <1>1, <1>2 DEF Links!TypeOK

-----------------------------------------------------------------------------
(* All programs' invariants together, and the types that follow from them.  *)
PartsInv ==
    /\ PayInv /\ DeliveryInv /\ SendsInv /\ ClocksInv
    /\ StoreInv /\ RefreshInv /\ EntriesInv /\ EdgeInv /\ LinksInv
    /\ WindowInv /\ BalancerInv /\ FeedInv

LEMMA PartsHaveTypes ==
  ASSUME PartsInv
  PROVE  TypeOK
<1>1. Pay!TypeOK /\ Clocks!TypeOK /\ Limiter!TypeOK /\ Balancer!TypeOK /\ Timeline!TypeOK
  BY DEF PartsInv, PayInv, ClocksInv, WindowInv, BalancerInv, FeedInv
<1>2. Deliver!TypeOK
  BY PartsAssumption, DeliveryTypes DEF PartsInv
<1>3. Links!TypeOK
  BY PartsAssumption, LinksTypes DEF PartsInv
<1>4. Store!TypeOK
  BY DEF PartsInv, StoreInv, Store!TypeOK, Shown
<1>5. SWR!TypeOK
  BY DEF PartsInv, EntriesInv, Cached, RefreshInv, InTime, Fetch, SWR!TypeOK
<1>6. Edge!TypeOK
  BY DEF PartsInv, EdgeInv, RefreshInv, InTime, Fetch, Edge!TypeOK
<1>7. QED
  BY <1>1, <1>2, <1>3, <1>4, <1>5, <1>6 DEF TypeOK

(* Theorem: every program's state has the types its module states: among    *)
(* them that a producer gives up after MaxSends attempts and that the       *)
(* caches keep to their sizes.                                              *)
THEOREM TypeCorrect == Spec => []TypeOK
<1>1. Init => PartsInv
  <2>1. SUFFICES ASSUME Init
                 PROVE  PartsInv
    OBVIOUS
  <2>2. PayInv /\ DeliveryInv /\ ClocksInv
    BY <2>1, PartsAssumption, PartsBegin, PayInit, DeliveryInit, ClocksInit
  <2>3. StoreInv /\ RefreshInv /\ LinksInv /\ WindowInv /\ FeedInv
    BY <2>1, PartsAssumption, PartsBegin, StoreInit, RefreshInit, LinksInit, WindowInit, FeedInit
  <2>4. BalancerInv
    BY <2>1, PartsAssumption, PartsBegin, BalancerInit
  <2>5. SendsInv
    BY <2>1, PartsAssumption, PartsBegin, SendsInit
  <2>6. EntriesInv
    <3>1. entries = <<>> /\ CacheSize \in Nat
      BY <2>1, PartsAssumption, PartsBegin DEF SWR!Init, SWR!Cache!Init, SWR!SWRAssumption
    <3>2. QED
      BY <3>1 DEF EntriesInv
  <2>7. EdgeInv
    BY <2>1, PartsBegin DEF Edge!Init, EdgeInv
  <2>8. QED
    BY <2>2, <2>3, <2>4, <2>5, <2>6, <2>7 DEF PartsInv
<1>2. PartsInv /\ [Next]_vars => PartsInv'
  <2>1. SUFFICES ASSUME PartsInv, [Next]_vars
                 PROVE  PartsInv'
    OBVIOUS
  <2>2. PayInv' /\ DeliveryInv' /\ ClocksInv'
    BY <2>1, PartsAssumption, PartsStep, PayStep, DeliveryStep, ClocksStep DEF PartsInv
  <2>3. RefreshInv'
    <3>1. Latency \in Nat
      BY PartsAssumption DEF SWR!SWRAssumption
    <3>2. QED
      BY <2>1, <3>1, PartsStep, ServerKeepsInTime, EdgeKeepsInTime DEF PartsInv, RefreshInv
  <2>4. StoreInv' /\ LinksInv' /\ WindowInv' /\ FeedInv'
    BY <2>1, PartsAssumption, PartsStep, StoreStep, LinksStep, WindowStep, FeedStep DEF PartsInv
  <2>5. BalancerInv'
    BY <2>1, PartsAssumption, PartsStep, BalancerStep DEF PartsInv
  <2>6. SendsInv'
    BY <2>1, PartsAssumption, PartsStep, SendsStep DEF PartsInv
  <2>7. EntriesInv' /\ EdgeInv'
    BY <2>1, PartsAssumption, PartsStep, EntriesStep, EdgeStep DEF PartsInv
  <2>8. QED
    BY <2>2, <2>3, <2>4, <2>5, <2>6, <2>7 DEF PartsInv
<1>3. PartsInv => TypeOK
  BY PartsHaveTypes
<1>4. QED
  BY <1>1, <1>2, <1>3, PTL DEF Spec
=============================================================================
