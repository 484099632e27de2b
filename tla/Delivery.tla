------------------------------ MODULE Delivery ------------------------------
(***************************************************************************)
(* Delivery with a deduplicating consumer: shared/outbox (demo.ts,         *)
(* consumer.ts), where a publisher retries what the consumer failed to     *)
(* process, and shared/queue-sim/basic.ts, where a producer retries what   *)
(* was not acknowledged, once without and once with deduplication.         *)
(*                                                                         *)
(* consumeEvent() awaits nothing, so a tick of the publisher runs to its   *)
(* end before another timer fires: it is one action over all its rows.     *)
(***************************************************************************)
EXTENDS Naturals, FiniteSets

CONSTANTS Order, MaxSends

DeliveryAssumption == IsFiniteSet(Order) /\ MaxSends \in Nat \ {0}

VARIABLES
    orders,       \* ordersTable
    outbox,       \* outboxTable: each row's published flag
    processed,    \* the consumer's processedIds
    applied,      \* history: how often each event's processing succeeded
    dedupe,       \* whether the queue's producer is in its second scenario
    sends,        \* attempts of the scenario's producer
    acknowledged,
    queueSeen,    \* processedIds of the queue's consumer
    queueApplied  \* history: how often it processed the scenario's message

outboxVars == <<orders, outbox, processed, applied>>
queueVars == <<dedupe, sends, acknowledged, queueSeen, queueApplied>>

TypeOK ==
    /\ orders \subseteq Order /\ outbox \in [orders -> BOOLEAN]
    /\ processed \subseteq orders /\ applied \in [Order -> Nat]
    /\ {dedupe, acknowledged, queueSeen} \subseteq BOOLEAN
    /\ sends \in 0..MaxSends /\ queueApplied \in 0..MaxSends

Init ==
    /\ orders = {} /\ outbox = [o \in {} |-> FALSE] /\ processed = {}
    /\ applied = [o \in Order |-> 0]
    /\ dedupe = FALSE /\ sends = 0 /\ acknowledged = FALSE
    /\ queueSeen = FALSE /\ queueApplied = 0

-----------------------------------------------------------------------------
(* Plausible slips in the code, used to show that the properties bite. *)
AlwaysProcesses == TRUE

(* createOrderWithOutbox: the order and its event in one transaction. *)
CreateOrder(o) ==
    /\ o \notin orders
    /\ orders' = orders \cup {o}
    /\ outbox' = [p \in orders \cup {o} |-> p # o /\ outbox[p]]
    /\ UNCHANGED <<processed, applied, queueVars>>

(* consumeEvent skips what it has seen and processes some of the rest; a    *)
(* tick offers it every pending event and marks what it acknowledges.       *)
Consumed(succeeds) == succeeds \ processed
Pending == {o \in orders : ~outbox[o]}
Tick(succeeds) ==
    /\ Pending # {}
    /\ processed' = processed \cup Consumed(succeeds)
    /\ applied' = [o \in Order |-> applied[o] + IF o \in Consumed(succeeds) THEN 1 ELSE 0]
    /\ outbox' = [o \in orders |-> outbox[o] \/ o \in Pending \cap processed']
    /\ UNCHANGED <<orders, queueVars>>

(* The producer sends again until it gets an acknowledgement or gives up;   *)
(* the consumer processes the message unless it deduplicates it.            *)
Sending == ~acknowledged /\ sends < MaxSends
Processes == ~(dedupe /\ queueSeen)
Send(ackLost) ==
    /\ Sending
    /\ sends' = sends + 1
    /\ queueApplied' = queueApplied + IF Processes THEN 1 ELSE 0
    /\ queueSeen' = (queueSeen \/ dedupe)
    /\ acknowledged' = ~ackLost
    /\ UNCHANGED <<dedupe, outboxVars>>

SecondScenario ==
    /\ ~dedupe /\ ~Sending
    /\ dedupe' = TRUE
    /\ sends' = 0 /\ acknowledged' = FALSE /\ queueSeen' = FALSE /\ queueApplied' = 0
    /\ UNCHANGED outboxVars

Next ==
    \/ \E o \in Order : CreateOrder(o)
    \/ \E succeeds \in SUBSET Pending : Tick(succeeds)
    \/ \E ackLost \in BOOLEAN : Send(ackLost)
    \/ SecondScenario

-----------------------------------------------------------------------------
(* An event or message is applied at most once, however often it is sent,   *)
(* and has been applied when the sender stops sending it for an             *)
(* acknowledgement; an order and its event exist together.                  *)
ExactlyOnce ==
    /\ DOMAIN outbox = orders
    /\ \A o \in Order : applied[o] = IF o \in processed THEN 1 ELSE 0
    /\ \A o \in orders : outbox[o] => applied[o] = 1
    /\ dedupe => queueApplied <= 1
    /\ acknowledged => queueApplied >= 1
=============================================================================
