----------------------------- MODULE EventStore -----------------------------
(***************************************************************************)
(* 07-event-store: demo.ts appends events to a log and feeds them to a     *)
(* materialised view; ecommerce-audit.ts appends to a log and answers by   *)
(* replay, at present or as of an earlier time.  Events come with any time *)
(* stamps, which the callers give them.                                    *)
(***************************************************************************)
EXTENDS Arrays

CONSTANTS
    Order, Amount, Time,
    MaxLog    \* bound: the events of both logs

EventsAssumption ==
    Amount \subseteq Nat /\ Time \subseteq Nat /\ MaxLog \in Nat

VARIABLES
    log,    \* demo.ts: EventStore.log
    view,   \* demo.ts: OrderMaterializedView.view
    audit   \* ecommerce-audit.ts: AuditEventStore.events

eventVars == <<log, view, audit>>

Event(types) == [type : types, order : Order, amount : Amount, time : Time]
DemoEvent == Event({"OrderCreated", "ItemAdded", "OrderShipped"})
AuditEvent == Event({"OrderPlaced", "InventoryReserved", "PaymentProcessed", "OrderShipped"})

NoOrder == [status |-> "none", total |-> 0, items |-> 0]
Unknown == [status |-> "UNKNOWN", paid |-> 0, items |-> 0]

TypeOK ==
    /\ log \in Seq(DemoEvent) /\ audit \in Seq(AuditEvent)
    /\ view \in [Order -> [status : {"none", "PENDING", "SHIPPED"}, total : Nat, items : Nat]]

Init ==
    /\ log = <<>> /\ view = [o \in Order |-> NoOrder]
    /\ audit = <<>>

-----------------------------------------------------------------------------
(* Plausible slips in the code, used to show that the properties bite. *)
StrictlyBefore(e, t) == e.time < t
OnlyPending(order, e) ==
    CASE e.type = "OrderCreated" -> [status |-> "PENDING", total |-> 0, items |-> 0]
      [] e.type = "ItemAdded" /\ order.status = "PENDING" ->
            [order EXCEPT !.total = @ + e.amount, !.items = @ + 1]
      [] e.type = "OrderShipped" /\ order # NoOrder -> [order EXCEPT !.status = "SHIPPED"]
      [] OTHER -> order

(* The events of an order, sorted by their times. *)
Of(s, o) == Filtered(s, {i \in DOMAIN s : s[i].order = o})
EventsOf(s, o) ==
    LET mine == Of(s, o) IN SortedBy(mine, [i \in DOMAIN mine |-> mine[i].time])

(* handleEvent on one order of the view; the view ignores what happens to   *)
(* an order it does not have.                                               *)
handleEvent(order, e) ==
    CASE e.type = "OrderCreated" -> [status |-> "PENDING", total |-> 0, items |-> 0]
      [] e.type = "ItemAdded" /\ order # NoOrder ->
            [order EXCEPT !.total = @ + e.amount, !.items = @ + 1]
      [] e.type = "OrderShipped" /\ order # NoOrder -> [order EXCEPT !.status = "SHIPPED"]
      [] OTHER -> order

(* What the view would show of an order with these events. *)
viewOf(s) ==
    LET order[k \in 0..Len(s)] == IF k = 0 THEN NoOrder ELSE handleEvent(order[k - 1], s[k])
    IN order[Len(s)]

(* buildState and the event it adds to a state. *)
Applied(state, e) ==
    CASE e.type = "OrderPlaced" -> [state EXCEPT !.status = "PLACED"]
      [] e.type = "InventoryReserved" -> [state EXCEPT !.status = "RESERVED", !.items = @ + 1]
      [] e.type = "PaymentProcessed" -> [state EXCEPT !.status = "PAID", !.paid = @ + e.amount]
      [] e.type = "OrderShipped" -> [state EXCEPT !.status = "SHIPPED"]
buildState(s) ==
    LET state[k \in 0..Len(s)] == IF k = 0 THEN Unknown ELSE Applied(state[k - 1], s[k])
    IN state[Len(s)]

UpTo(e, t) == e.time <= t
getEventsUpTo(o, t) ==
    LET mine == EventsOf(audit, o) IN Filtered(mine, {i \in DOMAIN mine : UpTo(mine[i], t)})

Room == Len(log) + Len(audit) < MaxLog

publishEvent(e) ==
    /\ Room
    /\ log' = Append(log, e)
    /\ view' = [view EXCEPT ![e.order] = handleEvent(@, e)]
    /\ UNCHANGED audit

append(e) ==
    /\ Room
    /\ audit' = Append(audit, e)
    /\ UNCHANGED <<log, view>>

Next ==
    \/ \E e \in DemoEvent : publishEvent(e)
    \/ \E e \in AuditEvent : append(e)

-----------------------------------------------------------------------------
(* What es-cqrs.md calls a perfect rebuild: replaying an order's events,    *)
(* sorted by time, gives what the view accumulated in the order they were   *)
(* published (up to the order in which the items are listed).  It holds     *)
(* however late the items and shipments are published by their stamps, and  *)
(* fails only when one of an OrderCreated and another event was published   *)
(* first and is stamped later: the replay forgets, or ignores, the other.   *)
Creates(e) == e.type = "OrderCreated"
CreationsInTime(o) ==
    \A i, j \in DOMAIN log :
        /\ i < j /\ log[i].order = o /\ log[j].order = o
        /\ Creates(log[i]) \/ Creates(log[j])
        => log[i].time <= log[j].time

ReplayAgrees ==
    \A o \in Order : CreationsInTime(o) => viewOf(EventsOf(log, o)) = view[o]

(* Time travel: an event changes what the replays up to its time and later  *)
(* ones say of its order, and none else.  Of those, it counts in all, and   *)
(* is the status of those in which no later one hides it: an event stamped  *)
(* before ones appended already corrects the sums and no other status.      *)
asOf(o, t) == buildState(getEventsUpTo(o, t))
Counts(o, t, e) == e.order = o /\ e.time <= t
Hidden(o, t, e) == \E i \in DOMAIN audit : Counts(o, t, audit[i]) /\ audit[i].time > e.time

TimeTravel ==
    [][\A o \in Order, t \in Time, n \in DOMAIN audit' \ DOMAIN audit :
          LET e == audit'[n]
          IN asOf(o, t)' =
                IF ~Counts(o, t, e) THEN asOf(o, t)
                ELSE IF Hidden(o, t, e)
                     THEN [Applied(asOf(o, t), e) EXCEPT !.status = asOf(o, t).status]
                     ELSE Applied(asOf(o, t), e)]_audit
=============================================================================
