---------------------------- MODULE LoadBalancer ----------------------------
(***************************************************************************)
(* shared/load-balancer: a balancer of one of two policies in front of     *)
(* servers with bounded queues.  A request is placed or dropped at once;   *)
(* servers of any speed take requests from their queues in between, as     *)
(* verifyDay14.ts makes them do.  activeConnections is 0 throughout:       *)
(* nothing in the simulation changes it.                                   *)
(***************************************************************************)
EXTENDS Naturals, FiniteSets

CONSTANTS Servers, MaxQueueSize  \* the number of servers and maxQueueSize

BalancerAssumption == {Servers, MaxQueueSize} \subseteq Nat \ {0}

VARIABLES
    policy,
    currentIndex,  \* of the RoundRobinBalancer
    queue,         \* the length of each server's queue
    lead,          \* history: how many more requests each server got than the least favoured
    spilled        \* history: whether a request was dropped while there was room

balancerVars == <<policy, currentIndex, queue, lead, spilled>>

Server == 1..Servers
Policy == {"round robin", "least connections"}

TypeOK ==
    /\ policy \in Policy /\ currentIndex \in Server
    /\ queue \in [Server -> 0..MaxQueueSize]
    /\ lead \in [Server -> Nat] /\ spilled \in BOOLEAN

Init ==
    /\ policy \in Policy /\ currentIndex = 1
    /\ queue = [s \in Server |-> 0]
    /\ lead = [s \in Server |-> 0] /\ spilled = FALSE

-----------------------------------------------------------------------------
(* Plausible slips in the code, used to show that the properties bite. *)
MostConnections(s) == \A t \in Server : queue[s] >= queue[t]

(* getNextServer(): whose turn it is, or the last one of the least loaded. *)
RoundRobin(s) == s = currentIndex
LeastConnections(s) ==
    \A t \in Server : IF t > s THEN queue[s] < queue[t] ELSE queue[s] <= queue[t]
Chosen(s) == IF policy = "round robin" THEN RoundRobin(s) ELSE LeastConnections(s)

Full(s) == queue[s] >= MaxQueueSize
Served(s) ==
    LET more == [lead EXCEPT ![s] = @ + 1]
    IN IF \A t \in Server : more[t] > 0 THEN [t \in Server |-> more[t] - 1] ELSE more

simulateRequest(s) ==
    /\ Chosen(s)
    /\ currentIndex' = IF policy = "round robin" THEN (s % Servers) + 1 ELSE currentIndex
    /\ queue' = IF Full(s) THEN queue ELSE [queue EXCEPT ![s] = @ + 1]
    /\ spilled' = (spilled \/ (Full(s) /\ \E t \in Server : ~Full(t)))
    /\ lead' = IF policy = "round robin" THEN Served(s) ELSE lead
    /\ UNCHANGED policy

drainQueues(ready) ==
    /\ queue' = [s \in Server |-> IF s \in ready /\ queue[s] > 0 THEN queue[s] - 1 ELSE queue[s]]
    /\ UNCHANGED <<policy, currentIndex, lead, spilled>>

Next ==
    \/ \E s \in Server : simulateRequest(s)
    \/ \E ready \in SUBSET Server \ {{}} : drainQueues(ready)

-----------------------------------------------------------------------------
(* What each policy is for, whatever the servers' speeds: round robin gives *)
(* no server two requests more than another one got; least connections      *)
(* drops a request only when every queue is full.                           *)
SpreadsLoad ==
    /\ \A s \in Server : lead[s] <= 1
    /\ policy = "least connections" => ~spilled
=============================================================================
