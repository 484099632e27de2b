---------------------------- MODULE LogicalClocks ----------------------------
(***************************************************************************)
(* 09-time-clocks/src/clock-skew-demo.ts: nodes with Lamport clocks.  A    *)
(* message takes 50 ms to any node, so messages arrive in the order in     *)
(* which they were sent, with any events of the nodes in between.          *)
(***************************************************************************)
EXTENDS Naturals, Sequences, FiniteSets

CONSTANTS
    Node,
    MaxEvents  \* bound on the events explored

ClocksAssumption == MaxEvents \in Nat

VARIABLES
    time,    \* logicalClock.time of each node
    wire,    \* the messages on their way
    past,    \* history: the events of each node that each node's state depends on
    events   \* history: the events and what each of them depends on

clockVars == <<time, wire, past, events>>

Vector == [Node -> Nat]

TypeOK ==
    /\ time \in [Node -> Nat] /\ past \in [Node -> Vector]
    /\ wire \in Seq([to : Node, stamp : Nat, past : Vector])
    /\ \A e \in events : e \in [node : Node, stamp : Nat, past : Vector]

Init ==
    /\ time = [n \in Node |-> 0]
    /\ past = [n \in Node |-> [m \in Node |-> 0]]
    /\ wire = <<>> /\ events = {}

-----------------------------------------------------------------------------
(* Plausible slips in the code, used to show that the properties bite. *)
Overwritten(own, received) == received + 1

(* LamportClock.tick() and update(). *)
Ticked(own) == own + 1
Updated(own, received) == (IF own >= received THEN own ELSE received) + 1

(* What n's next event depends on: n's past, the sender's past, itself. *)
Joined(n, p) ==
    [m \in Node |-> IF m = n THEN past[n][n] + 1
                   ELSE IF past[n][m] >= p[m] THEN past[n][m] ELSE p[m]]

(* n has an event that sets its clock to t and depends on p. *)
Event(n, t, p) ==
    /\ Cardinality(events) < MaxEvents
    /\ time' = [time EXCEPT ![n] = t]
    /\ past' = [past EXCEPT ![n] = p]
    /\ events' = events \cup {[node |-> n, stamp |-> t, past |-> p]}

performLocalAction(n) ==
    Event(n, Ticked(time[n]), Joined(n, past[n])) /\ UNCHANGED wire

sendMessage(n, receiver) ==
    /\ Event(n, Ticked(time[n]), Joined(n, past[n]))
    /\ wire' = Append(wire, [to |-> receiver, stamp |-> time'[n], past |-> past'[n]])

receiveMessage(n) ==
    /\ wire # <<>> /\ Head(wire).to = n
    /\ Event(n, Updated(time[n], Head(wire).stamp), Joined(n, Head(wire).past))
    /\ wire' = Tail(wire)

Next ==
    \E n \in Node :
        \/ performLocalAction(n) \/ receiveMessage(n)
        \/ \E receiver \in Node \ {n} : sendMessage(n, receiver)

-----------------------------------------------------------------------------
(* The clock condition: an event that another one depends on, directly or   *)
(* through any chain of messages, has the smaller logical time.             *)
Before(e, f) == e # f /\ \A m \in Node : e.past[m] <= f.past[m]
ClockCondition == \A e, f \in events : Before(e, f) => e.stamp < f.stamp
=============================================================================
