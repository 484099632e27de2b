------------------------------ MODULE ChatRoom ------------------------------
(***************************************************************************)
(* 04-chat_app/src/logical-chat-integration.ts: clients stamp messages     *)
(* with Lamport clocks of their own, the network delays them at will, and  *)
(* the room stamps each one again with its clock and sorts.  Nothing       *)
(* advances a client's clock but its own messages.                         *)
(***************************************************************************)
EXTENDS Naturals, Sequences, FiniteSets

CONSTANTS
    Client, WallTime,
    MaxMessages    \* bound: the messages sent

VARIABLES
    clientClock,
    inTransit,  \* messages sent and not received by the room
    roomClock,
    messages,   \* the room's store, in its order
    causes      \* history: the messages each sender knew of when it sent one

vars == <<clientClock, inTransit, roomClock, messages, causes>>

Init ==
    /\ clientClock = [c \in Client |-> 0] /\ roomClock = 0
    /\ inTransit = {} /\ messages = <<>>
    /\ causes = [i \in {} |-> {}]

-----------------------------------------------------------------------------
(* A message is named by its sender and the sender's logical time.  Who     *)
(* sends one knows of those in the room, and of all its own.                *)
Sent == DOMAIN causes
InRoom == {messages[i].id : i \in DOMAIN messages}
KnownTo(c) == InRoom \cup {i \in Sent : i[1] = c}

(* ChatClient.sendMessage: the wall clock's reading may be anything. *)
SendMessage(c, wall) ==
    LET id == <<c, clientClock[c] + 1>>
    IN /\ Cardinality(Sent) < MaxMessages
       /\ clientClock' = [clientClock EXCEPT ![c] = @ + 1]
       /\ inTransit' = inTransit \cup {[id |-> id, logical |-> clientClock'[c], physical |-> wall]}
       /\ causes' = [i \in Sent \cup {id} |-> IF i = id THEN KnownTo(c) ELSE causes[i]]
       /\ UNCHANGED <<roomClock, messages>>

(* ChatRoom.receiveMessage: update the clock, stamp the message with it,    *)
(* push it and sort; the sort is stable and the rest is sorted already.     *)
Updated(own, received) == (IF own >= received THEN own ELSE received) + 1
Stamped(m) == [m EXCEPT !.logical = roomClock']
NotAfter(a, b) ==
    \/ a.logical < b.logical
    \/ a.logical = b.logical /\ a.physical <= b.physical
Placed(m) ==
    LET k == Cardinality({i \in DOMAIN messages : NotAfter(messages[i], m)})
    IN SubSeq(messages, 1, k) \o <<m>> \o SubSeq(messages, k + 1, Len(messages))

ReceiveMessage(m) ==
    /\ roomClock' = Updated(roomClock, m.logical)
    /\ messages' = Placed(Stamped(m))
    /\ inTransit' = inTransit \ {m}
    /\ UNCHANGED <<clientClock, causes>>

Next ==
    \/ \E c \in Client, wall \in WallTime : SendMessage(c, wall)
    \/ \E m \in inTransit : ReceiveMessage(m)

Spec == Init /\ [][Next]_vars

-----------------------------------------------------------------------------
(* "Sort messages by logical timestamp to guarantee causality" (line 41):   *)
(* of two messages in the room, the one the other's sender knew of stands   *)
(* first.  The stamps sorted by are the room's own, so the order is that of *)
(* arrival: a client's second message may overtake its first.               *)
CausesFirst ==
    \A i, j \in DOMAIN messages : messages[i].id \in causes[messages[j].id] => i < j
=============================================================================
