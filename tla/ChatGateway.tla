----------------------------- MODULE ChatGateway -----------------------------
(***************************************************************************)
(* 04-chat_app/src/index.ts and broadcast.ts: the gateway keeps three views *)
(* of its WebSocket connections (presenceMap and clientRegistry by user,   *)
(* the BroadcastService's clients by connection), and a buffer per client  *)
(* that the batching interval flushes.  The close event of a connection    *)
(* arrives some time after it is lost: the user may have reconnected.      *)
(*                                                                         *)
(* Connections are numbered as they arrive.  A client object belongs to    *)
(* one connection and is identified with it.  A buffer holds the messages  *)
(* routed to its client, numbered from 1, and Gap, the gap_detected event. *)
(***************************************************************************)
EXTENDS Naturals, SequencesExt

CONSTANTS
    User, Room, DefaultRoom, \* room-1
    None,
    MaxConns,     \* connections ever made
    MaxMessages,  \* messages ever received from Redis
    MaxBuffer     \* MAX_BUFFER_SIZE

ASSUME GatewayAssumption ==
    /\ DefaultRoom \in Room /\ None \notin User
    /\ MaxConns \in Nat /\ MaxMessages \in Nat
    /\ MaxBuffer \in Nat \ {0} /\ MaxBuffer % 2 = 0

Conn == 1..MaxConns
NoConn == 0
Gap == 0

VARIABLES
    socket,    \* "new", "open", "lost" until its close event, then "gone"
    owner,     \* the user of each connection
    presence,  \* presenceMap
    registry,  \* clientRegistry
    clients,   \* BroadcastService.clients
    room,      \* roomId of each client
    buffer,    \* messageBuffer
    routed,    \* how many messages were routed to each client
    delivered, \* the last one sent to it
    received,  \* messages received from Redis
    stopping   \* SIGTERM or SIGINT received

maps == <<presence, registry, clients>>
queues == <<buffer, routed, delivered, received>>
vars == <<socket, owner, maps, room, queues, stopping>>

(* The maps name connections; no buffer is longer than MAX_BUFFER_SIZE.     *)
TypeOK ==
    /\ socket \in [Conn -> {"new", "open", "lost", "gone"}]
    /\ owner \in [Conn -> User \cup {None}]
    /\ presence \in [User -> Conn \cup {NoConn}]
    /\ registry \in [User -> Conn \cup {NoConn}]
    /\ clients \subseteq Conn
    /\ room \in [Conn -> Room]
    /\ buffer \in [Conn -> Seq(Gap..MaxMessages)]
    /\ \A c \in Conn : Len(buffer[c]) <= MaxBuffer
    /\ routed \in [Conn -> 0..MaxMessages]
    /\ delivered \in [Conn -> 0..MaxMessages]
    /\ received \in 0..MaxMessages
    /\ stopping \in BOOLEAN

Init ==
    /\ socket = [c \in Conn |-> "new"] /\ owner = [c \in Conn |-> None]
    /\ presence = [u \in User |-> NoConn] /\ registry = [u \in User |-> NoConn]
    /\ clients = {}
    /\ room = [c \in Conn |-> DefaultRoom]
    /\ buffer = [c \in Conn |-> <<>>]
    /\ routed = [c \in Conn |-> 0] /\ delivered = [c \in Conn |-> 0]
    /\ received = 0
    /\ stopping = FALSE

-----------------------------------------------------------------------------
(* Plausible slips in the code, used to show that the properties bite. *)
EagerCheck(b) == Len(b) >= MaxBuffer
SilentDrop(b) == SubSeq(b, Len(b) - (MaxBuffer \div 2) + 1, Len(b))
KeepsBuffer(c) == buffer[c]
RegisteredClient(c) == registry[owner[c]]

(* enqueueMessage(): beyond MaxBuffer keep the newest half, after a gap.    *)
Overflows(b) == Len(b) > MaxBuffer
Shed(b) == <<Gap>> \o SubSeq(b, Len(b) - (MaxBuffer \div 2) + 1, Len(b))
Enqueue(b, m) ==
    LET pushed == Append(b, m) IN IF Overflows(pushed) THEN Shed(pushed) ELSE pushed

(* What flushBuffers() leaves in the buffer it sent. *)
AfterSend(c) == <<>>

(* The client a close event removes: the one its handler closed over. *)
ClosedClient(c) == c

(* wss 'connection': the user's entries now name this connection.           *)
Connect(u) ==
    /\ ~stopping
    /\ \E c \in Conn :
          /\ socket[c] = "new" /\ \A d \in 1..(c - 1) : socket[d] # "new"
          /\ socket' = [socket EXCEPT ![c] = "open"]
          /\ owner' = [owner EXCEPT ![c] = u]
          /\ presence' = [presence EXCEPT ![u] = c]
          /\ registry' = [registry EXCEPT ![u] = c]
          /\ clients' = clients \cup {c}
    /\ UNCHANGED <<room, queues, stopping>>

(* ws 'message' with action join. *)
Join(c, r) ==
    /\ socket[c] = "open" /\ r # room[c]
    /\ room' = [room EXCEPT ![c] = r]
    /\ UNCHANGED <<socket, owner, maps, queues, stopping>>

(* The connection breaks, or the client closes it. *)
Lose(c) ==
    /\ socket[c] = "open"
    /\ socket' = [socket EXCEPT ![c] = "lost"]
    /\ UNCHANGED <<owner, maps, room, queues, stopping>>

(* ws 'close': the presence entry goes whatever connection it names, the    *)
(* client only if the user still has a registry entry.                      *)
Close(c) ==
    /\ socket[c] = "lost"
    /\ socket' = [socket EXCEPT ![c] = "gone"]
    /\ presence' = [presence EXCEPT ![owner[c]] = NoConn]
    /\ \/ registry[owner[c]] = NoConn /\ UNCHANGED <<registry, clients>>
       \/ /\ registry[owner[c]] # NoConn
          /\ clients' = clients \ {ClosedClient(c)}
          /\ registry' = [registry EXCEPT ![owner[c]] = NoConn]
    /\ UNCHANGED <<owner, room, queues, stopping>>

(* redisSub 'message': to every client in the message's room. *)
Receive(r) ==
    LET targets == {c \in clients : room[c] = r}
    IN /\ received < MaxMessages
       /\ received' = received + 1
       /\ routed' = [c \in Conn |-> IF c \in targets THEN routed[c] + 1 ELSE routed[c]]
       /\ buffer' = [c \in Conn |-> IF c \in targets THEN Enqueue(buffer[c], routed[c] + 1)
                                    ELSE buffer[c]]
       /\ UNCHANGED <<socket, owner, maps, room, delivered, stopping>>

(* flushBuffers(): one batch to every open client with something to send.   *)
Ready == {c \in clients : socket[c] = "open" /\ buffer[c] # <<>>}

Flush ==
    /\ Ready # {}
    /\ delivered' = [c \in Conn |-> IF c \in Ready THEN Last(buffer[c]) ELSE delivered[c]]
    /\ buffer' = [c \in Conn |-> IF c \in Ready THEN AfterSend(c) ELSE buffer[c]]
    /\ UNCHANGED <<socket, owner, maps, room, routed, received, stopping>>

(* SIGTERM: close what presenceMap names and clear the user maps; the       *)
(* process ends when the last socket has closed.                            *)
Stop ==
    /\ ~stopping /\ stopping' = TRUE
    /\ socket' = [c \in Conn |-> IF socket[c] = "open" /\ \E u \in User : presence[u] = c
                                 THEN "lost" ELSE socket[c]]
    /\ presence' = [u \in User |-> NoConn]
    /\ registry' = [u \in User |-> NoConn]
    /\ UNCHANGED <<owner, clients, room, queues>>

Next ==
    \/ Flush \/ Stop
    \/ \E u \in User : Connect(u)
    \/ \E r \in Room : Receive(r)
    \/ \E c \in Conn : Lose(c) \/ Close(c) \/ \E r \in Room : Join(c, r)

Spec == Init /\ [][Next]_vars

(* The batching interval fires and close events arrive. *)
Fairness == WF_vars(Flush) /\ \A c \in Conn : WF_vars(Close(c))

FairSpec == Spec /\ Fairness

-----------------------------------------------------------------------------
(* ADR-026 "send the client a warning that they missed data": what a client *)
(* was sent and what its buffer holds are the messages routed to it, in     *)
(* order, up to the newest, and there is a gap event exactly where messages *)
(* are missing, however many overflows and flushes fall together.           *)
NoSilentLoss ==
    \A c \in Conn :
        LET b == buffer[c]
            s == <<delivered[c]>> \o b
        IN /\ Last(s) = routed[c]
           /\ \A i \in 2..Len(s) :
                 IF s[i] = Gap THEN i < Len(s) /\ s[i + 1] > s[i - 1] + 1
                 ELSE s[i] = s[i - 1] + 1 \/ (i > 2 /\ s[i - 1] = Gap)

(* For each client the gateway is the lossy feed ADR-026 chose: nothing is  *)
(* dropped before the buffer is full, the newest half never, a batch has    *)
(* all that waits, and the gap event stands in the buffer from the first    *)
(* message dropped until it is sent.                                        *)
Waiting(c) == {buffer[c][i] : i \in DOMAIN buffer[c]}
Feed(c) == INSTANCE LossyFeed
           WITH Capacity <- MaxBuffer, routed <- routed[c], heard <- delivered[c],
                held <- Waiting(c) \ {Gap}, warned <- Gap \in Waiting(c)
ImplementsLossyFeed ==
    /\ \A c \in Conn : Feed(c)!Init
    /\ [][\A c \in Conn : [Feed(c)!Next]_(Feed(c)!vars)]_vars

(* A connection that is open is routed to, and the user maps name only      *)
(* connections whose close event is still to come: a late close event of an *)
(* old connection cuts nobody off and leaves nothing dangling by user.      *)
OpenIsRouted ==
    /\ \A c \in Conn : socket[c] = "open" => c \in clients
    /\ \A u \in User : registry[u] # NoConn =>
          registry[u] \in clients /\ owner[registry[u]] = u
    /\ \A u \in User : presence[u] # NoConn =>
          socket[presence[u]] \in {"open", "lost"} /\ owner[presence[u]] = u

(* Whatever is routed to a connection that stays open is sent to it: with   *)
(* NoSilentLoss, every message or the gap that stands for it.               *)
Delivers ==
    \A c \in Conn :
        socket[c] = "open" /\ buffer[c] # <<>> ~> socket[c] # "open" \/ buffer[c] = <<>>
=============================================================================
