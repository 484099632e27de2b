-------------------------- MODULE ChatGatewayProofs --------------------------
(* Proofs about ChatGateway for any users, rooms, numbers of connections    *)
(* and messages, and any even buffer size.                                  *)
EXTENDS ChatGateway, SequenceTheorems, FiniteSetTheorems, TLAPS

(* A connection belongs to a user from its first event on. *)
OwnerInv ==
    \A c \in Conn : IF socket[c] = "new" THEN owner[c] = None ELSE owner[c] \in User

(* A buffer that n messages were routed to, of which those up to d were     *)
(* sent: it ends with the n-th message, counts up to it, and begins with    *)
(* the message after d or with a gap that stands for at least that one.     *)
InOrder(b, n, d) ==
    /\ b = <<>> => d = n
    /\ \A i \in 2..Len(b) : b[i] = n - Len(b) + i
    /\ b # <<>> =>
        \/ b[1] = d + 1 /\ d = n - Len(b)
        \/ b[1] = Gap /\ Len(b) > 1 /\ d <= n - Len(b)

BufferInv ==
    \A c \in Conn :
        routed[c] <= received /\ InOrder(buffer[c], routed[c], delivered[c])

IInv == TypeOK /\ OwnerInv /\ OpenIsRouted /\ BufferInv

Message == Gap..MaxMessages

-----------------------------------------------------------------------------
LEMMA Constants ==
  /\ MaxConns \in Nat /\ MaxMessages \in Nat /\ MaxBuffer \in Nat /\ None \notin User
  /\ MaxBuffer \div 2 \in Nat \ {0} /\ MaxBuffer = 2 * (MaxBuffer \div 2)
  /\ NoConn \notin Conn /\ Gap \in Message
  BY GatewayAssumption DEF Conn, NoConn, Message, Gap

LEMMA IInvInit ==
  ASSUME Init
  PROVE  IInv
<1>. USE DEF Init
<1>1. TypeOK
  <2>1. <<>> \in Seq(Message) /\ Len(<<>>) = 0 /\ 0 \in 0..MaxMessages /\ 0 <= MaxBuffer
    BY Constants, EmptySeq
  <2>2. QED
    BY <2>1, GatewayAssumption DEF TypeOK, Message
<1>2. OwnerInv
  BY DEF OwnerInv
<1>3. OpenIsRouted
  BY DEF OpenIsRouted
<1>4. BufferInv
  BY DEF BufferInv, InOrder
<1>5. QED
  BY <1>1, <1>2, <1>3, <1>4 DEF IInv

(* Routing a message keeps a buffer in order and within its bound, whether  *)
(* the message fits or the older half gives way to a gap.                   *)
LEMMA EnqueueKeeps ==
  ASSUME NEW b \in Seq(Message), Len(b) <= MaxBuffer, NEW n \in Nat, NEW d \in Nat,
         n < MaxMessages, InOrder(b, n, d)
  PROVE  /\ Enqueue(b, n + 1) \in Seq(Message) /\ Len(Enqueue(b, n + 1)) <= MaxBuffer
         /\ InOrder(Enqueue(b, n + 1), n + 1, d)
<1>1. PICK h \in Nat \ {0} : h = MaxBuffer \div 2 /\ MaxBuffer = 2 * h
  BY Constants
<1>2. Len(b) \in Nat /\ Len(b) <= 2 * h /\ n + 1 \in Message /\ Gap = 0 /\ Gap \in Message
  BY <1>1, LenProperties, Constants DEF Message, Gap
<1>3. PICK p \in Seq(Message) :
        /\ p = Append(b, n + 1) /\ p # <<>> /\ Len(p) = Len(b) + 1
        /\ \A i \in 1..Len(b) : p[i] = b[i]
        /\ p[Len(b) + 1] = n + 1
  BY <1>2, AppendProperties
<1>4. ASSUME NEW i \in 2..Len(p)
      PROVE  p[i] = n + 1 - Len(p) + i
  <2>1. CASE i = Len(p)
    BY <1>2, <1>3, <2>1
  <2>2. CASE i # Len(p)
    <3>1. i \in 2..Len(b) /\ i \in 1..Len(b)
      BY <1>2, <1>3, <2>2
    <3>2. b[i] = n - Len(b) + i
      BY <3>1 DEF InOrder
    <3>3. QED
      BY <1>2, <1>3, <3>1, <3>2
  <2>3. QED
    BY <2>1, <2>2
<1>5. CASE Len(p) <= MaxBuffer
  <2>1. Enqueue(b, n + 1) = p
    BY <1>1, <1>2, <1>3, <1>5 DEF Enqueue, Overflows
  <2>2. \/ p[1] = d + 1 /\ d = n + 1 - Len(p)
        \/ p[1] = Gap /\ Len(p) > 1 /\ d <= n + 1 - Len(p)
    <3>1. CASE b = <<>>
      <4>1. Len(b) = 0 /\ d = n
        BY <3>1 DEF InOrder
      <4>2. QED
        BY <1>2, <1>3, <4>1
    <3>2. CASE b # <<>>
      <4>1. Len(b) > 0 /\ p[1] = b[1]
        BY <1>2, <1>3, <3>2, EmptySeq
      <4>2. (b[1] = d + 1 /\ d = n - Len(b)) \/ (b[1] = Gap /\ Len(b) > 1 /\ d <= n - Len(b))
        BY <3>2 DEF InOrder
      <4>3. QED
        BY <1>2, <1>3, <4>1, <4>2
    <3>3. QED
      BY <3>1, <3>2
  <2>3. InOrder(p, n + 1, d)
    BY <1>3, <1>4, <2>2 DEF InOrder
  <2>4. QED
    BY <1>3, <1>5, <2>1, <2>3
<1>6. CASE Len(p) > MaxBuffer
  <2>1. Len(p) = 2 * h + 1 /\ Len(b) = 2 * h /\ b # <<>>
    BY <1>1, <1>2, <1>3, <1>6
  <2>2. PICK q \in Seq(Message) :
          /\ q = SubSeq(p, h + 2, 2 * h + 1) /\ Len(q) = h
          /\ \A i \in 1..h : q[i] = p[h + 1 + i]
    <3>1. \A i \in (h + 2)..(2 * h + 1) : p[i] \in Message
      BY <1>3, <2>1, ElementOfSeq
    <3>2. /\ SubSeq(p, h + 2, 2 * h + 1) \in Seq(Message)
          /\ Len(SubSeq(p, h + 2, 2 * h + 1)) = h
          /\ \A i \in 1..h : SubSeq(p, h + 2, 2 * h + 1)[i] = p[h + 2 + i - 1]
      BY <3>1, SubSeqProperties
    <3>3. \A i \in 1..h : h + 2 + i - 1 = h + 1 + i
      OBVIOUS
    <3>4. QED
      BY <3>2, <3>3
  <2>3. PICK s \in Seq(Message) :
          s = <<Gap>> \o q /\ Len(s) = h + 1 /\ s[1] = Gap
          /\ \A i \in 2..(h + 1) : s[i] = q[i - 1]
    <3>1. <<Gap>> \in Seq(Message) /\ Len(<<Gap>>) = 1 /\ <<Gap>>[1] = Gap
      BY <1>2
    <3>2. /\ <<Gap>> \o q \in Seq(Message) /\ Len(<<Gap>> \o q) = 1 + h
          /\ \A i \in 1..(1 + h) :
               (<<Gap>> \o q)[i] = IF i <= 1 THEN <<Gap>>[i] ELSE q[i - 1]
      BY <2>2, <3>1, ConcatProperties
    <3>3. (<<Gap>> \o q)[1] = Gap /\ \A i \in 2..(h + 1) : (<<Gap>> \o q)[i] = q[i - 1]
      BY <3>1, <3>2
    <3>4. 1 + h = h + 1
      OBVIOUS
    <3>5. QED
      BY <3>2, <3>3, <3>4
  <2>4. Enqueue(b, n + 1) = s
    <3>1. Len(p) - h + 1 = h + 2
      BY <2>1
    <3>2. QED
      BY <1>1, <1>3, <1>6, <2>1, <2>2, <2>3, <3>1 DEF Enqueue, Overflows, Shed
  <2>5. ASSUME NEW i \in 2..Len(s)
        PROVE  s[i] = n + 1 - Len(s) + i
    <3>1. i - 1 \in 1..h /\ h + i \in 2..Len(p) /\ i \in 2..(h + 1) /\ h + 1 + (i - 1) = h + i
      BY <2>1, <2>3
    <3>2. s[i] = p[h + i]
      <4>1. s[i] = q[i - 1]
        BY <2>3, <3>1
      <4>2. q[i - 1] = p[h + 1 + (i - 1)]
        BY <2>2, <3>1
      <4>3. QED
        BY <3>1, <4>1, <4>2
    <3>3. p[h + i] = n + 1 - (2 * h + 1) + (h + i)
      BY <1>4, <2>1, <3>1
    <3>4. i \in Int /\ n + 1 - (2 * h + 1) + (h + i) = n + 1 - (h + 1) + i
      BY <3>1
    <3>5. QED
      BY <2>3, <3>2, <3>3, <3>4
  <2>6. d <= n + 1 - Len(s)
    <3>1. d <= n - 2 * h
      BY <2>1 DEF InOrder
    <3>2. QED
      BY <2>3, <3>1
  <2>7. Len(s) <= MaxBuffer /\ Len(s) > 1 /\ s # <<>>
    BY <1>1, <2>3
  <2>8. InOrder(s, n + 1, d)
    BY <2>3, <2>5, <2>6, <2>7 DEF InOrder
  <2>9. QED
    BY <2>3, <2>4, <2>7, <2>8
<1>7. QED
  BY <1>1, <1>2, <1>3, <1>5, <1>6

(* What a flush sends ends with the newest message routed to the client. *)
LEMMA LastIsNewest ==
  ASSUME NEW b \in Seq(Message), NEW n \in Nat, NEW d \in Nat, b # <<>>, InOrder(b, n, d)
  PROVE  Last(b) = n
<1>1. Len(b) \in Nat \ {0} /\ Last(b) = b[Len(b)]
  BY EmptySeq DEF Last
<1>2. CASE Len(b) = 1
  <2>1. b[1] = d + 1 /\ d = n - 1
    BY <1>2 DEF InOrder
  <2>2. Last(b) = b[1]
    BY <1>1, <1>2
  <2>3. QED
    BY <2>1, <2>2
<1>3. CASE Len(b) > 1
  <2>1. Len(b) \in 2..Len(b)
    BY <1>1, <1>3
  <2>2. b[Len(b)] = n - Len(b) + Len(b)
    BY <2>1 DEF InOrder
  <2>3. n - Len(b) + Len(b) = n
    BY <1>1
  <2>4. QED
    BY <1>1, <2>2, <2>3
<1>4. \A l \in Nat \ {0} : l = 1 \/ l > 1
  OBVIOUS
<1>5. QED
  BY <1>1, <1>2, <1>3, <1>4

-----------------------------------------------------------------------------
(* What an action that routes and sends nothing leaves as it is. *)
LEMMA BuffersStay ==
  ASSUME BufferInv, UNCHANGED queues
  PROVE  BufferInv'
BY DEF BufferInv, queues

LEMMA ConnectKeeps ==
  ASSUME IInv, NEW u \in User, Connect(u)
  PROVE  IInv'
<1>1. PICK c \in Conn :
        /\ socket[c] = "new" /\ socket' = [socket EXCEPT ![c] = "open"]
        /\ owner' = [owner EXCEPT ![c] = u]
        /\ presence' = [presence EXCEPT ![u] = c]
        /\ registry' = [registry EXCEPT ![u] = c]
        /\ clients' = clients \cup {c}
  BY DEF Connect
<1>2. TypeOK /\ OwnerInv /\ OpenIsRouted /\ BufferInv /\ UNCHANGED <<room, queues, stopping>>
  BY DEF IInv, Connect
<1>3. TypeOK'
  BY <1>1, <1>2 DEF TypeOK, queues
<1>4. OwnerInv'
  BY <1>1, <1>2 DEF OwnerInv, TypeOK
(* Nothing names a connection before its first event. *)
<1>5. \A v \in User : v # u => registry[v] # c /\ presence[v] # c
  BY <1>1, <1>2, Constants DEF OwnerInv, OpenIsRouted
<1>6. OpenIsRouted'
  <2>1. \A d \in Conn : socket'[d] = "open" => d \in clients'
    BY <1>1, <1>2 DEF OpenIsRouted, TypeOK
  <2>2. ASSUME NEW v \in User, registry'[v] # NoConn
        PROVE  registry'[v] \in clients' /\ owner'[registry'[v]] = v
    BY <1>1, <1>2, <1>5, <2>2 DEF OpenIsRouted, TypeOK
  <2>3. ASSUME NEW v \in User, presence'[v] # NoConn
        PROVE  socket'[presence'[v]] \in {"open", "lost"} /\ owner'[presence'[v]] = v
    BY <1>1, <1>2, <1>5, <2>3 DEF OpenIsRouted, TypeOK
  <2>4. QED
    BY <2>1, <2>2, <2>3 DEF OpenIsRouted
<1>7. QED
  BY <1>2, <1>3, <1>4, <1>6, BuffersStay DEF IInv

(* A close event removes its own connection, and of the user maps at most   *)
(* the entries of the connection's own user.                                *)
LEMMA CloseKeeps ==
  ASSUME IInv, NEW c \in Conn, Close(c)
  PROVE  IInv'
<1>1. TypeOK /\ OwnerInv /\ OpenIsRouted /\ BufferInv /\ UNCHANGED <<owner, room, queues, stopping>>
  BY DEF IInv, Close
<1>. DEFINE u == owner[c]
<1>2. /\ u \in User /\ socket[c] = "lost" /\ socket' = [socket EXCEPT ![c] = "gone"]
      /\ presence' = [presence EXCEPT ![u] = NoConn]
      /\ \/ registry[u] = NoConn /\ registry' = registry /\ clients' = clients
         \/ registry' = [registry EXCEPT ![u] = NoConn] /\ clients' = clients \ {c}
  BY <1>1 DEF Close, ClosedClient, OwnerInv
<1>3. TypeOK'
  BY <1>1, <1>2 DEF TypeOK, queues
<1>4. OwnerInv'
  BY <1>1, <1>2 DEF OwnerInv, TypeOK
<1>5. OpenIsRouted'
  <2>1. \A d \in Conn : socket'[d] = "open" => d \in clients'
    BY <1>1, <1>2 DEF OpenIsRouted, TypeOK
  <2>2. ASSUME NEW v \in User, registry'[v] # NoConn
        PROVE  registry'[v] \in clients' /\ owner'[registry'[v]] = v
    <3>1. v # u /\ registry'[v] = registry[v]
      BY <1>1, <1>2, <2>2 DEF TypeOK
    <3>2. registry[v] \in clients /\ owner[registry[v]] = v /\ registry[v] # c
      BY <1>1, <2>2, <3>1 DEF OpenIsRouted
    <3>3. QED
      BY <1>1, <1>2, <3>1, <3>2
  <2>3. ASSUME NEW v \in User, presence'[v] # NoConn
        PROVE  socket'[presence'[v]] \in {"open", "lost"} /\ owner'[presence'[v]] = v
    <3>1. v # u /\ presence'[v] = presence[v]
      BY <1>1, <1>2, <2>3 DEF TypeOK
    <3>2. /\ socket[presence[v]] \in {"open", "lost"} /\ owner[presence[v]] = v
          /\ presence[v] # c /\ presence[v] \in Conn
      BY <1>1, <2>3, <3>1 DEF OpenIsRouted, TypeOK
    <3>3. QED
      BY <1>1, <1>2, <3>1, <3>2 DEF TypeOK
  <2>4. QED
    BY <2>1, <2>2, <2>3 DEF OpenIsRouted
<1>6. QED
  BY <1>1, <1>3, <1>4, <1>5, BuffersStay DEF IInv

LEMMA ReceiveKeeps ==
  ASSUME IInv, NEW r \in Room, Receive(r)
  PROVE  IInv'
<1>. DEFINE targets == {c \in clients : room[c] = r}
<1>1. TypeOK /\ OwnerInv /\ OpenIsRouted /\ BufferInv
  BY DEF IInv
<1>2. /\ received < MaxMessages /\ received' = received + 1
      /\ routed' = [c \in Conn |-> IF c \in targets THEN routed[c] + 1 ELSE routed[c]]
      /\ buffer' = [c \in Conn |-> IF c \in targets THEN Enqueue(buffer[c], routed[c] + 1)
                                   ELSE buffer[c]]
      /\ UNCHANGED <<socket, owner, maps, room, delivered, stopping>>
  BY DEF Receive
<1>3. /\ received \in Nat /\ MaxMessages \in Nat
      /\ \A c \in Conn : /\ buffer[c] \in Seq(Message) /\ Len(buffer[c]) <= MaxBuffer
                         /\ routed[c] \in Nat /\ delivered[c] \in Nat
                         /\ routed[c] <= received
                         /\ InOrder(buffer[c], routed[c], delivered[c])
  BY <1>1, Constants DEF TypeOK, BufferInv, Message
<1>4. ASSUME NEW c \in Conn
      PROVE  /\ buffer'[c] \in Seq(Message) /\ Len(buffer'[c]) <= MaxBuffer
             /\ routed'[c] \in 0..MaxMessages /\ routed'[c] <= received'
             /\ InOrder(buffer'[c], routed'[c], delivered'[c])
  <2>1. CASE c \in targets
    <3>1. routed'[c] = routed[c] + 1 /\ buffer'[c] = Enqueue(buffer[c], routed[c] + 1)
      BY <1>2, <2>1
    <3>2. routed[c] < MaxMessages /\ delivered'[c] = delivered[c]
      BY <1>2, <1>3
    <3>3. /\ Enqueue(buffer[c], routed[c] + 1) \in Seq(Message)
          /\ Len(Enqueue(buffer[c], routed[c] + 1)) <= MaxBuffer
          /\ InOrder(Enqueue(buffer[c], routed[c] + 1), routed[c] + 1, delivered[c])
      BY <1>3, <3>2, EnqueueKeeps
    <3>4. QED
      BY <1>2, <1>3, <3>1, <3>2, <3>3
  <2>2. CASE c \notin targets
    BY <1>2, <1>3, <2>2
  <2>3. QED
    BY <2>1, <2>2
<1>5. TypeOK'
  <2>1. DOMAIN buffer' = Conn /\ buffer' \in [Conn -> Seq(Message)]
    BY <1>2, <1>4
  <2>2. routed' \in [Conn -> 0..MaxMessages]
    BY <1>2, <1>4
  <2>3. QED
    BY <1>1, <1>2, <1>3, <1>4, <2>1, <2>2 DEF TypeOK, maps, Message
<1>6. OwnerInv' /\ OpenIsRouted'
  BY <1>1, <1>2 DEF OwnerInv, OpenIsRouted, maps
<1>7. BufferInv'
  BY <1>4 DEF BufferInv
<1>8. QED
  BY <1>5, <1>6, <1>7 DEF IInv

LEMMA FlushKeeps ==
  ASSUME IInv, Flush
  PROVE  IInv'
<1>1. TypeOK /\ OwnerInv /\ OpenIsRouted /\ BufferInv
  BY DEF IInv
<1>2. /\ delivered' = [c \in Conn |-> IF c \in Ready THEN Last(buffer[c]) ELSE delivered[c]]
      /\ buffer' = [c \in Conn |-> IF c \in Ready THEN <<>> ELSE buffer[c]]
      /\ UNCHANGED <<socket, owner, maps, room, routed, received, stopping>>
  BY DEF Flush, AfterSend
<1>3. \A c \in Conn : /\ buffer[c] \in Seq(Message) /\ Len(buffer[c]) <= MaxBuffer
                       /\ routed[c] \in 0..MaxMessages /\ delivered[c] \in 0..MaxMessages
                       /\ routed[c] <= received
                       /\ InOrder(buffer[c], routed[c], delivered[c])
  BY <1>1, Constants DEF TypeOK, BufferInv, Message
<1>4. ASSUME NEW c \in Conn
      PROVE  /\ buffer'[c] \in Seq(Message) /\ Len(buffer'[c]) <= MaxBuffer
             /\ delivered'[c] \in 0..MaxMessages
             /\ InOrder(buffer'[c], routed'[c], delivered'[c])
  <2>1. CASE c \in Ready
    <3>1. buffer'[c] = <<>> /\ delivered'[c] = Last(buffer[c]) /\ buffer[c] # <<>>
      BY <1>2, <2>1 DEF Ready
    <3>2. Last(buffer[c]) = routed[c]
      BY <1>3, <3>1, LastIsNewest
    <3>3. <<>> \in Seq(Message) /\ Len(<<>>) = 0 /\ 0 <= MaxBuffer
      BY Constants, EmptySeq
    <3>4. InOrder(<<>>, routed[c], routed[c])
      BY <3>3 DEF InOrder
    <3>5. QED
      BY <1>2, <1>3, <3>1, <3>2, <3>3, <3>4
  <2>2. CASE c \notin Ready
    BY <1>2, <1>3, <2>2
  <2>3. QED
    BY <2>1, <2>2
<1>5. TypeOK'
  <2>1. buffer' \in [Conn -> Seq(Message)] /\ delivered' \in [Conn -> 0..MaxMessages]
    BY <1>2, <1>4
  <2>2. QED
    BY <1>1, <1>2, <1>4, <2>1 DEF TypeOK, maps, Message
<1>6. OwnerInv' /\ OpenIsRouted'
  BY <1>1, <1>2 DEF OwnerInv, OpenIsRouted, maps
<1>7. BufferInv'
  BY <1>2, <1>3, <1>4 DEF BufferInv
<1>8. QED
  BY <1>5, <1>6, <1>7 DEF IInv

LEMMA StopKeeps ==
  ASSUME IInv, Stop
  PROVE  IInv'
<1>1. TypeOK /\ OwnerInv /\ OpenIsRouted /\ BufferInv
  BY DEF IInv
<1>2. /\ stopping' = TRUE
      /\ socket' = [c \in Conn |-> IF socket[c] = "open" /\ \E u \in User : presence[u] = c
                                   THEN "lost" ELSE socket[c]]
      /\ presence' = [u \in User |-> NoConn] /\ registry' = [u \in User |-> NoConn]
      /\ UNCHANGED <<owner, clients, room, queues>>
  BY DEF Stop
<1>3. \A c \in Conn : socket'[c] = socket[c] \/ (socket[c] = "open" /\ socket'[c] = "lost")
  BY <1>2
<1>4. TypeOK'
  BY <1>1, <1>2 DEF TypeOK, queues
<1>5. OwnerInv'
  BY <1>1, <1>2, <1>3 DEF OwnerInv
<1>6. OpenIsRouted'
  BY <1>1, <1>2, <1>3 DEF OpenIsRouted
<1>7. QED
  BY <1>1, <1>2, <1>4, <1>5, <1>6, BuffersStay DEF IInv

LEMMA IInvStep ==
  ASSUME IInv, [Next]_vars
  PROVE  IInv'
<1>1. TypeOK /\ OwnerInv /\ OpenIsRouted /\ BufferInv
  BY DEF IInv
<1>2. ASSUME NEW c \in Conn, NEW r \in Room, Join(c, r)
      PROVE  IInv'
  <2>1. TypeOK'
    BY <1>1, <1>2 DEF Join, TypeOK, maps, queues
  <2>2. OwnerInv' /\ OpenIsRouted'
    BY <1>1, <1>2 DEF Join, OwnerInv, OpenIsRouted, maps
  <2>3. QED
    BY <1>1, <1>2, <2>1, <2>2, BuffersStay DEF Join, IInv
<1>3. ASSUME NEW c \in Conn, Lose(c)
      PROVE  IInv'
  <2>1. TypeOK'
    BY <1>1, <1>3 DEF Lose, TypeOK, maps, queues
  <2>2. OwnerInv'
    BY <1>1, <1>3 DEF Lose, OwnerInv, TypeOK
  <2>3. OpenIsRouted'
    BY <1>1, <1>3 DEF Lose, OpenIsRouted, TypeOK, maps
  <2>4. QED
    BY <1>1, <1>3, <2>1, <2>2, <2>3, BuffersStay DEF Lose, IInv
<1>4. CASE UNCHANGED vars
  <2>1. TypeOK' /\ OwnerInv' /\ OpenIsRouted' /\ BufferInv'
    BY <1>1, <1>4 DEF vars, maps, queues, TypeOK, OwnerInv, OpenIsRouted, BufferInv
  <2>2. QED
    BY <2>1 DEF IInv
<1>5. QED
  BY <1>2, <1>3, <1>4, ConnectKeeps, CloseKeeps, ReceiveKeeps, FlushKeeps, StopKeeps DEF Next

LEMMA Invariance == Spec => []IInv
<1>1. Init => IInv
  BY IInvInit
<1>2. IInv /\ [Next]_vars => IInv'
  BY IInvStep
<1>3. QED
  BY <1>1, <1>2, PTL DEF Spec

-----------------------------------------------------------------------------
(* Type correctness; in particular no buffer ever exceeds MAX_BUFFER_SIZE. *)
THEOREM TypeCorrect == Spec => []TypeOK
<1>1. IInv => TypeOK
  BY DEF IInv
<1>2. QED
  BY <1>1, Invariance, PTL

(* A late close event cuts no open connection off and leaves no user entry  *)
(* for a connection that is over, for any reconnects in any order.          *)
THEOREM OpenIsRoutedHolds == Spec => []OpenIsRouted
<1>1. IInv => OpenIsRouted
  BY DEF IInv
<1>2. QED
  BY <1>1, Invariance, PTL

(* No client misses a message without a gap event where it is missing, for  *)
(* any buffer size, however overflows, flushes and moves between rooms fall *)
(* together.                                                                *)
THEOREM NoSilentLossHolds == Spec => []NoSilentLoss
<1>1. ASSUME IInv, NEW c \in Conn
      PROVE  LET b == buffer[c]
                 s == <<delivered[c]>> \o b
             IN /\ Last(s) = routed[c]
                /\ \A i \in 2..Len(s) :
                      IF s[i] = Gap THEN i < Len(s) /\ s[i + 1] > s[i - 1] + 1
                      ELSE s[i] = s[i - 1] + 1 \/ (i > 2 /\ s[i - 1] = Gap)
  <2>1. PICK b \in Seq(Message), n \in Nat, d \in Nat :
          /\ b = buffer[c] /\ n = routed[c] /\ d = delivered[c] /\ d \in Message
          /\ InOrder(b, n, d)
    BY <1>1, Constants DEF IInv, TypeOK, BufferInv, Message, Gap
  <2>2. Len(b) \in Nat /\ Gap = 0
    BY LenProperties DEF Gap
  <2>3. PICK s \in Seq(Message) :
          /\ s = <<d>> \o b /\ Len(s) = Len(b) + 1 /\ s[1] = d
          /\ \A i \in 1..Len(b) : s[i + 1] = b[i]
    <3>1. <<d>> \in Seq(Message) /\ Len(<<d>>) = 1 /\ <<d>>[1] = d
      BY <2>1
    <3>2. /\ <<d>> \o b \in Seq(Message) /\ Len(<<d>> \o b) = 1 + Len(b)
          /\ \A i \in 1..(1 + Len(b)) :
               (<<d>> \o b)[i] = IF i <= 1 THEN <<d>>[i] ELSE b[i - 1]
      BY <3>1, ConcatProperties
    <3>3. 1 + Len(b) = Len(b) + 1 /\ (<<d>> \o b)[1] = d
      BY <2>2, <3>1, <3>2
    <3>4. ASSUME NEW i \in 1..Len(b)
          PROVE  (<<d>> \o b)[i + 1] = b[i]
      <4>1. i + 1 \in 1..(1 + Len(b)) /\ ~(i + 1 <= 1) /\ i + 1 - 1 = i
        BY <2>2
      <4>2. QED
        BY <3>2, <4>1
    <3>5. QED
      BY <3>2, <3>3, <3>4
  <2>4. Last(s) = n
    <3>1. CASE b = <<>>
      BY <2>1, <2>2, <2>3, <3>1 DEF Last, InOrder
    <3>2. CASE b # <<>>
      <4>1. Last(b) = n /\ Len(b) \in 1..Len(b)
        BY <2>1, <3>2, LastIsNewest, EmptySeq
      <4>2. s[Len(b) + 1] = b[Len(b)]
        BY <2>3, <4>1
      <4>3. QED
        BY <2>3, <4>1, <4>2 DEF Last
    <3>3. QED
      BY <3>1, <3>2
  <2>5. ASSUME NEW i \in 2..Len(s)
        PROVE  IF s[i] = Gap THEN i < Len(s) /\ s[i + 1] > s[i - 1] + 1
               ELSE s[i] = s[i - 1] + 1 \/ (i > 2 /\ s[i - 1] = Gap)
    <3>1. i \in Nat /\ i - 1 \in 1..Len(b) /\ b # <<>> /\ i - 1 + 1 = i
      BY <2>2, <2>3, EmptySeq
    <3>2. s[i] = b[i - 1]
      BY <2>3, <3>1
    <3>3. (b[1] = d + 1 /\ d = n - Len(b)) \/ (b[1] = Gap /\ Len(b) > 1 /\ d <= n - Len(b))
      BY <2>1, <3>1 DEF InOrder
    <3>4. \A j \in 2..Len(b) : b[j] = n - Len(b) + j
      BY <2>1 DEF InOrder
    <3>5. CASE i = 2
      <4>1. s[2] = b[1] /\ s[1] = d
        BY <2>3, <3>2, <3>5
      <4>2. CASE b[1] = d + 1
        BY <2>2, <3>5, <4>1, <4>2
      <4>3. CASE b[1] = Gap /\ Len(b) > 1 /\ d <= n - Len(b)
        <5>1. 2 \in 2..Len(b) /\ 2 \in 1..Len(b)
          BY <2>2, <4>3
        <5>2. s[2 + 1] = b[2] /\ b[2] = n - Len(b) + 2
          BY <2>3, <3>4, <5>1
        <5>3. b[2] > d + 1
          BY <2>2, <4>3, <5>2
        <5>4. QED
          BY <2>2, <2>3, <3>5, <4>1, <4>3, <5>2, <5>3
      <4>4. QED
        BY <3>3, <4>2, <4>3
    <3>6. CASE i > 2
      <4>1. i - 1 \in 2..Len(b) /\ i - 2 \in 1..Len(b) /\ i - 2 + 1 = i - 1
        BY <2>2, <3>1, <3>6
      <4>2. s[i] = n - Len(b) + (i - 1) /\ s[i - 1] = b[i - 2]
        BY <2>3, <3>2, <3>4, <4>1
      <4>3. d <= n - Len(b)
        BY <2>2, <3>3
      <4>4. s[i] # Gap
        BY <2>2, <3>1, <3>6, <4>2, <4>3
      <4>5. s[i] = s[i - 1] + 1 \/ s[i - 1] = Gap
        <5>1. CASE i = 3
          <6>1. s[i] = n - Len(b) + 2 /\ s[i - 1] = b[1]
            BY <4>2, <5>1
          <6>2. QED
            BY <2>2, <3>3, <6>1
        <5>2. CASE i > 3
          <6>1. i - 2 \in 2..Len(b)
            BY <3>1, <4>1, <5>2
          <6>2. b[i - 2] = n - Len(b) + (i - 2)
            BY <3>4, <6>1
          <6>3. n - Len(b) + (i - 1) = n - Len(b) + (i - 2) + 1
            BY <2>2, <3>1
          <6>4. QED
            BY <4>2, <6>2, <6>3
        <5>3. QED
          BY <3>1, <3>6, <5>1, <5>2
      <4>6. QED
        BY <3>6, <4>4, <4>5
    <3>7. QED
      BY <3>1, <3>5, <3>6
  <2>6. QED
    BY <2>1, <2>3, <2>4, <2>5
<1>2. IInv => NoSilentLoss
  BY <1>1 DEF NoSilentLoss
<1>3. QED
  BY <1>2, Invariance, PTL

-----------------------------------------------------------------------------
Elements(b) == {b[i] : i \in DOMAIN b}

(* The messages in a buffer are the newest ones, without a hole, and the    *)
(* buffer has one more event than messages if it has a gap.                 *)
LEMMA NewestWait ==
  ASSUME NEW b \in Seq(Message), NEW n \in Nat, NEW d \in Nat, b # <<>>, InOrder(b, n, d)
  PROVE  \E k \in 1..n : /\ Elements(b) \ {Gap} = k..n
                         /\ Len(b) = n - k + 1 + (IF Gap \in Elements(b) THEN 1 ELSE 0)
<1>1. Len(b) \in Nat \ {0} /\ DOMAIN b = 1..Len(b) /\ Gap = 0
  BY EmptySeq, LenProperties DEF Gap
<1>2. \A i \in 2..Len(b) : b[i] = n - Len(b) + i
  BY DEF InOrder
<1>3. CASE b[1] = d + 1 /\ d = n - Len(b)
  <2>1. \A i \in 1..Len(b) : b[i] = n - Len(b) + i
    BY <1>1, <1>2, <1>3
  <2>2. ASSUME NEW m \in (d + 1)..n
        PROVE  m \in Elements(b)
    <3>1. m - d \in 1..Len(b) /\ b[m - d] = m
      BY <1>1, <1>3, <2>1
    <3>2. QED
      BY <1>1, <3>1 DEF Elements
  <2>3. ASSUME NEW x \in Elements(b)
        PROVE  x \in (d + 1)..n
    <3>1. PICK i \in 1..Len(b) : x = b[i]
      BY <1>1 DEF Elements
    <3>2. QED
      BY <1>1, <1>3, <2>1, <3>1
  <2>4. Elements(b) = (d + 1)..n
    BY <2>2, <2>3
  <2>5. Gap \notin Elements(b) /\ Elements(b) \ {Gap} = (d + 1)..n
    BY <1>1, <2>4
  <2>6. d + 1 \in 1..n /\ Len(b) = n - (d + 1) + 1 + 0
    BY <1>1, <1>3
  <2>7. QED
    BY <2>5, <2>6
<1>4. CASE b[1] = Gap /\ Len(b) > 1 /\ d <= n - Len(b)
  <2>1. PICK k \in 1..n : k = n - Len(b) + 2
    <3>1. n - Len(b) + 2 \in 1..n
      BY <1>1, <1>4
    <3>2. QED
      BY <3>1
  <2>2. ASSUME NEW m \in k..n
        PROVE  m \in Elements(b) \ {Gap}
    <3>1. m - k + 2 \in 2..Len(b) /\ b[m - k + 2] = m
      BY <1>1, <1>2, <2>1
    <3>2. QED
      BY <1>1, <3>1 DEF Elements
  <2>3. ASSUME NEW x \in Elements(b) \ {Gap}
        PROVE  x \in k..n
    <3>1. PICK i \in 1..Len(b) : x = b[i]
      BY <1>1 DEF Elements
    <3>2. i # 1
      BY <1>4, <3>1
    <3>3. QED
      BY <1>1, <1>2, <2>1, <3>1, <3>2
  <2>4. Elements(b) \ {Gap} = k..n
    BY <2>2, <2>3
  <2>5. Gap \in Elements(b)
    BY <1>1, <1>4 DEF Elements
  <2>6. Len(b) = n - k + 1 + 1
    BY <1>1, <2>1
  <2>7. QED
    BY <2>4, <2>5, <2>6
<1>5. QED
  BY <1>3, <1>4 DEF InOrder

(* Routing a message either puts it behind the others or leaves the newest  *)
(* half of a full buffer behind a gap.                                      *)
LEMMA EnqueueIs ==
  ASSUME NEW b \in Seq(Message), Len(b) <= MaxBuffer, NEW n \in Nat, NEW d \in Nat,
         n < MaxMessages, InOrder(b, n, d)
  PROVE  \/ Elements(Enqueue(b, n + 1)) = Elements(b) \cup {n + 1}
         \/ /\ Len(b) = MaxBuffer /\ Gap \in Elements(Enqueue(b, n + 1))
            /\ Elements(Enqueue(b, n + 1)) \ {Gap} = (n - MaxBuffer \div 2 + 2)..(n + 1)
<1>1. PICK h \in Nat \ {0} : h = MaxBuffer \div 2 /\ MaxBuffer = 2 * h
  BY Constants
<1>2. Len(b) \in Nat /\ n + 1 \in Message /\ Gap = 0 /\ Gap \in Message
  BY LenProperties, Constants DEF Message, Gap
<1>3. PICK p \in Seq(Message) :
        /\ p = Append(b, n + 1) /\ Len(p) = Len(b) + 1
        /\ \A i \in 1..Len(b) : p[i] = b[i]
        /\ p[Len(b) + 1] = n + 1
  BY <1>2, AppendProperties
<1>4. CASE Len(p) <= MaxBuffer
  <2>1. Enqueue(b, n + 1) = p
    BY <1>1, <1>2, <1>3, <1>4 DEF Enqueue, Overflows
  <2>2. DOMAIN p = 1..(Len(b) + 1) /\ DOMAIN b = 1..Len(b)
    BY <1>3, LenProperties
  <2>3. DOMAIN p = DOMAIN b \cup {Len(b) + 1}
    BY <1>2, <2>2
  <2>4. Elements(p) = Elements(b) \cup {n + 1}
    BY <1>3, <2>2, <2>3 DEF Elements
  <2>5. QED
    BY <2>1, <2>4
<1>5. CASE Len(p) > MaxBuffer
  <2>1. Len(p) = 2 * h + 1 /\ Len(b) = MaxBuffer
    BY <1>1, <1>2, <1>3, <1>5
  <2>2. PICK q \in Seq(Message) : q = SubSeq(p, h + 2, 2 * h + 1) /\ Len(q) = h
    <3>1. \A i \in (h + 2)..(2 * h + 1) : p[i] \in Message
      <4>1. \A i \in 1..Len(p) : p[i] \in Message
        BY <1>3, ElementOfSeq
      <4>2. QED
        BY <2>1, <4>1
    <3>2. /\ SubSeq(p, h + 2, 2 * h + 1) \in Seq(Message)
          /\ Len(SubSeq(p, h + 2, 2 * h + 1)) = h
      BY <3>1, SubSeqProperties
    <3>3. QED
      BY <3>2
  <2>3. PICK s \in Seq(Message) : s = <<Gap>> \o q /\ Len(s) = h + 1 /\ s[1] = Gap
    <3>1. <<Gap>> \in Seq(Message) /\ Len(<<Gap>>) = 1 /\ <<Gap>>[1] = Gap
      BY <1>2
    <3>2. /\ <<Gap>> \o q \in Seq(Message) /\ Len(<<Gap>> \o q) = 1 + h
          /\ \A i \in 1..(1 + h) :
               (<<Gap>> \o q)[i] = IF i <= 1 THEN <<Gap>>[i] ELSE q[i - 1]
      BY <2>2, <3>1, ConcatProperties
    <3>3. (<<Gap>> \o q)[1] = Gap /\ 1 + h = h + 1
      BY <3>1, <3>2
    <3>4. QED
      BY <3>2, <3>3
  <2>4. Enqueue(b, n + 1) = s
    <3>1. Len(p) - h + 1 = h + 2
      BY <2>1
    <3>2. QED
      BY <1>1, <1>3, <1>5, <2>1, <2>2, <2>3, <3>1 DEF Enqueue, Overflows, Shed
  <2>5. InOrder(s, n + 1, d)
    BY <2>4, EnqueueKeeps
  <2>6. s # <<>> /\ n + 1 \in Nat /\ DOMAIN s = 1..(h + 1)
    BY <2>3, LenProperties
  <2>7. Gap \in Elements(s)
    BY <2>3, <2>6 DEF Elements
  <2>8. PICK k \in 1..(n + 1) : Elements(s) \ {Gap} = k..(n + 1) /\ Len(s) = n + 1 - k + 1 + 1
    <3>1. PICK x \in Nat : x = n + 1
      BY <2>6
    <3>2. InOrder(s, x, d)
      BY <2>5, <3>1
    <3>3. \E k \in 1..x : /\ Elements(s) \ {Gap} = k..x
                          /\ Len(s) = x - k + 1 + (IF Gap \in Elements(s) THEN 1 ELSE 0)
      BY <2>6, <3>2, NewestWait
    <3>4. QED
      BY <2>7, <3>1, <3>3
  <2>9. k = n - h + 2
    BY <2>3, <2>8
  <2>10. QED
    BY <1>1, <2>1, <2>4, <2>7, <2>8, <2>9
<1>6. QED
  BY <1>1, <1>2, <1>3, <1>4, <1>5

(* Route of LossyFeed, for the messages H and H2 that wait before and after *)
(* it, and W and W2, whether the client will be warned.                     *)
Routes(n, H, W, H2, W2) ==
    LET all == H \cup {n + 1}
    IN /\ \E oldest \in all : H2 = {m \in all : m >= oldest}
       /\ H2 # all => /\ Cardinality(H) + (IF W THEN 1 ELSE 0) >= MaxBuffer
                      /\ \A m \in 0..((MaxBuffer \div 2) - 1) : n + 1 - m \in H2
       /\ W2 = (W \/ H2 # all)

LEMMA EnqueueRoutes ==
  ASSUME NEW b \in Seq(Message), Len(b) <= MaxBuffer, NEW n \in Nat, NEW d \in Nat,
         n < MaxMessages, InOrder(b, n, d)
  PROVE  Routes(n, Elements(b) \ {Gap}, Gap \in Elements(b),
                Elements(Enqueue(b, n + 1)) \ {Gap}, Gap \in Elements(Enqueue(b, n + 1)))
<1>1. PICK H, H2 : H = Elements(b) \ {Gap} /\ H2 = Elements(Enqueue(b, n + 1)) \ {Gap}
  OBVIOUS
<1>2. PICK W \in BOOLEAN, W2 \in BOOLEAN :
        W = (Gap \in Elements(b)) /\ W2 = (Gap \in Elements(Enqueue(b, n + 1)))
  <2>1. \A x, S : (x \in S) \in BOOLEAN
    OBVIOUS
  <2>2. QED
    BY <2>1, Zenon
<1>3. PICK h \in Nat \ {0} : h = MaxBuffer \div 2 /\ MaxBuffer = 2 * h
  BY Constants
<1>4. SUFFICES Routes(n, H, W, H2, W2)
  BY <1>1, <1>2
<1>5. Gap = 0 /\ n + 1 # Gap /\ Len(b) \in Nat
  BY LenProperties DEF Gap
<1>6. PICK k \in 1..(n + 1) : /\ H = k..n
                              /\ b # <<>> => Len(b) = n - k + 1 + (IF W THEN 1 ELSE 0)
  <2>1. CASE b = <<>>
    <3>1. H = {}
      BY <1>1, <2>1 DEF Elements
    <3>2. (n + 1)..n = {} /\ n + 1 \in 1..(n + 1)
      OBVIOUS
    <3>3. QED
      BY <2>1, <3>1, <3>2
  <2>2. CASE b # <<>>
    <3>1. PICK k \in 1..n : /\ Elements(b) \ {Gap} = k..n
                            /\ Len(b) = n - k + 1 + (IF Gap \in Elements(b) THEN 1 ELSE 0)
      BY <2>2, NewestWait
    <3>2. k \in 1..(n + 1)
      OBVIOUS
    <3>3. QED
      BY <1>1, <1>2, <3>1, <3>2
  <2>3. QED
    BY <2>1, <2>2
<1>7. CASE Elements(Enqueue(b, n + 1)) = Elements(b) \cup {n + 1}
  <2>1. H2 = H \cup {n + 1} /\ W2 = W
    BY <1>1, <1>2, <1>5, <1>7
  <2>2. k \in H \cup {n + 1} /\ H \cup {n + 1} = {m \in H \cup {n + 1} : m >= k}
    BY <1>6
  <2>3. QED
    BY <2>1, <2>2 DEF Routes
<1>8. CASE /\ Len(b) = MaxBuffer /\ Gap \in Elements(Enqueue(b, n + 1))
           /\ Elements(Enqueue(b, n + 1)) \ {Gap} = (n - MaxBuffer \div 2 + 2)..(n + 1)
  <2>1. H2 = (n - h + 2)..(n + 1) /\ W2 = TRUE
    BY <1>1, <1>2, <1>3, <1>8
  <2>2. 2 * h = n - k + 1 + (IF W THEN 1 ELSE 0)
    <3>1. b # <<>>
      BY <1>3, <1>8, EmptySeq
    <3>2. QED
      BY <1>3, <1>6, <1>8, <3>1
  <2>3. n - k + 1 >= 2 * h - 1 /\ k < n - h + 2 /\ k <= n
    BY <2>2
  <2>4. n - h + 2 \in H \cup {n + 1}
    BY <1>6, <2>3
  <2>5. H2 = {m \in H \cup {n + 1} : m >= n - h + 2}
    BY <1>6, <2>1, <2>3
  <2>6. k \in H \cup {n + 1} /\ k \notin H2
    BY <1>6, <2>1, <2>3
  <2>7. Cardinality(H) + (IF W THEN 1 ELSE 0) >= MaxBuffer
    <3>1. Cardinality(H) = n - k + 1
      <4>1. k \in Int /\ n \in Int /\ ~(k > n)
        BY <2>3
      <4>2. QED
        BY <1>6, <4>1, FS_Interval
    <3>2. QED
      BY <1>3, <2>2, <3>1
  <2>8. \A m \in 0..((MaxBuffer \div 2) - 1) : n + 1 - m \in H2
    BY <1>3, <2>1
  <2>9. QED
    BY <2>1, <2>4, <2>5, <2>6, <2>7, <2>8 DEF Routes
<1>9. QED
  BY <1>7, <1>8, EnqueueIs

LEMMA ReceiveFeeds ==
  ASSUME IInv, NEW r \in Room, Receive(r), NEW c \in Conn
  PROVE  [Feed(c)!Next]_(Feed(c)!vars)
<1>. DEFINE targets == {t \in clients : room[t] = r}
<1>1. /\ received < MaxMessages
      /\ routed' = [t \in Conn |-> IF t \in targets THEN routed[t] + 1 ELSE routed[t]]
      /\ buffer' = [t \in Conn |-> IF t \in targets THEN Enqueue(buffer[t], routed[t] + 1)
                                   ELSE buffer[t]]
      /\ delivered' = delivered
  BY DEF Receive
<1>2. CASE c \notin targets
  <2>1. routed'[c] = routed[c] /\ buffer'[c] = buffer[c] /\ delivered'[c] = delivered[c]
    BY <1>1, <1>2
  <2>2. QED
    BY <2>1 DEF Feed!vars, Waiting
<1>3. CASE c \in targets
  <2>1. PICK b, n, d : b = buffer[c] /\ n = routed[c] /\ d = delivered[c]
    OBVIOUS
  <2>2. routed'[c] = n + 1 /\ buffer'[c] = Enqueue(b, n + 1) /\ delivered'[c] = delivered[c]
    BY <1>1, <1>3, <2>1
  <2>3. /\ b \in Seq(Message) /\ Len(b) <= MaxBuffer /\ n \in Nat /\ d \in Nat
        /\ n < MaxMessages /\ InOrder(b, n, d)
    BY <1>1, <2>1, Constants DEF IInv, TypeOK, BufferInv, Message
  <2>4. Routes(n, Elements(b) \ {Gap}, Gap \in Elements(b),
               Elements(buffer'[c]) \ {Gap}, Gap \in Elements(buffer'[c]))
    BY <2>2, <2>3, EnqueueRoutes
  <2>5. Waiting(c) = Elements(b) /\ Waiting(c)' = Elements(buffer'[c])
    BY <2>1 DEF Waiting, Elements
  <2>6. Feed(c)!Route
    BY <2>1, <2>2, <2>4, <2>5 DEF Feed!Route, Routes, Feed!Full, Feed!Cardinality, Cardinality,
       Feed!IsFiniteSet, IsFiniteSet
  <2>7. QED
    BY <2>6 DEF Feed!Next
<1>4. QED
  BY <1>2, <1>3

LEMMA FlushFeeds ==
  ASSUME IInv, Flush, NEW c \in Conn
  PROVE  [Feed(c)!Next]_(Feed(c)!vars)
<1>1. /\ delivered' = [t \in Conn |-> IF t \in Ready THEN Last(buffer[t]) ELSE delivered[t]]
      /\ buffer' = [t \in Conn |-> IF t \in Ready THEN <<>> ELSE buffer[t]]
      /\ routed' = routed
  BY DEF Flush, AfterSend
<1>2. CASE c \notin Ready
  <2>1. routed'[c] = routed[c] /\ buffer'[c] = buffer[c] /\ delivered'[c] = delivered[c]
    BY <1>1, <1>2
  <2>2. QED
    BY <2>1 DEF Feed!vars, Waiting
<1>3. CASE c \in Ready
  <2>1. PICK b, n, d : b = buffer[c] /\ n = routed[c] /\ d = delivered[c]
    OBVIOUS
  <2>2. b \in Seq(Message) /\ n \in Nat /\ d \in Nat /\ InOrder(b, n, d) /\ b # <<>>
    BY <1>3, <2>1, Constants DEF IInv, TypeOK, BufferInv, Message, Ready
  <2>3. PICK k \in 1..n : Elements(b) \ {Gap} = k..n
    BY <2>2, NewestWait
  <2>4. Elements(b) \ {Gap} # {}
    <3>1. n \in k..n
      BY <2>2
    <3>2. QED
      BY <2>3, <3>1
  <2>5. delivered'[c] = n /\ buffer'[c] = <<>> /\ routed'[c] = n
    BY <1>1, <1>3, <2>1, <2>2, LastIsNewest
  <2>6. Waiting(c) = Elements(b) /\ Waiting(c)' = {}
    BY <2>1, <2>5 DEF Waiting, Elements
  <2>7. Feed(c)!Send
    BY <2>1, <2>4, <2>5, <2>6 DEF Feed!Send
  <2>8. QED
    BY <2>7 DEF Feed!Next
<1>4. QED
  BY <1>2, <1>3

(* For any buffer size and any connections, rooms, joins, breaks and        *)
(* flushes, what reaches a client is what the lossy feed of ADR-026 sends.  *)
THEOREM ImplementsLossyFeedHolds == Spec => ImplementsLossyFeed
<1>1. ASSUME Init, NEW c \in Conn
      PROVE  Feed(c)!Init
  BY <1>1 DEF Init, Feed!Init, Waiting
<1>2. ASSUME IInv, [Next]_vars, NEW c \in Conn
      PROVE  [Feed(c)!Next]_(Feed(c)!vars)
  <2>1. CASE UNCHANGED queues
    <3>1. routed' = routed /\ buffer' = buffer /\ delivered' = delivered
      BY <2>1 DEF queues
    <3>2. QED
      BY <3>1 DEF Feed!vars, Waiting
  <2>2. CASE UNCHANGED vars
    BY <2>1, <2>2 DEF vars
  <2>3. UNCHANGED queues \/ Flush \/ (\E r \in Room : Receive(r)) \/ UNCHANGED vars
    BY <1>2 DEF Next, Stop, Connect, Lose, Close, Join
  <2>4. QED
    BY <1>2, <2>1, <2>2, <2>3, FlushFeeds, ReceiveFeeds
<1>3. Init => \A c \in Conn : Feed(c)!Init
  BY <1>1
<1>4. IInv /\ [Next]_vars => [\A c \in Conn : [Feed(c)!Next]_(Feed(c)!vars)]_vars
  BY <1>2
<1>5. QED
  BY <1>3, <1>4, Invariance, PTL DEF Spec, ImplementsLossyFeed
=============================================================================
