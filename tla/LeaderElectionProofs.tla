------------------------ MODULE LeaderElectionProofs ------------------------
(* Proofs about LeaderElection for every TTL and every number of electors,  *)
(* when the delay of a campaign stays below the half TTL left on the lock.  *)
EXTENDS LeaderElection, SequenceTheorems, TLAPS

(* The timing the comment at redis.ts:20 relies on: "Run at half the TTL to *)
(* ensure we renew before expiration".                                      *)
Prompt == RenewEvery + MaxLag < TTL

Running(n) == status[n] = "running"
Idle(n) == requests[n] = <<>> /\ replies[n] = <<>>
Sent(n, cmd) == requests[n] = <<cmd>> /\ replies[n] = <<>>
Got(n, cmd, v) == requests[n] = <<>> /\ replies[n] = <<<<cmd, v>>>>

(* One command at a time: the previous campaign is over when the interval   *)
(* fires again.  A stopped elector awaits no reply.                         *)
Pipe(n) ==
    /\ \/ Idle(n)
       \/ \E cmd \in Command : Sent(n, cmd)
       \/ \E cmd \in Command, v \in Node \cup {None} : Got(n, cmd, v)
    /\ Running(n) /\ ~Idle(n) => timer[n] + lag[n] >= RenewEvery
    /\ ~Running(n) => replies[n] = <<>>
    /\ status[n] = "new" => Idle(n) /\ ~isLeader[n] /\ lock.owner # n
    /\ timer[n] <= RenewEvery

(* n counts on the lock being its own. *)
Relies(n) ==
    \/ Acting(n)
    \/ Sent(n, "SET")
    \/ Got(n, "SETNX", n) \/ Got(n, "GET", n) \/ Got(n, "SET", n)

(* The lock outlives the next campaign, or the campaign under way. *)
Fresh(n) == lock.ttl >= timer[n] + MaxLag + 1
Waiting(n) == lock.ttl + lag[n] >= MaxLag + 1

Settled(n) ==
    /\ Running(n)
    /\ (Idle(n) /\ timer[n] > 0) \/ Got(n, "SETNX", n) \/ Got(n, "SET", n)
Covered(n) == IF Settled(n) THEN Fresh(n) ELSE Waiting(n)

HolderInv(n) ==
    /\ Relies(n) => lock.owner = n /\ Covered(n)
    /\ Running(n) /\ lock.owner = n => Relies(n)
    /\ \A v \in Node \cup {None} : Got(n, "GET", v) /\ v # n => ~isLeader[n]
    /\ \A v \in Node \cup {None} : Got(n, "SET", v) => v = n

IInv == TypeOK /\ \A n \in Node : Pipe(n) /\ HolderInv(n)

-----------------------------------------------------------------------------
(* Taking the only element leaves an empty queue. *)
LEMMA OneElement ==
  ASSUME NEW x
  PROVE  /\ <<x>> # <<>> /\ Head(<<x>>) = x /\ Tail(<<x>>) = <<>>
         /\ Append(<<>>, x) = <<x>> /\ Len(<<x>>) = 1 /\ Len(<<>>) = 0
         /\ SubSeq(<<x>>, 1, 0) = <<>> /\ SubSeq(<<x>>, 1, 1) = <<x>>
         /\ SubSeq(<<>>, 1, 0) = <<>>
<1>. DEFINE s == <<x>>
<1>1. s \in Seq({x}) /\ s # <<>> /\ Len(s) = 1 /\ s[1] = x /\ Len(<<>>) = 0
  OBVIOUS
<1>2. Head(s) = x
  OBVIOUS
<1>3. Tail(s) = <<>>
  OBVIOUS
<1>4. Append(<<>>, x) = s
  OBVIOUS
<1>5. SubSeq(s, 1, 0) = <<>> /\ SubSeq(<<>>, 1, 0) = <<>>
  OBVIOUS
<1>6. SubSeq(s, 1, 1) = s
  BY <1>1, SubSeqFull
<1>7. QED
  BY <1>1, <1>2, <1>3, <1>4, <1>5, <1>6

(* The holder of the key is an elector or None. *)
LEMMA LockOwnerType ==
  ASSUME TypeOK
  PROVE  lock.owner \in Node \cup {None} /\ lock.ttl \in Nat
BY LeaseAssumption DEF TypeOK, NoLock

(* Every step of an elector, Redis or the clock keeps the types. *)
LEMMA TypeStep ==
  ASSUME TypeOK, [Next]_vars
  PROVE  TypeOK'
<1>. USE LeaseAssumption DEF TypeOK
<1>0. /\ RenewEvery \in 0..TTL
      /\ \A n \in Node : Held(n) \in [owner : Node, ttl : 1..TTL]
  BY DEF RenewEvery, Held
<1>1. CASE Tick
  <2>1. Aged \in [owner : Node, ttl : 1..TTL] \cup {NoLock}
    <3>1. CASE lock = NoLock
      BY <3>1 DEF Aged, NoLock
    <3>2. CASE lock \in [owner : Node, ttl : 1..TTL] /\ lock.ttl > 1
      <4>1. Aged = [lock EXCEPT !.ttl = lock.ttl - 1] /\ lock.ttl - 1 \in 1..TTL
        BY <3>2 DEF Aged
      <4>2. QED
        BY <3>2, <4>1
    <3>3. CASE lock \in [owner : Node, ttl : 1..TTL] /\ lock.ttl = 1
      BY <3>3 DEF Aged
    <3>4. QED
      BY <3>1, <3>2, <3>3
  <2>2. QED
    BY <1>1, <2>1 DEF Tick
<1>2. ASSUME NEW n \in Node, Start(n)
      PROVE  TypeOK'
  <2>1. <<"SETNX">> \in Seq(Command)
    BY DEF Command
  <2>2. QED
    BY <1>0, <1>2, <2>1 DEF Start
<1>3. ASSUME NEW n \in Node, Campaign(n)
      PROVE  TypeOK'
  <2>1. Append(requests[n], "SETNX") \in Seq(Command)
    BY DEF Command
  <2>2. QED
    BY <1>0, <1>3, <2>1 DEF Campaign
<1>4. ASSUME NEW n \in Node, Stop(n)
      PROVE  TypeOK'
  <2>1. PICK k \in 0..Len(requests[n]) : requests' = [requests EXCEPT ![n] = SubSeq(@, 1, k)]
    BY <1>4 DEF Stop
  <2>2. SubSeq(requests[n], 1, k) \in Seq(Command)
    BY <2>1
  <2>3. <<>> \in Seq(Command \X (Node \cup {None}))
    OBVIOUS
  <2>4. QED
    BY <1>4, <2>1, <2>2, <2>3 DEF Stop
<1>5. ASSUME NEW n \in Node, Exec(n)
      PROVE  TypeOK'
  <2>1. PICK cmd \in Command, v \in Node \cup {None} : Executes(n, cmd) /\ Answers(n, cmd, v)
    BY <1>5, LockOwnerType DEF Exec, ExecSetNX, ExecGet, ExecSet, Command
  <2>2. Tail(requests[n]) \in Seq(Command)
    BY <2>1 DEF Executes
  <2>3. Append(replies[n], <<cmd, v>>) \in Seq(Command \X (Node \cup {None}))
    OBVIOUS
  <2>4. lock' \in [owner : Node, ttl : 1..TTL] \cup {NoLock}
    BY <1>0, <1>5 DEF Exec, ExecSetNX, ExecGet, ExecSet
  <2>5. QED
    BY <2>1, <2>2, <2>3, <2>4 DEF Executes, Answers
<1>6. ASSUME NEW n \in Node, Resume(n)
      PROVE  TypeOK'
  <2>1. PICK cmd \in Command : Resumes(n, cmd)
    BY <1>6 DEF Resume, OnSetNX, OnGet, OnSet, Command
  <2>2. Tail(replies[n]) \in Seq(Command \X (Node \cup {None}))
    BY <2>1 DEF Resumes
  <2>3. \A c \in Command : Append(requests[n], c) \in Seq(Command)
    OBVIOUS
  <2>4. requests' \in [Node -> Seq(Command)] /\ isLeader' \in [Node -> BOOLEAN]
    <3>1. "GET" \in Command /\ "SET" \in Command
      BY DEF Command
    <3>2. CASE OnSetNX(n)
      BY <2>3, <3>1, <3>2 DEF OnSetNX
    <3>3. CASE OnGet(n)
      <4>1. CASE Head(replies[n])[2] = n
        <5>1. /\ requests' = [requests EXCEPT ![n] = Append(requests[n], "SET")]
              /\ isLeader' = isLeader
          BY <3>3, <4>1, Zenon DEF OnGet
        <5>2. QED
          BY <2>3, <3>1, <5>1
      <4>2. CASE Head(replies[n])[2] # n
        BY <3>3, <4>2 DEF OnGet
      <4>3. QED
        BY <4>1, <4>2
    <3>4. CASE OnSet(n)
      BY <3>4 DEF OnSet
    <3>5. QED
      BY <1>6, <3>2, <3>3, <3>4 DEF Resume
  <2>5. QED
    BY <2>1, <2>2, <2>4 DEF Resumes
<1>7. CASE UNCHANGED vars
  BY <1>7 DEF vars
<1>8. QED
  BY <1>1, <1>2, <1>3, <1>4, <1>5, <1>6, <1>7 DEF Next

(* Types are preserved whatever the timing: no slowness, no loss of replies *)
(* and no stop() puts an ill-formed value anywhere.                         *)
THEOREM TypeCorrect == Spec => []TypeOK
<1>1. Init => TypeOK
  BY LeaseAssumption DEF Init, TypeOK, NoLock
<1>2. TypeOK /\ [Next]_vars => TypeOK'
  BY TypeStep
<1>3. QED
  BY <1>1, <1>2, PTL DEF Spec

-----------------------------------------------------------------------------
(* The states of one connection exclude each other. *)
Exclusive(n) ==
    /\ \A c : Sent(n, c) => ~Idle(n)
    /\ \A c, v : Got(n, c, v) => ~Idle(n)
    /\ \A c, d, v : ~(Sent(n, c) /\ Got(n, d, v))
    /\ \A c, d : Sent(n, c) /\ Sent(n, d) => c = d
    /\ \A c, d, v, w : Got(n, c, v) /\ Got(n, d, w) => c = d /\ v = w

(* The shapes a connection can be in exclude each other. *)
LEMMA PipeStatesExclusive ==
  ASSUME NEW n
  PROVE  Exclusive(n) /\ Exclusive(n)'
<1>1. \A x : <<x>> # <<>>
  BY OneElement
<1>2. \A x, y : <<x>> = <<y>> => x = y
  OBVIOUS
<1>3. \A x, y, v, w : <<x, v>> = <<y, w>> => x = y /\ v = w
  OBVIOUS
<1>4. Exclusive(n)
  BY <1>1, <1>2, <1>3, Zenon DEF Exclusive, Sent, Got, Idle
<1>5. Exclusive(n)'
  BY <1>1, <1>2, <1>3, Zenon DEF Exclusive, Sent, Got, Idle
<1>6. QED
  BY <1>4, <1>5

(* Half the TTL exceeds the delay. *)
LEMMA Half == Prompt => MaxLag < RenewEvery /\ RenewEvery * 2 = TTL /\ RenewEvery \in Nat
BY LeaseAssumption DEF Prompt, RenewEvery

(* A step of one elector leaves the others' part of the invariant alone,   *)
(* even when it takes a lock they do not rely on.                          *)
LEMMA Others ==
  ASSUME IInv, NEW n \in Node, NEW m \in Node, m # n,
         status'[m] = status[m], isLeader'[m] = isLeader[m], timer'[m] = timer[m],
         requests'[m] = requests[m], replies'[m] = replies[m], lag'[m] = lag[m],
         lock' = lock \/ (lock' = Held(n) /\ ~Relies(m))
  PROVE  Pipe(m)' /\ HolderInv(m)'
<1>1. /\ Idle(m)' <=> Idle(m)
      /\ \A c : Sent(m, c)' <=> Sent(m, c)
      /\ \A c, v : Got(m, c, v)' <=> Got(m, c, v)
      /\ Running(m)' <=> Running(m)
      /\ Acting(m)' <=> Acting(m)
  BY DEF Idle, Sent, Got, Running, Acting
<1>2. Pipe(m) /\ HolderInv(m)
  BY DEF IInv
<1>3. Relies(m)' <=> Relies(m)
  BY <1>1 DEF Relies
<1>4. Settled(m)' <=> Settled(m)
  BY <1>1 DEF Settled
<1>5. lock'.owner = lock.owner \/ lock'.owner # m
  BY DEF Held
<1>6. Pipe(m)'
  <2>1. replies[m] = <<>> => replies'[m] = <<>>
    OBVIOUS
  <2>2. QED
    BY <1>1, <1>2, <1>5, <2>1 DEF Pipe, Running
<1>7. CASE lock' = lock
  <2>1. Covered(m)' <=> Covered(m)
    BY <1>4, <1>7 DEF Covered, Fresh, Waiting
  <2>2. QED
    BY <1>1, <1>2, <1>3, <1>6, <1>7, <2>1 DEF HolderInv
<1>8. CASE lock' = Held(n) /\ ~Relies(m)
  <2>1. lock'.owner # m
    BY <1>8 DEF Held
  <2>2. QED
    BY <1>1, <1>2, <1>3, <1>6, <1>8, <2>1 DEF HolderInv
<1>9. QED
  BY <1>7, <1>8

(* The other electors, after a step of n that does not touch the lock. *)
LEMMA OthersLockKept ==
  ASSUME IInv, NEW n \in Node, NEW m \in Node, m # n, UNCHANGED lock,
         status'[m] = status[m], isLeader'[m] = isLeader[m], timer'[m] = timer[m],
         requests'[m] = requests[m], replies'[m] = replies[m], lag'[m] = lag[m]
  PROVE  Pipe(m)' /\ HolderInv(m)'
BY Others

(* An elector with work under way has its next campaign ahead of it. *)
LEMMA CampaignAhead ==
  ASSUME Prompt, IInv, NEW n \in Node, Running(n), ~Idle(n)
  PROVE  timer[n] >= 1
<1>1. timer[n] + lag[n] >= RenewEvery /\ timer[n] \in Nat /\ lag[n] \in 0..MaxLag
  BY DEF IInv, Pipe, TypeOK
<1>2. QED
  BY <1>1, Half, LeaseAssumption

(* start() preserves the invariant. *)
LEMMA StartStep ==
  ASSUME Prompt, IInv, NEW n \in Node, Start(n)
  PROVE  \A m \in Node : Pipe(m)' /\ HolderInv(m)'
<1>1. TypeOK /\ Pipe(n) /\ HolderInv(n)
  BY DEF IInv
<1>2. /\ status[n] = "new" /\ status'[n] = "running" /\ timer'[n] = RenewEvery
      /\ requests'[n] = <<"SETNX">> /\ UNCHANGED <<lock, isLeader, replies, lag>>
  BY <1>1 DEF Start, TypeOK
<1>3. Sent(n, "SETNX")' /\ Running(n)' /\ ~Acting(n)' /\ lock'.owner # n
  BY <1>1, <1>2 DEF Sent, Running, Acting, Pipe, Idle
<1>4. Pipe(n)'
  <2>1. "SETNX" \in Command /\ lag'[n] \in Nat /\ status'[n] # "new"
    BY <1>1, <1>2, LeaseAssumption DEF Command, TypeOK
  <2>2. timer'[n] + lag'[n] >= RenewEvery /\ timer'[n] <= RenewEvery
    BY <1>2, <2>1, Half
  <2>3. QED
    BY <1>3, <2>1, <2>2 DEF Pipe
<1>5. HolderInv(n)'
  BY <1>3, PipeStatesExclusive DEF HolderInv, Relies, Exclusive
<1>6. ASSUME NEW m \in Node, m # n
      PROVE  Pipe(m)' /\ HolderInv(m)'
  BY <1>1, <1>6, OthersLockKept DEF Start, TypeOK
<1>7. QED
  BY <1>4, <1>5, <1>6

(* An interval that fires preserves the invariant. *)
LEMMA CampaignStep ==
  ASSUME Prompt, IInv, NEW n \in Node, Campaign(n)
  PROVE  \A m \in Node : Pipe(m)' /\ HolderInv(m)'
<1>1. TypeOK /\ Pipe(n) /\ HolderInv(n)
  BY DEF IInv
<1>2. /\ Running(n) /\ timer[n] = 0 /\ timer'[n] = RenewEvery
      /\ requests'[n] = Append(requests[n], "SETNX")
      /\ UNCHANGED <<lock, status, isLeader, replies, lag>>
  BY <1>1 DEF Campaign, TypeOK, Running
<1>3. Idle(n)
  BY <1>2, CampaignAhead
<1>4. Sent(n, "SETNX")' /\ Running(n)' /\ (Acting(n)' <=> Acting(n))
  BY <1>2, <1>3, OneElement DEF Sent, Running, Acting, Idle
<1>5. Pipe(n)'
  <2>1. "SETNX" \in Command /\ lag'[n] \in Nat /\ status'[n] # "new"
    BY <1>1, <1>2, LeaseAssumption DEF Command, TypeOK, Running
  <2>2. timer'[n] + lag'[n] >= RenewEvery /\ timer'[n] <= RenewEvery
    BY <1>2, <2>1, Half
  <2>3. QED
    BY <1>4, <2>1, <2>2 DEF Pipe
<1>6. HolderInv(n)'
  <2>1. Relies(n) <=> Acting(n)
    BY <1>3, PipeStatesExclusive DEF Relies, Exclusive
  <2>2. Relies(n)' <=> Acting(n)'
    BY <1>4, PipeStatesExclusive DEF Relies, Exclusive
  <2>3. ~Settled(n) /\ ~Settled(n)'
    BY <1>1, <1>2, <1>3, <1>4, PipeStatesExclusive DEF Settled, Exclusive
  <2>4. Covered(n) => Covered(n)'
    BY <1>2, <2>3 DEF Covered, Waiting
  <2>5. \A c, v : ~Got(n, c, v)'
    BY <1>4, PipeStatesExclusive DEF Exclusive
  <2>6. QED
    BY <1>1, <1>2, <1>4, <2>1, <2>2, <2>4, <2>5 DEF HolderInv
<1>7. ASSUME NEW m \in Node, m # n
      PROVE  Pipe(m)' /\ HolderInv(m)'
  BY <1>1, <1>7, OthersLockKept DEF Campaign, TypeOK
<1>8. QED
  BY <1>5, <1>6, <1>7

(* stop() preserves the invariant. *)
LEMMA StopStep ==
  ASSUME Prompt, IInv, NEW n \in Node, Stop(n)
  PROVE  \A m \in Node : Pipe(m)' /\ HolderInv(m)'
<1>1. TypeOK /\ Pipe(n) /\ HolderInv(n)
  BY DEF IInv
<1>2. PICK k \in 0..Len(requests[n]) : requests' = [requests EXCEPT ![n] = SubSeq(@, 1, k)]
  BY DEF Stop
<1>3. /\ status[n] = "running" /\ status'[n] = "stopped" /\ replies'[n] = <<>>
      /\ requests'[n] = SubSeq(requests[n], 1, k)
      /\ UNCHANGED <<lock, isLeader, timer, lag>>
  BY <1>1, <1>2 DEF Stop, TypeOK
<1>4. Idle(n)' \/ \E cmd \in Command : Sent(n, cmd) /\ Sent(n, cmd)'
  <2>1. CASE requests[n] = <<>>
    <3>1. k = 0
      BY <2>1, OneElement
    <3>2. QED
      BY <1>3, <2>1, <3>1, OneElement DEF Idle
  <2>2. CASE \E cmd \in Command : Sent(n, cmd)
    <3>1. PICK cmd \in Command : Sent(n, cmd)
      BY <2>2
    <3>2. k = 0 \/ k = 1
      BY <3>1, OneElement DEF Sent
    <3>3. QED
      BY <1>3, <3>1, <3>2, OneElement DEF Idle, Sent
  <2>3. QED
    BY <1>1, <2>1, <2>2 DEF Pipe, Idle, Got
<1>5. ~Running(n)' /\ ~Acting(n)' /\ ~Settled(n)' /\ status'[n] # "new"
  BY <1>3 DEF Running, Acting, Settled
<1>6. Pipe(n)'
  BY <1>1, <1>3, <1>4, <1>5 DEF Pipe
<1>7. HolderInv(n)'
  <2>1. \A c, v : ~Got(n, c, v)'
    BY <1>4, PipeStatesExclusive DEF Exclusive
  <2>2. ASSUME Relies(n)'
        PROVE  lock'.owner = n /\ Covered(n)'
    <3>1. Sent(n, "SET")'
      BY <1>5, <2>1, <2>2 DEF Relies
    <3>2. Sent(n, "SET")
      BY <1>4, <3>1, PipeStatesExclusive DEF Exclusive
    <3>3. Relies(n) /\ ~Settled(n)
      BY <3>2, PipeStatesExclusive DEF Relies, Settled, Exclusive
    <3>4. QED
      BY <1>1, <1>3, <1>5, <3>3 DEF HolderInv, Covered, Waiting
  <2>3. QED
    BY <1>5, <2>1, <2>2 DEF HolderInv
<1>8. ASSUME NEW m \in Node, m # n
      PROVE  Pipe(m)' /\ HolderInv(m)'
  BY <1>1, <1>2, <1>8, OthersLockKept DEF Stop, TypeOK
<1>9. QED
  BY <1>6, <1>7, <1>8

(* What executing a command does to n's connection. *)
LEMMA Executed ==
  ASSUME IInv, NEW n \in Node, NEW cmd \in Command, NEW v \in Node \cup {None},
         Executes(n, cmd), Answers(n, cmd, v)
  PROVE  /\ Sent(n, cmd)
         /\ Running(n) => Got(n, cmd, v)'
         /\ ~Running(n) => Idle(n)'
         /\ UNCHANGED <<status, isLeader, timer, lag>>
         /\ \A m \in Node : m # n => requests'[m] = requests[m] /\ replies'[m] = replies[m]
<1>1. TypeOK /\ Pipe(n)
  BY DEF IInv
<1>2. /\ requests[n] # <<>> /\ Head(requests[n]) = cmd
      /\ requests' = [requests EXCEPT ![n] = Tail(@)]
      /\ UNCHANGED <<status, isLeader, timer, lag>>
  BY DEF Executes
<1>3. Sent(n, cmd)
  <2>1. PICK c \in Command : Sent(n, c)
    BY <1>1, <1>2 DEF Pipe, Idle, Got
  <2>2. Head(requests[n]) = c
    BY <2>1, OneElement DEF Sent
  <2>3. QED
    BY <1>2, <2>1, <2>2
<1>4. requests'[n] = <<>>
  <2>1. Tail(requests[n]) = <<>>
    BY <1>3, OneElement DEF Sent
  <2>2. QED
    BY <1>1, <1>2, <2>1 DEF TypeOK
<1>5. CASE Running(n)
  <2>1. replies' = [replies EXCEPT ![n] = Append(@, <<cmd, v>>)]
    BY <1>5 DEF Answers, Running
  <2>2. Append(replies[n], <<cmd, v>>) = <<<<cmd, v>>>>
    BY <1>3, OneElement DEF Sent
  <2>3. replies'[n] = <<<<cmd, v>>>>
    BY <1>1, <2>1, <2>2 DEF TypeOK
  <2>4. QED
    BY <1>1, <1>2, <1>3, <1>4, <1>5, <2>1, <2>3 DEF Got, TypeOK
<1>6. CASE ~Running(n)
  <2>1. replies' = replies
    BY <1>6 DEF Answers, Running
  <2>2. QED
    BY <1>1, <1>2, <1>3, <1>4, <1>6, <2>1 DEF Idle, Sent, TypeOK
<1>7. QED
  BY <1>5, <1>6

(* Executing a command keeps the connection in order. *)
LEMMA ExecutedPipe ==
  ASSUME IInv, NEW n \in Node, NEW cmd \in Command, NEW v \in Node \cup {None},
         Executes(n, cmd), Answers(n, cmd, v)
  PROVE  Pipe(n)'
<1>1. TypeOK /\ Pipe(n)
  BY DEF IInv
<1>2. /\ Sent(n, cmd)
      /\ Running(n) => Got(n, cmd, v)'
      /\ ~Running(n) => Idle(n)'
      /\ UNCHANGED <<status, isLeader, timer, lag>>
  BY Executed
<1>3. ~Idle(n) /\ status[n] # "new"
  BY <1>1, <1>2, PipeStatesExclusive DEF Exclusive, Pipe
<1>4. Running(n)' <=> Running(n)
  BY <1>2 DEF Running
<1>5. ~Running(n)' => replies'[n] = <<>>
  BY <1>2, <1>4 DEF Idle
<1>6. QED
  BY <1>1, <1>2, <1>3, <1>4, <1>5 DEF Pipe

(* A fresh lock covers its holder until the next campaign. *)
LEMMA JustHeld ==
  ASSUME Prompt, IInv, NEW n \in Node, lock' = Held(n), UNCHANGED timer, lag'[n] \in Nat
  PROVE  lock'.owner = n /\ Fresh(n)' /\ Waiting(n)'
<1>1. timer[n] <= RenewEvery /\ timer[n] \in Nat
  BY DEF IInv, Pipe, TypeOK
<1>2. lock'.owner = n /\ lock'.ttl = TTL
  BY DEF Held
<1>3. QED
  BY <1>1, <1>2, Half, LeaseAssumption DEF Fresh, Waiting, Prompt

(* SET NX preserves the invariant. *)
LEMMA ExecSetNXStep ==
  ASSUME Prompt, IInv, NEW n \in Node, ExecSetNX(n)
  PROVE  \A m \in Node : Pipe(m)' /\ HolderInv(m)'
<1>1. TypeOK /\ Pipe(n) /\ HolderInv(n)
  BY DEF IInv
<1>. PICK v \in Node \cup {None} : v = IF NX(n) THEN n ELSE None
  OBVIOUS
<1>2. /\ Executes(n, "SETNX") /\ Answers(n, "SETNX", v) /\ "SETNX" \in Command
      /\ lock' = IF NX(n) THEN Held(n) ELSE lock
  BY DEF ExecSetNX, Command
<1>3. /\ Sent(n, "SETNX")
      /\ Running(n) => Got(n, "SETNX", v)'
      /\ ~Running(n) => Idle(n)'
      /\ UNCHANGED <<status, isLeader, timer, lag>>
      /\ \A m \in Node : m # n => requests'[m] = requests[m] /\ replies'[m] = replies[m]
  BY <1>2, Executed
<1>4. Pipe(n)'
  BY <1>2, ExecutedPipe
<1>5. (Running(n)' <=> Running(n)) /\ (Acting(n)' <=> Acting(n)) /\ (Acting(n) => Running(n))
  BY <1>3 DEF Running, Acting
<1>6. (Relies(n) <=> Acting(n)) /\ ~Settled(n)
  BY <1>3, PipeStatesExclusive DEF Relies, Settled, Exclusive
<1>7. \A w : ~Got(n, "GET", w)' /\ ~Got(n, "SET", w)'
  BY <1>3, PipeStatesExclusive DEF Exclusive
<1>8. ~Sent(n, "SET")'
  BY <1>3, PipeStatesExclusive DEF Exclusive
<1>9. CASE NX(n)
  <2>1. v = n /\ lock' = Held(n)
    BY <1>2, <1>9
  <2>2. lock'.owner = n /\ Fresh(n)' /\ Waiting(n)'
    <3>1. lag'[n] \in Nat
      BY <1>1, <1>3, LeaseAssumption DEF TypeOK
    <3>2. QED
      BY <1>3, <2>1, <3>1, JustHeld
  <2>3. Running(n)' => Relies(n)'
    BY <1>3, <1>5, <2>1 DEF Relies
  <2>4. HolderInv(n)'
    BY <1>7, <2>2, <2>3 DEF HolderInv, Covered
  <2>5. ASSUME NEW m \in Node, m # n
        PROVE  Pipe(m)' /\ HolderInv(m)'
    <3>1. ~Relies(m)
      <4>1. lock.owner # m
        BY <1>9, LeaseAssumption DEF NX
      <4>2. QED
        BY <4>1 DEF IInv, HolderInv
    <3>2. QED
      BY <1>3, <2>1, <2>5, <3>1, Others
  <2>6. QED
    BY <1>4, <2>4, <2>5
<1>10. CASE ~NX(n)
  <2>1. v = None /\ lock' = lock
    BY <1>2, <1>10
  <2>2. \A w : w \in Node => ~Got(n, "SETNX", w)'
    BY <1>3, <2>1, LeaseAssumption, PipeStatesExclusive DEF Exclusive
  <2>3. Relies(n)' <=> Acting(n)'
    BY <1>7, <1>8, <2>2 DEF Relies
  <2>4. ~Settled(n)'
    BY <1>3, <1>5, <1>7, <2>2, PipeStatesExclusive DEF Settled, Exclusive
  <2>5. Covered(n) => Covered(n)'
    BY <1>3, <1>6, <2>1, <2>4 DEF Covered, Waiting
  <2>6. HolderInv(n)'
    BY <1>1, <1>5, <1>6, <1>7, <2>1, <2>3, <2>5 DEF HolderInv
  <2>7. ASSUME NEW m \in Node, m # n
        PROVE  Pipe(m)' /\ HolderInv(m)'
    BY <1>3, <2>1, <2>7, OthersLockKept
  <2>8. QED
    BY <1>4, <2>6, <2>7
<1>11. QED
  BY <1>9, <1>10

(* GET preserves the invariant. *)
LEMMA ExecGetStep ==
  ASSUME Prompt, IInv, NEW n \in Node, ExecGet(n)
  PROVE  \A m \in Node : Pipe(m)' /\ HolderInv(m)'
<1>1. TypeOK /\ Pipe(n) /\ HolderInv(n)
  BY DEF IInv
<1>. PICK v \in Node \cup {None} : v = lock.owner
  BY <1>1, LockOwnerType
<1>2. /\ Executes(n, "GET") /\ Answers(n, "GET", v) /\ "GET" \in Command
      /\ UNCHANGED lock
  BY DEF ExecGet, Command
<1>3. /\ Sent(n, "GET")
      /\ Running(n) => Got(n, "GET", v)'
      /\ ~Running(n) => Idle(n)'
      /\ UNCHANGED <<status, isLeader, timer, lag>>
      /\ \A m \in Node : m # n => requests'[m] = requests[m] /\ replies'[m] = replies[m]
  BY <1>2, Executed
<1>4. Pipe(n)'
  BY <1>2, ExecutedPipe
<1>5. (Running(n)' <=> Running(n)) /\ (Acting(n)' <=> Acting(n)) /\ (Acting(n) => Running(n))
  BY <1>3 DEF Running, Acting
<1>6. (Relies(n) <=> Acting(n)) /\ ~Settled(n)
  BY <1>3, PipeStatesExclusive DEF Relies, Settled, Exclusive
<1>7. \A w : ~Got(n, "SETNX", w)' /\ ~Got(n, "SET", w)'
  BY <1>3, PipeStatesExclusive DEF Exclusive
<1>8. \A c : ~Sent(n, c)'
  BY <1>3, PipeStatesExclusive DEF Exclusive
<1>9. \A w : Got(n, "GET", w)' => w = v /\ Running(n)
  BY <1>3, PipeStatesExclusive DEF Exclusive
<1>10. ~Settled(n)'
  BY <1>3, <1>5, <1>7, PipeStatesExclusive DEF Settled, Exclusive
<1>11. Covered(n) => Covered(n)'
  BY <1>2, <1>3, <1>6, <1>10 DEF Covered, Waiting
<1>12. Relies(n)' => Relies(n)
  <2>1. Relies(n)' => Acting(n) \/ (v = n /\ Running(n))
    BY <1>5, <1>7, <1>8, <1>9 DEF Relies
  <2>2. QED
    BY <1>1, <2>1 DEF HolderInv, Relies
<1>13. Running(n)' /\ lock'.owner = n => Relies(n)'
  BY <1>2, <1>3, <1>5 DEF Relies
<1>14. Running(n) /\ v # n => ~isLeader'[n]
  BY <1>1, <1>3 DEF HolderInv, Relies, Acting, Running
<1>15. HolderInv(n)'
  BY <1>1, <1>2, <1>7, <1>9, <1>11, <1>12, <1>13, <1>14 DEF HolderInv
<1>16. ASSUME NEW m \in Node, m # n
       PROVE  Pipe(m)' /\ HolderInv(m)'
  BY <1>2, <1>3, <1>16, OthersLockKept
<1>17. QED
  BY <1>4, <1>15, <1>16

(* The renewing SET preserves the invariant: its sender holds the lock. *)
LEMMA ExecSetStep ==
  ASSUME Prompt, IInv, NEW n \in Node, ExecSet(n)
  PROVE  \A m \in Node : Pipe(m)' /\ HolderInv(m)'
<1>1. TypeOK /\ Pipe(n) /\ HolderInv(n)
  BY DEF IInv
<1>2. /\ Executes(n, "SET") /\ Answers(n, "SET", n) /\ "SET" \in Command
      /\ lock' = Held(n)
  BY DEF ExecSet, Command
<1>3. /\ Sent(n, "SET")
      /\ Running(n) => Got(n, "SET", n)'
      /\ ~Running(n) => Idle(n)'
      /\ UNCHANGED <<status, isLeader, timer, lag>>
      /\ \A m \in Node : m # n => requests'[m] = requests[m] /\ replies'[m] = replies[m]
  BY <1>2, Executed
<1>4. Pipe(n)'
  BY <1>2, ExecutedPipe
<1>5. lock'.owner = n /\ Fresh(n)' /\ Waiting(n)'
  <2>1. lag'[n] \in Nat
    BY <1>1, <1>3, LeaseAssumption DEF TypeOK
  <2>2. QED
    BY <1>2, <1>3, <2>1, JustHeld
<1>6. Running(n)' => Relies(n)'
  BY <1>3 DEF Relies, Running
<1>7. \A w : ~Got(n, "GET", w)' /\ (Got(n, "SET", w)' => w = n)
  BY <1>3, PipeStatesExclusive DEF Exclusive
<1>8. HolderInv(n)'
  BY <1>5, <1>6, <1>7 DEF HolderInv, Covered
<1>9. ASSUME NEW m \in Node, m # n
      PROVE  Pipe(m)' /\ HolderInv(m)'
  <2>1. lock.owner = n
    BY <1>1, <1>3 DEF HolderInv, Relies
  <2>2. ~Relies(m)
    BY <1>9, <2>1 DEF IInv, HolderInv
  <2>3. QED
    BY <1>2, <1>3, <1>9, <2>2, Others
<1>10. QED
  BY <1>4, <1>8, <1>9

(* What handling a reply does to n's connection. *)
LEMMA Resumed ==
  ASSUME IInv, NEW n \in Node, NEW cmd \in Command, Resumes(n, cmd)
  PROVE  /\ Running(n) /\ Running(n)' /\ ~Idle(n) /\ requests[n] = <<>> /\ replies'[n] = <<>>
         /\ Got(n, cmd, Head(replies[n])[2])
         /\ Head(replies[n])[2] \in Node \cup {None}
         /\ UNCHANGED <<lock, status, timer, lag>>
         /\ \A m \in Node : m # n => replies'[m] = replies[m]
<1>1. TypeOK /\ Pipe(n)
  BY DEF IInv
<1>2. /\ replies[n] # <<>> /\ Head(replies[n])[1] = cmd
      /\ replies' = [replies EXCEPT ![n] = Tail(@)]
      /\ UNCHANGED <<lock, status, timer, lag>>
  BY DEF Resumes
<1>3. PICK c \in Command, v \in Node \cup {None} : Got(n, c, v)
  BY <1>1, <1>2 DEF Pipe, Idle, Sent
<1>4. Head(replies[n]) = <<c, v>> /\ Tail(replies[n]) = <<>>
  BY <1>3, OneElement DEF Got
<1>5. c = cmd /\ Head(replies[n])[2] = v
  BY <1>2, <1>4
<1>6. replies'[n] = <<>> /\ \A m \in Node : m # n => replies'[m] = replies[m]
  BY <1>1, <1>2, <1>4 DEF TypeOK
<1>7. QED
  BY <1>1, <1>2, <1>3, <1>5, <1>6 DEF Pipe, Got, Idle, Running

(* Handling a reply keeps the connection in order. *)
LEMMA ResumedPipe ==
  ASSUME IInv, NEW n \in Node, NEW cmd \in Command, Resumes(n, cmd),
         Idle(n)' \/ \E c \in Command : Sent(n, c)'
  PROVE  Pipe(n)'
<1>1. TypeOK /\ Pipe(n)
  BY DEF IInv
<1>2. /\ Running(n) /\ Running(n)' /\ ~Idle(n)
      /\ UNCHANGED <<lock, status, timer, lag>>
  BY Resumed
<1>3. status'[n] # "new"
  BY <1>2 DEF Running
<1>4. QED
  BY <1>1, <1>2, <1>3 DEF Pipe

(* The answer to SET NX preserves the invariant. *)
LEMMA OnSetNXStep ==
  ASSUME Prompt, IInv, NEW n \in Node, OnSetNX(n)
  PROVE  \A m \in Node : Pipe(m)' /\ HolderInv(m)'
<1>1. TypeOK /\ Pipe(n) /\ HolderInv(n)
  BY DEF IInv
<1>2. PICK v \in Node \cup {None} : v = Head(replies[n])[2]
  BY Resumed DEF OnSetNX, Command
<1>3. Resumes(n, "SETNX") /\ "SETNX" \in Command
  BY DEF OnSetNX, Command
<1>4. /\ Running(n) /\ Running(n)' /\ ~Idle(n) /\ requests[n] = <<>> /\ replies'[n] = <<>>
      /\ Got(n, "SETNX", v) /\ UNCHANGED <<lock, status, timer, lag>>
      /\ \A m \in Node : m # n => replies'[m] = replies[m]
  BY <1>2, <1>3, Resumed
<1>5. timer[n] >= 1
  BY <1>4, CampaignAhead
<1>6. CASE v = n
  <2>1. isLeader' = [isLeader EXCEPT ![n] = TRUE] /\ UNCHANGED requests
    BY <1>2, <1>6 DEF OnSetNX
  <2>2. Idle(n)' /\ Acting(n)'
    BY <1>1, <1>4, <2>1 DEF Idle, Acting, Running, TypeOK
  <2>3. Relies(n) /\ Settled(n)
    BY <1>4, <1>6 DEF Relies, Settled
  <2>4. Settled(n)'
    BY <1>1, <1>4, <1>5, <2>2 DEF Settled, TypeOK
  <2>5. Covered(n)'
    BY <1>1, <1>4, <2>3, <2>4 DEF Covered, Fresh, HolderInv
  <2>6. \A c, w : ~Got(n, c, w)'
    BY <2>2, PipeStatesExclusive DEF Exclusive
  <2>7. HolderInv(n)'
    BY <1>1, <1>4, <2>2, <2>3, <2>5, <2>6 DEF HolderInv, Relies
  <2>8. Pipe(n)'
    BY <1>3, <2>2, ResumedPipe
  <2>9. ASSUME NEW m \in Node, m # n
        PROVE  Pipe(m)' /\ HolderInv(m)'
    BY <1>1, <1>4, <2>1, <2>9, OthersLockKept DEF TypeOK
  <2>10. QED
    BY <2>7, <2>8, <2>9
<1>7. CASE v # n
  <2>1. requests' = [requests EXCEPT ![n] = Append(@, "GET")] /\ UNCHANGED isLeader
    BY <1>2, <1>7 DEF OnSetNX
  <2>2. requests'[n] = <<"GET">>
    BY <1>1, <1>4, <2>1, OneElement DEF TypeOK
  <2>3. Sent(n, "GET")' /\ (Acting(n)' <=> Acting(n))
    BY <1>4, <2>1, <2>2 DEF Sent, Acting
  <2>4. Relies(n) <=> Acting(n)
    BY <1>4, <1>7, PipeStatesExclusive DEF Relies, Exclusive
  <2>5. Relies(n)' <=> Acting(n)'
    BY <2>3, PipeStatesExclusive DEF Relies, Exclusive
  <2>6. ~Settled(n) /\ ~Settled(n)'
    BY <1>4, <1>7, <2>3, PipeStatesExclusive DEF Settled, Exclusive
  <2>7. Covered(n) => Covered(n)'
    BY <1>4, <2>6 DEF Covered, Waiting
  <2>8. \A c, w : ~Got(n, c, w)'
    BY <2>3, PipeStatesExclusive DEF Exclusive
  <2>9. HolderInv(n)'
    BY <1>1, <1>4, <2>3, <2>4, <2>5, <2>7, <2>8 DEF HolderInv
  <2>10. Pipe(n)'
    BY <1>3, <2>3, ResumedPipe DEF Command
  <2>11. ASSUME NEW m \in Node, m # n
         PROVE  Pipe(m)' /\ HolderInv(m)'
    BY <1>1, <1>4, <2>1, <2>11, OthersLockKept DEF TypeOK
  <2>12. QED
    BY <2>9, <2>10, <2>11
<1>8. QED
  BY <1>6, <1>7

(* The answer to GET preserves the invariant. *)
LEMMA OnGetStep ==
  ASSUME Prompt, IInv, NEW n \in Node, OnGet(n)
  PROVE  \A m \in Node : Pipe(m)' /\ HolderInv(m)'
<1>1. TypeOK /\ Pipe(n) /\ HolderInv(n)
  BY DEF IInv
<1>2. PICK v \in Node \cup {None} : v = Head(replies[n])[2]
  BY Resumed DEF OnGet, Command
<1>3. Resumes(n, "GET") /\ "GET" \in Command
  BY DEF OnGet, Command
<1>4. /\ Running(n) /\ Running(n)' /\ ~Idle(n) /\ requests[n] = <<>> /\ replies'[n] = <<>>
      /\ Got(n, "GET", v) /\ UNCHANGED <<lock, status, timer, lag>>
      /\ \A m \in Node : m # n => replies'[m] = replies[m]
  BY <1>2, <1>3, Resumed
<1>5. ~Settled(n)
  BY <1>4, PipeStatesExclusive DEF Settled, Exclusive
<1>6. CASE v = n
  <2>1. requests' = [requests EXCEPT ![n] = Append(@, "SET")] /\ UNCHANGED isLeader
    BY <1>2, <1>6, Zenon DEF OnGet
  <2>2. requests'[n] = <<"SET">>
    BY <1>1, <1>4, <2>1, OneElement DEF TypeOK
  <2>3. Sent(n, "SET")'
    BY <1>4, <2>2 DEF Sent
  <2>4. Relies(n) /\ Relies(n)' /\ ~Settled(n)'
    BY <1>4, <1>6, <2>3, PipeStatesExclusive DEF Relies, Settled, Exclusive
  <2>5. Covered(n)'
    BY <1>1, <1>4, <1>5, <2>4 DEF Covered, Waiting, HolderInv
  <2>6. \A c, w : ~Got(n, c, w)'
    BY <2>3, PipeStatesExclusive DEF Exclusive
  <2>7. HolderInv(n)'
    BY <1>1, <1>4, <2>4, <2>5, <2>6 DEF HolderInv
  <2>8. Pipe(n)'
    BY <1>3, <2>3, ResumedPipe DEF Command
  <2>9. ASSUME NEW m \in Node, m # n
        PROVE  Pipe(m)' /\ HolderInv(m)'
    BY <1>1, <1>4, <2>1, <2>9, OthersLockKept DEF TypeOK
  <2>10. QED
    BY <2>7, <2>8, <2>9
<1>7. CASE v # n
  <2>1. isLeader' = [isLeader EXCEPT ![n] = FALSE] /\ UNCHANGED requests
    BY <1>2, <1>7, Zenon DEF OnGet
  <2>2. Idle(n)' /\ ~Acting(n)'
    BY <1>1, <1>4, <2>1 DEF Idle, Acting, TypeOK
  <2>3. ~Relies(n) /\ ~Relies(n)'
    BY <1>1, <1>4, <1>7, <2>2, PipeStatesExclusive DEF Relies, Exclusive, HolderInv, Acting
  <2>4. \A c, w : ~Got(n, c, w)'
    BY <2>2, PipeStatesExclusive DEF Exclusive
  <2>5. HolderInv(n)'
    BY <1>1, <1>4, <2>3, <2>4 DEF HolderInv
  <2>6. Pipe(n)'
    BY <1>3, <2>2, ResumedPipe
  <2>7. ASSUME NEW m \in Node, m # n
        PROVE  Pipe(m)' /\ HolderInv(m)'
    BY <1>1, <1>4, <2>1, <2>7, OthersLockKept DEF TypeOK
  <2>8. QED
    BY <2>5, <2>6, <2>7
<1>8. QED
  BY <1>6, <1>7

(* The answer to the renewing SET preserves the invariant. *)
LEMMA OnSetStep ==
  ASSUME Prompt, IInv, NEW n \in Node, OnSet(n)
  PROVE  \A m \in Node : Pipe(m)' /\ HolderInv(m)'
<1>1. TypeOK /\ Pipe(n) /\ HolderInv(n)
  BY DEF IInv
<1>2. /\ Resumes(n, "SET") /\ "SET" \in Command
      /\ isLeader' = [isLeader EXCEPT ![n] = TRUE] /\ UNCHANGED requests
  BY DEF OnSet, Command
<1>3. /\ Running(n) /\ Running(n)' /\ ~Idle(n) /\ requests[n] = <<>> /\ replies'[n] = <<>>
      /\ Got(n, "SET", Head(replies[n])[2]) /\ UNCHANGED <<lock, status, timer, lag>>
      /\ Head(replies[n])[2] \in Node \cup {None}
      /\ \A m \in Node : m # n => replies'[m] = replies[m]
  BY <1>2, Resumed
<1>4. Got(n, "SET", n)
  BY <1>1, <1>3 DEF HolderInv
<1>5. timer[n] >= 1
  BY <1>3, CampaignAhead
<1>6. Idle(n)' /\ Acting(n)'
  BY <1>1, <1>2, <1>3 DEF Idle, Acting, Running, TypeOK
<1>7. Relies(n) /\ Settled(n)
  BY <1>3, <1>4 DEF Relies, Settled
<1>8. Settled(n)'
  BY <1>1, <1>3, <1>5, <1>6 DEF Settled, TypeOK
<1>9. Covered(n)'
  BY <1>1, <1>3, <1>7, <1>8 DEF Covered, Fresh, HolderInv
<1>10. \A c, w : ~Got(n, c, w)'
  BY <1>6, PipeStatesExclusive DEF Exclusive
<1>11. HolderInv(n)'
  BY <1>1, <1>3, <1>6, <1>7, <1>9, <1>10 DEF HolderInv, Relies
<1>12. Pipe(n)'
  BY <1>2, <1>6, ResumedPipe
<1>13. ASSUME NEW m \in Node, m # n
       PROVE  Pipe(m)' /\ HolderInv(m)'
  BY <1>1, <1>2, <1>3, <1>13, OthersLockKept DEF TypeOK
<1>14. QED
  BY <1>11, <1>12, <1>13

-----------------------------------------------------------------------------
(* Nobody who counts on the lock sees it expire at the next tick. *)
LEMMA NotLastTick ==
  ASSUME Prompt, IInv, Tick, NEW m \in Node, Relies(m)
  PROVE  lock.ttl >= 2
<1>1. TypeOK /\ Pipe(m) /\ HolderInv(m) /\ lock.ttl \in Nat
  BY LockOwnerType DEF IInv
<1>2. lock.owner = m /\ Covered(m)
  BY <1>1 DEF HolderInv
<1>3. timer[m] \in Nat /\ lag[m] \in Nat
  BY <1>1, LeaseAssumption DEF TypeOK
<1>4. CASE Settled(m)
  <2>1. timer[m] >= 1
    <3>1. CASE Idle(m)
      BY <1>3, <1>4, <3>1, PipeStatesExclusive DEF Settled, Exclusive
    <3>2. CASE ~Idle(m)
      BY <1>4, <3>2, CampaignAhead DEF Settled
    <3>3. QED
      BY <3>1, <3>2
  <2>2. QED
    BY <1>1, <1>2, <1>3, <1>4, <2>1, LeaseAssumption DEF Covered, Fresh
<1>5. CASE ~Settled(m)
  <2>1. Busy(m)
    <3>1. CASE Idle(m)
      <4>1. Acting(m)
        BY <3>1, PipeStatesExclusive DEF Relies, Exclusive
      <4>2. QED
        BY <1>3, <1>5, <3>1, <4>1 DEF Settled, Busy, Acting, Running
    <3>2. CASE ~Idle(m)
      BY <3>2 DEF Busy, Idle
    <3>3. QED
      BY <3>1, <3>2
  <2>2. lag[m] < MaxLag
    BY <2>1 DEF Tick
  <2>3. QED
    BY <1>1, <1>2, <1>3, <1>5, <2>2, LeaseAssumption DEF Covered, Waiting
<1>6. QED
  BY <1>4, <1>5

(* Time passing preserves the invariant. *)
LEMMA TickStep ==
  ASSUME Prompt, IInv, Tick
  PROVE  \A m \in Node : Pipe(m)' /\ HolderInv(m)'
<1> SUFFICES ASSUME NEW m \in Node
             PROVE  Pipe(m)' /\ HolderInv(m)'
  OBVIOUS
<1>1. TypeOK /\ Pipe(m) /\ HolderInv(m) /\ lock.ttl \in Nat
  BY LockOwnerType DEF IInv
<1>2. /\ timer'[m] = IF timer[m] = 0 THEN 0 ELSE timer[m] - 1
      /\ lag'[m] = IF Busy(m) THEN lag[m] + 1 ELSE 0
      /\ Busy(m) => lag[m] < MaxLag
      /\ lock' = Aged /\ UNCHANGED <<status, isLeader, requests, replies>>
  BY DEF Tick
<1>3. timer[m] \in Nat /\ lag[m] \in Nat /\ MaxLag \in Nat /\ RenewEvery \in Nat
  BY <1>1, Half, LeaseAssumption DEF TypeOK
<1>4. /\ Idle(m)' <=> Idle(m)
      /\ \A c : Sent(m, c)' <=> Sent(m, c)
      /\ \A c, v : Got(m, c, v)' <=> Got(m, c, v)
      /\ Running(m)' <=> Running(m)
      /\ Acting(m)' <=> Acting(m)
  BY <1>2 DEF Idle, Sent, Got, Running, Acting
<1>5. Relies(m)' <=> Relies(m)
  BY <1>4 DEF Relies
<1>6. ~Idle(m) => Busy(m)
  BY DEF Idle, Busy
<1>7. lock'.owner \in {lock.owner, None}
  BY <1>2 DEF Aged, NoLock
<1>8. Pipe(m)'
  <2>1. timer'[m] <= RenewEvery
    BY <1>1, <1>2, <1>3 DEF Pipe
  <2>2. ASSUME Running(m), ~Idle(m)
        PROVE  timer'[m] + lag'[m] >= RenewEvery
    <3>1. timer[m] >= 1 /\ timer[m] + lag[m] >= RenewEvery
      BY <1>1, <2>2, CampaignAhead DEF Pipe
    <3>2. QED
      BY <1>2, <1>3, <1>6, <2>2, <3>1
  <2>3. status'[m] = "new" => lock'.owner # m
    BY <1>1, <1>2, <1>7, LeaseAssumption DEF Pipe
  <2>4. QED
    BY <1>1, <1>2, <1>4, <2>1, <2>2, <2>3 DEF Pipe
<1>9. ASSUME Relies(m)
      PROVE  lock'.owner = m /\ Covered(m)'
  <2>1. lock.owner = m /\ Covered(m) /\ lock.ttl >= 2
    BY <1>1, <1>9, NotLastTick DEF HolderInv
  <2>2. Aged = [lock EXCEPT !.ttl = lock.ttl - 1]
    BY <1>1, <2>1 DEF Aged
  <2>3. lock'.owner = m /\ lock'.ttl = lock.ttl - 1
    BY <1>1, <1>2, <2>1, <2>2 DEF TypeOK, NoLock
  <2>4. CASE Settled(m)
    <3>1. timer[m] >= 1
      <4>1. CASE Idle(m)
        BY <1>3, <2>4, <4>1, PipeStatesExclusive DEF Settled, Exclusive
      <4>2. CASE ~Idle(m)
        BY <2>4, <4>2, CampaignAhead DEF Settled
      <4>3. QED
        BY <4>1, <4>2
    <3>2. lock.ttl >= timer[m] + MaxLag + 1
      BY <2>1, <2>4 DEF Covered, Fresh
    <3>3. Fresh(m)'
      BY <1>1, <1>2, <1>3, <2>3, <3>1, <3>2 DEF Fresh
    <3>4. lag'[m] \in Nat
      BY <1>2, <1>3
    <3>5. Waiting(m)'
      BY <1>1, <1>2, <1>3, <2>3, <3>1, <3>2, <3>4 DEF Waiting
    <3>6. QED
      BY <2>3, <3>3, <3>5 DEF Covered
  <2>5. CASE ~Settled(m)
    <3>1. Busy(m) /\ ~Settled(m)'
      <4>1. CASE Idle(m)
        <5>1. Acting(m) /\ Running(m)
          BY <1>9, <4>1, PipeStatesExclusive DEF Relies, Exclusive, Acting, Running
        <5>2. timer[m] = 0
          BY <1>3, <2>5, <4>1, <5>1 DEF Settled
        <5>3. QED
          BY <1>2, <1>4, <4>1, <5>1, <5>2, PipeStatesExclusive
             DEF Settled, Exclusive, Busy, Running
      <4>2. CASE ~Idle(m)
        BY <1>4, <1>6, <2>5, <4>2 DEF Settled
      <4>3. QED
        BY <4>1, <4>2
    <3>2. lock.ttl + lag[m] >= MaxLag + 1
      BY <2>1, <2>5 DEF Covered, Waiting
    <3>3. Waiting(m)'
      BY <1>1, <1>2, <1>3, <2>3, <3>1, <3>2 DEF Waiting
    <3>4. QED
      BY <2>3, <3>1, <3>3 DEF Covered
  <2>6. QED
    BY <2>4, <2>5
<1>10. HolderInv(m)'
  <2>1. lock'.owner = m => lock.owner = m
    BY <1>7, LeaseAssumption
  <2>2. QED
    BY <1>1, <1>2, <1>4, <1>5, <1>9, <2>1 DEF HolderInv
<1>11. QED
  BY <1>8, <1>10

(* New electors satisfy the invariant. *)
LEMMA IInvInit ==
  ASSUME Prompt, Init
  PROVE  IInv
<1>1. TypeOK
  BY LeaseAssumption DEF Init, TypeOK, NoLock
<1>2. ASSUME NEW n \in Node
      PROVE  Pipe(n) /\ HolderInv(n)
  <2>1. /\ lock.owner = None /\ status[n] = "new" /\ isLeader[n] = FALSE /\ timer[n] = 0
        /\ requests[n] = <<>> /\ replies[n] = <<>>
    BY DEF Init, NoLock
  <2>2. Idle(n) /\ ~Running(n) /\ ~Acting(n)
    BY <2>1 DEF Idle, Running, Acting
  <2>3. Pipe(n)
    BY <2>1, <2>2, Half, LeaseAssumption DEF Pipe
  <2>4. HolderInv(n)
    BY <2>2, PipeStatesExclusive DEF HolderInv, Relies, Exclusive
  <2>5. QED
    BY <2>3, <2>4
<1>3. QED
  BY <1>1, <1>2 DEF IInv

(* Every step preserves the invariant. *)
LEMMA IInvStep ==
  ASSUME Prompt, IInv, [Next]_vars
  PROVE  IInv'
<1>1. TypeOK'
  BY TypeStep DEF IInv
<1>2. \A m \in Node : Pipe(m)' /\ HolderInv(m)'
  <2>1. CASE Tick
    BY <2>1, TickStep
  <2>2. ASSUME NEW n \in Node, Start(n) \/ Campaign(n) \/ Stop(n)
        PROVE  \A m \in Node : Pipe(m)' /\ HolderInv(m)'
    BY <2>2, StartStep, CampaignStep, StopStep
  <2>3. ASSUME NEW n \in Node, Exec(n)
        PROVE  \A m \in Node : Pipe(m)' /\ HolderInv(m)'
    BY <2>3, ExecSetNXStep, ExecGetStep, ExecSetStep DEF Exec
  <2>4. ASSUME NEW n \in Node, Resume(n)
        PROVE  \A m \in Node : Pipe(m)' /\ HolderInv(m)'
    BY <2>4, OnSetNXStep, OnGetStep, OnSetStep DEF Resume
  <2>5. CASE UNCHANGED vars
    BY <2>5 DEF vars, IInv, Pipe, HolderInv, Running, Idle, Sent, Got, Relies, Acting,
                Covered, Settled, Fresh, Waiting
  <2>6. QED
    BY <2>1, <2>2, <2>3, <2>4, <2>5 DEF Next
<1>3. QED
  BY <1>1, <1>2 DEF IInv

(* Electors prompt enough keep the invariant. *)
LEMMA IInvHolds == Prompt => (Spec => []IInv)
<1> SUFFICES ASSUME Prompt
             PROVE  Spec => []IInv
  OBVIOUS
<1>1. Init => IInv
  BY IInvInit
<1>2. IInv /\ [Next]_vars => IInv'
  BY IInvStep
<1>3. QED
  BY <1>1, <1>2, PTL DEF Spec

(* One leader, and it holds the lock: for every TTL and any number of      *)
(* electors starting and stopping at any time, if a campaign takes less    *)
(* than the half TTL the interval leaves.                                  *)
THEOREM LeaderHoldsLockWhenPrompt == Prompt => (Spec => []LeaderHoldsLock)
<1> SUFFICES ASSUME Prompt
             PROVE  Spec => []LeaderHoldsLock
  OBVIOUS
<1>1. IInv => LeaderHoldsLock
  BY DEF IInv, HolderInv, Relies, LeaderHoldsLock
<1>2. Spec => []IInv
  BY IInvHolds
<1>3. QED
  BY <1>1, <1>2, PTL

-----------------------------------------------------------------------------
(* Refinement: what each step is to the lease. *)
LeaseNext == Lease!Next \/ UNCHANGED <<lock.owner, {n \in Node : Acting(n)}>>

(* Every step of the electors is a step of the lease, or leaves it alone. *)
LEMMA LeaseStep ==
  ASSUME Prompt, IInv, [Next]_vars
  PROVE  LeaseNext
<1>. DEFINE leaders == {n \in Node : Acting(n)}
<1>. USE DEF LeaseNext, Lease!Next
<1>1. TypeOK /\ \A m \in Node : Pipe(m) /\ HolderInv(m)
  BY DEF IInv
<1>2. CASE Tick
  <2>1. leaders' = leaders
    BY <1>2 DEF Tick, Acting
  <2>2. CASE lock'.owner = lock.owner
    BY <2>1, <2>2
  <2>3. CASE lock'.owner # lock.owner
    <3>1. lock.ttl <= 1 /\ lock'.owner = None
      BY <1>1, <1>2, <2>3 DEF Tick, Aged, NoLock, TypeOK
    <3>2. leaders = {}
      BY <1>1, <1>2, <3>1, NotLastTick, LockOwnerType DEF Relies
    <3>3. Lease!Lapse
      BY <2>1, <3>1, <3>2 DEF Lease!Lapse
    <3>4. QED
      BY <3>3
  <2>4. QED
    BY <2>2, <2>3
<1>3. ASSUME NEW n \in Node, Start(n)
      PROVE  LeaseNext
  <2>1. ~Acting(n) /\ ~isLeader'[n] /\ UNCHANGED lock
    BY <1>1, <1>3 DEF Start, Pipe, Acting
  <2>2. leaders' = leaders
    BY <1>1, <1>3, <2>1 DEF Start, Acting, TypeOK
  <2>3. QED
    BY <2>1, <2>2
<1>4. ASSUME NEW n \in Node, Campaign(n)
      PROVE  LeaseNext
  BY <1>4 DEF Campaign, Acting
<1>5. ASSUME NEW n \in Node, Stop(n)
      PROVE  LeaseNext
  <2>1. leaders' = leaders \ {n} /\ lock'.owner = lock.owner
    BY <1>1, <1>5 DEF Stop, Acting, TypeOK
  <2>2. Lease!Resign(n)
    BY <2>1 DEF Lease!Resign
  <2>3. QED
    BY <2>2
<1>6. ASSUME NEW n \in Node, Exec(n)
      PROVE  LeaseNext
  <2>1. leaders' = leaders
    BY <1>6 DEF Exec, ExecSetNX, ExecGet, ExecSet, Executes, Acting
  <2>2. CASE lock' = lock
    BY <2>1, <2>2
  <2>3. CASE ExecSetNX(n) /\ NX(n)
    <3>1. Lease!Acquire(n)
      BY <2>1, <2>3 DEF Lease!Acquire, ExecSetNX, NX, Held
    <3>2. QED
      BY <3>1
  <2>4. CASE ExecSet(n)
    <3>1. Sent(n, "SET")
      BY <2>4, Executed DEF ExecSet, Command
    <3>2. lock.owner = n
      BY <1>1, <3>1 DEF HolderInv, Relies
    <3>3. QED
      BY <2>1, <2>4, <3>2 DEF ExecSet, Held
  <2>5. QED
    BY <1>6, <2>2, <2>3, <2>4 DEF Exec, ExecSetNX, ExecGet
<1>7. ASSUME NEW n \in Node, Resume(n)
      PROVE  LeaseNext
  <2>1. PICK cmd \in Command : Resumes(n, cmd)
    BY <1>7 DEF Resume, OnSetNX, OnGet, OnSet, Command
  <2>2. /\ Running(n) /\ Got(n, cmd, Head(replies[n])[2])
        /\ UNCHANGED <<lock, status>>
    BY <2>1, Resumed
  <2>3. CASE UNCHANGED isLeader
    BY <2>2, <2>3 DEF Acting
  <2>4. CASE isLeader' = [isLeader EXCEPT ![n] = FALSE]
    <3>1. leaders' = leaders \ {n}
      BY <1>1, <2>2, <2>4 DEF Acting, TypeOK
    <3>2. Lease!Resign(n)
      BY <2>2, <3>1 DEF Lease!Resign
    <3>3. QED
      BY <3>2
  <2>5. CASE /\ isLeader' = [isLeader EXCEPT ![n] = TRUE]
             /\ Got(n, "SETNX", n) \/ Got(n, "SET", n)
    <3>1. lock.owner = n
      BY <1>1, <2>5 DEF HolderInv, Relies
    <3>2. leaders' = leaders \cup {n}
      BY <1>1, <2>2, <2>5 DEF Acting, Running, TypeOK
    <3>3. Lease!Announce(n)
      BY <2>2, <3>1, <3>2 DEF Lease!Announce
    <3>4. QED
      BY <3>3
  <2>6. UNCHANGED isLeader \/ isLeader' = [isLeader EXCEPT ![n] = FALSE]
        \/ /\ isLeader' = [isLeader EXCEPT ![n] = TRUE]
           /\ Got(n, "SETNX", n) \/ Got(n, "SET", n)
    <3>1. CASE OnSetNX(n)
      <4>1. Got(n, "SETNX", Head(replies[n])[2])
        BY <3>1, Resumed DEF OnSetNX, Command
      <4>2. QED
        BY <3>1, <4>1, Zenon DEF OnSetNX
    <3>2. CASE OnGet(n)
      BY <3>2, Zenon DEF OnGet
    <3>3. CASE OnSet(n)
      <4>1. Got(n, "SET", Head(replies[n])[2]) /\ Head(replies[n])[2] \in Node \cup {None}
        BY <3>3, Resumed DEF OnSet, Command
      <4>2. Got(n, "SET", n)
        BY <1>1, <4>1 DEF HolderInv
      <4>3. QED
        BY <3>3, <4>2 DEF OnSet
    <3>4. QED
      BY <1>7, <3>1, <3>2, <3>3 DEF Resume
  <2>7. QED
    BY <2>3, <2>4, <2>5, <2>6
<1>8. CASE UNCHANGED vars
  BY <1>8 DEF vars, Acting
<1>9. QED
  BY <1>2, <1>3, <1>4, <1>5, <1>6, <1>7, <1>8 DEF Next

(* The electors implement the lease: ownership passes only through expiry, *)
(* and the key expires only when nobody acts as leader.                    *)
THEOREM ImplementsLeaseWhenPrompt == Prompt => (Spec => ImplementsLease)
<1> SUFFICES ASSUME Prompt
             PROVE  Spec => Lease!Spec
  BY DEF ImplementsLease
<1>1. Init => Lease!Init
  BY DEF Init, Lease!Init, NoLock, Acting
<1>2. IInv /\ [Next]_vars => LeaseNext
  BY LeaseStep
<1>3. LeaseNext => [Lease!Next]_<<lock.owner, {n \in Node : Acting(n)}>>
  BY DEF LeaseNext
<1>4. Spec => []IInv
  BY IInvHolds
<1>5. QED
  BY <1>1, <1>2, <1>3, <1>4, PTL DEF Spec, Lease!Spec

(* redis.ts:48 holds under the same condition: the plain SET of a renewal   *)
(* executes while the key is still the elector's own.                       *)
THEOREM NoStolenLockWhenPrompt == Prompt => (Spec => NoRenewalStealsTheLock)
<1> SUFFICES ASSUME Prompt
             PROVE  Spec => NoRenewalStealsTheLock
  OBVIOUS
<1>1. ASSUME IInv, NEW n \in Node, ExecSet(n)
      PROVE  lock.owner = n
  <2>1. Sent(n, "SET")
    BY <1>1, Executed DEF IInv, ExecSet, Command
  <2>2. QED
    BY <1>1, <2>1 DEF IInv, HolderInv, Relies
<1>2. IInv => [\A n \in Node : ExecSet(n) => lock.owner \in {n, None}]_vars
  BY <1>1
<1>3. Spec => []IInv
  BY IInvHolds
<1>4. QED
  BY <1>2, <1>3, PTL DEF NoRenewalStealsTheLock
=============================================================================
