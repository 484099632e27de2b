--------------------------- MODULE LeaderElection ---------------------------
(***************************************************************************)
(* shared/leader-election/redis.ts: RedisLeaderElector.  Every elector     *)
(* campaigns on an interval of half the lock's TTL; a campaign is up to    *)
(* three Redis commands (SET NX, GET, SET) with an await after each, so    *)
(* commands of several electors, the key's expiry, the next interval and   *)
(* stop() fall between them.  An elector's commands share one connection:  *)
(* Redis executes them, and the replies come back, in order.  A campaign   *)
(* keeps nothing in local variables across an await but its last reply, so *)
(* the connection's two queues are its whole state.                        *)
(*                                                                         *)
(* Time is counted in ticks.  lag[n] is for how many ticks n has had work  *)
(* outstanding without a pause; MaxLag bounds it: the network, Redis and   *)
(* the event loop together may delay a due campaign by that much.          *)
(***************************************************************************)
EXTENDS Naturals, Sequences

CONSTANTS
    Node, None,
    TTL,        \* ttlSeconds, in ticks
    MaxLag      \* the delay the environment may cause, in ticks

ASSUME LeaseAssumption ==
    None \notin Node /\ TTL \in Nat \ {0} /\ TTL % 2 = 0 /\ MaxLag \in Nat

VARIABLES
    lock,       \* the Redis key: its value, None when absent, and its TTL
    status,     \* "new" before start(), then "running", "stopped" after stop()
    isLeader,
    timer,      \* ticks until the interval fires; 0 when it is due
    requests,   \* commands sent and not executed yet
    replies,    \* <<command, value>> replies not handled yet
    lag

vars == <<lock, status, isLeader, timer, requests, replies, lag>>

Command == {"SETNX", "GET", "SET"}
NoLock == [owner |-> None, ttl |-> 0]

(* The key has a holder exactly while it has time to live; no elector is    *)
(* kept waiting for longer than MaxLag.                                     *)
TypeOK ==
    /\ lock \in [owner : Node, ttl : 1..TTL] \cup {NoLock}
    /\ status \in [Node -> {"new", "running", "stopped"}]
    /\ isLeader \in [Node -> BOOLEAN]
    /\ timer \in [Node -> 0..TTL]
    /\ requests \in [Node -> Seq(Command)]
    /\ replies \in [Node -> Seq(Command \X (Node \cup {None}))]
    /\ lag \in [Node -> 0..MaxLag]

Init ==
    /\ lock = NoLock
    /\ status = [n \in Node |-> "new"]
    /\ isLeader = [n \in Node |-> FALSE]
    /\ timer = [n \in Node |-> 0]
    /\ requests = [n \in Node |-> <<>>]
    /\ replies = [n \in Node |-> <<>>]
    /\ lag = [n \in Node |-> 0]

-----------------------------------------------------------------------------
(* Plausible slips in the code, used to show that the properties bite. *)
LateRenewal == TTL
NXForgotten(n) == TRUE
EXForgotten == lock

(* The interval: half the TTL. *)
RenewEvery == TTL \div 2

(* The lock as SET ... EX leaves it. *)
Held(n) == [owner |-> n, ttl |-> TTL]

(* SET NX succeeds when the key is absent. *)
NX(n) == lock.owner = None

(* The key one tick later. *)
Aged == IF lock.ttl <= 1 THEN NoLock ELSE [lock EXCEPT !.ttl = lock.ttl - 1]

(* start(): arm the interval and campaign at once. *)
Start(n) ==
    /\ status[n] = "new"
    /\ status' = [status EXCEPT ![n] = "running"]
    /\ timer' = [timer EXCEPT ![n] = RenewEvery]
    /\ requests' = [requests EXCEPT ![n] = <<"SETNX">>]
    /\ UNCHANGED <<lock, isLeader, replies, lag>>

(* The interval fires, whether or not the previous campaign has finished. *)
Campaign(n) ==
    /\ status[n] = "running" /\ timer[n] = 0
    /\ timer' = [timer EXCEPT ![n] = RenewEvery]
    /\ requests' = [requests EXCEPT ![n] = Append(@, "SETNX")]
    /\ UNCHANGED <<lock, status, isLeader, replies, lag>>

(* stop(): the interval is cleared and the connection dropped.  Replies are *)
(* lost; Redis may still execute commands already on their way.  isLeader   *)
(* is not reset.                                                            *)
Stop(n) ==
    /\ status[n] = "running"
    /\ status' = [status EXCEPT ![n] = "stopped"]
    /\ replies' = [replies EXCEPT ![n] = <<>>]
    /\ \E k \in 0..Len(requests[n]) :
          requests' = [requests EXCEPT ![n] = SubSeq(@, 1, k)]
    /\ UNCHANGED <<lock, isLeader, timer, lag>>

-----------------------------------------------------------------------------
(* Redis executes the next command of n's connection. *)
Executes(n, cmd) ==
    /\ requests[n] # <<>> /\ Head(requests[n]) = cmd
    /\ requests' = [requests EXCEPT ![n] = Tail(@)]
    /\ UNCHANGED <<status, isLeader, timer, lag>>

Answers(n, cmd, value) ==
    replies' = IF status[n] = "running"
               THEN [replies EXCEPT ![n] = Append(@, <<cmd, value>>)] ELSE replies

ExecSetNX(n) ==
    /\ Executes(n, "SETNX")
    /\ lock' = IF NX(n) THEN Held(n) ELSE lock
    /\ Answers(n, "SETNX", IF NX(n) THEN n ELSE None)

ExecGet(n) ==
    /\ Executes(n, "GET")
    /\ Answers(n, "GET", lock.owner)
    /\ UNCHANGED lock

ExecSet(n) ==
    /\ Executes(n, "SET")
    /\ lock' = Held(n)
    /\ Answers(n, "SET", n)

-----------------------------------------------------------------------------
(* The campaign resumes after an await. *)
Resumes(n, cmd) ==
    /\ replies[n] # <<>> /\ Head(replies[n])[1] = cmd
    /\ replies' = [replies EXCEPT ![n] = Tail(@)]
    /\ UNCHANGED <<lock, status, timer, lag>>

(* 'OK': leader.  Otherwise ask who is. *)
OnSetNX(n) ==
    /\ Resumes(n, "SETNX")
    /\ \/ /\ Head(replies[n])[2] = n
          /\ isLeader' = [isLeader EXCEPT ![n] = TRUE]
          /\ UNCHANGED requests
       \/ /\ Head(replies[n])[2] # n
          /\ requests' = [requests EXCEPT ![n] = Append(@, "GET")]
          /\ UNCHANGED isLeader

(* It is us: renew with a plain SET.  Anyone else, or nobody: follower. *)
OnGet(n) ==
    /\ Resumes(n, "GET")
    /\ \/ /\ Head(replies[n])[2] = n
          /\ requests' = [requests EXCEPT ![n] = Append(@, "SET")]
          /\ UNCHANGED isLeader
       \/ /\ Head(replies[n])[2] # n
          /\ isLeader' = [isLeader EXCEPT ![n] = FALSE]
          /\ UNCHANGED requests

OnSet(n) ==
    /\ Resumes(n, "SET")
    /\ isLeader' = [isLeader EXCEPT ![n] = TRUE]
    /\ UNCHANGED requests

-----------------------------------------------------------------------------
Busy(n) ==
    requests[n] # <<>> \/ replies[n] # <<>> \/ (status[n] = "running" /\ timer[n] = 0)

(* Time passes, unless that would keep someone waiting for too long. *)
Tick ==
    /\ \A n \in Node : Busy(n) => lag[n] < MaxLag
    /\ lock' = Aged
    /\ timer' = [n \in Node |-> IF timer[n] = 0 THEN 0 ELSE timer[n] - 1]
    /\ lag' = [n \in Node |-> IF Busy(n) THEN lag[n] + 1 ELSE 0]
    /\ UNCHANGED <<status, isLeader, requests, replies>>

Exec(n) == ExecSetNX(n) \/ ExecGet(n) \/ ExecSet(n)
Resume(n) == OnSetNX(n) \/ OnGet(n) \/ OnSet(n)

Next == Tick \/ \E n \in Node : Start(n) \/ Campaign(n) \/ Stop(n) \/ Exec(n) \/ Resume(n)

Spec == Init /\ [][Next]_vars

(* Time passes, Redis executes what it is sent, the event loop runs what is *)
(* due.  Nobody has to start or stop.                                       *)
Fairness ==
    /\ WF_vars(Tick)
    /\ \A n \in Node : WF_vars(Campaign(n)) /\ WF_vars(Exec(n)) /\ WF_vars(Resume(n))

FairSpec == Spec /\ Fairness

-----------------------------------------------------------------------------
(* n acts as leader: it runs and its isLeader flag is set. *)
Acting(n) == status[n] = "running" /\ isLeader[n]

(* As long as a campaign, from the interval falling due to its last reply,  *)
(* takes less than the half TTL that is left, a node acting as leader holds *)
(* the lock: there is no second leader and no gap between flag and lock.    *)
LeaderHoldsLock == \A n \in Node : Acting(n) => lock.owner = n

(* The electors implement the lease: the key passes from one owner to the   *)
(* next only through its expiry, with no leader acting at that moment.      *)
Lease == INSTANCE LeaderLease
         WITH owner <- lock.owner, leaders <- {n \in Node : Acting(n)}
ImplementsLease == Lease!Spec

(* Failover: while some elector keeps running, a crashed leader is always   *)
(* replaced, although stop() releases nothing.                              *)
Failover ==
    \A n \in Node :
        status[n] = "running" ~> status[n] = "stopped" \/ \E m \in Node : Acting(m)

(* redis.ts:48 "We are the leader" justifies a plain SET: no renewal may    *)
(* replace the lock of another elector.  When a campaign takes longer the   *)
(* lock can expire and be taken between its GET and its SET.                *)
NoRenewalStealsTheLock ==
    [][\A n \in Node : ExecSet(n) => lock.owner \in {n, None}]_vars
=============================================================================
