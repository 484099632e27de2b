----------------------------- MODULE ChatOutbox -----------------------------
(***************************************************************************)
(* 04-chat_app/src/worker.ts: outbox workers move messages from the outbox *)
(* table to Redis.  setInterval starts processOutbox() every second whether *)
(* or not the previous run is over, and all runs of a worker share one pg  *)
(* connection: its queries execute in order, but the runs' queries         *)
(* interleave, so a COMMIT or ROLLBACK of one run ends the transaction the *)
(* other one believes it is in.  A query outside a transaction commits by  *)
(* itself and keeps no lock.                                               *)
(*                                                                         *)
(* Rows are numbered by created_at.  The insertion of rows is not in the   *)
(* code (db/schema.sql only), nor are PostgreSQL and Redis.                *)
(***************************************************************************)
EXTENDS Naturals, Sequences, FiniteSetsExt

CONSTANTS
    Worker, None,
    Run,          \* the overlapping processOutbox() calls of one worker
    MaxMessages,  \* rows ever inserted
    Batch,        \* LIMIT 100
    MaxFaults     \* crashes and failed publishes

ASSUME OutboxAssumption ==
    None \notin Worker /\ MaxMessages \in Nat /\ Batch \in Nat \ {0} /\ MaxFaults \in Nat

Message == 1..MaxMessages

VARIABLES
    pending, published, \* the committed rows, by status
    txn,                \* each connection: "none", "open" or "aborted"
    locked,             \* each row: the worker whose transaction locks it
    dirty,              \* rows a worker's open transaction set to PUBLISHED
    queue,              \* each connection: the runs whose query waits, in order
    pc,                 \* each run: the query it waits for, "publish" or "idle"
    rows,               \* the ids of its batch
    left,               \* those it has not published yet
    sent,               \* what Redis has got
    faults

db == <<pending, published, txn, locked, dirty>>
runs == <<pc, rows, left>>
vars == <<db, queue, runs, sent, faults>>

Query == {"BEGIN", "SELECT", "UPDATE", "COMMIT", "ROLLBACK"}

(* A row has one status; a transaction's changed rows are rows it locks.    *)
TypeOK ==
    /\ pending \subseteq Message /\ published \subseteq Message \ pending
    /\ txn \in [Worker -> {"none", "open", "aborted"}]
    /\ locked \in [Message -> Worker \cup {None}]
    /\ dirty \in [Worker -> SUBSET Message]
    /\ \A w \in Worker, m \in Message : m \in dirty[w] => locked[m] = w
    /\ queue \in [Worker -> Seq(Run)]
    /\ pc \in [Worker -> [Run -> Query \cup {"publish", "idle"}]]
    /\ rows \in [Worker -> [Run -> SUBSET Message]]
    /\ left \in [Worker -> [Run -> SUBSET Message]]
    /\ sent \subseteq Message
    /\ faults \in 0..MaxFaults

Init ==
    /\ pending = {} /\ published = {} /\ sent = {} /\ faults = 0
    /\ txn = [w \in Worker |-> "none"]
    /\ locked = [m \in Message |-> None]
    /\ dirty = [w \in Worker |-> {}]
    /\ queue = [w \in Worker |-> <<>>]
    /\ pc = [w \in Worker |-> [k \in Run |-> "idle"]]
    /\ rows = [w \in Worker |-> [k \in Run |-> {}]]
    /\ left = [w \in Worker |-> [k \in Run |-> {}]]

-----------------------------------------------------------------------------
(* Plausible slips in the code, used to show that the properties bite. *)
MarkAll(w, k) == pending
MarkLeft(w, k) == left[w][k]
ReturnAtOnce == "idle"

(* UPDATE ... WHERE id = ANY(ids). *)
Marked(w, k) == rows[w][k]
(* What follows an empty SELECT, and a failed query or publish. *)
NothingToDo == "COMMIT"
AfterError == "ROLLBACK"

Held(w) == {m \in Message : locked[m] = w}
LockedByOthers(w) == {m \in Message : locked[m] \notin {w, None}}
Release(w) == [m \in Message |-> IF locked[m] = w THEN None ELSE locked[m]]
Locks(w, M) == [m \in Message |-> IF m \in M THEN w ELSE locked[m]]

(* The first Batch rows of a set. *)
Oldest(M) == {m \in M : Quantify(M, LAMBDA x : x <= m) <= Batch}

(* Run k of w goes on to p.  A query joins the connection's queue, where    *)
(* `tail` is what is left of it.                                            *)
Goes(w, k, p, tail) ==
    /\ pc' = [pc EXCEPT ![w][k] = p]
    /\ queue' = [queue EXCEPT ![w] = IF p \in Query THEN Append(tail, k) ELSE tail]

(* The interval starts a run. *)
Start(w, k) ==
    /\ pc[w][k] = "idle"
    /\ Goes(w, k, "BEGIN", queue[w])
    /\ UNCHANGED <<db, rows, left, sent, faults>>

-----------------------------------------------------------------------------
(* The connection executes its next query, q of run k. *)
Executes(w, k, q) ==
    queue[w] # <<>> /\ Head(queue[w]) = k /\ pc[w][k] = q

Then(w, k, p) == Goes(w, k, p, Tail(queue[w]))

(* A second BEGIN is a warning. *)
Begin(w, k) ==
    /\ Executes(w, k, "BEGIN") /\ txn[w] # "aborted"
    /\ txn' = [txn EXCEPT ![w] = "open"]
    /\ Then(w, k, "SELECT")
    /\ UNCHANGED <<pending, published, locked, dirty, rows, left, sent, faults>>

(* PENDING rows this connection sees, but for those others lock. *)
Candidates(w) == Oldest((pending \ dirty[w]) \ LockedByOthers(w))

Select(w, k) ==
    /\ Executes(w, k, "SELECT") /\ txn[w] # "aborted"
    /\ locked' = IF txn[w] = "open" THEN Locks(w, Candidates(w)) ELSE locked
    /\ rows' = [rows EXCEPT ![w][k] = Candidates(w)]
    /\ left' = [left EXCEPT ![w][k] = Candidates(w)]
    /\ Then(w, k, IF Candidates(w) = {} THEN NothingToDo ELSE "publish")
    /\ UNCHANGED <<pending, published, txn, dirty, sent, faults>>

Blocked(w, k) == rows[w][k] \cap LockedByOthers(w) # {}

(* The UPDATE waits for the locks of others; outside a transaction it       *)
(* commits at once.                                                         *)
Update(w, k) ==
    /\ Executes(w, k, "UPDATE") /\ txn[w] # "aborted" /\ ~Blocked(w, k)
    /\ \/ /\ txn[w] = "open"
          /\ dirty' = [dirty EXCEPT ![w] = @ \cup Marked(w, k)]
          /\ locked' = Locks(w, Marked(w, k))
          /\ UNCHANGED <<pending, published>>
       \/ /\ txn[w] = "none"
          /\ pending' = pending \ Marked(w, k)
          /\ published' = published \cup Marked(w, k)
          /\ UNCHANGED <<dirty, locked>>
    /\ Then(w, k, "COMMIT")
    /\ UNCHANGED <<txn, rows, left, sent, faults>>

(* Ends the connection's transaction, whoever began it. *)
EndTxn(w, done) ==
    /\ pending' = pending \ done
    /\ published' = published \cup done
    /\ txn' = [txn EXCEPT ![w] = "none"]
    /\ locked' = Release(w)
    /\ dirty' = [dirty EXCEPT ![w] = {}]

Ends(w, k) ==
    /\ Then(w, k, "idle")
    /\ rows' = [rows EXCEPT ![w][k] = {}]
    /\ left' = [left EXCEPT ![w][k] = {}]
    /\ UNCHANGED <<sent, faults>>

(* COMMIT of an aborted transaction rolls it back: its dirty set is empty. *)
Commit(w, k) ==
    Executes(w, k, "COMMIT") /\ EndTxn(w, dirty[w]) /\ Ends(w, k)

Rollback(w, k) ==
    Executes(w, k, "ROLLBACK") /\ EndTxn(w, {}) /\ Ends(w, k)

(* In an aborted transaction every other query fails: catch, ROLLBACK. *)
Refused(w, k) ==
    /\ \E q \in {"BEGIN", "SELECT", "UPDATE"} : Executes(w, k, q)
    /\ txn[w] = "aborted"
    /\ Then(w, k, AfterError)
    /\ UNCHANGED <<db, rows, left, sent, faults>>

(* Two connections wait for each other's locks: one UPDATE fails, which     *)
(* aborts its transaction.                                                  *)
WaitsFor(w, v) ==
    \E k \in Run : Executes(w, k, "UPDATE") /\ rows[w][k] \cap Held(v) # {}

DeadlockVictim(w, k) ==
    /\ Executes(w, k, "UPDATE")
    /\ \E v \in Worker \ {w} : WaitsFor(w, v) /\ WaitsFor(v, w)
    /\ txn' = [txn EXCEPT ![w] = "aborted"]
    /\ locked' = Release(w)
    /\ dirty' = [dirty EXCEPT ![w] = {}]
    /\ Then(w, k, AfterError)
    /\ UNCHANGED <<pending, published, rows, left, sent, faults>>

-----------------------------------------------------------------------------
(* The next redis.publish of the loop. *)
Publish(w, k) ==
    /\ pc[w][k] = "publish"
    /\ LET m == Min(left[w][k])
       IN /\ sent' = sent \cup {m}
          /\ left' = [left EXCEPT ![w][k] = @ \ {m}]
          /\ Goes(w, k, IF left[w][k] = {m} THEN "UPDATE" ELSE "publish", queue[w])
    /\ UNCHANGED <<db, rows, faults>>

PublishFails(w, k) ==
    /\ pc[w][k] = "publish" /\ faults < MaxFaults
    /\ faults' = faults + 1
    /\ Goes(w, k, AfterError, queue[w])
    /\ UNCHANGED <<db, rows, left, sent>>

(* The process dies, or SIGTERM ends it, and is restarted: PostgreSQL rolls *)
(* the transaction back.                                                    *)
Crash(w) ==
    /\ faults < MaxFaults /\ faults' = faults + 1
    /\ EndTxn(w, {})
    /\ queue' = [queue EXCEPT ![w] = <<>>]
    /\ pc' = [pc EXCEPT ![w] = [k \in Run |-> "idle"]]
    /\ rows' = [rows EXCEPT ![w] = [k \in Run |-> {}]]
    /\ left' = [left EXCEPT ![w] = [k \in Run |-> {}]]
    /\ UNCHANGED sent

(* A message is stored with its outbox row. *)
Insert ==
    /\ \E m \in Message : pending \cup published = 1..(m - 1) /\ pending' = pending \cup {m}
    /\ UNCHANGED <<published, txn, locked, dirty, queue, runs, sent, faults>>

Execute(w) ==
    \E k \in Run : \/ Begin(w, k) \/ Select(w, k) \/ Update(w, k) \/ Commit(w, k)
                   \/ Rollback(w, k) \/ Refused(w, k) \/ DeadlockVictim(w, k)

Next ==
    \/ Insert
    \/ \E w \in Worker :
          \/ Execute(w) \/ Crash(w)
          \/ \E k \in Run : Start(w, k) \/ Publish(w, k) \/ PublishFails(w, k)

Spec == Init /\ [][Next]_vars

(* The interval keeps firing, PostgreSQL and Redis keep answering. *)
Fairness ==
    \A w \in Worker :
        /\ WF_vars(\E k \in Run : Start(w, k))
        /\ WF_vars(Execute(w))
        /\ \A k \in Run : WF_vars(Publish(w, k))

FairSpec == Spec /\ Fairness

-----------------------------------------------------------------------------
(* At-least-once: whatever runs overlap on a connection, whoever ends whose *)
(* transaction, and wherever a worker crashes, a row becomes PUBLISHED only *)
(* after Redis got its message, and no row comes back.                      *)
Outbox == INSTANCE AtLeastOnce
          WITH accepted <- pending \cup published, delivered <- sent, closed <- published
ImplementsAtLeastOnce == Outbox!Spec

(* A worker with nothing to do holds no transaction and no row: the next    *)
(* COMMIT or ROLLBACK of its own cleans up after runs that overlapped.      *)
IdleHoldsNothing ==
    \A w \in Worker :
        (\A k \in Run : pc[w][k] = "idle") => txn[w] = "none" /\ Held(w) = {} /\ dirty[w] = {}

(* Every row is published and marked in the end, and stays so: the runs do  *)
(* not undo each other's UPDATE forever, nor wait for each other's locks.   *)
Drains == \A m \in Message : m \in pending ~> m \in published

(* worker.ts:13 "Lock rows so multiple workers don't grab the same          *)
(* messages": no row is in the batch two workers are still publishing.  A   *)
(* run's COMMIT or ROLLBACK releases the rows of the other run on its       *)
(* connection.                                                              *)
NoSharedBatch ==
    \A v, w \in Worker : v # w =>
        \A j, k \in Run : left[v][j] \cap left[w][k] = {}
=============================================================================
