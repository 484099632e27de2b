-------------------------- MODULE ChatOutboxProofs --------------------------
(* Proofs about ChatOutbox for any workers, overlapping runs, numbers of    *)
(* rows and faults, and any batch size.                                     *)
EXTENDS ChatOutbox, SequenceTheorems, WellFoundedInduction, TLAPS

Rows == pending \cup published
State == Query \cup {"publish", "idle"}

(* What a run has of its batch it has published or still has to; it marks   *)
(* the batch when all is published.                                         *)
RunInv(w, k) ==
    /\ left[w][k] \subseteq rows[w][k] /\ rows[w][k] \subseteq Rows
    /\ rows[w][k] \ left[w][k] \subseteq sent
    /\ pc[w][k] = "UPDATE" => left[w][k] = {}
    /\ pc[w][k] = "publish" => left[w][k] # {}

(* Whoever ends a connection's transaction ends it for all of its runs: it  *)
(* marked only rows that are published, and a connection whose runs have    *)
(* not got beyond BEGIN has none.                                           *)
ConnectionInv(w) ==
    /\ dirty[w] \subseteq Rows \cap sent
    /\ txn[w] # "open" => Held(w) = {} /\ dirty[w] = {}
    /\ (\A k \in Run : pc[w][k] \in {"idle", "BEGIN"}) => txn[w] = "none"

IInv ==
    /\ TypeOK
    /\ \A w \in Worker : ConnectionInv(w) /\ \A k \in Run : RunInv(w, k)

-----------------------------------------------------------------------------
LEMMA LeastRow ==
  ASSUME NEW M, M \subseteq Message, M # {}
  PROVE  Min(M) \in M
<1>1. M \subseteq Nat
  BY OutboxAssumption DEF Message
<1>2. PICK x \in M : \A y \in M : ~(<<y, x>> \in OpToRel(<, Nat))
  BY <1>1, NatLessThanWellFounded, WFMin
<1>3. ASSUME NEW y \in M
      PROVE  x <= y
  <2>1. x \in Nat /\ y \in Nat
    BY <1>1
  <2>2. ~(y < x)
    <3>1. <<y, x>> \in Nat \X Nat /\ <<y, x>>[1] = y /\ <<y, x>>[2] = x
      BY <2>1
    <3>2. QED
      BY <1>2, <3>1, Zenon DEF OpToRel
  <2>3. QED
    BY <2>1, <2>2
<1>4. QED
  BY <1>3 DEF Min

LEMMA IInvInit ==
  ASSUME Init
  PROVE  IInv
<1>1. TypeOK
  <2>1. <<>> \in Seq(Run) /\ 0 \in 0..MaxFaults
    BY OutboxAssumption, EmptySeq
  <2>2. QED
    BY <2>1 DEF Init, TypeOK
<1>2. ASSUME NEW w \in Worker
      PROVE  ConnectionInv(w) /\ \A k \in Run : RunInv(w, k)
  <2>1. w # None
    BY OutboxAssumption
  <2>2. QED
    BY <2>1 DEF Init, ConnectionInv, RunInv, Held
<1>3. QED
  BY <1>1, <1>2 DEF IInv

(* A run that goes on leaves the other runs and connections where they are. *)
LEMMA GoesOn ==
  ASSUME TypeOK, NEW w \in Worker, NEW k \in Run, NEW p \in State, NEW tail \in Seq(Run),
         Goes(w, k, p, tail)
  PROVE  /\ pc' \in [Worker -> [Run -> State]] /\ queue' \in [Worker -> Seq(Run)]
         /\ pc'[w][k] = p
         /\ \A v \in Worker, j \in Run : v # w \/ j # k => pc'[v][j] = pc[v][j]
<1>1. pc \in [Worker -> [Run -> State]] /\ queue \in [Worker -> Seq(Run)]
  BY DEF TypeOK, State
<1>2. pc' = [pc EXCEPT ![w][k] = p]
  BY DEF Goes
<1>3. pc' \in [Worker -> [Run -> State]]
  BY <1>1, <1>2
<1>4. pc'[w][k] = p /\ \A v \in Worker, j \in Run : v # w \/ j # k => pc'[v][j] = pc[v][j]
  BY <1>1, <1>2
<1>5. Append(tail, k) \in Seq(Run)
  BY AppendProperties
<1>6. queue' \in [Worker -> Seq(Run)]
  BY <1>1, <1>5 DEF Goes
<1>7. QED
  BY <1>3, <1>4, <1>6

LEMMA ThenGoesOn ==
  ASSUME TypeOK, NEW w \in Worker, NEW k \in Run, NEW p \in State,
         queue[w] # <<>>, Then(w, k, p)
  PROVE  /\ pc' \in [Worker -> [Run -> State]] /\ queue' \in [Worker -> Seq(Run)]
         /\ pc'[w][k] = p
         /\ \A v \in Worker, j \in Run : v # w \/ j # k => pc'[v][j] = pc[v][j]
<1>1. Tail(queue[w]) \in Seq(Run)
  BY HeadTailProperties DEF TypeOK
<1>2. Goes(w, k, p, Tail(queue[w]))
  BY DEF Then
<1>3. PICK tail \in Seq(Run) : tail = Tail(queue[w])
  BY <1>1
<1>4. Goes(w, k, p, tail)
  BY <1>2, <1>3
<1>5. QED
  BY <1>4, GoesOn

(* What a step of run k of worker w leaves alone: the other runs ...        *)
LEMMA OtherRuns ==
  ASSUME IInv, NEW w \in Worker, NEW k \in Run, Rows \subseteq Rows', sent \subseteq sent',
         \A v \in Worker, j \in Run : v # w \/ j # k =>
            pc'[v][j] = pc[v][j] /\ rows'[v][j] = rows[v][j] /\ left'[v][j] = left[v][j]
  PROVE  \A v \in Worker, j \in Run : v # w \/ j # k => RunInv(v, j)'
<1>1. SUFFICES ASSUME NEW v \in Worker, NEW j \in Run, v # w \/ j # k
               PROVE  RunInv(v, j)'
  OBVIOUS
<1>2. RunInv(v, j)
  BY DEF IInv
<1>3. pc'[v][j] = pc[v][j] /\ rows'[v][j] = rows[v][j] /\ left'[v][j] = left[v][j]
  BY <1>1
<1>4. QED
  BY <1>2, <1>3 DEF RunInv

(* ... and the other connections. *)
LEMMA OtherConnections ==
  ASSUME IInv, NEW w \in Worker, Rows \subseteq Rows', sent \subseteq sent',
         \A v \in Worker \ {w} :
            /\ dirty'[v] = dirty[v] /\ txn'[v] = txn[v] /\ Held(v)' \subseteq Held(v)
            /\ \A j \in Run : pc'[v][j] = pc[v][j]
  PROVE  \A v \in Worker \ {w} : ConnectionInv(v)'
<1>1. SUFFICES ASSUME NEW v \in Worker \ {w}
               PROVE  ConnectionInv(v)'
  OBVIOUS
<1>2. ConnectionInv(v)
  BY DEF IInv
<1>3. QED
  BY <1>1, <1>2 DEF ConnectionInv

(* A query that changes no row of the database, nor what the run has of its *)
(* batch: the run goes on to p.                                             *)
LEMMA QueryKeeps ==
  ASSUME IInv, NEW w \in Worker, NEW k \in Run, NEW p \in State \ {"idle", "UPDATE", "publish"},
         pc' \in [Worker -> [Run -> State]], queue' \in [Worker -> Seq(Run)],
         pc'[w][k] = p,
         \A v \in Worker, j \in Run : v # w \/ j # k => pc'[v][j] = pc[v][j],
         \/ (p = "BEGIN" => pc[w][k] = "idle") /\ UNCHANGED <<txn, locked, dirty>>
         \/ p = "SELECT" /\ txn' = [txn EXCEPT ![w] = "open"] /\ UNCHANGED <<locked, dirty>>
         \/ p = "ROLLBACK" /\ txn' = [txn EXCEPT ![w] = "aborted"]
            /\ locked' = Release(w) /\ dirty' = [dirty EXCEPT ![w] = {}],
         UNCHANGED <<pending, published, rows, left, sent>>, faults' \in 0..MaxFaults
  PROVE  IInv'
<1>. USE DEF State
<1>1. /\ TypeOK /\ ConnectionInv(w) /\ RunInv(w, k) /\ w # None
      /\ Rows' = Rows /\ Rows \subseteq Rows' /\ sent \subseteq sent'
  BY OutboxAssumption DEF IInv, Rows
<1>2. ASSUME NEW v \in Worker \ {w}
      PROVE  dirty'[v] = dirty[v] /\ txn'[v] = txn[v] /\ Held(v)' \subseteq Held(v)
  <2>1. dirty'[v] = dirty[v] /\ txn'[v] = txn[v]
    BY <1>1 DEF TypeOK
  <2>2. \A m \in Message : locked'[m] = v => locked[m] = v
    BY <1>1, OutboxAssumption DEF TypeOK, Release
  <2>3. QED
    BY <2>1, <2>2 DEF Held
<1>3. TypeOK'
  <2>1. txn' \in [Worker -> {"none", "open", "aborted"}] /\ dirty' \in [Worker -> SUBSET Message]
    BY <1>1 DEF TypeOK
  <2>2. locked' \in [Message -> Worker \cup {None}]
    BY <1>1 DEF TypeOK, Release
  <2>3. \A v \in Worker, m \in Message : m \in dirty'[v] => locked'[m] = v
    <3>1. SUFFICES ASSUME NEW v \in Worker, NEW m \in Message, m \in dirty'[v]
                   PROVE  locked'[m] = v
      OBVIOUS
    <3>2. CASE UNCHANGED <<locked, dirty>>
      BY <1>1, <3>1, <3>2 DEF TypeOK
    <3>3. CASE locked' = Release(w) /\ dirty' = [dirty EXCEPT ![w] = {}]
      <4>1. v # w /\ m \in dirty[v]
        BY <1>1, <3>1, <3>3 DEF TypeOK
      <4>2. locked[m] = v
        BY <1>1, <4>1 DEF TypeOK
      <4>3. QED
        BY <3>3, <4>1, <4>2 DEF Release
    <3>4. QED
      BY <3>2, <3>3
  <2>4. QED
    BY <1>1, <2>1, <2>2, <2>3 DEF TypeOK
<1>4. ConnectionInv(w)'
  <2>1. dirty'[w] \subseteq Rows' \cap sent'
    BY <1>1 DEF ConnectionInv, TypeOK
  <2>2. txn'[w] # "open" => Held(w)' = {} /\ dirty'[w] = {}
    BY <1>1 DEF ConnectionInv, TypeOK, Held, Release
  <2>3. (\A j \in Run : pc'[w][j] \in {"idle", "BEGIN"}) => txn'[w] = "none"
    BY <1>1 DEF ConnectionInv
  <2>4. QED
    BY <2>1, <2>2, <2>3 DEF ConnectionInv
<1>5. RunInv(w, k)'
  BY <1>1 DEF RunInv
<1>6. \A v \in Worker \ {w} : ConnectionInv(v)'
  BY <1>1, <1>2, OtherConnections
<1>7. \A v \in Worker, j \in Run : v # w \/ j # k => RunInv(v, j)'
  BY <1>1, OtherRuns
<1>8. QED
  BY <1>3, <1>4, <1>5, <1>6, <1>7 DEF IInv

LEMMA SelectKeeps ==
  ASSUME IInv, NEW w \in Worker, NEW k \in Run, Select(w, k)
  PROVE  IInv'
<1>1. TypeOK /\ ConnectionInv(w) /\ w # None
  BY OutboxAssumption DEF IInv
<1>2. PICK C : C = Candidates(w)
  OBVIOUS
<1>3. C \subseteq pending /\ C \cap LockedByOthers(w) = {}
  BY <1>2 DEF Candidates, Oldest
<1>4. PICK p \in State : p = (IF C = {} THEN "COMMIT" ELSE "publish")
  BY DEF State, Query
<1>5. /\ pc' \in [Worker -> [Run -> State]] /\ queue' \in [Worker -> Seq(Run)]
      /\ pc'[w][k] = p
      /\ \A v \in Worker, j \in Run : v # w \/ j # k => pc'[v][j] = pc[v][j]
  <2>1. queue[w] # <<>> /\ Then(w, k, p)
    BY <1>2, <1>4 DEF Select, Executes, NothingToDo
  <2>2. QED
    BY <1>1, <2>1, ThenGoesOn
<1>6. /\ locked' = IF txn[w] = "open" THEN Locks(w, C) ELSE locked
      /\ rows' = [rows EXCEPT ![w][k] = C] /\ left' = [left EXCEPT ![w][k] = C]
      /\ UNCHANGED <<pending, published, txn, dirty, sent, faults>>
      /\ txn[w] # "aborted"
  BY <1>2 DEF Select
<1>7. /\ rows' \in [Worker -> [Run -> SUBSET Message]] /\ rows'[w][k] = C
      /\ left' \in [Worker -> [Run -> SUBSET Message]] /\ left'[w][k] = C
      /\ \A v \in Worker, j \in Run : v # w \/ j # k =>
            rows'[v][j] = rows[v][j] /\ left'[v][j] = left[v][j]
  BY <1>1, <1>3, <1>6 DEF TypeOK
<1>8. Rows' = Rows /\ Rows \subseteq Rows' /\ sent \subseteq sent'
  BY <1>6 DEF Rows
(* Locked are rows that nobody else holds. *)
<1>9. /\ locked' \in [Message -> Worker \cup {None}]
      /\ \A v \in Worker, m \in Message : v # w => (locked'[m] = v <=> locked[m] = v)
      /\ \A m \in Message : locked[m] = w => locked'[m] = w
      /\ txn[w] # "open" => locked' = locked
  <2>1. \A m \in C : locked[m] \in {w, None}
    BY <1>1, <1>3 DEF LockedByOthers, TypeOK
  <2>2. CASE txn[w] = "open"
    <3>1. locked' = [m \in Message |-> IF m \in C THEN w ELSE locked[m]]
      BY <1>6, <2>2 DEF Locks
    <3>2. QED
      BY <1>1, <2>1, <2>2, <3>1, OutboxAssumption DEF TypeOK
  <2>3. CASE txn[w] # "open"
    BY <1>1, <1>6, <2>3 DEF TypeOK
  <2>4. QED
    BY <2>2, <2>3
<1>10. TypeOK'
  <2>1. \A v \in Worker, m \in Message : m \in dirty'[v] => locked'[m] = v
    BY <1>1, <1>6, <1>9 DEF TypeOK
  <2>2. QED
    BY <1>1, <1>5, <1>6, <1>7, <1>9, <2>1 DEF TypeOK, State
<1>11. RunInv(w, k)'
  BY <1>3, <1>4, <1>5, <1>7, <1>8 DEF RunInv, Rows
<1>12. ConnectionInv(w)'
  <2>1. pc'[w][k] \notin {"idle", "BEGIN"}
    BY <1>4, <1>5
  <2>2. txn'[w] # "open" => Held(w)' = Held(w)
    BY <1>6, <1>9 DEF Held
  <2>3. QED
    BY <1>1, <1>6, <1>8, <2>1, <2>2 DEF ConnectionInv
<1>13. \A v \in Worker \ {w} : ConnectionInv(v)'
  <2>1. \A v \in Worker \ {w} : Held(v)' \subseteq Held(v)
    BY <1>9 DEF Held
  <2>2. QED
    BY <1>5, <1>6, <1>8, <2>1, OtherConnections
<1>14. \A v \in Worker, j \in Run : v # w \/ j # k => RunInv(v, j)'
  <2>1. \A v \in Worker, j \in Run : v # w \/ j # k =>
           pc'[v][j] = pc[v][j] /\ rows'[v][j] = rows[v][j] /\ left'[v][j] = left[v][j]
    BY <1>5, <1>7
  <2>2. QED
    BY <1>8, <2>1, OtherRuns
<1>15. QED
  BY <1>10, <1>11, <1>12, <1>13, <1>14 DEF IInv

(* The rows a run marks are published, and no other connection holds them. *)
LEMMA UpdateKeeps ==
  ASSUME IInv, NEW w \in Worker, NEW k \in Run, Update(w, k)
  PROVE  IInv'
<1>1. TypeOK /\ ConnectionInv(w) /\ RunInv(w, k) /\ w # None
  BY OutboxAssumption DEF IInv
<1>2. PICK R : R = rows[w][k]
  OBVIOUS
<1>3. R \subseteq Rows \cap sent /\ R \subseteq Message /\ left[w][k] = {}
  BY <1>1, <1>2 DEF RunInv, Update, Executes, TypeOK
<1>4. \A m \in R : locked[m] \in {w, None}
  BY <1>1, <1>2, <1>3 DEF Update, Blocked, LockedByOthers, TypeOK
<1>5. /\ pc' \in [Worker -> [Run -> State]] /\ queue' \in [Worker -> Seq(Run)]
      /\ pc'[w][k] = "COMMIT"
      /\ \A v \in Worker, j \in Run : v # w \/ j # k => pc'[v][j] = pc[v][j]
  <2>1. queue[w] # <<>> /\ Then(w, k, "COMMIT") /\ "COMMIT" \in State
    BY DEF Update, Executes, State, Query
  <2>2. QED
    BY <1>1, <2>1, ThenGoesOn
<1>6. UNCHANGED <<txn, rows, left, sent, faults>>
  BY DEF Update
<1>7. /\ Rows' = Rows /\ pending' \subseteq Message /\ published' \subseteq Message \ pending'
      /\ locked' \in [Message -> Worker \cup {None}] /\ dirty' \in [Worker -> SUBSET Message]
      /\ dirty'[w] \subseteq dirty[w] \cup R
      /\ txn[w] # "open" => UNCHANGED <<locked, dirty>>
      /\ \A v \in Worker \ {w} : dirty'[v] = dirty[v]
      /\ \A v \in Worker, m \in Message : locked'[m] = v => locked[m] = v \/ v = w
      /\ \A v \in Worker, m \in Message : m \in dirty'[v] => locked'[m] = v
  <2>1. CASE txn[w] = "open"
    <3>1. /\ dirty' = [dirty EXCEPT ![w] = @ \cup R]
          /\ locked' = [m \in Message |-> IF m \in R THEN w ELSE locked[m]]
          /\ UNCHANGED <<pending, published>>
      BY <1>2, <2>1 DEF Update, Marked, Locks
    <3>2. dirty'[w] = dirty[w] \cup R /\ \A v \in Worker \ {w} : dirty'[v] = dirty[v]
      BY <1>1, <3>1 DEF TypeOK
    <3>3. ASSUME NEW v \in Worker, NEW m \in Message, m \in dirty'[v]
          PROVE  locked'[m] = v
      <4>1. CASE m \in R
        <5>1. v # w => locked[m] = v
          BY <1>1, <3>2, <3>3 DEF TypeOK
        <5>2. v = w
          BY <1>4, <4>1, <5>1, OutboxAssumption
        <5>3. QED
          BY <3>1, <4>1, <5>2
      <4>2. CASE m \notin R
        BY <1>1, <3>1, <3>2, <3>3, <4>2 DEF TypeOK
      <4>3. QED
        BY <4>1, <4>2
    <3>4. dirty' \in [Worker -> SUBSET Message]
      BY <1>1, <1>3, <3>1 DEF TypeOK
    <3>5. QED
      BY <1>1, <2>1, <3>1, <3>2, <3>3, <3>4 DEF TypeOK, Rows
  <2>2. CASE txn[w] = "none"
    <3>1. /\ pending' = pending \ R /\ published' = published \cup R
          /\ UNCHANGED <<dirty, locked>>
      BY <1>2, <2>2 DEF Update, Marked
    <3>2. QED
      BY <1>1, <1>3, <2>2, <3>1 DEF TypeOK, Rows
  <2>3. QED
    BY <2>1, <2>2 DEF Update
<1>8. TypeOK'
  BY <1>1, <1>5, <1>6, <1>7 DEF TypeOK, State
<1>9. RunInv(w, k)'
  BY <1>1, <1>5, <1>6, <1>7 DEF RunInv
<1>10. ConnectionInv(w)'
  <2>1. pc'[w][k] \notin {"idle", "BEGIN"}
    BY <1>5
  <2>2. dirty'[w] \subseteq Rows' \cap sent'
    BY <1>1, <1>3, <1>6, <1>7 DEF ConnectionInv
  <2>3. QED
    BY <1>1, <1>6, <1>7, <2>1, <2>2 DEF ConnectionInv, Held
<1>11. Rows \subseteq Rows' /\ sent \subseteq sent'
  BY <1>6, <1>7
<1>12. \A v \in Worker \ {w} : ConnectionInv(v)'
  <2>1. \A v \in Worker \ {w} : Held(v)' \subseteq Held(v)
    BY <1>7 DEF Held
  <2>2. QED
    BY <1>5, <1>6, <1>7, <1>11, <2>1, OtherConnections
<1>13. \A v \in Worker, j \in Run : v # w \/ j # k => RunInv(v, j)'
  BY <1>5, <1>6, <1>11, OtherRuns
<1>14. QED
  BY <1>8, <1>9, <1>10, <1>12, <1>13 DEF IInv

LEMMA PublishKeeps ==
  ASSUME IInv, NEW w \in Worker, NEW k \in Run, Publish(w, k)
  PROVE  IInv'
<1>1. TypeOK /\ ConnectionInv(w) /\ RunInv(w, k)
  BY DEF IInv
<1>2. PICK L : L = left[w][k]
  OBVIOUS
<1>3. L \subseteq rows[w][k] /\ L \subseteq Rows /\ L \subseteq Message /\ L # {}
  BY <1>1, <1>2 DEF RunInv, Publish, TypeOK
<1>4. PICK m \in L : m = Min(L)
  BY <1>3, LeastRow
<1>5. PICK p \in State : p = (IF L = {m} THEN "UPDATE" ELSE "publish")
  BY DEF State, Query
<1>6. /\ sent' = sent \cup {m} /\ left' = [left EXCEPT ![w][k] = L \ {m}]
      /\ UNCHANGED <<db, rows, faults>>
  BY <1>2, <1>4 DEF Publish
<1>7. /\ pc' \in [Worker -> [Run -> State]] /\ queue' \in [Worker -> Seq(Run)]
      /\ pc'[w][k] = p
      /\ \A v \in Worker, j \in Run : v # w \/ j # k => pc'[v][j] = pc[v][j]
  <2>1. Goes(w, k, p, queue[w]) /\ queue[w] \in Seq(Run)
    BY <1>1, <1>2, <1>4, <1>5 DEF Publish, TypeOK
  <2>2. QED
    BY <1>1, <2>1, GoesOn
<1>8. /\ left' \in [Worker -> [Run -> SUBSET Message]] /\ left'[w][k] = L \ {m}
      /\ \A v \in Worker, j \in Run : v # w \/ j # k => left'[v][j] = left[v][j]
  BY <1>1, <1>3, <1>6 DEF TypeOK
<1>9. Rows' = Rows /\ Rows \subseteq Rows' /\ sent \subseteq sent' /\ sent' \subseteq Message
  BY <1>1, <1>3, <1>4, <1>6 DEF Rows, TypeOK, db
<1>10. TypeOK'
  BY <1>1, <1>6, <1>7, <1>8, <1>9 DEF TypeOK, State, db
<1>11. RunInv(w, k)'
  <2>1. p = "UPDATE" => L \ {m} = {}
    BY <1>5
  <2>2. p = "publish" => L \ {m} # {}
    BY <1>4, <1>5
  <2>3. rows'[w][k] \ (L \ {m}) \subseteq sent'
    BY <1>1, <1>2, <1>6 DEF RunInv
  <2>4. QED
    BY <1>1, <1>3, <1>6, <1>7, <1>8, <1>9, <2>1, <2>2, <2>3 DEF RunInv
<1>12. ConnectionInv(w)'
  BY <1>1, <1>5, <1>6, <1>7, <1>9 DEF ConnectionInv, db, Held
<1>13. \A v \in Worker \ {w} : ConnectionInv(v)'
  <2>1. \A v \in Worker \ {w} :
           /\ dirty'[v] = dirty[v] /\ txn'[v] = txn[v] /\ Held(v)' \subseteq Held(v)
           /\ \A j \in Run : pc'[v][j] = pc[v][j]
    BY <1>6, <1>7 DEF db, Held
  <2>2. QED
    BY <1>9, <2>1, OtherConnections
<1>14. \A v \in Worker, j \in Run : v # w \/ j # k => RunInv(v, j)'
  <2>1. \A v \in Worker, j \in Run : v # w \/ j # k =>
           pc'[v][j] = pc[v][j] /\ rows'[v][j] = rows[v][j] /\ left'[v][j] = left[v][j]
    BY <1>6, <1>7, <1>8
  <2>2. QED
    BY <1>9, <2>1, OtherRuns
<1>15. QED
  BY <1>10, <1>11, <1>12, <1>13, <1>14 DEF IInv

(* The end of a transaction, whatever part of what it marked it keeps. *)
LEMMA EndTxnKeeps ==
  ASSUME TypeOK, NEW w \in Worker, ConnectionInv(w),
         NEW done \in SUBSET dirty[w], EndTxn(w, done)
  PROVE  /\ Rows' = Rows /\ pending' \subseteq Message /\ published' \subseteq Message \ pending'
         /\ txn' \in [Worker -> {"none", "open", "aborted"}] /\ txn'[w] = "none"
         /\ locked' \in [Message -> Worker \cup {None}]
         /\ dirty' \in [Worker -> SUBSET Message] /\ dirty'[w] = {} /\ Held(w)' = {}
         /\ \A v \in Worker, m \in Message : m \in dirty'[v] => locked'[m] = v
         /\ \A v \in Worker \ {w} :
               dirty'[v] = dirty[v] /\ txn'[v] = txn[v] /\ Held(v)' \subseteq Held(v)
<1>1. /\ pending' = pending \ done /\ published' = published \cup done
      /\ txn' = [txn EXCEPT ![w] = "none"] /\ dirty' = [dirty EXCEPT ![w] = {}]
      /\ locked' = [m \in Message |-> IF locked[m] = w THEN None ELSE locked[m]]
  BY DEF EndTxn, Release
<1>2. done \subseteq Rows /\ None \notin Worker
  BY OutboxAssumption DEF ConnectionInv
<1>3. Rows' = Rows /\ pending' \subseteq Message /\ published' \subseteq Message \ pending'
  BY <1>1, <1>2 DEF TypeOK, Rows
<1>4. /\ txn' \in [Worker -> {"none", "open", "aborted"}] /\ txn'[w] = "none"
      /\ dirty' \in [Worker -> SUBSET Message] /\ dirty'[w] = {}
      /\ \A v \in Worker \ {w} : dirty'[v] = dirty[v] /\ txn'[v] = txn[v]
  BY <1>1 DEF TypeOK
<1>5. locked' \in [Message -> Worker \cup {None}]
  BY <1>1 DEF TypeOK
<1>6. \A m \in Message, v \in Worker : locked'[m] = v <=> locked[m] = v /\ v # w
  BY <1>1, <1>2 DEF TypeOK
<1>7. Held(w)' = {} /\ \A v \in Worker \ {w} : Held(v)' \subseteq Held(v)
  BY <1>6 DEF Held
<1>8. \A v \in Worker, m \in Message : m \in dirty'[v] => locked'[m] = v
  <2>1. SUFFICES ASSUME NEW v \in Worker, NEW m \in Message, m \in dirty'[v]
                 PROVE  locked'[m] = v
    OBVIOUS
  <2>2. v # w /\ m \in dirty[v]
    BY <1>4, <2>1
  <2>3. locked[m] = v
    BY <2>2 DEF TypeOK
  <2>4. QED
    BY <1>6, <2>2, <2>3
<1>9. QED
  BY <1>3, <1>4, <1>5, <1>7, <1>8

(* COMMIT and ROLLBACK end the run and the connection's transaction. *)
LEMMA EndsKeeps ==
  ASSUME IInv, NEW w \in Worker, NEW k \in Run, queue[w] # <<>>,
         NEW done \in SUBSET dirty[w], EndTxn(w, done), Ends(w, k)
  PROVE  IInv'
<1>1. TypeOK /\ ConnectionInv(w)
  BY DEF IInv
<1>2. /\ pc' \in [Worker -> [Run -> State]] /\ queue' \in [Worker -> Seq(Run)]
      /\ pc'[w][k] = "idle"
      /\ \A v \in Worker, j \in Run : v # w \/ j # k => pc'[v][j] = pc[v][j]
  <2>1. Then(w, k, "idle") /\ "idle" \in State
    BY DEF Ends, State
  <2>2. QED
    BY <1>1, <2>1, ThenGoesOn
<1>3. /\ Rows' = Rows /\ pending' \subseteq Message /\ published' \subseteq Message \ pending'
      /\ txn' \in [Worker -> {"none", "open", "aborted"}] /\ txn'[w] = "none"
      /\ locked' \in [Message -> Worker \cup {None}]
      /\ dirty' \in [Worker -> SUBSET Message] /\ dirty'[w] = {} /\ Held(w)' = {}
      /\ \A v \in Worker, m \in Message : m \in dirty'[v] => locked'[m] = v
      /\ \A v \in Worker \ {w} :
            dirty'[v] = dirty[v] /\ txn'[v] = txn[v] /\ Held(v)' \subseteq Held(v)
  BY <1>1, EndTxnKeeps
<1>4. /\ rows' = [rows EXCEPT ![w][k] = {}] /\ left' = [left EXCEPT ![w][k] = {}]
      /\ UNCHANGED <<sent, faults>>
  BY DEF Ends
<1>5. /\ rows' \in [Worker -> [Run -> SUBSET Message]] /\ rows'[w][k] = {}
      /\ left' \in [Worker -> [Run -> SUBSET Message]] /\ left'[w][k] = {}
      /\ \A v \in Worker, j \in Run : v # w \/ j # k =>
            rows'[v][j] = rows[v][j] /\ left'[v][j] = left[v][j]
  BY <1>1, <1>4 DEF TypeOK
<1>6. TypeOK'
  BY <1>1, <1>2, <1>3, <1>4, <1>5 DEF TypeOK, State
<1>7. RunInv(w, k)' /\ ConnectionInv(w)'
  BY <1>2, <1>3, <1>5 DEF RunInv, ConnectionInv
<1>8. Rows \subseteq Rows' /\ sent \subseteq sent'
  BY <1>3, <1>4
<1>9. \A v \in Worker \ {w} : ConnectionInv(v)'
  <2>1. \A v \in Worker \ {w} :
           /\ dirty'[v] = dirty[v] /\ txn'[v] = txn[v] /\ Held(v)' \subseteq Held(v)
           /\ \A j \in Run : pc'[v][j] = pc[v][j]
    BY <1>2, <1>3
  <2>2. QED
    BY <1>8, <2>1, OtherConnections
<1>10. \A v \in Worker, j \in Run : v # w \/ j # k => RunInv(v, j)'
  <2>1. \A v \in Worker, j \in Run : v # w \/ j # k =>
           pc'[v][j] = pc[v][j] /\ rows'[v][j] = rows[v][j] /\ left'[v][j] = left[v][j]
    BY <1>2, <1>5
  <2>2. QED
    BY <1>8, <2>1, OtherRuns
<1>11. QED
  BY <1>6, <1>7, <1>9, <1>10 DEF IInv

LEMMA CrashKeeps ==
  ASSUME IInv, NEW w \in Worker, Crash(w)
  PROVE  IInv'
<1>1. TypeOK /\ ConnectionInv(w) /\ {} \in SUBSET dirty[w]
  BY DEF IInv
<1>2. /\ Rows' = Rows /\ pending' \subseteq Message /\ published' \subseteq Message \ pending'
      /\ txn' \in [Worker -> {"none", "open", "aborted"}] /\ txn'[w] = "none"
      /\ locked' \in [Message -> Worker \cup {None}]
      /\ dirty' \in [Worker -> SUBSET Message] /\ dirty'[w] = {} /\ Held(w)' = {}
      /\ \A v \in Worker, m \in Message : m \in dirty'[v] => locked'[m] = v
      /\ \A v \in Worker \ {w} :
            dirty'[v] = dirty[v] /\ txn'[v] = txn[v] /\ Held(v)' \subseteq Held(v)
  BY <1>1, EndTxnKeeps DEF Crash
<1>3. /\ queue' = [queue EXCEPT ![w] = <<>>]
      /\ pc' = [pc EXCEPT ![w] = [k \in Run |-> "idle"]]
      /\ rows' = [rows EXCEPT ![w] = [k \in Run |-> {}]]
      /\ left' = [left EXCEPT ![w] = [k \in Run |-> {}]]
      /\ sent' = sent /\ faults' = faults + 1 /\ faults < MaxFaults
  BY DEF Crash
<1>4. queue' \in [Worker -> Seq(Run)] /\ faults' \in 0..MaxFaults
  <2>1. <<>> \in Seq(Run)
    BY EmptySeq
  <2>2. QED
    BY <1>1, <1>3, <2>1, OutboxAssumption DEF TypeOK
<1>5. /\ pc' \in [Worker -> [Run -> State]]
      /\ rows' \in [Worker -> [Run -> SUBSET Message]]
      /\ left' \in [Worker -> [Run -> SUBSET Message]]
  BY <1>1, <1>3 DEF TypeOK, State
<1>6. \A k \in Run : pc'[w][k] = "idle" /\ rows'[w][k] = {} /\ left'[w][k] = {}
  BY <1>1, <1>3 DEF TypeOK
<1>7. \A v \in Worker \ {w} : pc'[v] = pc[v] /\ rows'[v] = rows[v] /\ left'[v] = left[v]
  BY <1>1, <1>3 DEF TypeOK
<1>8. TypeOK'
  BY <1>1, <1>2, <1>3, <1>4, <1>5 DEF TypeOK, State
<1>9. ConnectionInv(w)' /\ \A k \in Run : RunInv(w, k)'
  BY <1>2, <1>6 DEF ConnectionInv, RunInv
<1>10. \A v \in Worker \ {w} : ConnectionInv(v)'
  <2>1. Rows \subseteq Rows' /\ sent \subseteq sent'
    BY <1>2, <1>3
  <2>2. \A v \in Worker \ {w} :
           /\ dirty'[v] = dirty[v] /\ txn'[v] = txn[v] /\ Held(v)' \subseteq Held(v)
           /\ \A j \in Run : pc'[v][j] = pc[v][j]
    BY <1>2, <1>7
  <2>3. QED
    BY <2>1, <2>2, OtherConnections
<1>11. \A v \in Worker \ {w}, k \in Run : RunInv(v, k)'
  <2>1. \A v \in Worker \ {w}, k \in Run : RunInv(v, k)
    BY DEF IInv
  <2>2. QED
    BY <1>2, <1>3, <1>7, <2>1 DEF RunInv
<1>12. QED
  BY <1>8, <1>9, <1>10, <1>11 DEF IInv

LEMMA InsertKeeps ==
  ASSUME IInv, Insert
  PROVE  IInv'
<1>1. PICK m \in Message : Rows = 1..(m - 1) /\ pending' = pending \cup {m}
  BY DEF Insert, Rows
<1>2. UNCHANGED <<published, txn, locked, dirty, queue, pc, rows, left, sent, faults>>
  BY DEF Insert, runs
<1>3. m \notin Rows
  BY <1>1, OutboxAssumption DEF Message
<1>4. Rows' = Rows \cup {m}
  BY <1>1, <1>2 DEF Rows
<1>5. TypeOK'
  BY <1>1, <1>2, <1>3 DEF IInv, TypeOK, Rows
<1>6. ASSUME NEW w \in Worker
      PROVE  ConnectionInv(w)' /\ \A k \in Run : RunInv(w, k)'
  BY <1>2, <1>4 DEF IInv, ConnectionInv, RunInv, Held
<1>7. QED
  BY <1>5, <1>6 DEF IInv

LEMMA IInvStep ==
  ASSUME IInv, [Next]_vars
  PROVE  IInv'
<1>1. TypeOK /\ faults \in 0..MaxFaults /\ MaxFaults \in Nat
  BY OutboxAssumption DEF IInv, TypeOK
<1>2. {"BEGIN", "SELECT", "ROLLBACK"} \subseteq State \ {"idle", "UPDATE", "publish"}
  BY DEF State, Query
<1>3. ASSUME NEW w \in Worker, NEW k \in Run,
             Begin(w, k) \/ Refused(w, k) \/ DeadlockVictim(w, k)
      PROVE  IInv'
  <2>1. queue[w] # <<>>
    BY <1>3 DEF Begin, Refused, DeadlockVictim, Executes
  <2>2. CASE Begin(w, k)
    <3>1. Then(w, k, "SELECT")
      BY <2>2 DEF Begin
    <3>2. /\ pc' \in [Worker -> [Run -> State]] /\ queue' \in [Worker -> Seq(Run)]
          /\ pc'[w][k] = "SELECT"
          /\ \A v \in Worker, j \in Run : v # w \/ j # k => pc'[v][j] = pc[v][j]
      BY <1>1, <1>2, <2>1, <3>1, ThenGoesOn
    <3>3. QED
      BY <1>1, <1>2, <2>2, <3>2, QueryKeeps DEF Begin
  <2>3. CASE Refused(w, k) \/ DeadlockVictim(w, k)
    <3>1. Then(w, k, "ROLLBACK")
      BY <2>3 DEF Refused, DeadlockVictim, AfterError
    <3>2. /\ pc' \in [Worker -> [Run -> State]] /\ queue' \in [Worker -> Seq(Run)]
          /\ pc'[w][k] = "ROLLBACK"
          /\ \A v \in Worker, j \in Run : v # w \/ j # k => pc'[v][j] = pc[v][j]
      BY <1>1, <1>2, <2>1, <3>1, ThenGoesOn
    <3>3. /\ UNCHANGED <<pending, published, rows, left, sent, faults>>
          /\ \/ UNCHANGED <<txn, locked, dirty>>
             \/ /\ txn' = [txn EXCEPT ![w] = "aborted"] /\ locked' = Release(w)
                /\ dirty' = [dirty EXCEPT ![w] = {}]
      BY <2>3 DEF Refused, DeadlockVictim, db
    <3>4. QED
      BY <1>1, <1>2, <3>2, <3>3, QueryKeeps
  <2>4. QED
    BY <1>3, <2>2, <2>3
<1>4. ASSUME NEW w \in Worker, NEW k \in Run, Start(w, k) \/ PublishFails(w, k)
      PROVE  IInv'
  <2>1. PICK p \in {"BEGIN", "ROLLBACK"} :
          Goes(w, k, p, queue[w]) /\ (p = "BEGIN" => pc[w][k] = "idle")
    BY <1>4 DEF Start, PublishFails, AfterError
  <2>2. queue[w] \in Seq(Run)
    BY <1>1 DEF TypeOK
  <2>3. /\ pc' \in [Worker -> [Run -> State]] /\ queue' \in [Worker -> Seq(Run)]
        /\ pc'[w][k] = p
        /\ \A v \in Worker, j \in Run : v # w \/ j # k => pc'[v][j] = pc[v][j]
    BY <1>1, <1>2, <2>1, <2>2, GoesOn
  <2>4. UNCHANGED <<db, rows, left, sent>> /\ faults' \in 0..MaxFaults
    BY <1>1, <1>4 DEF Start, PublishFails
  <2>5. QED
    BY <1>2, <2>1, <2>3, <2>4, QueryKeeps DEF db
<1>5. ASSUME NEW w \in Worker, NEW k \in Run, Commit(w, k) \/ Rollback(w, k)
      PROVE  IInv'
  <2>1. queue[w] # <<>> /\ Ends(w, k) /\ \E done \in SUBSET dirty[w] : EndTxn(w, done)
    BY <1>5 DEF Commit, Rollback, Executes
  <2>2. QED
    BY <2>1, EndsKeeps
<1>6. ASSUME NEW w \in Worker, Execute(w)
      PROVE  IInv'
  BY <1>3, <1>5, <1>6, SelectKeeps, UpdateKeeps DEF Execute
<1>7. CASE UNCHANGED vars
  BY <1>7 DEF vars, db, runs, IInv, TypeOK, ConnectionInv, RunInv, Rows, Held
<1>8. QED
  BY <1>4, <1>6, <1>7, InsertKeeps, CrashKeeps, PublishKeeps DEF Next

LEMMA Invariance == Spec => []IInv
<1>1. Init => IInv
  BY IInvInit
<1>2. IInv /\ [Next]_vars => IInv'
  BY IInvStep
<1>3. QED
  BY <1>1, <1>2, PTL DEF Spec

-----------------------------------------------------------------------------
(* The variables of the workers, the database and Redis have their types;   *)
(* a row a transaction changed is a row it locks.                           *)
THEOREM TypeCorrect == Spec => []TypeOK
<1>1. IInv => TypeOK
  BY DEF IInv
<1>2. QED
  BY <1>1, Invariance, PTL

(* For any number of overlapping runs, workers and crashes: a worker whose  *)
(* runs are over holds no transaction and no row.                           *)
THEOREM IdleHoldsNothingHolds == Spec => []IdleHoldsNothing
<1>1. ASSUME IInv
      PROVE  IdleHoldsNothing
  <2>1. ASSUME NEW w \in Worker, \A k \in Run : pc[w][k] = "idle"
        PROVE  txn[w] = "none" /\ Held(w) = {} /\ dirty[w] = {}
    BY <1>1, <2>1 DEF IInv, ConnectionInv
  <2>2. QED
    BY <2>1 DEF IdleHoldsNothing
<1>2. QED
  BY <1>1, Invariance, PTL

(* A step of the workers, the database or a client is one of the outbox     *)
(* that AtLeastOnce promises, or changes nothing of it.                     *)
LEMMA OutboxStep ==
  ASSUME IInv, [Next]_vars
  PROVE  [Outbox!Next]_(Outbox!vars)
<1>. USE DEF Rows
<1>1. CASE Insert
  <2>1. PICK m \in Message : Rows = 1..(m - 1) /\ pending' = pending \cup {m}
    BY <1>1 DEF Insert
  <2>2. Rows' = Rows \cup {m} /\ UNCHANGED <<sent, published>>
    BY <1>1, <2>1 DEF Insert
  <2>3. QED
    BY <2>2 DEF Outbox!Next, Outbox!Accept
<1>2. ASSUME NEW w \in Worker, NEW k \in Run, Publish(w, k)
      PROVE  Outbox!Next
  <2>1. PICK L : L = left[w][k]
    OBVIOUS
  <2>2. L \subseteq Rows /\ L \subseteq Message /\ L # {}
    BY <1>2, <2>1 DEF IInv, RunInv, TypeOK, Publish
  <2>3. PICK m \in L : m = Min(L)
    BY <2>2, LeastRow
  <2>4. sent' = sent \cup {m} /\ UNCHANGED <<pending, published>>
    BY <1>2, <2>1, <2>3 DEF Publish, db
  <2>5. QED
    BY <2>2, <2>4 DEF Outbox!Next, Outbox!Deliver
<1>3. ASSUME NEW w \in Worker, NEW M \in SUBSET Message, M \subseteq Rows \cap sent,
             pending' = pending \ M, published' = published \cup M, sent' = sent
      PROVE  Outbox!Next
  <2>1. Rows' = Rows
    BY <1>3
  <2>2. QED
    BY <1>3, <2>1 DEF Outbox!Next, Outbox!Close
<1>4. ASSUME NEW w \in Worker, NEW k \in Run, Update(w, k), ~UNCHANGED Outbox!vars
      PROVE  Outbox!Next
  <2>1. rows[w][k] \subseteq Rows \cap sent /\ rows[w][k] \in SUBSET Message
    BY <1>4 DEF IInv, RunInv, TypeOK, Update, Executes
  <2>2. /\ pending' = pending \ rows[w][k] /\ published' = published \cup rows[w][k]
        /\ sent' = sent
    BY <1>4 DEF Update, Marked, Outbox!vars
  <2>3. QED
    BY <1>3, <2>1, <2>2
<1>5. ASSUME NEW w \in Worker, NEW k \in Run, Commit(w, k)
      PROVE  Outbox!Next
  <2>1. dirty[w] \subseteq Rows \cap sent /\ dirty[w] \in SUBSET Message
    BY DEF IInv, ConnectionInv, TypeOK
  <2>2. pending' = pending \ dirty[w] /\ published' = published \cup dirty[w] /\ sent' = sent
    BY <1>5 DEF Commit, EndTxn, Ends
  <2>3. QED
    BY <1>3, <2>1, <2>2
<1>6. ASSUME NEW w \in Worker, NEW k \in Run,
             \/ Start(w, k) \/ Begin(w, k) \/ Select(w, k) \/ Rollback(w, k)
             \/ Refused(w, k) \/ DeadlockVictim(w, k) \/ PublishFails(w, k)
      PROVE  UNCHANGED Outbox!vars
  <2>1. UNCHANGED <<pending, published, sent>>
    BY <1>6 DEF Start, Begin, Select, Rollback, Refused, DeadlockVictim, PublishFails,
                EndTxn, Ends, db
  <2>2. QED
    BY <2>1 DEF Outbox!vars
<1>7. CASE UNCHANGED vars
  BY <1>7 DEF vars, db, Outbox!vars
<1>8. ASSUME NEW w \in Worker, Crash(w)
      PROVE  UNCHANGED Outbox!vars
  BY <1>8 DEF Crash, EndTxn, Outbox!vars
<1>9. QED
  BY <1>1, <1>2, <1>4, <1>5, <1>6, <1>7, <1>8 DEF Next, Execute

(* However runs overlap on a connection, whoever ends whose transaction and *)
(* wherever a worker crashes: a row becomes PUBLISHED only after Redis got  *)
(* its message, and none comes back.                                        *)
THEOREM ImplementsAtLeastOnceHolds == Spec => ImplementsAtLeastOnce
<1>1. Init => Outbox!Init
  BY DEF Init, Outbox!Init
<1>2. IInv /\ [Next]_vars => [Outbox!Next]_(Outbox!vars)
  BY OutboxStep
<1>3. QED
  BY <1>1, <1>2, Invariance, PTL DEF Spec, ImplementsAtLeastOnce, Outbox!Spec

-----------------------------------------------------------------------------
(* A worker whose runs do not overlap, each being over when the interval    *)
(* fires again, has the rows of its batch locked while it publishes them.   *)
OneRun == \A j, k \in Run : j = k

BatchLocked ==
    \A w \in Worker, k \in Run :
        left[w][k] \subseteq Held(w) /\ (pc[w][k] = "SELECT" => txn[w] = "open")

(* A step of run k of worker w takes no lock from another worker, and       *)
(* changes no other worker's batch.                                         *)
LEMMA OthersBatchLocked ==
  ASSUME OneRun, TypeOK, BatchLocked, NEW w \in Worker, NEW k \in Run,
         \A v \in Worker, j \in Run : v # w \/ j # k =>
            pc'[v][j] = pc[v][j] /\ left'[v][j] \subseteq left[v][j],
         \A v \in Worker \ {w} : Held(v) \subseteq Held(v)' /\ txn'[v] = txn[v],
         left'[w][k] \subseteq Held(w)' /\ (pc'[w][k] = "SELECT" => txn'[w] = "open")
  PROVE  BatchLocked'
<1>1. SUFFICES ASSUME NEW v \in Worker, NEW j \in Run
               PROVE  left'[v][j] \subseteq Held(v)' /\ (pc'[v][j] = "SELECT" => txn'[v] = "open")
  BY DEF BatchLocked
<1>2. CASE v = w
  <2>1. j = k
    BY DEF OneRun
  <2>2. QED
    BY <1>2, <2>1
<1>3. CASE v # w
  BY <1>3 DEF BatchLocked
<1>4. QED
  BY <1>2, <1>3

LEMMA BatchStaysLocked ==
  ASSUME OneRun, IInv, BatchLocked, [Next]_vars
  PROVE  BatchLocked'
<1>. USE DEF State
<1>1. TypeOK
  BY DEF IInv
<1>2. ASSUME NEW w \in Worker, NEW k \in Run, NEW p \in State, queue[w] # <<>>, Then(w, k, p)
      PROVE  pc'[w][k] = p /\ \A v \in Worker, j \in Run : v # w \/ j # k => pc'[v][j] = pc[v][j]
  BY <1>1, <1>2, ThenGoesOn
<1>3. ASSUME NEW w \in Worker, NEW k \in Run, NEW p \in State, Goes(w, k, p, queue[w])
      PROVE  pc'[w][k] = p /\ \A v \in Worker, j \in Run : v # w \/ j # k => pc'[v][j] = pc[v][j]
  <2>1. queue[w] \in Seq(Run)
    BY <1>1 DEF TypeOK
  <2>2. QED
    BY <1>1, <1>3, <2>1, GoesOn
(* Ending a transaction, or losing it, gives up locks of one's own only. *)
<1>4. ASSUME NEW w \in Worker, locked' = Release(w)
      PROVE  \A v \in Worker \ {w} : Held(v) \subseteq Held(v)'
  BY <1>4 DEF Release, Held
<1>5. ASSUME NEW w \in Worker, NEW M \in SUBSET Message, M \cap LockedByOthers(w) = {},
             locked' = Locks(w, M)
      PROVE  M \subseteq Held(w)' /\ \A v \in Worker \ {w} : Held(v) \subseteq Held(v)'
  <2>1. w # None /\ None \notin Worker
    BY OutboxAssumption
  <2>2. QED
    BY <1>5, <2>1 DEF Locks, Held, LockedByOthers
<1>6. ASSUME NEW w \in Worker, NEW k \in Run, Begin(w, k)
      PROVE  BatchLocked'
  <2>1. pc'[w][k] = "SELECT" /\ \A v \in Worker, j \in Run : v # w \/ j # k => pc'[v][j] = pc[v][j]
    BY <1>2, <1>6 DEF Begin, Executes, Query
  <2>2. txn'[w] = "open" /\ (\A v \in Worker \ {w} : txn'[v] = txn[v]) /\ UNCHANGED <<locked, left>>
    BY <1>1, <1>6 DEF Begin, TypeOK
  <2>3. left[w][k] \subseteq Held(w) /\ \A v \in Worker : Held(v)' = Held(v)
    BY <2>2 DEF BatchLocked, Held
  <2>4. QED
    BY <1>1, <2>1, <2>2, <2>3, OthersBatchLocked
<1>7. ASSUME NEW w \in Worker, NEW k \in Run, Select(w, k)
      PROVE  BatchLocked'
  <2>1. PICK C : C = Candidates(w)
    OBVIOUS
  <2>2. C \in SUBSET Message /\ C \cap LockedByOthers(w) = {}
    BY <1>1, <2>1 DEF Candidates, Oldest, TypeOK
  <2>3. txn[w] = "open"
    BY <1>7 DEF BatchLocked, Select, Executes
  <2>4. PICK p \in State : p = (IF C = {} THEN "COMMIT" ELSE "publish")
    BY DEF Query
  <2>5. Then(w, k, p) /\ queue[w] # <<>>
    BY <1>7, <2>1, <2>4 DEF Select, Executes, NothingToDo
  <2>6. pc'[w][k] = p /\ \A v \in Worker, j \in Run : v # w \/ j # k => pc'[v][j] = pc[v][j]
    BY <1>2, <2>5
  <2>7. locked' = Locks(w, C) /\ left' = [left EXCEPT ![w][k] = C] /\ txn' = txn
    BY <1>7, <2>1, <2>3 DEF Select
  <2>8. C \subseteq Held(w)' /\ \A v \in Worker \ {w} : Held(v) \subseteq Held(v)'
    BY <1>5, <2>2, <2>7
  <2>9. left'[w][k] = C /\ \A v \in Worker, j \in Run : v # w \/ j # k => left'[v][j] = left[v][j]
    BY <1>1, <2>7 DEF TypeOK
  <2>10. QED
    BY <1>1, <2>4, <2>6, <2>7, <2>8, <2>9, OthersBatchLocked
(* A run that has published its batch is past needing the locks. *)
<1>8. ASSUME NEW w \in Worker, NEW k \in Run, pc[w][k] = "UPDATE"
      PROVE  left[w][k] = {}
  BY <1>8 DEF IInv, RunInv
<1>9. ASSUME NEW w \in Worker, NEW k \in Run, Update(w, k)
      PROVE  BatchLocked'
  <2>1. pc'[w][k] = "COMMIT" /\ \A v \in Worker, j \in Run : v # w \/ j # k => pc'[v][j] = pc[v][j]
    BY <1>2, <1>9 DEF Update, Executes, Query
  <2>2. left[w][k] = {} /\ UNCHANGED <<left, txn>>
    BY <1>8, <1>9 DEF Update, Executes
  <2>3. \A v \in Worker \ {w} : Held(v) \subseteq Held(v)'
    <3>1. rows[w][k] \in SUBSET Message /\ rows[w][k] \cap LockedByOthers(w) = {}
      BY <1>1, <1>9 DEF Update, Blocked, TypeOK
    <3>2. locked' = Locks(w, rows[w][k]) \/ locked' = locked
      BY <1>9 DEF Update, Marked
    <3>3. QED
      BY <1>5, <3>1, <3>2 DEF Held
  <2>4. QED
    BY <1>1, <2>1, <2>2, <2>3, OthersBatchLocked
<1>10. ASSUME NEW w \in Worker, NEW k \in Run, Commit(w, k) \/ Rollback(w, k)
       PROVE  BatchLocked'
  <2>1. queue[w] # <<>> /\ Ends(w, k) /\ locked' = Release(w) /\ txn' = [txn EXCEPT ![w] = "none"]
    BY <1>10 DEF Commit, Rollback, Executes, EndTxn
  <2>2. pc'[w][k] = "idle" /\ \A v \in Worker, j \in Run : v # w \/ j # k => pc'[v][j] = pc[v][j]
    BY <1>2, <2>1 DEF Ends
  <2>3. left'[w][k] = {} /\ \A v \in Worker, j \in Run : v # w \/ j # k => left'[v][j] = left[v][j]
    BY <1>1, <2>1 DEF Ends, TypeOK
  <2>4. \A v \in Worker \ {w} : Held(v) \subseteq Held(v)' /\ txn'[v] = txn[v]
    BY <1>1, <1>4, <2>1 DEF TypeOK
  <2>5. QED
    BY <1>1, <2>2, <2>3, <2>4, OthersBatchLocked
<1>11. ASSUME NEW w \in Worker, NEW k \in Run, Refused(w, k) \/ DeadlockVictim(w, k)
       PROVE  BatchLocked'
  <2>1. pc'[w][k] = "ROLLBACK"
        /\ \A v \in Worker, j \in Run : v # w \/ j # k => pc'[v][j] = pc[v][j]
    BY <1>2, <1>11 DEF Refused, DeadlockVictim, Executes, AfterError, Query
  <2>2. left' = left /\ \A v \in Worker \ {w} : txn'[v] = txn[v]
    BY <1>1, <1>11 DEF Refused, DeadlockVictim, TypeOK, db
  <2>3. left'[w][k] \subseteq Held(w)' /\ \A v \in Worker \ {w} : Held(v) \subseteq Held(v)'
    <3>1. CASE Refused(w, k)
      BY <2>2, <3>1 DEF Refused, db, Held, BatchLocked
    <3>2. CASE DeadlockVictim(w, k)
      <4>1. left[w][k] = {} /\ locked' = Release(w)
        BY <1>8, <3>2 DEF DeadlockVictim, Executes
      <4>2. QED
        BY <1>4, <2>2, <4>1
    <3>3. QED
      BY <1>11, <3>1, <3>2
  <2>4. QED
    BY <1>1, <2>1, <2>2, <2>3, OthersBatchLocked
<1>12. ASSUME NEW w \in Worker, NEW k \in Run,
              Start(w, k) \/ PublishFails(w, k) \/ Publish(w, k)
       PROVE  BatchLocked'
  <2>1. PICK p \in State \ {"SELECT"} : Goes(w, k, p, queue[w])
    BY <1>12 DEF Start, PublishFails, Publish, AfterError, Query
  <2>2. pc'[w][k] = p /\ \A v \in Worker, j \in Run : v # w \/ j # k => pc'[v][j] = pc[v][j]
    BY <1>3, <2>1
  <2>3. UNCHANGED <<locked, txn>>
    BY <1>12 DEF Start, PublishFails, Publish, db
  <2>4. \A v \in Worker, j \in Run : left'[v][j] \subseteq left[v][j]
    <3>1. CASE left' = left
      BY <3>1
    <3>2. ASSUME NEW m, left' = [left EXCEPT ![w][k] = left[w][k] \ {m}]
          PROVE  \A v \in Worker, j \in Run : left'[v][j] \subseteq left[v][j]
      <4>1. left'[w][k] = left[w][k] \ {m}
        BY <1>1, <3>2 DEF TypeOK
      <4>2. \A v \in Worker, j \in Run : v # w \/ j # k => left'[v][j] = left[v][j]
        BY <1>1, <3>2 DEF TypeOK
      <4>3. QED
        BY <4>1, <4>2
    <3>3. left' = left \/ left' = [left EXCEPT ![w][k] = left[w][k] \ {Min(left[w][k])}]
      BY <1>1, <1>12 DEF Start, PublishFails, Publish, TypeOK
    <3>4. QED
      BY <3>1, <3>2, <3>3
  <2>5. \A v \in Worker : Held(v)' = Held(v)
    BY <2>3 DEF Held
  <2>6. left'[w][k] \subseteq Held(w)'
    BY <2>4, <2>5 DEF BatchLocked
  <2>7. QED
    BY <1>1, <2>1, <2>2, <2>3, <2>4, <2>5, <2>6, OthersBatchLocked
<1>13. ASSUME NEW w \in Worker, Crash(w)
       PROVE  BatchLocked'
  <2>1. /\ locked' = Release(w) /\ txn' = [txn EXCEPT ![w] = "none"]
        /\ pc' = [pc EXCEPT ![w] = [k \in Run |-> "idle"]]
        /\ left' = [left EXCEPT ![w] = [k \in Run |-> {}]]
    BY <1>13 DEF Crash, EndTxn
  <2>2. \A k \in Run : pc'[w][k] = "idle" /\ left'[w][k] = {}
    BY <1>1, <2>1 DEF TypeOK
  <2>3. \A v \in Worker \ {w} : pc'[v] = pc[v] /\ left'[v] = left[v] /\ txn'[v] = txn[v]
    BY <1>1, <2>1 DEF TypeOK
  <2>4. \A v \in Worker \ {w} : Held(v) \subseteq Held(v)'
    BY <1>4, <2>1
  <2>5. ASSUME NEW v \in Worker, NEW j \in Run
        PROVE  left'[v][j] \subseteq Held(v)' /\ (pc'[v][j] = "SELECT" => txn'[v] = "open")
    <3>1. CASE v = w
      BY <2>2, <3>1
    <3>2. CASE v # w
      BY <2>3, <2>4, <3>2 DEF BatchLocked
    <3>3. QED
      BY <3>1, <3>2
  <2>6. QED
    BY <2>5 DEF BatchLocked
<1>14. CASE Insert \/ UNCHANGED vars
  BY <1>14 DEF Insert, vars, db, runs, BatchLocked, Held
<1>15. QED
  BY <1>6, <1>7, <1>9, <1>10, <1>11, <1>12, <1>13, <1>14 DEF Next, Execute

(* worker.ts:13 is right of workers whose runs do not overlap: however many *)
(* workers there are, whichever fail, crash or are chosen as the victim of  *)
(* a deadlock, no row is in the batch two of them are still publishing.     *)
(* Overlapping runs are all it takes to break it (ChatOutboxSharedBatch).   *)
THEOREM NoSharedBatchAlone == OneRun => (Spec => []NoSharedBatch)
<1>. SUFFICES ASSUME OneRun
              PROVE  Spec => []NoSharedBatch
  OBVIOUS
<1>1. Init => BatchLocked
  BY DEF Init, BatchLocked
<1>2. IInv /\ BatchLocked /\ [Next]_vars => BatchLocked'
  BY BatchStaysLocked
<1>3. BatchLocked => NoSharedBatch
  BY OutboxAssumption DEF BatchLocked, NoSharedBatch, Held
<1>4. QED
  BY <1>1, <1>2, <1>3, Invariance, PTL DEF Spec
=============================================================================
