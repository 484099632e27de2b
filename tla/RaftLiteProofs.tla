--------------------------- MODULE RaftLiteProofs ---------------------------
(* Proofs about RaftLite for every cluster whose quorums overlap.           *)
EXTENDS RaftLite, FiniteSetTheorems, TLAPS

(* Every method keeps the fields of RaftNode well formed. *)
LEMMA TypeStep ==
  ASSUME TypeOK, [Next]_vars
  PROVE  TypeOK'
<1>. USE DEF TypeOK, NodeState, Outcome
<1>1. ASSUME NEW n \in Node, NEW P \in PeerSets[n], Connect(n, P)
      PROVE  TypeOK'
  <2>1. P \in SUBSET Node
    BY NodeAssumption
  <2>2. QED
    BY <1>1, <2>1 DEF Connect
<1>2. ASSUME NEW n \in Node, StartElection(n)
      PROVE  TypeOK'
  <2>1. currentTerm[n] + 1 \in Nat
    OBVIOUS
  <2>2. elected' \subseteq Nat \X Node
    BY <1>2, <2>1 DEF StartElection
  <2>3. QED
    BY <1>2, <2>1, <2>2 DEF StartElection
<1>3. ASSUME NEW n \in Node, NEW c \in Command, ExecuteCommand(n, c)
      PROVE  TypeOK'
  <2>1. [term |-> currentTerm[n], command |-> c] \in Entry
    BY DEF Entry
  <2>2. [term |-> currentTerm[n], index |-> Len(log[n]) + 1, command |-> c]
           \in CommitRecord
    BY DEF CommitRecord
  <2>3. committed' \subseteq CommitRecord
    BY <1>3, <2>2 DEF ExecuteCommand
  <2>4. log' \in [Node -> Seq(Entry)]
    BY <1>3, <2>1 DEF ExecuteCommand
  <2>5. QED
    BY <1>3, <2>3, <2>4 DEF ExecuteCommand
<1>4. ASSUME NEW n \in Node, SendHeartbeats(n)
      PROVE  TypeOK'
  BY <1>4 DEF SendHeartbeats
<1>5. CASE UNCHANGED vars
  BY <1>5 DEF vars
<1>6. QED
  BY <1>1, <1>2, <1>3, <1>4, <1>5 DEF Next

(* Type correctness; in particular no method ends with a node left in state *)
(* CANDIDATE.                                                               *)
THEOREM TypeCorrect == Spec => []TypeOK
<1>1. Init => TypeOK
  BY NodeAssumption DEF Init, TypeOK, NodeState
<1>2. TypeOK /\ [Next]_vars => TypeOK'
  BY TypeStep
<1>3. QED
  BY <1>1, <1>2, PTL DEF Spec

-----------------------------------------------------------------------------
(* The demo's wiring meets QuorumAssumption: in a full mesh, what the code  *)
(* computes as a majority of one node and as a majority of another share a  *)
(* node, for every cluster size.                                            *)
THEOREM FullMeshQuorumsMeet ==
  ASSUME NEW n \in Node, NEW m \in Node, NEW Q \in SUBSET Node, NEW S \in SUBSET Node,
         IsQuorum(n, Node \ {n}, Q), IsQuorum(m, Node \ {m}, S)
  PROVE  Q \cap S # {}
<1>1. IsFiniteSet(Node)
  BY NodeAssumption
<1>2. Cardinality(Node) \in Nat /\ Cardinality(Q) \in Nat /\ Cardinality(S) \in Nat
  BY <1>1, FS_Subset, FS_CardinalityType
<1>3. ASSUME NEW k \in Node
      PROVE  Cardinality(Node \ {k}) + 1 = Cardinality(Node)
  <2>1. Cardinality(Node \ {k}) = Cardinality(Node) - 1
    BY <1>1, FS_RemoveElement
  <2>2. QED
    BY <1>2, <2>1
<1>4. Cardinality(Q) + Cardinality(S) > Cardinality(Node)
  BY <1>2, <1>3 DEF IsQuorum, Majority
<1>5. QED
  BY <1>1, <1>4, FS_MajoritiesIntersect

(* What an election leaves behind: the winner's quorum is at its term or    *)
(* beyond it.  This is what makes ElectionSafety inductive: a node's term   *)
(* never falls, so no member of the quorum can help an equal or older term. *)
QuorumPassed(n, t) ==
    \E P \in PeerSets[n], Q \in SUBSET Node :
        IsQuorum(n, P, Q) /\ \A q \in Q : currentTerm[q] >= t

WinnersHeld == \A e \in elected : QuorumPassed(e[2], e[1])

ElectionInv == TypeOK /\ WinnersHeld /\ LeaderWonItsTerm /\ ElectionSafety

(* No method lowers a node's term. *)
LEMMA TermsGrow ==
  ASSUME TypeOK, [Next]_vars, NEW m \in Node
  PROVE  currentTerm'[m] >= currentTerm[m]
<1>. USE DEF TypeOK
<1>1. ASSUME NEW n \in Node, NEW P \in PeerSets[n], Connect(n, P)
      PROVE  currentTerm'[m] >= currentTerm[m]
  BY <1>1 DEF Connect
<1>2. ASSUME NEW n \in Node, StartElection(n)
      PROVE  currentTerm'[m] >= currentTerm[m]
  BY <1>2 DEF StartElection, Grants, Accepts
<1>3. ASSUME NEW n \in Node, NEW c \in Command, ExecuteCommand(n, c)
      PROVE  currentTerm'[m] >= currentTerm[m]
  BY <1>3 DEF ExecuteCommand, Accepts
<1>4. ASSUME NEW n \in Node, SendHeartbeats(n)
      PROVE  currentTerm'[m] >= currentTerm[m]
  BY <1>4 DEF SendHeartbeats, Accepts
<1>5. CASE UNCHANGED vars
  BY <1>5 DEF vars
<1>6. QED
  BY <1>1, <1>2, <1>3, <1>4, <1>5 DEF Next

(* Once passed, a quorum stays passed. *)
LEMMA QuorumPassedStable ==
  ASSUME TypeOK, [Next]_vars, NEW n \in Node, NEW t \in Nat, QuorumPassed(n, t)
  PROVE  QuorumPassed(n, t)'
<1>1. PICK P \in PeerSets[n], Q \in SUBSET Node :
         IsQuorum(n, P, Q) /\ \A q \in Q : currentTerm[q] >= t
  BY DEF QuorumPassed
<1>2. currentTerm \in [Node -> Nat] /\ currentTerm' \in [Node -> Nat]
  <2>1. TypeOK'
    BY TypeStep
  <2>2. QED
    BY <2>1 DEF TypeOK
<1>3. \A q \in Q : currentTerm'[q] >= t
  BY <1>1, <1>2, TermsGrow
<1>4. QED
  BY <1>1, <1>3 DEF QuorumPassed

(* Two quorums share a node. *)
LEMMA QuorumsMeet ==
  ASSUME NEW n \in Node, NEW m \in Node, NEW P \in PeerSets[n], NEW R \in PeerSets[m],
         NEW Q \in SUBSET Node, NEW S \in SUBSET Node,
         IsQuorum(n, P, Q), IsQuorum(m, R, S)
  PROVE  \E q \in Node : q \in Q /\ q \in S
<1>1. Q \cap S # {}
  BY QuorumAssumption
<1>2. QED
  BY <1>1

(* The heart of the argument: a candidate that gathers a quorum did so in a *)
(* term nobody won before, because every voter was below that term.         *)
LEMMA WonTermIsNew ==
  ASSUME ElectionInv, NEW n \in Node, NEW Q \in SUBSET Node,
         IsQuorum(n, peers[n], Q),
         \A q \in Q : currentTerm[q] < currentTerm[n] + 1
  PROVE  \A e \in elected : e[1] # currentTerm[n] + 1
<1>. USE DEF ElectionInv, TypeOK
<1>1. SUFFICES ASSUME NEW e \in elected, e[1] = currentTerm[n] + 1
               PROVE  FALSE
  OBVIOUS
<1>2. e[2] \in Node /\ peers[n] \in PeerSets[n]
  OBVIOUS
<1>3. PICK P \in PeerSets[e[2]], S \in SUBSET Node :
         IsQuorum(e[2], P, S) /\ \A q \in S : currentTerm[q] >= e[1]
  BY DEF WinnersHeld, QuorumPassed
<1>4. PICK q \in Node : q \in Q /\ q \in S
  BY <1>2, <1>3, QuorumsMeet
<1>5. currentTerm[q] >= currentTerm[n] + 1 /\ currentTerm[q] < currentTerm[n] + 1
  BY <1>1, <1>3, <1>4
<1>6. QED
  BY <1>5, currentTerm[q] \in Nat, currentTerm[n] \in Nat

(* A method that does not extend the history of elections keeps ElectionInv *)
(* when it deposes whoever it moves to another term.                        *)
LEMMA NoNewWinner ==
  ASSUME ElectionInv, [Next]_vars, elected' = elected,
         \A m \in Node : state'[m] = "LEADER"
             => state[m] = "LEADER" /\ currentTerm'[m] = currentTerm[m]
  PROVE  ElectionInv'
<1>. USE DEF ElectionInv
<1>1. TypeOK'
  BY TypeStep
<1>2. WinnersHeld'
  <2>1. ASSUME NEW e \in elected
        PROVE  QuorumPassed(e[2], e[1])'
    <3>1. e[1] \in Nat /\ e[2] \in Node /\ QuorumPassed(e[2], e[1])
      BY DEF TypeOK, WinnersHeld
    <3>2. QED
      BY <3>1, QuorumPassedStable
  <2>2. QED
    BY <2>1 DEF WinnersHeld
<1>3. LeaderWonItsTerm'
  BY DEF LeaderWonItsTerm
<1>4. ElectionSafety'
  BY DEF ElectionSafety
<1>5. QED
  BY <1>1, <1>2, <1>3, <1>4

(* Every method preserves the election invariant. *)
LEMMA ElectionStep ==
  ASSUME ElectionInv, [Next]_vars
  PROVE  ElectionInv'
<1>. USE DEF ElectionInv
<1>1. ASSUME NEW n \in Node, NEW P \in PeerSets[n], Connect(n, P)
      PROVE  ElectionInv'
  BY <1>1, NoNewWinner DEF Connect
<1>2. ASSUME NEW n \in Node, StartElection(n)
      PROVE  ElectionInv'
  <2>. PICK term \in Nat : term = currentTerm[n] + 1
    BY DEF TypeOK
  <2>. DEFINE voters == {n} \cup {p \in peers[n] : Grants(p, term)}
              won    == Cardinality(voters) >= Majority(peers[n])
              reached == {n} \cup {p \in peers[n] : Accepts(p, term)}
              touched == IF won THEN reached ELSE voters
  <2>1. /\ term \in Nat /\ voters \in SUBSET Node
        /\ voters \subseteq touched /\ touched \in SUBSET Node
    BY DEF TypeOK, Grants, Accepts
  <2>2. \A q \in voters : currentTerm[q] < term
    BY DEF TypeOK, Grants
  <2>3. /\ currentTerm' = [m \in Node |-> IF m \in touched THEN term ELSE currentTerm[m]]
        /\ state' = [m \in Node |-> IF m = n THEN Outcome(won)
                                     ELSE IF m \in touched THEN "FOLLOWER" ELSE state[m]]
        /\ elected' = IF won THEN elected \cup {<<term, n>>} ELSE elected
        /\ peers' = peers
    BY <1>2 DEF StartElection
  <2>. HIDE DEF voters, won, reached, touched
  <2>4. CASE ~won
    <3>1. \A m \in Node : state'[m] = "LEADER"
             => state[m] = "LEADER" /\ currentTerm'[m] = currentTerm[m]
      BY <2>1, <2>3, <2>4 DEF TypeOK, NodeState, Outcome
    <3>2. QED
      BY <2>3, <2>4, <3>1, NoNewWinner
  <2>5. CASE won
    <3>1. TypeOK'
      BY TypeStep
    <3>2. IsQuorum(n, peers[n], voters)
      BY <2>5 DEF IsQuorum, won, voters
    <3>3. \A e \in elected : e[1] # term
      BY <2>1, <2>2, <3>2, WonTermIsNew
    <3>4. ElectionSafety'
      BY <2>3, <2>5, <3>3 DEF ElectionSafety
    <3>5. WinnersHeld'
      <4>1. ASSUME NEW e \in elected
            PROVE  QuorumPassed(e[2], e[1])'
        <5>1. e[1] \in Nat /\ e[2] \in Node /\ QuorumPassed(e[2], e[1])
          BY DEF TypeOK, WinnersHeld
        <5>2. QED
          BY <5>1, QuorumPassedStable
      <4>2. QuorumPassed(n, term)'
        <5>1. peers[n] \in PeerSets[n]
          BY DEF TypeOK
        <5>2. \A q \in voters : currentTerm'[q] >= term
          BY <2>1, <2>3
        <5>3. QED
          BY <2>1, <3>2, <5>1, <5>2 DEF QuorumPassed, IsQuorum
      <4>3. QED
        BY <2>3, <2>5, <4>1, <4>2 DEF WinnersHeld
    <3>6. LeaderWonItsTerm'
      BY <2>1, <2>3, <2>5 DEF LeaderWonItsTerm, Outcome, reached, touched
    <3>7. QED
      BY <3>1, <3>4, <3>5, <3>6
  <2>6. QED
    BY <2>4, <2>5
<1>3. ASSUME NEW n \in Node, NEW c \in Command, ExecuteCommand(n, c)
      PROVE  ElectionInv'
  <2>1. \A m \in Node : state'[m] = "LEADER"
           => state[m] = "LEADER" /\ currentTerm'[m] = currentTerm[m]
    BY <1>3 DEF ExecuteCommand, Leads, TypeOK, NodeState
  <2>2. QED
    BY <1>3, <2>1, NoNewWinner DEF ExecuteCommand
<1>4. ASSUME NEW n \in Node, SendHeartbeats(n)
      PROVE  ElectionInv'
  <2>1. \A m \in Node : state'[m] = "LEADER"
           => state[m] = "LEADER" /\ currentTerm'[m] = currentTerm[m]
    BY <1>4 DEF SendHeartbeats, TypeOK, NodeState
  <2>2. QED
    BY <1>4, <2>1, NoNewWinner DEF SendHeartbeats
<1>5. CASE UNCHANGED vars
  BY <1>5, NoNewWinner DEF vars
<1>6. QED
  BY <1>1, <1>2, <1>3, <1>4, <1>5 DEF Next

(* The election invariant holds in every reachable state. *)
LEMMA ElectionInvariant == Spec => []ElectionInv
<1>1. Init => ElectionInv
  BY NodeAssumption
  DEF Init, ElectionInv, TypeOK, NodeState, WinnersHeld, LeaderWonItsTerm, ElectionSafety
<1>2. ElectionInv /\ [Next]_vars => ElectionInv'
  BY ElectionStep
<1>3. QED
  BY <1>1, <1>2, PTL DEF Spec

(* Election Safety for every cluster with overlapping quorums, whatever the *)
(* order of elections, writes, heartbeats and rewirings: startElection and  *)
(* requestVote never let two nodes win one term.                            *)
THEOREM ElectionSafetyHolds == Spec => [](ElectionSafety /\ LeaderWonItsTerm)
<1>1. ElectionInv => ElectionSafety /\ LeaderWonItsTerm
  BY DEF ElectionInv
<1>2. QED
  BY <1>1, ElectionInvariant, PTL

(* executeCommand reports no command of a term as committed once a later    *)
(* term has been won: the later winner's voters refuse the older leader.    *)
THEOREM StaleLeaderFenced == Spec => StaleLeaderCannotCommit
<1>1. ASSUME ElectionInv, [Next]_vars,
             NEW r \in committed' \ committed, NEW e \in elected
      PROVE  e[1] <= r.term
  <2>. USE <1>1 DEF ElectionInv, TypeOK
  <2>1. PICK n \in Node, c \in Command : ExecuteCommand(n, c)
    BY DEF Next, Connect, StartElection, SendHeartbeats, vars
  <2>. DEFINE acks == {n} \cup {p \in peers[n] : Accepts(p, currentTerm[n])}
  <2>2. r.term = currentTerm[n] /\ Cardinality(acks) >= Majority(peers[n])
    BY <2>1 DEF ExecuteCommand, Acknowledged
  <2>3. IsQuorum(n, peers[n], acks) /\ acks \in SUBSET Node /\ peers[n] \in PeerSets[n]
    BY <2>2 DEF IsQuorum
  <2>. HIDE DEF acks
  <2>4. PICK P \in PeerSets[e[2]], S \in SUBSET Node :
           IsQuorum(e[2], P, S) /\ \A q \in S : currentTerm[q] >= e[1]
    BY DEF WinnersHeld, QuorumPassed
  <2>5. PICK q \in Node : q \in acks /\ q \in S
    BY <2>3, <2>4, e[2] \in Node, QuorumsMeet
  <2>6. currentTerm[q] <= currentTerm[n] /\ currentTerm[q] >= e[1]
    BY <2>4, <2>5 DEF Accepts, acks
  <2>7. QED
    BY <2>2, <2>6, e[1] \in Nat
<1>2. ElectionInv /\ [Next]_vars
        => [CommitsInNewestTerm]_vars
  BY <1>1 DEF CommitsInNewestTerm
<1>3. QED
  BY <1>2, ElectionInvariant, PTL DEF Spec, StaleLeaderCannotCommit
-----------------------------------------------------------------------------
(* The full mesh: peers stay complete, so every call reaches every node.    *)
MeshInv ==
    /\ TypeOK
    /\ ~partial => \A n \in Node : peers[n] = Node \ {n}
    /\ MeshAgreement

(* Every method keeps the nodes of a full mesh identical. *)
LEMMA MeshStep ==
  ASSUME MeshInv, [Next]_vars
  PROVE  MeshInv'
<1>. USE DEF MeshInv, MeshAgreement
<1>1. TypeOK'
  BY TypeStep
<1>2. ASSUME NEW n \in Node, NEW P \in PeerSets[n], Connect(n, P)
      PROVE  MeshInv'
  BY <1>1, <1>2 DEF Connect, TypeOK
<1>3. ASSUME NEW n \in Node, StartElection(n)
      PROVE  MeshInv'
  <2>1. CASE partial
    BY <1>1, <1>3, <2>1 DEF StartElection
  <2>2. CASE ~partial
    <3>1. \A p \in Node : Grants(p, currentTerm[n] + 1) /\ Accepts(p, currentTerm[n] + 1)
      BY <2>2 DEF Grants, Accepts, TypeOK
    <3>2. /\ {n} \cup {p \in peers[n] : Grants(p, currentTerm[n] + 1)} = Node
          /\ {n} \cup {p \in peers[n] : Accepts(p, currentTerm[n] + 1)} = Node
      BY <2>2, <3>1
    <3>3. currentTerm' = [m \in Node |-> currentTerm[n] + 1]
      BY <1>3, <3>2 DEF StartElection
    <3>4. QED
      BY <1>1, <1>3, <2>2, <3>3 DEF StartElection
  <2>3. QED
    BY <2>1, <2>2
<1>4. ASSUME NEW n \in Node, NEW c \in Command, ExecuteCommand(n, c)
      PROVE  MeshInv'
  <2>1. CASE partial
    BY <1>1, <1>4, <2>1 DEF ExecuteCommand
  <2>2. CASE ~partial
    <3>1. \A p \in Node : Accepts(p, currentTerm[n])
      BY <2>2 DEF Accepts, TypeOK
    <3>2. {n} \cup {p \in peers[n] : Accepts(p, currentTerm[n])} = Node
      BY <2>2, <3>1
    <3>3. /\ currentTerm' = [m \in Node |-> currentTerm[n]]
          /\ log' = [m \in Node |-> Append(log[m], [term |-> currentTerm[n], command |-> c])]
      BY <1>4, <3>2 DEF ExecuteCommand
    <3>4. QED
      BY <1>1, <1>4, <2>2, <3>3 DEF ExecuteCommand
  <2>3. QED
    BY <2>1, <2>2
<1>5. ASSUME NEW n \in Node, SendHeartbeats(n)
      PROVE  MeshInv'
  BY <1>1, <1>5 DEF SendHeartbeats, TypeOK
<1>6. CASE UNCHANGED vars
  BY <1>1, <1>6 DEF vars
<1>7. QED
  BY <1>2, <1>3, <1>4, <1>5, <1>6 DEF Next

(* With the demo's wiring, a full mesh of any size, all logs are identical  *)
(* after every method, although appendEntries checks no previous entry.     *)
THEOREM MeshAgreementHolds == Spec => []MeshAgreement
<1>1. Init => MeshInv
  BY NodeAssumption DEF Init, MeshInv, MeshAgreement, TypeOK, NodeState
<1>2. MeshInv /\ [Next]_vars => MeshInv'
  BY MeshStep
<1>3. MeshInv => MeshAgreement
  BY DEF MeshInv
<1>4. QED
  BY <1>1, <1>2, <1>3, PTL DEF Spec

-----------------------------------------------------------------------------
(* A node accepts an entry only at a term at least its own, and its own     *)
(* term bounds its log, so every log's terms are in order.                  *)
LEMMA LogOrderStep ==
  ASSUME TypeOK, LogTermsOrdered, [Next]_vars
  PROVE  LogTermsOrdered'
<1>. USE DEF LogTermsOrdered
<1>1. ASSUME UNCHANGED log
      PROVE  LogTermsOrdered'
  <2>1. ASSUME NEW m \in Node, NEW i \in 1..Len(log[m])
        PROVE  log[m][i].term <= currentTerm'[m]
    <3>1. log[m][i] \in Entry
      BY DEF TypeOK
    <3>2. TypeOK' /\ currentTerm'[m] >= currentTerm[m]
      BY TypeStep, TermsGrow
    <3>3. QED
      BY <3>1, <3>2 DEF TypeOK, Entry
  <2>2. QED
    BY <1>1, <2>1
<1>2. ASSUME NEW n \in Node, NEW c \in Command, ExecuteCommand(n, c)
      PROVE  LogTermsOrdered'
  <2>. SUFFICES ASSUME NEW m \in Node
                PROVE  \A i \in 1..Len(log'[m]) :
                          /\ log'[m][i].term <= currentTerm'[m]
                          /\ \A j \in 1..i : log'[m][j].term <= log'[m][i].term
    OBVIOUS
  <2>. DEFINE entry == [term |-> currentTerm[n], command |-> c]
  <2>1. log[m] \in Seq(Entry) /\ entry \in Entry /\ currentTerm[m] \in Nat
    BY DEF TypeOK, Entry
  <2>2. CASE log'[m] = log[m] /\ currentTerm'[m] = currentTerm[m]
    BY <2>2
  <2>3. CASE /\ log'[m] = Append(log[m], entry)
             /\ currentTerm'[m] = currentTerm[n]
             /\ currentTerm[n] >= currentTerm[m]
    <3>1. \A i \in 1..Len(log[m]) : log[m][i] \in Entry /\ log'[m][i] = log[m][i]
      BY <2>1, <2>3
    <3>2. Len(log'[m]) = Len(log[m]) + 1 /\ log'[m][Len(log[m]) + 1] = entry
      BY <2>1, <2>3
    <3>3. currentTerm[n] \in Nat /\ entry.term = currentTerm[n]
      BY DEF TypeOK
    <3>4. \A i \in 1..Len(log[m]) : log[m][i].term <= currentTerm[n]
      BY <2>1, <2>3, <3>1, <3>3 DEF Entry
    <3>5. QED
      BY <2>1, <2>3, <3>1, <3>2, <3>3, <3>4
  <2>4. \/ log'[m] = log[m] /\ currentTerm'[m] = currentTerm[m]
        \/ /\ log'[m] = Append(log[m], entry)
           /\ currentTerm'[m] = currentTerm[n]
           /\ m = n \/ Accepts(m, currentTerm[n])
    BY <1>2 DEF ExecuteCommand, TypeOK
  <2>5. currentTerm[n] >= currentTerm[n]
    BY DEF TypeOK
  <2>6. QED
    BY <2>2, <2>3, <2>4, <2>5 DEF Accepts
<1>3. QED
  BY <1>1, <1>2 DEF Next, Connect, StartElection, SendHeartbeats, vars

(* Log terms never decrease along a log and never exceed the node's term.   *)
THEOREM LogTermsOrderedHolds == Spec => []LogTermsOrdered
<1>1. Init => LogTermsOrdered
  BY DEF Init, LogTermsOrdered
<1>2. TypeOK /\ LogTermsOrdered /\ [Next]_vars => LogTermsOrdered'
  BY LogOrderStep
<1>3. QED
  BY <1>1, <1>2, TypeCorrect, PTL DEF Spec

-----------------------------------------------------------------------------
(* Only a LEADER creates entries, it won its term, and no log ever shrinks. *)
LEMMA EntriesStep ==
  ASSUME ElectionInv, EntriesComeFromWinners, [Next]_vars
  PROVE  EntriesComeFromWinners'
<1>. USE DEF ElectionInv, EntriesComeFromWinners
<1>1. elected \subseteq elected'
  BY DEF Next, Connect, StartElection, ExecuteCommand, SendHeartbeats, vars
<1>2. CASE UNCHANGED log
  BY <1>1, <1>2
<1>3. ASSUME NEW n \in Node, NEW c \in Command, ExecuteCommand(n, c)
      PROVE  EntriesComeFromWinners'
  <2>. DEFINE entry == [term |-> currentTerm[n], command |-> c]
  <2>1. ASSUME NEW m \in Node
        PROVE  /\ log[m] \in Seq(Entry) /\ entry \in Entry
               /\ log'[m] = log[m] \/ log'[m] = Append(log[m], entry)
    BY <1>3 DEF ExecuteCommand, TypeOK, Entry
  <2>2. ASSUME NEW m \in Node, NEW i \in 1..Len(log[m])
        PROVE  i \in 1..Len(log'[m]) /\ log'[m][i] = log[m][i]
    BY <2>1
  <2>3. /\ <<currentTerm[n], n>> \in elected
        /\ log'[n] = Append(log[n], entry)
    BY <1>3 DEF ExecuteCommand, Leads, LeaderWonItsTerm, TypeOK
  <2>4. Len(log[n]) + 1 \in 1..Len(log'[n]) /\ log'[n][Len(log[n]) + 1] = entry
    BY <2>1, <2>3
  <2>5. ASSUME NEW m \in Node, NEW i \in 1..Len(log'[m])
        PROVE  \E e \in elected' : /\ e[1] = log'[m][i].term
                                   /\ \E j \in 1..Len(log'[e[2]]) : log'[e[2]][j] = log'[m][i]
    <3>1. CASE i \in 1..Len(log[m])
      <4>1. PICK e \in elected : /\ e[1] = log[m][i].term
                                 /\ \E j \in 1..Len(log[e[2]]) : log[e[2]][j] = log[m][i]
        BY <3>1
      <4>2. e[2] \in Node
        BY DEF TypeOK
      <4>3. PICK j \in 1..Len(log[e[2]]) : log[e[2]][j] = log[m][i]
        BY <4>1
      <4>4. j \in 1..Len(log'[e[2]]) /\ log'[e[2]][j] = log'[m][i]
        BY <2>2, <3>1, <4>2, <4>3
      <4>5. e[1] = log'[m][i].term
        BY <2>2, <3>1, <4>1
      <4>6. QED
        BY <1>1, <4>4, <4>5
    <3>2. CASE i \notin 1..Len(log[m])
      <4>1. log'[m][i] = entry
        BY <2>1, <3>2
      <4>2. QED
        BY <1>1, <2>3, <2>4, <4>1
    <3>3. QED
      BY <3>1, <3>2
  <2>6. QED
    BY <2>5
<1>4. QED
  BY <1>2, <1>3 DEF Next, Connect, StartElection, SendHeartbeats, vars

(* Every entry of every log was written by the node that won its term.      *)
THEOREM EntriesComeFromWinnersHolds == Spec => []EntriesComeFromWinners
<1>1. Init => EntriesComeFromWinners
  BY DEF Init, EntriesComeFromWinners
<1>2. ElectionInv /\ EntriesComeFromWinners /\ [Next]_vars => EntriesComeFromWinners'
  BY EntriesStep
<1>3. QED
  BY <1>1, <1>2, ElectionInvariant, PTL DEF Spec

(* Logs hold entries of elected writers only, in the order of their terms.  *)
THEOREM LogsFollowElectionsHolds == Spec => []LogsFollowElections
BY LogTermsOrderedHolds, EntriesComeFromWinnersHolds, PTL DEF LogsFollowElections

-----------------------------------------------------------------------------
(* A log only grows, and a command reported as committed is one the leader's *)
(* majority has just appended.                                               *)
LEMMA LogsGrow ==
  ASSUME TypeOK, [Next]_vars, NEW m \in Node
  PROVE  /\ Len(log[m]) \in Nat /\ Len(log'[m]) \in Nat /\ Len(log[m]) <= Len(log'[m])
         /\ \A i \in 1..Len(log[m]) : log'[m][i] = log[m][i]
<1>. USE DEF TypeOK
<1>1. CASE UNCHANGED log
  <2>1. log'[m] = log[m] /\ log[m] \in Seq(Entry)
    BY <1>1
  <2>2. QED
    BY <2>1
<1>2. ASSUME NEW n \in Node, NEW c \in Command, ExecuteCommand(n, c)
      PROVE  /\ Len(log[m]) \in Nat /\ Len(log'[m]) \in Nat /\ Len(log[m]) <= Len(log'[m])
             /\ \A i \in 1..Len(log[m]) : log'[m][i] = log[m][i]
  <2>1. PICK entry \in Entry : log'[m] = log[m] \/ log'[m] = Append(log[m], entry)
    <3>1. [term |-> currentTerm[n], command |-> c] \in Entry
      BY DEF Entry
    <3>2. QED
      BY <1>2, <3>1 DEF ExecuteCommand
  <2>2. log[m] \in Seq(Entry)
    OBVIOUS
  <2>3. CASE log'[m] = log[m]
    BY <2>2, <2>3
  <2>4. CASE log'[m] = Append(log[m], entry)
    <3>1. /\ Len(log[m]) \in Nat /\ Len(log'[m]) = Len(log[m]) + 1
          /\ \A i \in 1..Len(log[m]) : log'[m][i] = log[m][i]
      BY <2>2, <2>4
    <3>2. QED
      BY <3>1
  <2>5. QED
    BY <2>1, <2>3, <2>4
<1>3. QED
  BY <1>1, <1>2 DEF Next, Connect, StartElection, SendHeartbeats, vars

OnMajority(c) ==
    \E n \in Node : \E P \in PeerSets[n] :
        2 * Cardinality({m \in {n} \cup P : Keeps(m, c)}) > Cardinality({n} \cup P)
InPlace(c) ==
    \A m \in Node : c.index \in 1..Len(log[m]) /\ log[m][c.index] = Written(c)

(* What a majority holds, and what is in its place, stays there. *)
LEMMA EntriesStay ==
  ASSUME TypeOK, [Next]_vars, NEW c \in committed
  PROVE  /\ OnMajority(c) => OnMajority(c)'
         /\ InPlace(c) => InPlace(c)'
<1>1. ASSUME OnMajority(c)
      PROVE  OnMajority(c)'
  <2>. PICK n \in Node : \E P \in PeerSets[n] :
           2 * Cardinality({m \in {n} \cup P : Keeps(m, c)}) > Cardinality({n} \cup P)
    BY <1>1 DEF OnMajority
  <2>1. PICK P \in PeerSets[n] :
           2 * Cardinality({m \in {n} \cup P : Keeps(m, c)}) > Cardinality({n} \cup P)
    OBVIOUS
  <2>. DEFINE K == {m \in {n} \cup P : Keeps(m, c)}
              L == {m \in {n} \cup P : \E i \in 1..Len(log'[m]) : log'[m][i] = Written(c)}
  <2>2. {n} \cup P \subseteq Node
    BY NodeAssumption
  <2>3. K \subseteq L /\ L \subseteq Node
    BY <2>2, LogsGrow DEF Keeps, Written
  <2>4. IsFiniteSet(L)
    BY <2>3, NodeAssumption, FS_Subset
  <2>5. IsFiniteSet({n} \cup P)
    BY <2>2, NodeAssumption, FS_Subset
  <2>6. Cardinality(K) \in Nat /\ Cardinality(L) \in Nat /\ Cardinality(K) <= Cardinality(L)
    BY <2>3, <2>4, FS_Subset, FS_CardinalityType
  <2>7. Cardinality({n} \cup P) \in Nat
    BY <2>5, FS_CardinalityType
  <2>8. 2 * Cardinality(L) > Cardinality({n} \cup P)
    <3>1. 2 * Cardinality(K) > Cardinality({n} \cup P)
      BY <2>1
    <3>. HIDE DEF K, L
    <3>2. QED
      BY <2>6, <2>7, <3>1
  <2>9. QED
    BY <2>8 DEF OnMajority, Keeps, Written
<1>2. ASSUME InPlace(c)
      PROVE  InPlace(c)'
  BY <1>2, LogsGrow DEF InPlace, Written, TypeOK, CommitRecord
<1>3. QED
  BY <1>1, <1>2

(* A command just reported as committed: everybody who acknowledged it has  *)
(* appended it, in a full mesh at the same index.                           *)
LEMMA ReportHolds ==
  ASSUME MeshInv, NEW n \in Node, NEW x \in Command, ExecuteCommand(n, x),
         NEW c \in committed', c \notin committed
  PROVE  OnMajority(c)' /\ (~partial => InPlace(c)')
<1>. USE DEF MeshInv, TypeOK
<1>. DEFINE term  == currentTerm[n]
            entry == [term |-> term, command |-> x]
            acks  == {n} \cup {p \in peers[n] : Accepts(p, term)}
<1>1. /\ Acknowledged(n, acks)
      /\ c = [term |-> term, index |-> Len(log[n]) + 1, command |-> x]
      /\ log' = [m \in Node |-> IF m \in acks THEN Append(log[m], entry) ELSE log[m]]
  BY DEF ExecuteCommand
<1>2. entry \in Entry /\ Written(c) = entry
  BY <1>1 DEF Entry, Written
<1>3. ASSUME NEW m \in acks
      PROVE  /\ m \in Node /\ Len(log[m]) + 1 \in 1..Len(log'[m])
             /\ log'[m][Len(log[m]) + 1] = entry
  <2>1. m \in Node /\ log[m] \in Seq(Entry)
    OBVIOUS
  <2>2. log'[m] = Append(log[m], entry)
    BY <1>1, <2>1
  <2>3. QED
    BY <1>2, <2>1, <2>2
<1>4. OnMajority(c)'
  <2>. DEFINE P == peers[n]
              L == {m \in {n} \cup P : \E i \in 1..Len(log'[m]) : log'[m][i] = Written(c)}
  <2>1. P \in PeerSets[n] /\ P \subseteq Node /\ n \notin P
    BY NodeAssumption
  <2>2. IsFiniteSet(P) /\ IsFiniteSet({n} \cup P)
    BY <2>1, NodeAssumption, FS_Subset, FS_AddElement
  <2>3. acks \subseteq L /\ L \subseteq {n} \cup P
    BY <1>2, <1>3 DEF Keeps, Written
  <2>4. Cardinality({n} \cup P) = Cardinality(P) + 1
    BY <2>1, <2>2, FS_AddElement
  <2>5. IsFiniteSet(L) /\ Cardinality(acks) <= Cardinality(L)
    BY <2>2, <2>3, FS_Subset
  <2>6. Cardinality(acks) \in Nat /\ Cardinality(L) \in Nat /\ Cardinality(P) \in Nat
    BY <2>2, <2>3, <2>5, FS_Subset, FS_CardinalityType
  <2>7. Cardinality(acks) >= (Cardinality(P) + 1) \div 2 + 1
    BY <1>1 DEF Acknowledged, Majority
  <2>8. 2 * Cardinality(L) > Cardinality({n} \cup P)
    <3>. HIDE DEF L, P, acks
    <3>1. QED
      BY <2>4, <2>5, <2>6, <2>7
  <2>9. QED
    BY <2>1, <2>8 DEF OnMajority, Keeps, Written
<1>5. ASSUME ~partial
      PROVE  InPlace(c)'
  <2>1. \A m \in Node : log[m] = log[n] /\ Accepts(m, term)
    BY <1>5 DEF MeshAgreement, Accepts
  <2>2. acks = Node
    BY <1>5, <2>1
  <2>3. c.index = Len(log[n]) + 1
    BY <1>1
  <2>4. ASSUME NEW m \in Node
        PROVE  c.index \in 1..Len(log'[m]) /\ log'[m][c.index] = Written(c)
    <3>1. m \in acks /\ Len(log[m]) + 1 = c.index
      BY <2>1, <2>2, <2>3
    <3>2. QED
      BY <1>2, <1>3, <3>1
  <2>5. QED
    BY <2>4 DEF InPlace, Written
<1>6. QED
  BY <1>4, <1>5

LEMMA CommittedStep ==
  ASSUME MeshInv, CommittedSurvives, [Next]_vars
  PROVE  CommittedSurvives'
<1>1. \A c \in committed : OnMajority(c) /\ (~partial => InPlace(c))
  BY DEF CommittedSurvives, OnMajority, InPlace
<1>2. partial => partial'
  BY DEF Next, Connect, StartElection, ExecuteCommand, SendHeartbeats, vars
<1>3. ASSUME NEW c \in committed'
      PROVE  OnMajority(c)' /\ (~partial' => InPlace(c)')
  <2>1. CASE c \in committed
    BY <1>1, <1>2, <2>1, EntriesStay DEF MeshInv
  <2>2. CASE c \notin committed
    <3>1. PICK n \in Node, x \in Command : ExecuteCommand(n, x)
      BY <2>2 DEF Next, Connect, StartElection, SendHeartbeats, vars
    <3>2. QED
      BY <1>2, <2>2, <3>1, ReportHolds
  <2>3. QED
    BY <2>1, <2>2
<1>4. QED
  BY <1>3 DEF CommittedSurvives, OnMajority, InPlace

(* What executeCommand reported as committed is never lost: more than half  *)
(* of a cluster hold it from then on, and in a cluster that always was the  *)
(* full mesh every node does, at its index.                                 *)
THEOREM CommittedSurvivesHolds == Spec => []CommittedSurvives
<1>1. Init => MeshInv /\ CommittedSurvives
  BY NodeAssumption DEF Init, MeshInv, MeshAgreement, TypeOK, NodeState, CommittedSurvives
<1>2. MeshInv /\ CommittedSurvives /\ [Next]_vars => MeshInv' /\ CommittedSurvives'
  BY MeshStep, CommittedStep
<1>3. QED
  BY <1>1, <1>2, PTL DEF Spec
=============================================================================
