------------------------------ MODULE RaftLite ------------------------------
(***************************************************************************)
(* The in-process consensus cluster of 08-consensus/src/raft-lite-demo.ts. *)
(* Nodes call each other's methods synchronously on one JavaScript thread, *)
(* so every public method, with all the calls it makes on its peers, runs  *)
(* to completion before the next one starts: one method is one action.     *)
(*                                                                         *)
(* votesReceived is a local of one election here: startElection resets it  *)
(* before it counts and nothing reads it afterwards.  peers is an array in *)
(* the code; its order is irrelevant because peers never call each other.  *)
(***************************************************************************)
EXTENDS Naturals, Sequences, FiniteSets

CONSTANTS
    Node,       \* the RaftNode objects, identified by their id
    Nil,        \* votedFor = null
    Command,    \* commands clients submit
    PeerSets,   \* PeerSets[n]: the peer sets connect() may be given on n
    MaxTerm,    \* bound: elections stop at this term
    MaxLog      \* bound: writes stop when some log is this long

(* floor((peers.length + 1) / 2) + 1 *)
Majority(P) == (Cardinality(P) + 1) \div 2 + 1

(* Q is enough votes, or acknowledgements, for n wired to peers P *)
IsQuorum(n, P, Q) ==
    n \in Q /\ Q \subseteq {n} \cup P /\ Cardinality(Q) >= Majority(P)

ASSUME NodeAssumption ==
    /\ IsFiniteSet(Node)
    /\ Nil \notin Node
    /\ PeerSets \in [Node -> SUBSET SUBSET Node]
    /\ \A n \in Node : PeerSets[n] # {} /\ \A P \in PeerSets[n] : n \notin P
    /\ MaxTerm \in Nat /\ MaxLog \in Nat

(* The wirings in use overlap: no two quorums are disjoint.  A full mesh   *)
(* satisfies it; a node that was never connected, a majority by itself,    *)
(* does not.                                                               *)
ASSUME QuorumAssumption ==
    \A n, m \in Node : \A P \in PeerSets[n], R \in PeerSets[m] :
        \A Q, S \in SUBSET Node :
            IsQuorum(n, P, Q) /\ IsQuorum(m, R, S) => Q \cap S # {}

VARIABLES
    state, currentTerm, log, votedFor, peers,   \* the fields of RaftNode
    elected,    \* history: <<term, node>> for every election won
    committed,  \* history: what executeCommand reported as committed
    partial     \* history: some node has not been wired to all the others

nodeVars == <<state, currentTerm, log, votedFor, peers>>
vars == <<state, currentTerm, log, votedFor, peers, elected, committed, partial>>

NodeState == {"FOLLOWER", "CANDIDATE", "LEADER"}
Entry == [term : Nat, command : Command]
CommitRecord == [term : Nat, index : Nat \ {0}, command : Command]

(* The fields of every node keep their types; no method returns with its    *)
(* node still a CANDIDATE.                                                  *)
TypeOK ==
    /\ state \in [Node -> NodeState \ {"CANDIDATE"}]
    /\ currentTerm \in [Node -> Nat]
    /\ log \in [Node -> Seq(Entry)]
    /\ votedFor \in [Node -> Node \cup {Nil}]
    /\ peers \in [Node -> SUBSET Node]
    /\ \A n \in Node : peers[n] \in PeerSets[n]
    /\ elected \subseteq Nat \X Node
    /\ committed \subseteq CommitRecord
    /\ partial \in BOOLEAN

-----------------------------------------------------------------------------
(* The new objects after the connect() calls that wire the cluster. *)
Init ==
    /\ state = [n \in Node |-> "FOLLOWER"]
    /\ currentTerm = [n \in Node |-> 0]
    /\ log = [n \in Node |-> <<>>]
    /\ votedFor = [n \in Node |-> Nil]
    /\ peers \in {w \in [Node -> SUBSET Node] : \A n \in Node : w[n] \in PeerSets[n]}
    /\ elected = {}
    /\ committed = {}
    /\ partial = (\E n \in Node : peers[n] # Node \ {n})

(* connect(): replaces the peer list. *)
Connect(n, P) ==
    /\ P \in PeerSets[n]
    /\ peers' = [peers EXCEPT ![n] = P]
    /\ partial' = (partial \/ P # Node \ {n})
    /\ UNCHANGED <<state, currentTerm, log, votedFor, elected, committed>>

(* Plausible slips in the code, used to show that the properties bite. *)
GrantsAgain(p, term)  == term >= currentTerm[p]
AcceptsNewer(p, term) == term > currentTerm[p]
AcceptsAny(p, term)   == TRUE
AnyoneWrites(n)       == TRUE
HalfAcknowledged(n, acks) == Cardinality(acks) >= (Cardinality(peers[n]) + 1) \div 2

(* requestVote() on a peer: only the terms are compared. *)
Grants(p, term) == term > currentTerm[p]

(* appendEntries() on a peer, and the answer it gives. *)
Accepts(p, term) == term >= currentTerm[p]

(* How startElection() ends for the candidate. *)
Outcome(won) == IF won THEN "LEADER" ELSE "FOLLOWER"

(* Only a LEADER writes and sends heartbeats. *)
Leads(n) == state[n] = "LEADER"

(* A command whose acknowledgements reach a majority is reported committed. *)
Acknowledged(n, acks) == Cardinality(acks) >= Majority(peers[n])

(* startElection(): vote for oneself, ask every peer, count; a winner      *)
(* becomes LEADER and sends its first heartbeats, a loser returns to       *)
(* FOLLOWER and keeps the term it has raised.                              *)
StartElection(n) ==
    LET term   == currentTerm[n] + 1
        voters == {n} \cup {p \in peers[n] : Grants(p, term)}
        won    == Cardinality(voters) >= Majority(peers[n])
        reached == {n} \cup {p \in peers[n] : Accepts(p, term)}  \* by the heartbeat
        touched == IF won THEN reached ELSE voters
    IN
    /\ currentTerm[n] < MaxTerm
    /\ currentTerm' = [m \in Node |-> IF m \in touched THEN term ELSE currentTerm[m]]
    /\ state' = [m \in Node |-> IF m = n THEN Outcome(won)
                                ELSE IF m \in touched THEN "FOLLOWER" ELSE state[m]]
    /\ votedFor' = [m \in Node |-> IF m \in voters THEN n ELSE votedFor[m]]
    /\ elected' = IF won THEN elected \cup {<<term, n>>} ELSE elected
    /\ UNCHANGED <<log, peers, committed, partial>>

(* executeCommand(): the leader appends, every peer that accepts appends,  *)
(* and the command counts as committed when a majority acknowledged it.    *)
(* A node that is not LEADER refuses and nothing changes.                  *)
ExecuteCommand(n, c) ==
    LET term  == currentTerm[n]
        entry == [term |-> term, command |-> c]
        acks  == {n} \cup {p \in peers[n] : Accepts(p, term)}
    IN
    /\ Leads(n)
    /\ \A m \in Node : Len(log[m]) < MaxLog
    /\ log' = [m \in Node |-> IF m \in acks THEN Append(log[m], entry) ELSE log[m]]
    /\ currentTerm' = [m \in Node |-> IF m \in acks THEN term ELSE currentTerm[m]]
    /\ state' = [m \in Node |-> IF m \in acks \ {n} THEN "FOLLOWER" ELSE state[m]]
    /\ committed' = IF Acknowledged(n, acks)
                    THEN committed \cup {[term |-> term, index |-> Len(log[n]) + 1,
                                          command |-> c]}
                    ELSE committed
    /\ UNCHANGED <<votedFor, peers, elected, partial>>

(* sendHeartbeats(): appendEntries without an entry to every peer. *)
SendHeartbeats(n) ==
    LET reached == {p \in peers[n] : Accepts(p, currentTerm[n])} IN
    /\ Leads(n)
    /\ currentTerm' = [m \in Node |-> IF m \in reached THEN currentTerm[n] ELSE currentTerm[m]]
    /\ state' = [m \in Node |-> IF m \in reached THEN "FOLLOWER" ELSE state[m]]
    /\ UNCHANGED <<log, votedFor, peers, elected, committed, partial>>

Next ==
    \E n \in Node :
        \/ \E P \in PeerSets[n] : Connect(n, P)
        \/ StartElection(n)
        \/ \E c \in Command : ExecuteCommand(n, c)
        \/ SendHeartbeats(n)

Spec == Init /\ [][Next]_vars

-----------------------------------------------------------------------------
(* Election Safety (raft-deep.md): at most one node wins a given term,     *)
(* although requestVote never consults votedFor and elections race with    *)
(* leaders of older terms.                                                 *)
ElectionSafety ==
    \A e, f \in elected : e[1] = f[1] => e[2] = f[2]

(* A node that believes it is LEADER won the term it is in: terms raised   *)
(* by other elections and heartbeats always depose it.                     *)
LeaderWonItsTerm ==
    \A n \in Node : state[n] = "LEADER" => <<currentTerm[n], n>> \in elected

(* A deposed leader that was not reached by the new leader still accepts   *)
(* writes, but it can never again report one as committed: once a later    *)
(* term is won, executeCommand of an older term misses its quorum.         *)
CommitsInNewestTerm ==
    \A c \in committed' \ committed : \A e \in elected : e[1] <= c.term
StaleLeaderCannotCommit == [][CommitsInNewestTerm]_vars

LogTermsOrdered ==
    \A n \in Node : \A i \in 1..Len(log[n]) :
        /\ log[n][i].term <= currentTerm[n]
        /\ \A j \in 1..i : log[n][j].term <= log[n][i].term

EntriesComeFromWinners ==
    \A n \in Node : \A i \in 1..Len(log[n]) :
        \E e \in elected :
            /\ e[1] = log[n][i].term
            /\ \E j \in 1..Len(log[e[2]]) : log[e[2]][j] = log[n][i]

(* The terms in every log are in order and never ahead of the node's own   *)
(* term: no follower takes an entry of an older leader after a newer one.  *)
(* Every replicated entry was written by a node that won the entry's term, *)
(* and that node still holds it.                                           *)
LogsFollowElections == LogTermsOrdered /\ EntriesComeFromWinners

(* What was reported as committed is not lost again: more than half of a    *)
(* cluster, as its leader saw it, hold the entry from then on, whoever is   *)
(* elected and whatever is rewired.  Leader Completeness (raft-deep.md:28)  *)
(* asks for more, the entry in the log of every future leader; requestVote  *)
(* compares no logs, and only in a cluster that always was the full mesh    *)
(* every node keeps it, and at the index at which it was committed.         *)
Written(c) == [term |-> c.term, command |-> c.command]
Keeps(m, c) == \E i \in 1..Len(log[m]) : log[m][i] = Written(c)
CommittedSurvives ==
    \A c \in committed :
        /\ \E n \in Node : \E P \in PeerSets[n] :
              2 * Cardinality({m \in {n} \cup P : Keeps(m, c)}) > Cardinality({n} \cup P)
        /\ ~partial => \A m \in Node :
              c.index \in 1..Len(log[m]) /\ log[m][c.index] = Written(c)

(* While the cluster is and always was the demo's full mesh, synchronous   *)
(* calls keep every log and every term identical, which is all that        *)
(* appendEntries' missing log-matching check relies on.                    *)
MeshAgreement ==
    ~partial => \A n, m \in Node : log[n] = log[m] /\ currentTerm[n] = currentTerm[m]
=============================================================================
