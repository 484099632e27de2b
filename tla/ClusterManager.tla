--------------------------- MODULE ClusterManager ---------------------------
(***************************************************************************)
(* 03-distributed_cache/src: ClusterManager (clusterManager.ts), and the   *)
(* replica sets that ReplicationManager derives from it (replication.ts).  *)
(***************************************************************************)
EXTENDS Integers, SequencesExt

CONSTANTS
    Node,
    NoNode,     \* null, the answer of an empty ring
    Hashes,     \* Hashes[n]: the hashes of n's virtual nodes
    KeyHash,    \* the hashes of the keys looked up
    Replicas    \* ReplicationManager.replicas

(* MD5 gives distinct virtual nodes distinct points, and every node has     *)
(* some (the constructor asks for three).                                   *)
ASSUME ClusterAssumption ==
    /\ NoNode \notin Node
    /\ \A n \in Node : Hashes[n] \in Seq(Nat) /\ Hashes[n] # <<>>
    /\ \A n, m \in Node : \A i \in DOMAIN Hashes[n], j \in DOMAIN Hashes[m] :
          <<n, i>> # <<m, j>> => Hashes[n][i] # Hashes[m][j]
    /\ KeyHash \subseteq Nat /\ Replicas \in Nat \ {0}

VARIABLES
    ring,      \* ClusterManager.ring
    nodes      \* ClusterManager.nodes: a Set, in the order of insertion

cluster == <<ring, nodes>>

Ring == INSTANCE HashRing

(* The ring has an owner for every listed point; no node is listed twice.   *)
ClusterTyped ==
    /\ ring.nodes \subseteq Node
    /\ Range(ring.owner) \subseteq Node
    /\ DOMAIN ring.owner = Range(ring.sortedKeys)
    /\ Range(nodes) \subseteq Node /\ IsInjective(nodes)

NoCluster == ring = Ring!EmptyRing /\ nodes = <<>>

-----------------------------------------------------------------------------
(* Plausible slips in the code, used to show that the properties bite. *)
FirstToo(primary) == Range(nodes)

(* addNode(): nothing for a node it has. *)
Adds(n) ==
    /\ n \notin Range(nodes)
    /\ ring' = Ring!addNode(ring, n, Hashes[n])
    /\ nodes' = Append(nodes, n)

(* removeNode(): nothing for a node it does not have. *)
Removes(n) ==
    \/ n \notin Range(nodes) /\ UNCHANGED cluster
    \/ /\ ring' = Ring!removeNode(ring, n)
       /\ \E i \in DOMAIN nodes : nodes[i] = n /\ nodes' = RemoveAt(nodes, i)

(* getNodeForKey() *)
Primary(h) == Ring!getNode(ring, h)

(* getReplicaSet(): the primary, then nodes in the order of their insertion *)
(* until there are enough.                                                  *)
Earlier(m, n) == \E i, j \in DOMAIN nodes : i < j /\ nodes[i] = m /\ nodes[j] = n
Others(primary) == Range(nodes) \ {primary}
First(others, k) == {n \in others : Cardinality({m \in others : Earlier(m, n)}) < k}

ReplicaSet(h) ==
    LET primary == Primary(h) IN {primary} \cup First(Others(primary), Replicas - 1)

-----------------------------------------------------------------------------
(* After any joins, leaves and removals, by whatever check, a key is routed *)
(* to the clockwise successor among exactly the members: the ring holds no  *)
(* leftover of a removed node, and the binary search wraps where it should. *)
RoutesClockwise ==
    \A h \in KeyHash : Primary(h) = Ring!Clockwise(Hashes, Range(nodes), h)

(* ADR-013 "Minimal Rebalancing": a key moves only away from a node that    *)
(* left or to one that joined; all other keys stay where they are.          *)
OnlyItsKeysMove ==
    [][\A h \in KeyHash :
         Primary(h)' # Primary(h) =>
            Primary(h) \notin Range(nodes') \/ Primary(h)' \notin Range(nodes)]_cluster

(* ADR-022 "data survives if 1 node crashes": a key has as many replicas as *)
(* there are members for, and a membership change replaces at most one of   *)
(* them, although they are taken in insertion order, not along the ring.    *)
ReplicasSurvive ==
    [][nodes' # nodes /\ nodes # <<>> /\ nodes' # <<>> =>
         \A h \in KeyHash :
            LET before == ReplicaSet(h)
            IN /\ Cardinality(before) = Min({Replicas, Len(nodes)})
               /\ Cardinality(before \ ReplicaSet(h)') <= 1]_cluster
=============================================================================
