-------------------------- MODULE DistributedCache --------------------------
(***************************************************************************)
(* The two sides of 03-distributed_cache: a cache server's LRUCache, which *)
(* this module extends, and the cluster manager's health monitor.  They    *)
(* share no state, a server that fails or comes back being no matter of    *)
(* what it caches, so each is explored without the other.                  *)
(***************************************************************************)
EXTENDS LRUCache, ClusterManager

CONSTANTS Retired, Closing, Check, Threshold   \* those of CacheCluster

VARIABLES
    side,   \* the one explored
    failures, todo, server

Monitor == INSTANCE CacheCluster

ASSUME MonitorAssumption == Monitor!MonitorAssumption

clusterVars == <<cluster, failures, todo, server>>
sides == <<side, vars, clusterVars>>

SidesInit ==
    /\ side \in {"server", "cluster"}
    /\ Init /\ Monitor!Init
    /\ side = "server" => \A n \in Node : server[n] = "answers"

CacheStep == side = "server" /\ Next /\ UNCHANGED <<side, clusterVars>>
ClusterStep == side = "cluster" /\ Monitor!Next /\ UNCHANGED <<side, vars>>
Progress == side = "cluster" /\ Monitor!Progress /\ UNCHANGED <<side, vars>>

SidesSpec == SidesInit /\ [][CacheStep \/ ClusterStep]_sides /\ WF_sides(Progress)

-----------------------------------------------------------------------------
(* CacheCluster says what they mean. *)
DeadNodesLeave == Monitor!DeadNodesLeave
EveryDeadNodeLeaves == Monitor!EveryDeadNodeLeaves
=============================================================================
