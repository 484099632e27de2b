---------------------------- MODULE CacheCluster ----------------------------
(***************************************************************************)
(* 03-distributed_cache/src: the HealthMonitor (health.ts) that removes    *)
(* dead nodes from the cluster.                                            *)
(*                                                                         *)
(* setInterval starts checkNodes() whether or not the previous check is    *)
(* over; a check works through a snapshot of the nodes and awaits a ping   *)
(* of each, so its verdict on a node may come after the node's removal, or *)
(* contradict a newer one of another check.  A ping fails when the node is *)
(* down, and whenever the answer is slow.  It never ends when the node     *)
(* closes the connection without an answer, since ping() has no handler    *)
(* for that: the check is lost, and with it the nodes it had still to      *)
(* ping.  Awaiting the verdict and acting on it are one step: a verdict    *)
(* acted on late is indistinguishable from a slow one.                     *)
(***************************************************************************)
EXTENDS ClusterManager, FiniteSets

CONSTANTS
    Retired,    \* the nodes that may be taken out by hand
    Closing,    \* the nodes that may close connections without an answer
    Check,      \* checkNodes() calls that may overlap, besides those that hang
    Threshold   \* failureThreshold

MonitorAssumption ==
    Retired \subseteq Node /\ Closing \subseteq Node /\ Threshold \in Nat \ {0}

VARIABLES
    failures,  \* HealthMonitor.failures; 0 is no entry
    todo,      \* each check: the nodes it has not finished, pinging the first
    server     \* what each cache server does with a ping

vars == <<cluster, failures, todo, server>>

Condition(n) == {"answers", "down"} \cup (IF n \in Closing THEN {"closes"} ELSE {})
Servers == {s \in [Node -> {"answers", "down", "closes"}] : \A n \in Node : s[n] \in Condition(n)}

(* A count that reaches the threshold does not survive the step. *)
TypeOK ==
    /\ ClusterTyped
    /\ failures \in [Node -> 0..(Threshold - 1)]
    /\ todo \in [Check -> Seq(Node)]
    /\ server \in Servers

Init ==
    /\ NoCluster
    /\ failures = [n \in Node |-> 0]
    /\ todo = [c \in Check |-> <<>>]
    /\ server \in Servers

-----------------------------------------------------------------------------
(* Plausible slips in the code, used to show that the properties bite. *)
ForgetsFailure(n) == 0

(* health.ts:40-41: the failures with this one, and those left once the     *)
(* node has been removed.                                                   *)
Failed(n) == failures[n] + 1
Untracked(n) == 0

AddNode(n) == Adds(n) /\ UNCHANGED <<failures, todo, server>>

RemoveNode(n) ==
    n \in Retired \cap Range(nodes) /\ Removes(n) /\ UNCHANGED <<failures, todo, server>>

-----------------------------------------------------------------------------
(* The interval starts a check. *)
StartCheck(c) ==
    /\ todo[c] = <<>> /\ nodes # <<>>
    /\ todo' = [todo EXCEPT ![c] = nodes]
    /\ UNCHANGED <<cluster, failures, server>>

Pings(c, n) == todo[c] # <<>> /\ Head(todo[c]) = n

(* No handler resolves the promise.  A check that hangs does nothing ever   *)
(* again, and the interval starts others.                                   *)
Hangs(c, n) ==
    /\ Pings(c, n) /\ server[n] = "closes"
    /\ todo' = [todo EXCEPT ![c] = <<>>]
    /\ UNCHANGED <<cluster, failures, server>>

(* The check resumes with the verdict on n, its first node, and goes on to  *)
(* the next one.                                                            *)
Moves(c, n) ==
    /\ Pings(c, n)
    /\ todo' = [todo EXCEPT ![c] = Tail(@)]
    /\ UNCHANGED server

Recovered(c, n) ==
    /\ Moves(c, n) /\ server[n] = "answers"
    /\ failures' = [failures EXCEPT ![n] = 0]
    /\ UNCHANGED cluster

Missed(c, n) ==
    /\ Moves(c, n) /\ server[n] # "closes"
    /\ \/ /\ Failed(n) < Threshold
          /\ failures' = [failures EXCEPT ![n] = Failed(n)]
          /\ UNCHANGED cluster
       \/ /\ Failed(n) >= Threshold
          /\ failures' = [failures EXCEPT ![n] = Untracked(n)]
          /\ Removes(n)

(* A cache server fails, in one way or the other, or comes back. *)
Turns(n, condition) ==
    /\ server[n] # condition
    /\ server' = [server EXCEPT ![n] = condition]
    /\ UNCHANGED <<cluster, failures, todo>>

Ends(c, n) == Recovered(c, n) \/ Missed(c, n) \/ Hangs(c, n)

Next ==
    \/ \E n \in Node : AddNode(n) \/ RemoveNode(n)
    \/ \E n \in Node : \E condition \in Condition(n) : Turns(n, condition)
    \/ \E c \in Check : StartCheck(c) \/ \E n \in Node : Ends(c, n)

Spec == Init /\ [][Next]_vars

(* The interval keeps firing, and of the pings under way some one ends:     *)
(* with an answer, an error, the timeout, or with a close nobody handles.   *)
Progress == \E c \in Check : StartCheck(c) \/ \E n \in Node : Ends(c, n)

-----------------------------------------------------------------------------
Dead(n) == n \in Range(nodes) /\ server[n] = "down"

(* A member that checks come to before they come to n, or n itself, closes  *)
(* connections without an answer.                                           *)
Hidden(n) ==
    \E i, j \in DOMAIN nodes : i <= j /\ nodes[j] = n /\ server[nodes[i]] = "closes"

(* ADR-023 "to prevent routing traffic to a black hole": no member stays    *)
(* down for ever, whatever checks overlap, have a late verdict or hang, and *)
(* whoever else joins or leaves, unless again and again a member before it  *)
(* hangs every check that comes to it.                                      *)
DeadNodesLeave == \A n \in Node : ~<>[](Dead(n) /\ ~Hidden(n))

(* ADR-023 makes no such exception: nodes are removed "after 3 consecutive  *)
(* failures".  One member that closes connections hides all behind it.      *)
EveryDeadNodeLeaves == \A n \in Node : ~<>[]Dead(n)
=============================================================================
