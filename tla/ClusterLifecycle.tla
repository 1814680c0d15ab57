-------------------------- MODULE ClusterLifecycle --------------------------
(***************************************************************************)
(* What the commands of xb.py promise about a cluster, as its file shows   *)
(* it: the states of compute/cluster.py and which of them follow which.    *)
(* XbenchSystem implements this specification when the commands for one    *)
(* cluster are issued one after the other.                                 *)
(***************************************************************************)
CONSTANTS Clusters, Members

VARIABLES
    status,   \* [Clusters -> States]: "absent" without a file
    nodes     \* [Clusters -> SUBSET Members]: the members that have a node

States == {"absent", "not_ready", "allocated", "failed", "ready", "down"}

Init ==
    /\ status = [c \in Clusters |-> "absent"]
    /\ nodes = [c \in Clusters |-> {}]

Become(c, st, ns) ==
    /\ status' = [status EXCEPT ![c] = st]
    /\ nodes' = [nodes EXCEPT ![c] = ns]

Configure(c) == Become(c, "not_ready", {})

\* Nodes are added, none is dropped; one that is missing makes it "failed"
Allocate(c) ==
    /\ status[c] # "absent"
    /\ \E ns \in SUBSET Members, st \in {"allocated", "failed"} :
          nodes[c] \subseteq ns /\ Become(c, st, ns)

Install(c) ==
    /\ status[c] # "absent"
    /\ nodes[c] = Members
    /\ Become(c, "ready", nodes[c])

SwitchOff(c) == status[c] = "ready" /\ Become(c, "down", nodes[c])
SwitchOn(c) == status[c] = "down" /\ Become(c, "ready", nodes[c])

Remove(c) == Become(c, "absent", {})

Next == \E c \in Clusters :
    Configure(c) \/ Allocate(c) \/ Install(c) \/ SwitchOff(c) \/ SwitchOn(c) \/ Remove(c)

Spec == Init /\ [][Next]_<<status, nodes>>
=============================================================================
