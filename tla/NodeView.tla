------------------------------- MODULE NodeView -------------------------------
(***************************************************************************)
(* What one node of a cluster promises the others about its stations: it   *)
(* announces an identity in the step in which it becomes connected, again  *)
(* when a new connection replaces the old one, and withdraws it in the     *)
(* step in which it is no longer connected, never in between.  Cluster is  *)
(* built on this promise, ServerRegistry implements it.                    *)
(***************************************************************************)
CONSTANT Identity

VARIABLES
    connected, \* the identities the node holds a client for
    announced  \* its last word on each identity

view == <<connected, announced>>

NodeInit ==
    /\ connected = {}
    /\ announced = [i \in Identity |-> "none"]

Connects(i) ==
    /\ connected' = connected \cup {i}
    /\ announced' = [announced EXCEPT ![i] = "set"]

Disconnects(i) ==
    /\ i \in connected
    /\ connected' = connected \ {i}
    /\ announced' = [announced EXCEPT ![i] = "removed"]

NodeNext == \E i \in Identity : Connects(i) \/ Disconnects(i)

NodeSpec == NodeInit /\ [][NodeNext]_view
=============================================================================
