------------------------- MODULE MCTrafficAccounting -------------------------
(* TrafficAccounting on a selector group of two nodes. *)
EXTENDS TrafficAccounting, TLC

CONSTANTS n1, n2

\* A selector group of two nodes.
GroupSets == [ o1 |-> {n1}, o2 |-> {n2} ]
GroupMember == (n1 :> "o1") @@ (n2 :> "o2")

StoredTraffic == (n1 :> 0) @@ (n2 :> 1)
==============================================================================
