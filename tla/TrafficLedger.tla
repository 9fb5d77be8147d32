---------------------------- MODULE TrafficLedger ----------------------------
(***************************************************************************)
(* What the traffic accounting promises the database, as one atomic book:  *)
(* bytes credited to a node are due until they are added to what the       *)
(* database holds of it, each byte once, and bytes are given up only for a *)
(* node the user has cleared.  Writers, claims, failed transactions and    *)
(* broadcasts do not appear.                                               *)
(***************************************************************************)
EXTENDS Naturals

CONSTANTS Node, Initial

VARIABLES credited, \* bytes credited to each node so far
          due,      \* of these, the bytes still to be added to the database
          db,       \* what the database holds
          lost      \* bytes the user has cleared, or that were given up since

book == <<credited, due, db, lost>>
Amounts == [Node -> Nat]
Cleared(i) == lost[i] > 0

Init ==
  /\ credited = [i \in Node |-> 0] /\ due = [i \in Node |-> 0]
  /\ db = Initial /\ lost = [i \in Node |-> 0]

Credit ==
  /\ credited' \in Amounts /\ due' \in Amounts
  /\ \A i \in Node : credited[i] <= credited'[i] /\ credited'[i] + due[i] = credited[i] + due'[i]
  /\ UNCHANGED <<db, lost>>

\* Any part of what is due is added to what is there.
Post ==
  /\ db' \in Amounts /\ due' \in Amounts
  /\ \A i \in Node : db[i] <= db'[i] /\ db'[i] + due'[i] = db[i] + due[i]
  /\ UNCHANGED <<credited, lost>>

\* The user clears nodes; what is due of them is not touched.
Wipe ==
  \E nodes \in SUBSET {i \in Node : db[i] > 0} :
    /\ db' = [i \in Node |-> IF i \in nodes THEN 0 ELSE db[i]]
    /\ lost' = [i \in Node |-> IF i \in nodes THEN lost[i] + db[i] ELSE lost[i]]
    /\ UNCHANGED <<credited, due>>

\* The service learns of it, and gives up what is due of cleared nodes.
Drop ==
  /\ due' \in Amounts /\ lost' \in Amounts
  /\ \A i \in Node : /\ lost[i] <= lost'[i] /\ lost'[i] + due'[i] = lost[i] + due[i]
                     /\ lost'[i] # lost[i] => Cleared(i)
  /\ UNCHANGED <<credited, db>>

Next == Credit \/ Post \/ Wipe \/ Drop

Spec == Init /\ [][Next]_book
==============================================================================
