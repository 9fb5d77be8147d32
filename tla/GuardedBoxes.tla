---------------------------- MODULE GuardedBoxes ----------------------------
(***************************************************************************)
(* What libcore's BoxInstance promises its callers, as one atomic object:  *)
(* a box is used by one caller at a time and only while it is open, closing*)
(* waits for the caller inside, and a box that is closed is in the same    *)
(* instant no longer the main instance.                                    *)
(***************************************************************************)
CONSTANTS Box, Thread, None

VARIABLES open,   \* which boxes are not closed
          user,   \* per box: the caller working on it, or None
          owner   \* the main instance, or None

Init ==
  /\ open = [b \in Box |-> TRUE]
  /\ user = [b \in Box |-> None]
  /\ owner = None

Enter(t, b) ==
  /\ open[b]
  /\ user[b] = None
  /\ user' = [user EXCEPT ![b] = t]
  /\ UNCHANGED <<open, owner>>

Leave(t, b) ==
  /\ user[b] = t
  /\ user' = [user EXCEPT ![b] = None]
  /\ UNCHANGED <<open, owner>>

\* The caller makes the box it is working on the main instance, and leaves.
Adopt(t, b) ==
  /\ user[b] = t
  /\ owner' = b
  /\ user' = [user EXCEPT ![b] = None]
  /\ UNCHANGED open

Retire(b) ==
  /\ open[b]
  /\ user[b] = None
  /\ open' = [open EXCEPT ![b] = FALSE]
  /\ owner' = IF owner = b THEN None ELSE owner
  /\ UNCHANGED user

Next ==
  \/ \E b \in Box : Retire(b)
  \/ \E t \in Thread, b \in Box : Enter(t, b) \/ Leave(t, b) \/ Adopt(t, b)

Spec == Init /\ [][Next]_<<open, user, owner>>
=============================================================================
