---------------------------- MODULE AtomicRestore ----------------------------
(***************************************************************************)
(* What the restore of a backup promises, over both databases at once: the *)
(* content of the app changes by a whole import, which may be taken back   *)
(* as a whole until it is final.  Transactions, the journal, crashes and   *)
(* replays do not appear.  The promise ends when a journal is given up or  *)
(* replaced.                                                               *)
(***************************************************************************)
EXTENDS Naturals

CONSTANTS Section, Import

VARIABLES content,  \* the import each section comes from
          previous, \* what taking back the last import would leave
          torn      \* a journal was given up or replaced

state == <<content, previous, torn>>

Init ==
  /\ content = [s \in Section |-> 0]
  /\ previous = content
  /\ torn = FALSE

\* A new import replaces the sections it was made for, once the one before is final.
Apply(i) ==
  /\ previous = content
  /\ \A s \in Section : content[s] < i
  /\ \E chosen \in SUBSET Section :
       content' = [s \in Section |-> IF s \in chosen THEN i ELSE content[s]]
  /\ previous' = content
  /\ UNCHANGED torn

Confirm == previous' = content /\ UNCHANGED <<content, torn>>

Revoke == content' = previous /\ UNCHANGED <<previous, torn>>

Tear == torn'

Next == (\E i \in Import : Apply(i)) \/ Confirm \/ Revoke \/ Tear

Spec == Init /\ [][Next]_state
==============================================================================
