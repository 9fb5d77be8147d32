-------------------------- MODULE OrderedFallback --------------------------
(***************************************************************************)
(* What a caller of a chain of DNS servers is promised: the servers are     *)
(* asked one after the other, the first that answers is final, failure is   *)
(* reported only once every server has been asked, and nothing but the end  *)
(* of the caller's own time cuts the chain short.                           *)
(***************************************************************************)
EXTENDS Naturals

CONSTANT N   \* the number of servers

VARIABLES asked,    \* how many servers have been asked
          tried,    \* how many of them have failed
          clock,    \* "running", "late" (the deadline has passed), "over" (and is noticed)
          outcome

Init ==
  /\ asked = 0
  /\ tried = 0
  /\ clock = "running"
  /\ outcome = "none"

Ask ==
  /\ outcome = "none"
  /\ asked = tried
  /\ asked < N
  /\ clock # "over"
  /\ asked' = asked + 1
  /\ UNCHANGED <<tried, clock, outcome>>

GiveUp ==
  /\ outcome = "none"
  /\ tried < asked
  /\ tried' = asked
  /\ UNCHANGED <<asked, clock, outcome>>

Answer ==
  /\ outcome = "none"
  /\ tried < asked
  /\ outcome' = "answer"
  /\ UNCHANGED <<asked, tried, clock>>

Exhaust ==
  /\ outcome = "none"
  /\ tried = N
  /\ outcome' = "failed"
  /\ UNCHANGED <<asked, tried, clock>>

Abort ==
  /\ outcome = "none"
  /\ clock # "running"
  /\ outcome' = "aborted"
  /\ UNCHANGED <<asked, tried, clock>>

Tick ==
  /\ clock' \in IF clock = "running" THEN {"late", "over"} ELSE {"over"}
  /\ UNCHANGED <<asked, tried, outcome>>

Next == Ask \/ GiveUp \/ Answer \/ Exhaust \/ Abort \/ Tick

Spec == Init /\ [][Next]_<<asked, tried, clock, outcome>>
=============================================================================
