-------------------------- MODULE Resolvers_proofs --------------------------
(***************************************************************************)
(* Proofs about Resolvers for every number of servers and of callbacks: an *)
(* answer is what a server said, no descriptor is closed twice, a server   *)
(* is left behind only when it has failed, and both chains implement       *)
(* OrderedFallback.                                                        *)
(***************************************************************************)
EXTENDS Resolvers, TLAPS

-----------------------------------------------------------------------------
(* The inductive invariant. *)

\* Where the loop over the servers is.
PlaceInv ==
  /\ pc # "next" => cur \in Server
  /\ pc = "collect" => kind = "lookup"
  /\ pc = "await" => kind = "sequential"
  /\ kind = "sequential" /\ pc \in {"await", "judge"} => via[cur] \in {"native", "callback"}
  /\ outcome = "answer" => pc = "judge"

\* A descriptor is closed once, is open while it is polled, and exists only for a
\* server that has been asked.
FdInv ==
  /\ FdClosedOnce
  /\ pc = "await" /\ via[cur] = "native" => fd[cur] = "open"
  /\ \A s \in Server : cur < s \/ (cur = s /\ pc = "next") => fd[s] = "none"

\* A reply that came through a callback is the one the exchange was settled with.
ReplyInv ==
  /\ kind = "sequential" /\ pc = "judge" /\ reply = "ok" /\ via[cur] = "callback" =>
       settled[cur] = "ok"
  /\ kind = "sequential" /\ outcome = "answer" => reply = "ok"

\* The grace timer runs only beside a family that brought addresses, so a server is
\* judged with all its results or with such a family.
FoundInv ==
  /\ pc = "collect" /\ grace = "running" => serverFound
  /\ pc = "judge" /\ kind = "lookup" =>
       serverFound \/ \A f \in Family : ask[cur][f] = "collected"
  /\ kind = "lookup" /\ outcome = "answer" => serverFound

IInv ==
  /\ TypeOK
  /\ PlaceInv
  /\ FdInv
  /\ ReplyInv
  /\ FoundInv

-----------------------------------------------------------------------------
(* Every step preserves the invariant. *)

\* Types: the loop never goes past the servers, a descriptor is closed at most twice.
LEMMA TypeOKStep ==
  ASSUME IInv, [Next]_vars
  PROVE  TypeOK'
<1> USE NAssumption, MaxCallbacksAssumption DEF TypeOK, PlaceInv, FdInv, FdClosedOnce, Server,
       Family, Kind, Reply, Found, callVars, lookupVars, memberVars
<1>0. TypeOK /\ PlaceInv /\ FdInv
  BY DEF IInv
<1>1. CASE UNCHANGED vars
  BY <1>0, <1>1 DEF vars
<1>2. CASE Cancel \/ SpendBudget \/ Expire
  BY <1>0, <1>2 DEF Cancel, SpendBudget, Expire
<1>3. CASE LookupHosts
  <2>1. /\ scope' \in {scope, [scope EXCEPT ![cur] = "live"]}
        /\ ask' \in {ask, [ask EXCEPT ![cur] = [f \in Family |-> "asking"]]}
    BY <1>3 DEF LookupHosts
  <2>2. /\ pc' \in {"next", "collect", "judge", "await"} /\ cur' = cur
        /\ outcome' \in {"none", "answer", "failed", "aborted"}
        /\ grace' \in {"unset", "running", "fired"}
    BY <1>0, <1>3 DEF LookupHosts, Return
  <2>3. scope' \in [Server -> {"none", "live", "done"}]
    BY <1>0, <2>1
  <2>4. ask' \in [Server -> [Family -> {"none", "asking", "retry", "sending", "sent", "collected"}]]
    BY <1>0, <2>1
  <2> QED BY <1>0, <1>3, <2>2, <2>3, <2>4 DEF LookupHosts
<1>4. CASE GraceFires
  BY <1>0, <1>4 DEF GraceFires
<1>5. CASE JudgeServer
  BY <1>0, <1>5 DEF JudgeServer, Return, NextServer, budgetGone
<1>6. CASE SequentialExchange
  <2>1. /\ via' \in {via, [via EXCEPT ![cur] = "callback"], [via EXCEPT ![cur] = "native"]}
        /\ settled' \in {settled, [settled EXCEPT ![cur] = "err"]}
        /\ watcher' \in {watcher, [watcher EXCEPT ![cur] = "waiting"]}
        /\ fd' \in {fd, [fd EXCEPT ![cur] = "open"]}
    BY <1>6 DEF SequentialExchange
  <2>2. via' \in [Server -> {"none", "native", "callback"}]
    BY <1>0, <2>1
  <2>6. settled' \in [Server -> Reply \cup {"no"}]
    BY <1>0, <2>1
  <2>4. watcher' \in [Server -> {"none", "waiting", "invoked", "gone"}]
    BY <1>0, <2>1
  <2>5. fd' \in [Server -> {"none", "open", "closed"}]
    BY <1>0, <2>1
  <2>3. /\ pc' \in {"next", "collect", "judge", "await"} /\ cur' = cur
        /\ outcome' \in {"none", "answer", "failed", "aborted"}
        /\ reply' \in Reply \cup {"none"}
    BY <1>0, <1>6 DEF SequentialExchange, Return
  <2> QED BY <1>0, <1>6, <2>2, <2>3, <2>4, <2>5, <2>6 DEF SequentialExchange
<1>7. CASE AwaitPlatform
  BY <1>0, <1>7 DEF AwaitPlatform
<1>8. CASE RawQuery
  <2>1. cur \in Server /\ closes[cur] = 0
    BY <1>0, <1>8 DEF RawQuery
  <2>2. fd' = [fd EXCEPT ![cur] = "closed"] /\ closes' = [closes EXCEPT ![cur] = 1]
    BY <1>0, <1>8, <2>1 DEF RawQuery, closed, deferredCancel
  <2>3. closes' \in [Server -> 0..2] /\ fd' \in [Server -> {"none", "open", "closed"}]
    BY <1>0, <2>1, <2>2
  <2>4. reply' \in Reply \cup {"none"} /\ pc' = "judge"
    BY <1>8 DEF RawQuery
  <2> QED BY <2>3, <2>4, <1>0, <1>8 DEF RawQuery
<1>9. CASE JudgeMember
  BY <1>0, <1>9 DEF JudgeMember, final, Return, NextServer
<1>10. ASSUME NEW f \in Family, Collect(f) PROVE TypeOK'
  BY <1>0, <1>10 DEF Collect, startsGrace, pending
<1>11. ASSUME NEW s \in Server, ServerTimeout(s) PROVE TypeOK'
  BY <1>0, <1>11 DEF ServerTimeout
<1>12. ASSUME NEW s \in Server, WatchCancel(s) PROVE TypeOK'
  BY <1>0, <1>12 DEF WatchCancel
<1>13. ASSUME NEW s \in Server, NEW r \in Reply, Callback(s, r) PROVE TypeOK'
  BY <1>0, <1>13 DEF Callback, settle
<1>14. ASSUME NEW s \in Server, NEW f \in Family, FamilyReturns(s, f) PROVE TypeOK'
  BY <1>0, <1>14 DEF FamilyReturns
<1>15. ASSUME NEW s \in Server, NEW f \in Family, Truncated(s, f) PROVE TypeOK'
  BY <1>0, <1>15 DEF Truncated
<1>16. ASSUME NEW s \in Server, NEW f \in Family, SendResult(s, f) PROVE TypeOK'
  BY <1>0, <1>16 DEF SendResult
<1> QED BY <1>1, <1>2, <1>3, <1>4, <1>5, <1>6, <1>7, <1>8, <1>9, <1>10, <1>11, <1>12, <1>13,
           <1>14, <1>15, <1>16 DEF Next, Chain, Ended

\* The loop asks, waits for and judges one server at a time.
LEMMA PlaceInvStep ==
  ASSUME IInv, [Next]_vars
  PROVE  PlaceInv'
<1> USE NAssumption, MaxCallbacksAssumption DEF TypeOK, PlaceInv, Server, Family, Kind, Reply,
       Found, callVars, lookupVars, memberVars
<1>0. TypeOK /\ PlaceInv
  BY DEF IInv
<1>1. CASE UNCHANGED vars
  BY <1>0, <1>1 DEF vars
<1>2. CASE Cancel \/ SpendBudget \/ Expire
  BY <1>0, <1>2 DEF Cancel, SpendBudget, Expire
<1>3. CASE LookupHosts
  BY <1>0, <1>3 DEF LookupHosts, mayAsk, Return
<1>4. CASE GraceFires
  BY <1>0, <1>4 DEF GraceFires
<1>5. CASE JudgeServer
  BY <1>0, <1>5 DEF JudgeServer, Return, NextServer, budgetGone
<1>6. CASE SequentialExchange
  BY <1>0, <1>6 DEF SequentialExchange, mayAsk, Return
<1>7. CASE AwaitPlatform
  BY <1>0, <1>7 DEF AwaitPlatform
<1>8. CASE RawQuery
  BY <1>0, <1>8 DEF RawQuery, closed, deferredCancel
<1>9. CASE JudgeMember
  BY <1>0, <1>9 DEF JudgeMember, final, Return, NextServer
<1>10. ASSUME NEW f \in Family, Collect(f) PROVE PlaceInv'
  BY <1>0, <1>10 DEF Collect, startsGrace, pending
<1>11. ASSUME NEW s \in Server, ServerTimeout(s) PROVE PlaceInv'
  BY <1>0, <1>11 DEF ServerTimeout
<1>12. ASSUME NEW s \in Server, WatchCancel(s) PROVE PlaceInv'
  BY <1>0, <1>12 DEF WatchCancel
<1>13. ASSUME NEW s \in Server, NEW r \in Reply, Callback(s, r) PROVE PlaceInv'
  BY <1>0, <1>13 DEF Callback, settle
<1>14. ASSUME NEW s \in Server, NEW f \in Family, FamilyReturns(s, f) PROVE PlaceInv'
  BY <1>0, <1>14 DEF FamilyReturns
<1>15. ASSUME NEW s \in Server, NEW f \in Family, Truncated(s, f) PROVE PlaceInv'
  BY <1>0, <1>15 DEF Truncated
<1>16. ASSUME NEW s \in Server, NEW f \in Family, SendResult(s, f) PROVE PlaceInv'
  BY <1>0, <1>16 DEF SendResult
<1> QED BY <1>1, <1>2, <1>3, <1>4, <1>5, <1>6, <1>7, <1>8, <1>9, <1>10, <1>11, <1>12, <1>13,
           <1>14, <1>15, <1>16 DEF Next, Chain, Ended

\* rawQueryFunc closes what it opened, once, whichever way its poll ends.
LEMMA FdInvStep ==
  ASSUME IInv, [Next]_vars
  PROVE  FdInv'
<1> USE NAssumption, MaxCallbacksAssumption DEF TypeOK, PlaceInv, FdInv, FdClosedOnce, Server,
       Family, Kind, Reply, Found, callVars, lookupVars, memberVars
<1>0. TypeOK /\ PlaceInv /\ FdInv
  BY DEF IInv
<1>1. CASE UNCHANGED vars
  BY <1>0, <1>1 DEF vars
<1>2. CASE Cancel \/ SpendBudget \/ Expire
  BY <1>0, <1>2 DEF Cancel, SpendBudget, Expire
<1>3. CASE LookupHosts
  BY <1>0, <1>3 DEF LookupHosts, mayAsk, Return
<1>4. CASE GraceFires
  BY <1>0, <1>4 DEF GraceFires
<1>5. CASE JudgeServer
  BY <1>0, <1>5 DEF JudgeServer, Return, NextServer, budgetGone
<1>6. CASE SequentialExchange
  BY <1>0, <1>6 DEF SequentialExchange, mayAsk, Return
<1>7. CASE AwaitPlatform
  BY <1>0, <1>7 DEF AwaitPlatform
<1>8. CASE RawQuery
  <2>1. cur \in Server /\ closes[cur] = 0
    BY <1>0, <1>8 DEF RawQuery
  <2>2. fd' = [fd EXCEPT ![cur] = "closed"] /\ closes' = [closes EXCEPT ![cur] = 1]
    BY <1>0, <1>8, <2>1 DEF RawQuery, closed, deferredCancel
  <2> QED BY <1>0, <1>8, <2>1, <2>2 DEF RawQuery
<1>9. CASE JudgeMember
  BY <1>0, <1>9 DEF JudgeMember, final, Return, NextServer
<1>10. ASSUME NEW f \in Family, Collect(f) PROVE FdInv'
  BY <1>0, <1>10 DEF Collect, startsGrace, pending
<1>11. ASSUME NEW s \in Server, ServerTimeout(s) PROVE FdInv'
  BY <1>0, <1>11 DEF ServerTimeout
<1>12. ASSUME NEW s \in Server, WatchCancel(s) PROVE FdInv'
  BY <1>0, <1>12 DEF WatchCancel
<1>13. ASSUME NEW s \in Server, NEW r \in Reply, Callback(s, r) PROVE FdInv'
  BY <1>0, <1>13 DEF Callback, settle
<1>14. ASSUME NEW s \in Server, NEW f \in Family, FamilyReturns(s, f) PROVE FdInv'
  BY <1>0, <1>14 DEF FamilyReturns
<1>15. ASSUME NEW s \in Server, NEW f \in Family, Truncated(s, f) PROVE FdInv'
  BY <1>0, <1>15 DEF Truncated
<1>16. ASSUME NEW s \in Server, NEW f \in Family, SendResult(s, f) PROVE FdInv'
  BY <1>0, <1>16 DEF SendResult
<1> QED BY <1>1, <1>2, <1>3, <1>4, <1>5, <1>6, <1>7, <1>8, <1>9, <1>10, <1>11, <1>12, <1>13,
           <1>14, <1>15, <1>16 DEF Next, Chain, Ended

\* settleWith keeps the first reply, so a late callback does not change what awaitPlatform
\* returned.
LEMMA ReplyInvStep ==
  ASSUME IInv, [Next]_vars
  PROVE  ReplyInv'
<1> USE NAssumption, MaxCallbacksAssumption DEF TypeOK, PlaceInv, ReplyInv, Server, Family,
       Kind, Reply, Found, callVars, lookupVars, memberVars
<1>0. TypeOK /\ PlaceInv /\ ReplyInv
  BY DEF IInv
<1>1. CASE UNCHANGED vars
  BY <1>0, <1>1 DEF vars
<1>2. CASE Cancel \/ SpendBudget \/ Expire
  BY <1>0, <1>2 DEF Cancel, SpendBudget, Expire
<1>3. CASE LookupHosts
  BY <1>0, <1>3 DEF LookupHosts, mayAsk, Return
<1>4. CASE GraceFires
  BY <1>0, <1>4 DEF GraceFires
<1>5. CASE JudgeServer
  BY <1>0, <1>5 DEF JudgeServer, Return, NextServer, budgetGone
<1>6. CASE SequentialExchange
  BY <1>0, <1>6 DEF SequentialExchange, mayAsk, Return
<1>7. CASE AwaitPlatform
  BY <1>0, <1>7 DEF AwaitPlatform
<1>8. CASE RawQuery
  BY <1>0, <1>8 DEF RawQuery, closed, deferredCancel
<1>9. CASE JudgeMember
  BY <1>0, <1>9 DEF JudgeMember, final, Return, NextServer
<1>10. ASSUME NEW f \in Family, Collect(f) PROVE ReplyInv'
  BY <1>0, <1>10 DEF Collect, startsGrace, pending
<1>11. ASSUME NEW s \in Server, ServerTimeout(s) PROVE ReplyInv'
  BY <1>0, <1>11 DEF ServerTimeout
<1>12. ASSUME NEW s \in Server, WatchCancel(s) PROVE ReplyInv'
  BY <1>0, <1>12 DEF WatchCancel
<1>13. ASSUME NEW s \in Server, NEW r \in Reply, Callback(s, r) PROVE ReplyInv'
  BY <1>0, <1>13 DEF Callback, settle
<1>14. ASSUME NEW s \in Server, NEW f \in Family, FamilyReturns(s, f) PROVE ReplyInv'
  BY <1>0, <1>14 DEF FamilyReturns
<1>15. ASSUME NEW s \in Server, NEW f \in Family, Truncated(s, f) PROVE ReplyInv'
  BY <1>0, <1>15 DEF Truncated
<1>16. ASSUME NEW s \in Server, NEW f \in Family, SendResult(s, f) PROVE ReplyInv'
  BY <1>0, <1>16 DEF SendResult
<1> QED BY <1>1, <1>2, <1>3, <1>4, <1>5, <1>6, <1>7, <1>8, <1>9, <1>10, <1>11, <1>12, <1>13,
           <1>14, <1>15, <1>16 DEF Next, Chain, Ended

\* A family that has been collected has reported for good.
LEMMA FoundInvStep ==
  ASSUME IInv, [Next]_vars
  PROVE  FoundInv'
<1> USE NAssumption, MaxCallbacksAssumption DEF TypeOK, PlaceInv, FoundInv, serverFound, Server,
       Family, Kind, Reply, Found, callVars, lookupVars, memberVars
<1>0. TypeOK /\ PlaceInv /\ FoundInv
  BY DEF IInv
<1>1. CASE UNCHANGED vars
  BY <1>0, <1>1 DEF vars
<1>2. CASE Cancel \/ SpendBudget \/ Expire
  BY <1>0, <1>2 DEF Cancel, SpendBudget, Expire
<1>3. CASE LookupHosts
  BY <1>0, <1>3 DEF LookupHosts, mayAsk, Return
<1>4. CASE GraceFires
  BY <1>0, <1>4 DEF GraceFires
<1>5. CASE JudgeServer
  BY <1>0, <1>5 DEF JudgeServer, Return, NextServer, budgetGone
<1>6. CASE SequentialExchange
  BY <1>0, <1>6 DEF SequentialExchange, mayAsk, Return
<1>7. CASE AwaitPlatform
  BY <1>0, <1>7 DEF AwaitPlatform
<1>8. CASE RawQuery
  BY <1>0, <1>8 DEF RawQuery, closed, deferredCancel
<1>9. CASE JudgeMember
  BY <1>0, <1>9 DEF JudgeMember, final, Return, NextServer
<1>10. ASSUME NEW f \in Family, Collect(f) PROVE FoundInv'
  BY <1>0, <1>10 DEF Collect, startsGrace, pending
<1>11. ASSUME NEW s \in Server, ServerTimeout(s) PROVE FoundInv'
  BY <1>0, <1>11 DEF ServerTimeout
<1>12. ASSUME NEW s \in Server, WatchCancel(s) PROVE FoundInv'
  BY <1>0, <1>12 DEF WatchCancel
<1>13. ASSUME NEW s \in Server, NEW r \in Reply, Callback(s, r) PROVE FoundInv'
  BY <1>0, <1>13 DEF Callback, settle
<1>14. ASSUME NEW s \in Server, NEW f \in Family, FamilyReturns(s, f) PROVE FoundInv'
  BY <1>0, <1>14 DEF FamilyReturns
<1>15. ASSUME NEW s \in Server, NEW f \in Family, Truncated(s, f) PROVE FoundInv'
  BY <1>0, <1>15 DEF Truncated
<1>16. ASSUME NEW s \in Server, NEW f \in Family, SendResult(s, f) PROVE FoundInv'
  BY <1>0, <1>16 DEF SendResult
<1> QED BY <1>1, <1>2, <1>3, <1>4, <1>5, <1>6, <1>7, <1>8, <1>9, <1>10, <1>11, <1>12, <1>13,
           <1>14, <1>15, <1>16 DEF Next, Chain, Ended

-----------------------------------------------------------------------------
(* Theorems. *)

\* The inductive invariant holds of the initial states.
LEMMA InitIInv == Init => IInv
<1> SUFFICES ASSUME Init PROVE IInv
  OBVIOUS
<1> USE NAssumption, MaxCallbacksAssumption DEF Init, Server, Family, Kind, Reply, Found
<1>1. cur \in 1..(N + 1) /\ callbacks \in [Server -> 0..MaxCallbacks]
  OBVIOUS
<1>2. closes \in [Server -> 0..2]
  OBVIOUS
<1>3. TypeOK
  BY <1>1, <1>2 DEF TypeOK
<1>4. PlaceInv /\ FdInv /\ ReplyInv /\ FoundInv
  BY DEF PlaceInv, FdInv, FdClosedOnce, ReplyInv, FoundInv
<1> QED BY <1>3, <1>4 DEF IInv

\* Every reachable state satisfies the inductive invariant, whatever the servers, the
\* platform, the timers and the caller do.
THEOREM Invariance == Spec => []IInv
<1>1. Init => IInv
  BY InitIInv
<1>2. IInv /\ [Next]_vars => IInv'
  BY TypeOKStep, PlaceInvStep, FdInvStep, ReplyInvStep, FoundInvStep DEF IInv
<1> QED BY <1>1, <1>2, PTL DEF Spec

\* The variables keep their types.
THEOREM TypeCorrect == Spec => []TypeOK
<1>1. IInv => TypeOK
  BY DEF IInv
<1> QED BY <1>1, Invariance, PTL

\* lookupHosts and SequentialTransport.Exchange return as an answer only what the server
\* they stopped at has said, late callbacks or not.
THEOREM AnswersAreReplies == Spec => []AnswerIsTheReply
<1>1. IInv => AnswerIsTheReply
  BY DEF IInv, TypeOK, Kind, PlaceInv, ReplyInv, FoundInv, AnswerIsTheReply
<1> QED BY <1>1, Invariance, PTL

\* rawQueryFunc: the descriptor of a native query is closed exactly once.
THEOREM DescriptorsClosedOnce == Spec => []FdClosedOnce
<1>1. IInv => FdClosedOnce
  BY DEF IInv, FdInv
<1> QED BY <1>1, Invariance, PTL

\* The loops go on to the next server only from one that has failed for good.
THEOREM OnlyFailedServersAreLeft == Spec => LeavesOnlyFailedServers
<1> DEFINE Left == cur' # cur =>
             IF kind = "lookup"
               THEN \A f \in Family : ask[cur][f] = "collected" /\ found[cur][f] # "addresses"
               ELSE reply # "ok"
<1>1. IInv /\ [Next]_vars => [Left]_vars
  <2> SUFFICES ASSUME IInv, Next, cur' # cur
               PROVE  IF kind = "lookup"
                        THEN \A f \in Family :
                               ask[cur][f] = "collected" /\ found[cur][f] # "addresses"
                        ELSE reply # "ok"
    OBVIOUS
  <2>1. JudgeServer \/ JudgeMember
    BY DEF Next, Chain, Ended, vars, callVars, Cancel, SpendBudget, Expire, LookupHosts,
       GraceFires, Collect, SequentialExchange, AwaitPlatform, RawQuery, Return,
       ServerTimeout, WatchCancel, Callback, FamilyReturns, Truncated, SendResult
  <2>2. CASE JudgeServer
    BY <2>2 DEF JudgeServer, Return, IInv, FoundInv, serverFound
  <2>3. CASE JudgeMember
    BY <2>3 DEF JudgeMember, Return, final
  <2> QED BY <2>1, <2>2, <2>3
<1> QED BY <1>1, Invariance, PTL DEF Spec, LeavesOnlyFailedServers

-----------------------------------------------------------------------------
(* Both chains implement OrderedFallback. *)

Asked == IF pc = "next" THEN cur - 1 ELSE cur
Tried == cur - 1
Clock == CASE ctx = "done" -> "over"
           [] ctx = "live" /\ budget = "spent" -> "late"
           [] OTHER -> "running"

\* A step that leaves the context, the loop and its outcome alone is none of the
\* abstract specification's; nor is one within the work on a server.
LEMMA Stutters ==
  ASSUME UNCHANGED <<ctx, budget, cur, outcome>>,
         pc' = pc \/ (pc # "next" /\ pc' # "next")
  PROVE  UNCHANGED <<Asked, Tried, Clock, outcome>>
BY DEF Asked, Tried, Clock

\* Every step of a chain is a step of the abstract specification, or none.
LEMMA StepSimulation ==
  ASSUME IInv, [Next]_vars
  PROVE  [Chained!Next]_<<Asked, Tried, Clock, outcome>>
<1> DEFINE Sim == [Chained!Next]_<<Asked, Tried, Clock, outcome>>
<1> SUFFICES Sim
  OBVIOUS
<1>a. (\/ Chained!Ask \/ Chained!GiveUp \/ Chained!Answer \/ Chained!Exhaust \/ Chained!Abort
       \/ Chained!Tick \/ UNCHANGED <<Asked, Tried, Clock, outcome>>) => Sim
  BY DEF Chained!Next
<1>0. /\ N \in Nat \ {0} /\ cur \in 1..(N + 1) /\ ctx \in {"live", "done"}
      /\ budget \in {"left", "spent"}
      /\ pc # "next" => cur <= N
  BY NAssumption DEF IInv, TypeOK, PlaceInv, Server
<1> HIDE DEF Sim
<1>1. CASE UNCHANGED vars
  <2>1. UNCHANGED <<ctx, budget, cur, outcome, pc>>
    BY <1>1 DEF vars, callVars
  <2> QED BY <1>a, <2>1, Stutters
<1>2. CASE Cancel \/ SpendBudget \/ Expire
  <2>1. UNCHANGED <<Asked, Tried, outcome>>
    BY <1>2 DEF Cancel, SpendBudget, Expire, Asked, Tried
  <2>2. Clock' \in IF Clock = "running" THEN {"late", "over"} ELSE {"over"}
    BY <1>0, <1>2 DEF Cancel, SpendBudget, Expire, Clock
  <2>3. Chained!Tick
    BY <2>1, <2>2 DEF Chained!Tick, Asked, Tried, Clock
  <2> QED BY <1>a, <2>3
<1>3. CASE LookupHosts \/ SequentialExchange
  <2>1. /\ outcome = "none" /\ pc = "next" /\ UNCHANGED <<ctx, budget, cur>>
        /\ \/ outcome' = "failed" /\ pc' = pc /\ cur > N
           \/ outcome' = "aborted" /\ pc' = pc /\ ctx # "live"
           \/ outcome' = outcome /\ pc' # "next" /\ cur <= N /\ ctx = "live"
    BY <1>3 DEF LookupHosts, SequentialExchange, mayAsk, Return
  <2>2. Clock' = Clock /\ Tried' = Tried
    BY <2>1 DEF Clock, Tried
  <2>3. CASE outcome' = "failed" /\ pc' = pc /\ cur > N
    <3>1. Tried = N /\ Asked' = Asked
      BY <1>0, <2>1, <2>3 DEF Tried, Asked
    <3>2. Chained!Exhaust
      BY <2>1, <2>2, <2>3, <3>1 DEF Chained!Exhaust, Asked, Tried, Clock
    <3> QED BY <1>a, <3>2
  <2>4. CASE outcome' = "aborted" /\ pc' = pc /\ ctx # "live"
    <3>1. Clock # "running" /\ Asked' = Asked
      BY <1>0, <2>1, <2>4 DEF Clock, Asked
    <3>2. Chained!Abort
      BY <2>1, <2>2, <2>4, <3>1 DEF Chained!Abort, Asked, Tried, Clock
    <3> QED BY <1>a, <3>2
  <2>5. CASE outcome' = outcome /\ pc' # "next" /\ cur <= N /\ ctx = "live"
    <3>1. Asked = Tried /\ Asked < N /\ Asked' = Asked + 1 /\ Clock # "over"
      BY <1>0, <2>1, <2>5 DEF Clock, Asked, Tried
    <3>2. Chained!Ask
      BY <2>1, <2>2, <2>5, <3>1 DEF Chained!Ask, Asked, Tried, Clock
    <3> QED BY <1>a, <3>2
  <2> QED BY <2>1, <2>3, <2>4, <2>5
<1>4. CASE JudgeServer \/ JudgeMember
  <2>1. /\ outcome = "none" /\ pc = "judge" /\ UNCHANGED <<ctx, budget>>
        /\ \/ outcome' = "answer" /\ pc' = pc /\ cur' = cur
           \/ outcome' = "aborted" /\ pc' = pc /\ cur' = cur /\ (ctx = "done" \/ budget = "spent")
           \/ outcome' = outcome /\ pc' = "next" /\ cur' = cur + 1
    BY <1>4 DEF JudgeServer, JudgeMember, Return, NextServer, budgetGone
  <2>2. Clock' = Clock /\ Tried < Asked /\ Asked = cur
    BY <1>0, <2>1 DEF Clock, Tried, Asked
  <2>3. CASE outcome' = "answer" /\ pc' = pc /\ cur' = cur
    <3>1. Asked' = Asked /\ Tried' = Tried
      BY <2>1, <2>3 DEF Asked, Tried
    <3>2. Chained!Answer
      BY <2>1, <2>2, <2>3, <3>1 DEF Chained!Answer, Asked, Tried, Clock
    <3> QED BY <1>a, <3>2
  <2>4. CASE outcome' = "aborted" /\ pc' = pc /\ cur' = cur /\ (ctx = "done" \/ budget = "spent")
    <3>1. Asked' = Asked /\ Tried' = Tried /\ Clock # "running"
      BY <1>0, <2>1, <2>4 DEF Asked, Tried, Clock
    <3>2. Chained!Abort
      BY <2>1, <2>2, <2>4, <3>1 DEF Chained!Abort, Asked, Tried, Clock
    <3> QED BY <1>a, <3>2
  <2>5. CASE outcome' = outcome /\ pc' = "next" /\ cur' = cur + 1
    <3>1. Asked' = Asked /\ Tried' = Asked
      BY <1>0, <2>1, <2>2, <2>5 DEF Asked, Tried
    <3>2. Chained!GiveUp
      BY <2>1, <2>2, <2>5, <3>1 DEF Chained!GiveUp, Asked, Tried, Clock
    <3> QED BY <1>a, <3>2
  <2> QED BY <2>1, <2>3, <2>4, <2>5
<1>5. CASE GraceFires \/ AwaitPlatform \/ RawQuery \/ \E f \in Family : Collect(f)
  <2>1. UNCHANGED <<ctx, budget, cur, outcome>> /\ pc # "next" /\ pc' # "next"
    BY <1>5 DEF GraceFires, AwaitPlatform, RawQuery, Collect
  <2> QED BY <1>a, <2>1, Stutters
<1>6. CASE \E s \in Server :
             \/ ServerTimeout(s) \/ WatchCancel(s)
             \/ \E r \in Reply : Callback(s, r)
             \/ \E f \in Family : FamilyReturns(s, f) \/ Truncated(s, f) \/ SendResult(s, f)
  <2>1. UNCHANGED <<ctx, budget, cur, outcome, pc>>
    BY <1>6 DEF ServerTimeout, WatchCancel, Callback, FamilyReturns, Truncated, SendResult,
       callVars
  <2> QED BY <1>a, <2>1, Stutters
<1> QED BY <1>1, <1>2, <1>3, <1>4, <1>5, <1>6 DEF Next, Chain, Ended

\* lookupHosts and SequentialTransport.Exchange implement the chain their callers rely on.
THEOREM Refinement == Spec => ImplementsOrderedFallback
<1>1. Init => Chained!Init
  BY DEF Init, Chained!Init
<1>2. IInv /\ [Next]_vars => [Chained!Next]_<<Asked, Tried, Clock, outcome>>
  BY StepSimulation
<1> QED BY <1>1, <1>2, Invariance, PTL
   DEF Spec, ImplementsOrderedFallback, Chained!Spec, Asked, Tried, Clock

=============================================================================
