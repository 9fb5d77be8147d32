----------------------------- MODULE Resolvers -----------------------------
(***************************************************************************)
(* The two chains of DNS servers of libcore, and what runs below them:     *)
(*                                                                         *)
(*  - lookup.go: StartLookupHosts asks the nameservers of a group, both    *)
(*    address families of one server at a time in parallel;                *)
(*  - dns_sequential.go: the neko-sequential transport asks its members,   *)
(*    here platform transports (dns_box.go, dns_android.go), which answer  *)
(*    through callbacks of the Android resolver or a native descriptor.    *)
(*                                                                         *)
(* One call of one of the two is followed from its start until everything  *)
(* it started has ended.                                                   *)
(***************************************************************************)
EXTENDS Naturals, FiniteSets

CONSTANTS N,            \* servers of the chain
          MaxCallbacks  \* bound: callbacks the platform makes for one exchange

ASSUME NAssumption == N \in Nat \ {0}
ASSUME MaxCallbacksAssumption == MaxCallbacks \in Nat

Server == 1..N
Family == {"A", "AAAA"}
Kind == {"lookup", "sequential"}
Reply == {"ok", "rcode", "err"}              \* NOERROR, another rcode, an error
Found == {"addresses", "empty", "error"}     \* familyResult

VARIABLES kind,      \* which chain was called
          ctx,       \* its context: "live" or "done"
          budget,    \* its deadline: "left" or "spent", the timer fires later
          cur,       \* the server of the loop
          pc,        \* "next", "collect", "judge", "await"
          outcome    \* what the call returned
VARIABLES scope,     \* serverCtx of lookupHost
          ask,       \* its goroutines
          found,     \* what each of them found
          grace      \* graceTimer: "unset", "running", "fired"
VARIABLES via,       \* how a member was asked: "native" or "callback"
          settled,   \* ExchangeContext: its fields, "no" until doneChan is closed
          callbacks, \* callbacks the platform has made
          watcher,   \* the goroutine of OnCancel
          fd,        \* the descriptor of android_res_nsend
          closes,    \* how often it has been closed
          reply      \* what the member's Exchange returned

callVars == <<kind, ctx, budget, cur, pc, outcome>>
lookupVars == <<scope, ask, found, grace>>
memberVars == <<via, settled, callbacks, watcher, fd, closes, reply>>
vars == <<callVars, lookupVars, memberVars>>

TypeOK ==
  /\ kind \in Kind
  /\ ctx \in {"live", "done"}
  /\ budget \in {"left", "spent"}
  /\ cur \in 1..(N + 1)
  /\ pc \in {"next", "collect", "judge", "await"}
  /\ outcome \in {"none", "answer", "failed", "aborted"}
  /\ scope \in [Server -> {"none", "live", "done"}]
  /\ ask \in [Server -> [Family -> {"none", "asking", "retry", "sending", "sent", "collected"}]]
  /\ found \in [Server -> [Family -> Found \cup {"none"}]]
  /\ grace \in {"unset", "running", "fired"}
  /\ via \in [Server -> {"none", "native", "callback"}]
  /\ settled \in [Server -> Reply \cup {"no"}]
  /\ callbacks \in [Server -> 0..MaxCallbacks]
  /\ watcher \in [Server -> {"none", "waiting", "invoked", "gone"}]
  /\ fd \in [Server -> {"none", "open", "closed"}]
  /\ closes \in [Server -> 0..2]
  /\ reply \in Reply \cup {"none"}

Init ==
  /\ kind \in Kind
  /\ ctx = "live"
  /\ budget = "left"
  /\ cur = 1
  /\ pc = "next"
  /\ outcome = "none"
  /\ scope = [s \in Server |-> "none"]
  /\ ask = [s \in Server |-> [f \in Family |-> "none"]]
  /\ found = [s \in Server |-> [f \in Family |-> "none"]]
  /\ grace = "unset"
  /\ via = [s \in Server |-> "none"]
  /\ settled = [s \in Server |-> "no"]
  /\ callbacks = [s \in Server |-> 0]
  /\ watcher = [s \in Server |-> "none"]
  /\ fd = [s \in Server |-> "none"]
  /\ closes = [s \in Server |-> 0]
  /\ reply = "none"

-----------------------------------------------------------------------------
(* The context of the call *)

\* LookupTask.Cancel, or the DNS client giving up; and, once the call has returned,
\* the deferred cancel of whoever made the context.
Cancel ==
  /\ ctx = "live"
  /\ ctx' = "done"
  /\ UNCHANGED <<kind, budget, cur, pc, outcome, lookupVars, memberVars>>

\* The deadline passes; the context's own timer fires some time after it.
SpendBudget ==
  /\ budget = "left"
  /\ budget' = "spent"
  /\ UNCHANGED <<kind, ctx, cur, pc, outcome, lookupVars, memberVars>>

Expire ==
  /\ budget = "spent"
  /\ ctx = "live"
  /\ ctx' = "done"
  /\ UNCHANGED <<kind, budget, cur, pc, outcome, lookupVars, memberVars>>

Return(o) ==
  /\ outcome' = o
  /\ UNCHANGED <<cur, pc>>

NextServer ==
  /\ cur' = cur + 1
  /\ pc' = "next"
  /\ UNCHANGED outcome

-----------------------------------------------------------------------------
(* lookup.go *)

\* Mutant: the loop asks the next server whatever the context says.
mayAsk_always == TRUE

mayAsk == ctx = "live"

\* lookupHosts, top of the loop and after it, and the start of lookupHost.
LookupHosts ==
  /\ kind = "lookup"
  /\ outcome = "none"
  /\ pc = "next"
  /\ \/ /\ ~mayAsk
        /\ Return("aborted")
        /\ UNCHANGED <<scope, ask, grace>>
     \/ /\ mayAsk
        /\ cur > N
        /\ Return("failed")
        /\ UNCHANGED <<scope, ask, grace>>
     \/ /\ mayAsk
        /\ cur <= N
        /\ pc' = "collect"
        /\ scope' = [scope EXCEPT ![cur] = "live"]
        /\ ask' = [ask EXCEPT ![cur] = [f \in Family |-> "asking"]]
        /\ grace' = "unset"
        /\ UNCHANGED <<cur, outcome>>
  /\ UNCHANGED <<kind, ctx, budget, found, memberVars>>

\* serverCtx: a child of ctx with perServerTimeout.
scopeDone(s) == scope[s] = "done" \/ ctx = "done"

ServerTimeout(s) ==
  /\ scope[s] = "live"
  /\ scope' = [scope EXCEPT ![s] = "done"]
  /\ UNCHANGED <<callVars, ask, found, grace, memberVars>>

\* lookupHostType returns: what the server said, or an error, at the latest once
\* serverCtx is done, when exchangeCancellable closes the connection.
FamilyReturns(s, f) ==
  /\ ask[s][f] \in {"asking", "retry"}
  /\ ask' = [ask EXCEPT ![s][f] = "sending"]
  /\ \E r \in Found : found' = [found EXCEPT ![s][f] = r]
  /\ UNCHANGED <<callVars, scope, grace, memberVars>>

\* A truncated UDP answer is asked for again over TCP.
Truncated(s, f) ==
  /\ ask[s][f] = "asking"
  /\ ~scopeDone(s)
  /\ ask' = [ask EXCEPT ![s][f] = "retry"]
  /\ UNCHANGED <<callVars, scope, found, grace, memberVars>>

\* Mutant: results is an unbuffered channel.
roomFor_unbuffered(s) == pc = "collect" /\ cur = s

\* results has room for both families.
roomFor(s) == Cardinality({f \in Family : ask[s][f] = "sent"}) < Cardinality(Family)

SendResult(s, f) ==
  /\ ask[s][f] = "sending"
  /\ roomFor(s)
  /\ ask' = [ask EXCEPT ![s][f] = "sent"]
  /\ UNCHANGED <<callVars, scope, found, grace, memberVars>>

pending == {f \in Family : ask[cur][f] # "collected"}

\* Mutant: any result starts the wait for the other family.
startsGrace_any(f) == grace = "unset" /\ pending # {f}

startsGrace(f) == found[cur][f] = "addresses" /\ grace = "unset" /\ pending # {f}

\* lookupHost, collect: a result.
Collect(f) ==
  /\ outcome = "none"
  /\ pc = "collect"
  /\ ask[cur][f] = "sent"
  /\ ask' = [ask EXCEPT ![cur][f] = "collected"]
  /\ grace' = IF startsGrace(f) THEN "running" ELSE grace
  /\ pc' = IF pending = {f} THEN "judge" ELSE "collect"
  /\ UNCHANGED <<kind, ctx, budget, cur, outcome, scope, found, memberVars>>

\* lookupHost, collect: the grace timer.
GraceFires ==
  /\ outcome = "none"
  /\ pc = "collect"
  /\ grace = "running"
  /\ grace' = "fired"
  /\ pc' = "judge"
  /\ scope' = [scope EXCEPT ![cur] = "done"]
  /\ UNCHANGED <<kind, ctx, budget, cur, outcome, ask, found, memberVars>>

serverFound ==
  \E f \in Family : ask[cur][f] = "collected" /\ found[cur][f] = "addresses"

budgetGone == ctx = "done" \/ budget = "spent"

\* lookupHost returns, and lookupHosts decides whether to go on.
JudgeServer ==
  /\ outcome = "none"
  /\ pc = "judge"
  /\ kind = "lookup"
  /\ scope' = [scope EXCEPT ![cur] = "done"]
  /\ \/ serverFound /\ Return("answer")
     \/ ~serverFound /\ budgetGone /\ Return("aborted")
     \/ ~serverFound /\ ~budgetGone /\ NextServer
  /\ UNCHANGED <<kind, ctx, budget, ask, found, grace, memberVars>>

-----------------------------------------------------------------------------
(* dns_sequential.go and the platform transport below it *)

\* SequentialTransport.Exchange, the loop: the context is looked at before a member
\* is asked and not after the last one.  The call of the platform (awaitPlatform) may
\* fail at once; then it settles the exchange itself.  android_res_nsend may fail too.
SequentialExchange ==
  /\ kind = "sequential"
  /\ outcome = "none"
  /\ pc = "next"
  /\ \/ /\ cur > N
        /\ Return("failed")
        /\ UNCHANGED <<via, settled, watcher, fd, reply>>
     \/ /\ cur <= N
        /\ ~mayAsk
        /\ Return("aborted")
        /\ UNCHANGED <<via, settled, watcher, fd, reply>>
     \/ /\ cur <= N
        /\ mayAsk
        /\ via' = [via EXCEPT ![cur] = "callback"]
        /\ watcher' \in {watcher, [watcher EXCEPT ![cur] = "waiting"]}
        /\ \/ pc' = "await" /\ UNCHANGED <<settled, reply>>
           \/ /\ pc' = "judge"
              /\ settled' = [settled EXCEPT ![cur] = "err"]
              /\ reply' = "err"
        /\ UNCHANGED <<cur, outcome, fd>>
     \/ /\ cur <= N
        /\ mayAsk
        /\ via' = [via EXCEPT ![cur] = "native"]
        /\ \/ pc' = "await" /\ fd' = [fd EXCEPT ![cur] = "open"] /\ UNCHANGED reply
           \/ pc' = "judge" /\ reply' = "err" /\ UNCHANGED fd
        /\ UNCHANGED <<cur, outcome, settled, watcher>>
  /\ UNCHANGED <<kind, ctx, budget, lookupVars, callbacks, closes>>

\* Mutant: every callback writes the fields.
settle_again(s, r) == [settled EXCEPT ![s] = r]

\* settleWith: the first callback only.
settle(s, r) == IF settled[s] = "no" THEN [settled EXCEPT ![s] = r] ELSE settled

\* Success, RawSuccess, ErrorCode, ErrnoCode: when the platform likes, after the
\* context is done too, and possibly once more from its own error path.
Callback(s, r) ==
  /\ via[s] = "callback"
  /\ callbacks[s] < MaxCallbacks
  /\ callbacks' = [callbacks EXCEPT ![s] = @ + 1]
  /\ settled' = settle(s, r)
  /\ UNCHANGED <<callVars, lookupVars, via, watcher, fd, closes, reply>>

\* awaitPlatform: the reply or the context, whichever the select takes.
AwaitPlatform ==
  /\ outcome = "none"
  /\ pc = "await"
  /\ via[cur] = "callback"
  /\ \/ settled[cur] # "no" /\ reply' = settled[cur]
     \/ ctx = "done" /\ reply' = "err"
  /\ pc' = "judge"
  /\ UNCHANGED <<kind, ctx, budget, cur, outcome, lookupVars, via, settled, callbacks,
                 watcher, fd, closes>>

\* OnCancel: the goroutine that passes the cancellation on, and ends with the exchange.
WatchCancel(s) ==
  /\ watcher[s] = "waiting"
  /\ \/ ctx = "done" /\ watcher' = [watcher EXCEPT ![s] = "invoked"]
     \/ settled[s] # "no" /\ watcher' = [watcher EXCEPT ![s] = "gone"]
  /\ UNCHANGED <<callVars, lookupVars, via, settled, callbacks, fd, closes, reply>>

\* Mutant: the deferred release runs whether or not the query was settled.
deferredCancel_always(done) == 1

\* rawQueryFunc: android_res_cancel, unless android_res_nresult has closed it.
deferredCancel(done) == IF done THEN 0 ELSE 1

closed(s, n) ==
  /\ fd' = [fd EXCEPT ![s] = "closed"]
  /\ closes' = [closes EXCEPT ![s] = @ + n]

\* rawQueryFunc: the poll ends with an answer, or without one (the context, its five
\* seconds, an error of poll).
RawQuery ==
  /\ outcome = "none"
  /\ pc = "await"
  /\ via[cur] = "native"
  /\ pc' = "judge"
  /\ \/ closed(cur, 1 + deferredCancel(TRUE)) /\ reply' \in Reply
     \/ closed(cur, deferredCancel(FALSE)) /\ reply' = "err"
  /\ UNCHANGED <<kind, ctx, budget, cur, outcome, lookupVars, via, settled, callbacks,
                 watcher>>

\* A NOERROR answer is final, even an empty one.
final(r) == r = "ok"

JudgeMember ==
  /\ outcome = "none"
  /\ pc = "judge"
  /\ kind = "sequential"
  /\ \/ final(reply) /\ Return("answer")
     \/ ~final(reply) /\ NextServer
  /\ UNCHANGED <<kind, ctx, budget, lookupVars, memberVars>>

-----------------------------------------------------------------------------
Ended == outcome # "none" /\ ctx = "done" /\ UNCHANGED vars

Chain == LookupHosts \/ GraceFires \/ JudgeServer \/ (\E f \in Family : Collect(f))
         \/ SequentialExchange \/ AwaitPlatform \/ RawQuery \/ JudgeMember

Next ==
  \/ Cancel \/ SpendBudget \/ Expire \/ Chain \/ Ended
  \/ \E s \in Server :
       \/ ServerTimeout(s) \/ WatchCancel(s)
       \/ \E r \in Reply : Callback(s, r)
       \/ \E f \in Family : FamilyReturns(s, f) \/ Truncated(s, f) \/ SendResult(s, f)

\* Timers fire, whoever made the context cancels it after the call, and the Go
\* scheduler runs every goroutine that can go on.  A server or the platform need not
\* answer, and nobody has to cancel a call that runs.
Fairness ==
  /\ WF_vars(SpendBudget) /\ WF_vars(Expire) /\ WF_vars(Cancel /\ outcome # "none")
  /\ WF_vars(Chain)
  /\ \A s \in Server :
       /\ WF_vars(ServerTimeout(s))
       /\ WF_vars(WatchCancel(s))
       /\ \A f \in Family :
            /\ WF_vars(scopeDone(s) /\ FamilyReturns(s, f))
            /\ WF_vars(SendResult(s, f))

Spec == Init /\ [][Next]_vars /\ Fairness

-----------------------------------------------------------------------------
(* Properties *)

Chained == INSTANCE OrderedFallback
             WITH asked <- IF pc = "next" THEN cur - 1 ELSE cur,
                  tried <- cur - 1,
                  clock <- CASE ctx = "done" -> "over"
                             [] ctx = "live" /\ budget = "spent" -> "late"
                             [] OTHER -> "running",
                  outcome <- outcome

\* Both chains are an OrderedFallback: one server at a time in order, nobody asked
\* after the caller has cancelled, the failure of one server (its own timeout of five
\* seconds included) never taken for the end of the budget, and failure reported only
\* when all have been asked.
ImplementsOrderedFallback == Chained!Spec

\* The loop leaves a server behind only when it has failed for good: lookupHosts
\* when both families have reported and neither brought an address, the sequential
\* transport when the member's reply was not a NOERROR answer.
LeavesOnlyFailedServers ==
  [][cur' # cur =>
       IF kind = "lookup"
         THEN \A f \in Family : ask[cur][f] = "collected" /\ found[cur][f] # "addresses"
         ELSE reply # "ok"]_vars

\* What is returned as an answer is the answer the server gave: a later callback
\* of the platform does not change what awaitPlatform has handed out, an rcode is no
\* answer, and a family counts only with what its goroutine found.
AnswerIsTheReply ==
  outcome = "answer" =>
    \/ kind = "lookup" /\ serverFound
    \/ kind = "sequential" /\ via[cur] = "callback" /\ settled[cur] = "ok"
    \/ kind = "sequential" /\ via[cur] = "native" /\ reply = "ok"

\* The descriptor of a native query is closed exactly once, by android_res_nresult or
\* by android_res_cancel, whichever way the query ends.
FdClosedOnce ==
  \A s \in Server : closes[s] = (IF fd[s] = "closed" THEN 1 ELSE 0)

\* The call has returned and nothing it started is left behind: no goroutine blocked on
\* sending a result nobody reads, no waiting cancellation watcher, no open descriptor.
Quiet ==
  /\ outcome # "none"
  /\ \A s \in Server :
       /\ \A f \in Family : ask[s][f] \notin {"asking", "retry", "sending"}
       /\ watcher[s] # "waiting"
       /\ fd[s] # "open"

\* Every call returns, whatever servers and platform do, and all it started ends
\* (lookupHost's goroutines, OnCancel's, rawQueryFunc's descriptor).
EverythingSettles == <>Quiet
=============================================================================
