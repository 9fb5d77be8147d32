---------------------------- MODULE DnsRuleWalk ----------------------------
(***************************************************************************)
(* One query through the rules of sing-box's DNS router (dns/router.go):   *)
(*                                                                         *)
(*  - mode "walk": exchangeWithRules. Rules launch queries that later      *)
(*    rules match on (evaluate), rules that race, queries sent ahead of    *)
(*    the rules they wait for (speculative);                               *)
(*  - mode "legacy": exchangeLegacy, and mode "lookup": the loop of        *)
(*    Lookup, which both ask rule after rule through matchDNS.             *)
(*                                                                         *)
(* "good" is a response that the rules matching on responses accept, "bad" *)
(* one with an rcode they do not, "err" a query that failed.               *)
(***************************************************************************)
EXTENDS Integers, Sequences, FiniteSets

CONSTANTS Rule,        \* a rule: see RuleRecord
          WalkLists,   \* the lists of rules of mode "walk"
          LegacyLists, \* the lists of rules of the other modes
          Tag          \* the tags of evaluate actions; Anon for one without

Anon == "anonymous"

RuleRecord == [act : {"route", "evaluate", "respond", "answer", "drop", "options"},
               bind : SUBSET Tag,      \* MatchResponseTags, MatchResponseAnonymous
               tag : Tag,              \* of an evaluate action
               loaded : BOOLEAN,       \* its server exists, and may answer here
               race : BOOLEAN, speculative : BOOLEAN, fallback : BOOLEAN,
               limit : BOOLEAN,        \* WithAddressLimit
               others : BOOLEAN]       \* its conditions on the query itself match

Terminal == {"route", "respond", "answer", "drop"}

\* What the option parser and validateLegacyDNSModeDisabledRules let through.
Valid(list) ==
  \A i \in DOMAIN list : LET r == list[i] IN
    /\ r.race => r.bind # {} /\ r.act \in Terminal /\ ~r.speculative
    /\ r.fallback => r.act = "route"
    /\ \A t \in r.bind : \E j \in 1..(i - 1) : list[j].act = "evaluate" /\ list[j].tag = t
    /\ r.act = "respond" =>
         /\ Cardinality(r.bind) <= 1
         /\ r.bind = {} => \E j \in 1..(i - 1) : list[j].act = "evaluate" /\ list[j].tag = Anon
    /\ r.act = "evaluate" /\ r.tag # Anon =>
         \A j \in 1..(i - 1) : ~(list[j].act = "evaluate" /\ list[j].tag = r.tag)

ASSUME RuleAssumption == Rule \subseteq RuleRecord /\ Anon \in Tag
\* A rule that matches on responses is listed even if its other conditions do not match:
\* it waits for them all the same. Any other rule that does not match is passed at once,
\* and left out.
ASSUME ListAssumption ==
  /\ \A l \in WalkLists \cup LegacyLists : \A i \in DOMAIN l : l[i].bind = {} => l[i].others
  /\ \A l \in WalkLists : l \in Seq(Rule) /\ Valid(l) /\ \A i \in DOMAIN l : ~l[i].limit
  /\ \A l \in LegacyLists : l \in Seq(Rule) /\ \A i \in DOMAIN l :
       l[i].act \in {"route", "answer", "drop", "options"} /\ l[i].bind = {}

VARIABLES mode, rules,
          ctx,        \* of the caller: "live" or "done"
          stage,      \* where the router's goroutine is
          ruleIndex,  \* state.ruleIndex; of matchDNS in the legacy modes
          options,    \* state.effectiveOptions, dnsOptions: the rules applied
          query,      \* the query of the terminal rule, a dnsPendingExchange
          outcome,    \* what is returned, and by which rule
          answer      \* what the queries of the terminal rules came to
VARIABLES future,     \* the query a rule has launched, and what it came to
          cancelled,  \* the futures whose context was cancelled
          unsent,     \* callbacks between close(done) and the wake-up
          wake,       \* a token in state.wake
          latest,     \* anonymousFuture and namedFutures: the launching rule
          settled,    \* futures in namedResponses and namedTransports
          armed,      \* state.armedRules
          sweepAt,    \* index of the sweep
          sweepFrom,  \* who sweeps: "walk" or "loop"
          suspension, \* dnsWalkSuspension
          ahead,      \* terminalFuture: its rule
          missed      \* rules judged by responses, and found not to match

walkVars == <<future, cancelled, unsent, wake, latest, settled, armed, sweepAt,
              sweepFrom, suspension, ahead, missed>>
routerVars == <<mode, rules, ctx, stage, ruleIndex, options, query, outcome, answer, walkVars>>

Last == Len(rules)
Default == Last + 1                       \* stands for the default server
Index == 1..Last
Result == {"good", "bad", "err", "rejected"}
ArmedRule == [rule : Index, waits : SUBSET Index, anonymous : 0..Last,
              options : SUBSET Index]        \* dnsArmedRule
NoQuery == [rule |-> 0, options |-> {}, fallback |-> FALSE]
NoSuspension == [kind |-> "none", on |-> 0]

RouterTypeOK ==
  /\ mode \in {"walk", "legacy", "lookup"}
  /\ rules \in Seq(Rule)
  /\ ctx \in {"live", "done"}
  /\ stage \in {"rule", "bound", "act", "sweep", "loop", "hold", "wait",
                "exchange", "ahead", "match", "done"}
  /\ ruleIndex \in 0..Default
  /\ options \subseteq Index
  /\ query \in [rule : 0..Default, options : SUBSET Index, fallback : BOOLEAN]
  /\ outcome \in [result : Result \cup {"none", "drop"}, by : 0..Default]
  /\ answer \in [1..Default -> Result \cup {"none"}]
  /\ future \in [Index -> Result \cup {"none", "running"}]
  /\ cancelled \subseteq Index
  /\ unsent \subseteq Index
  /\ wake \in BOOLEAN
  /\ latest \in [Tag -> 0..Last]
  /\ settled \subseteq Index
  /\ armed \in Seq(ArmedRule)
  /\ sweepAt \in 1..Default
  /\ sweepFrom \in {"walk", "loop"}
  /\ suspension \in [kind : {"none", "await", "drain", "pending"}, on : 0..Last]
  /\ ahead \in 0..Last
  /\ missed \subseteq Index

-----------------------------------------------------------------------------
(* Futures *)

Launched == {i \in Index : future[i] # "none"}
resolved(i) == future[i] \notin {"none", "running"}

\* Match, with the evaluated responses: the anonymous one is read from its future, a
\* named one from namedResponses.
accepted(i, anonymous) ==
  /\ rules[i].others
  /\ \A t \in rules[i].bind :
       IF t = Anon THEN anonymous # 0 /\ future[anonymous] = "good"
       ELSE latest[t] \in settled /\ future[latest[t]] = "good"

pendingOf(i) == {k \in {latest[t] : t \in rules[i].bind} : k # 0 /\ ~resolved(k)}

settleDNSFutures == settled' = settled \cup {i \in Index : resolved(i)}

cancelDNSFutures == cancelled' = cancelled \cup Launched

-----------------------------------------------------------------------------
(* The walk: walkDNSRules *)

\* Rule i is the next one; rules that match on responses begin by settling them.
Goto(i) ==
  /\ ruleIndex' = i
  /\ stage' = IF i \in Index /\ rules[i].bind # {} THEN "rule" ELSE "act"

Suspend(kind, on) ==
  /\ suspension' = [kind |-> kind, on |-> on]
  /\ stage' = "loop"

Return(result, i) ==
  /\ outcome' = [result |-> result, by |-> i]
  /\ stage' = "done"
  /\ cancelDNSFutures

queryOf(i, opts, fallback) == [rule |-> i, options |-> opts, fallback |-> fallback]

\* Mutant: nothing waits for a race rule.
mustHold_never == FALSE

\* What may not overtake a race rule that has not been judged.
mustHold == armed # <<>>

SettleAtRule ==
  /\ stage = "rule"
  /\ settleDNSFutures
  /\ stage' = "bound"
  /\ UNCHANGED <<mode, rules, ctx, ruleIndex, options, query, outcome, answer, future, cancelled,
                 unsent, wake, latest, armed, sweepAt, sweepFrom, suspension, ahead, missed>>

\* A race rule is armed, and swept at once when nothing it needs is pending.
Arm ==
  /\ stage = "bound"
  /\ rules[ruleIndex].race
  /\ LET waits == pendingOf(ruleIndex) IN
       /\ armed' = Append(armed,
            [rule |-> ruleIndex, waits |-> waits, options |-> options,
             anonymous |-> IF Anon \in rules[ruleIndex].bind THEN latest[Anon] ELSE 0])
       /\ IF waits = {}
          THEN stage' = "sweep" /\ sweepAt' = 1 /\ sweepFrom' = "walk" /\ UNCHANGED ruleIndex
          ELSE Goto(ruleIndex + 1) /\ UNCHANGED <<sweepAt, sweepFrom>>
  /\ UNCHANGED <<mode, rules, ctx, options, query, outcome, answer, future, cancelled, unsent,
                 wake, latest, settled, suspension, ahead, missed>>

\* Another rule waits for the responses it needs, then is matched with them.
Bind ==
  /\ stage = "bound"
  /\ ~rules[ruleIndex].race
  /\ \/ \E k \in pendingOf(ruleIndex) : Suspend("await", k)
        /\ UNCHANGED <<ruleIndex, missed>>
     \/ /\ pendingOf(ruleIndex) = {}
        /\ accepted(ruleIndex, latest[Anon])
        /\ stage' = "act"
        /\ UNCHANGED <<ruleIndex, suspension, missed>>
     \/ /\ pendingOf(ruleIndex) = {}
        /\ ~accepted(ruleIndex, latest[Anon])
        /\ missed' = missed \cup {ruleIndex}
        /\ Goto(ruleIndex + 1)
        /\ UNCHANGED suspension
  /\ UNCHANGED <<mode, rules, ctx, options, query, outcome, answer, future, cancelled, unsent,
                 wake, latest, settled, armed, sweepAt, sweepFrom, ahead>>

Acting(act) ==
  /\ stage = "act"
  /\ ruleIndex \in Index
  /\ rules[ruleIndex].act = act

RouteOptions ==
  /\ Acting("options")
  /\ options' = options \cup {ruleIndex}
  /\ Goto(ruleIndex + 1)
  /\ UNCHANGED <<mode, rules, ctx, query, outcome, answer, walkVars>>

launch(i) == future' = [future EXCEPT ![i] = "running"]

Evaluate ==
  /\ Acting("evaluate")
  /\ LET r == rules[ruleIndex] IN
       \/ /\ ~r.loaded
          /\ latest' = IF r.tag = Anon THEN [latest EXCEPT ![Anon] = 0] ELSE latest
          /\ Goto(ruleIndex + 1)
          /\ UNCHANGED <<future, suspension>>
       \/ /\ r.loaded
          /\ ~r.speculative /\ mustHold
          /\ Suspend("drain", 0)
          /\ UNCHANGED <<latest, future, ruleIndex>>
       \/ /\ r.loaded
          /\ r.speculative \/ ~mustHold
          /\ launch(ruleIndex)
          /\ latest' = [latest EXCEPT ![r.tag] = ruleIndex]
          /\ Goto(ruleIndex + 1)
          /\ UNCHANGED suspension
  /\ UNCHANGED <<mode, rules, ctx, options, query, outcome, answer, cancelled, unsent, wake,
                 settled, armed, sweepAt, sweepFrom, ahead, missed>>

\* The response a respond action returns; it is an error when there is none.
responseOf(i, anonymous) ==
  IF rules[i].bind \in {{}, {Anon}}
  THEN IF anonymous # 0 /\ resolved(anonymous) THEN future[anonymous] ELSE "err"
  ELSE LET k == latest[CHOOSE t \in rules[i].bind : TRUE] IN
         IF k \in settled THEN future[k] ELSE "err"

Respond ==
  /\ Acting("respond")
  /\ LET k == latest[Anon] IN
       \/ /\ mustHold
          /\ Suspend("drain", 0)
          /\ UNCHANGED <<outcome, cancelled>>
       \/ /\ ~mustHold
          /\ rules[ruleIndex].bind = {} /\ k # 0 /\ ~resolved(k)
          /\ Suspend("await", k)
          /\ UNCHANGED <<outcome, cancelled>>
       \/ /\ ~mustHold
          /\ ~(rules[ruleIndex].bind = {} /\ k # 0 /\ ~resolved(k))
          /\ Return(responseOf(ruleIndex, k), ruleIndex)
          /\ UNCHANGED suspension
  /\ UNCHANGED <<mode, rules, ctx, ruleIndex, options, query, answer, future, unsent, wake,
                 latest, settled, armed, sweepAt, sweepFrom, ahead, missed>>

Route ==
  /\ Acting("route")
  /\ LET r == rules[ruleIndex] IN
       \/ /\ ~r.loaded
          /\ Goto(ruleIndex + 1)
          /\ UNCHANGED <<future, ahead, suspension, query>>
       \/ /\ r.loaded /\ mustHold
          /\ IF r.speculative /\ ahead = 0
             THEN launch(ruleIndex) /\ ahead' = ruleIndex
             ELSE UNCHANGED <<future, ahead>>
          /\ Suspend("drain", 0)
          /\ UNCHANGED <<ruleIndex, query>>
       \/ /\ r.loaded /\ ~mustHold
          /\ IF ahead = ruleIndex
             THEN Suspend("pending", ahead) /\ query' = queryOf(ruleIndex, options, FALSE)
             ELSE Suspend("pending", 0) /\ query' = queryOf(ruleIndex, options, r.fallback)
          /\ UNCHANGED <<ruleIndex, future, ahead>>
  /\ UNCHANGED <<mode, rules, ctx, options, outcome, answer, cancelled, unsent, wake, latest,
                 settled, armed, sweepAt, sweepFrom, missed>>

\* Reject and predefined answer by themselves; reject may also drop the query.
resultOf(i) == IF rules[i].act = "drop" THEN "drop" ELSE "good"

RejectOrPredefined ==
  /\ \E act \in {"answer", "drop"} : Acting(act)
  /\ IF mustHold
     THEN Suspend("drain", 0) /\ UNCHANGED <<outcome, cancelled>>
     ELSE Return(resultOf(ruleIndex), ruleIndex) /\ UNCHANGED suspension
  /\ UNCHANGED <<mode, rules, ctx, ruleIndex, options, query, answer, future, unsent, wake,
                 latest, settled, armed, sweepAt, sweepFrom, ahead, missed>>

EndOfRules ==
  /\ stage = "act"
  /\ ruleIndex = Default
  /\ IF mustHold
     THEN Suspend("drain", 0) /\ UNCHANGED query
     ELSE Suspend("pending", 0) /\ query' = queryOf(Default, options, FALSE)
  /\ UNCHANGED <<mode, rules, ctx, ruleIndex, options, outcome, answer, future, cancelled, unsent,
                 wake, latest, settled, armed, sweepAt, sweepFrom, ahead, missed>>

-----------------------------------------------------------------------------
(* The loop: resumeExchangeWithRules, sweepArmedDNSRules, finishPendingExchange *)

Settle ==
  /\ stage = "loop"
  /\ settleDNSFutures
  /\ sweepAt' = 1
  /\ sweepFrom' = "loop"
  /\ stage' = "sweep"
  /\ UNCHANGED <<mode, rules, ctx, ruleIndex, options, query, outcome, answer, future, cancelled,
                 unsent, wake, latest, armed, suspension, ahead, missed>>

Sweeping == stage = "sweep" /\ sweepAt <= Len(armed)
Swept == armed[sweepAt]
ready(a) == \A k \in a.waits : resolved(k)
Others == SubSeq(armed, 1, sweepAt - 1) \o SubSeq(armed, sweepAt + 1, Len(armed))

\* A rule whose responses are pending stays armed.
SweepPast ==
  /\ Sweeping
  /\ ~ready(Swept)
  /\ sweepAt' = sweepAt + 1
  /\ UNCHANGED <<mode, rules, ctx, stage, ruleIndex, options, query, outcome, answer, future,
                 cancelled, unsent, wake, latest, settled, armed, sweepFrom, suspension, ahead,
                 missed>>

\* Any other is judged: it is disarmed and does not match, or routes to no server.
SweepMiss ==
  /\ Sweeping
  /\ ready(Swept)
  /\ LET i == Swept.rule IN
       /\ \/ ~accepted(i, Swept.anonymous)
          \/ rules[i].act = "route" /\ ~rules[i].loaded
       /\ missed' = IF accepted(i, Swept.anonymous) THEN missed ELSE missed \cup {i}
  /\ armed' = Others
  /\ UNCHANGED <<mode, rules, ctx, stage, ruleIndex, options, query, outcome, answer, future,
                 cancelled, unsent, wake, latest, settled, sweepAt, sweepFrom, suspension, ahead>>

\* Mutant: the options of the moment it matches.
armedOptions_now(a) == options

\* The options a race rule asks with are those that held where it is listed.
armedOptions(a) == a.options

finishPending ==
  /\ cancelDNSFutures
  /\ stage' = "exchange"

\* Or it matches, and decides the query.
SweepHit ==
  /\ Sweeping
  /\ ready(Swept)
  /\ LET i == Swept.rule IN
       /\ accepted(i, Swept.anonymous)
       /\ \/ /\ rules[i].act = "respond"
             /\ Return(responseOf(i, Swept.anonymous), i)
             /\ armed' = Others
             /\ UNCHANGED <<query, suspension>>
          \/ /\ rules[i].act \in {"answer", "drop"}
             /\ Return(resultOf(i), i)
             /\ armed' = Others
             /\ UNCHANGED <<query, suspension>>
          \/ /\ rules[i].act = "route" /\ rules[i].loaded
             /\ query' = queryOf(i, armedOptions(Swept), FALSE)
             /\ IF sweepFrom = "walk"
                THEN armed' = <<>> /\ Suspend("pending", 0) /\ UNCHANGED cancelled
                ELSE armed' = Others /\ finishPending /\ UNCHANGED suspension
             /\ UNCHANGED outcome
  /\ UNCHANGED <<mode, rules, ctx, ruleIndex, options, answer, future, unsent, wake, latest,
                 settled, sweepAt, sweepFrom, ahead, missed>>

SweepEnd ==
  /\ stage = "sweep"
  /\ sweepAt > Len(armed)
  /\ IF sweepFrom = "walk" THEN Goto(ruleIndex + 1) ELSE stage' = "hold" /\ UNCHANGED ruleIndex
  /\ UNCHANGED <<mode, rules, ctx, options, query, outcome, answer, walkVars>>

\* What the suspension asks for: the last query, a wait, or to go on walking.
Hold ==
  /\ stage = "hold"
  /\ LET s == suspension
         waits == \/ s.kind = "await" /\ ~resolved(s.on)
                  \/ s.kind = "drain" /\ mustHold
     IN \/ /\ s.kind = "pending" /\ s.on = 0
           /\ finishPending
           /\ UNCHANGED ruleIndex
        \/ /\ s.kind = "pending" /\ s.on # 0
           /\ cancelled' = cancelled \cup (Launched \ {s.on})
           /\ stage' = "ahead"
           /\ UNCHANGED ruleIndex
        \/ waits /\ stage' = "wait" /\ UNCHANGED <<ruleIndex, cancelled>>
        \/ s.kind # "pending" /\ ~waits /\ Goto(ruleIndex) /\ UNCHANGED cancelled
  /\ UNCHANGED <<mode, rules, ctx, options, query, outcome, answer, future, unsent, wake, latest,
                 settled, armed, sweepAt, sweepFrom, suspension, ahead, missed>>

Wake ==
  /\ stage = "wait"
  /\ wake
  /\ wake' = FALSE
  /\ stage' = "loop"
  /\ UNCHANGED <<mode, rules, ctx, ruleIndex, options, query, outcome, answer, future, cancelled,
                 unsent, latest, settled, armed, sweepAt, sweepFrom, suspension, ahead, missed>>

\* The waits end with the context of the caller as well.
Abandon ==
  /\ stage \in {"wait", "ahead"}
  /\ ctx = "done"
  /\ Return("err", 0)
  /\ UNCHANGED <<mode, rules, ctx, ruleIndex, options, query, answer, future, unsent, wake,
                 latest, settled, armed, sweepAt, sweepFrom, suspension, ahead, missed>>

\* The query sent ahead has its response.
TakeAhead ==
  /\ stage = "ahead"
  /\ resolved(ahead)
  /\ Return(future[ahead], ahead)
  /\ answer' = [answer EXCEPT ![ahead] = future[ahead]]
  /\ UNCHANGED <<mode, rules, ctx, ruleIndex, options, query, future, unsent, wake, latest,
                 settled, armed, sweepAt, sweepFrom, suspension, ahead, missed>>

failed(r) == r \in {"bad", "err", "rejected"}

\* state.ruleIndex++ after a failure; the next rule of matchDNS.
nextAfter(i) == i + 1

\* The last query ends. A failure of a rule with fallback goes on at the next rule.
FinishExchange ==
  /\ mode = "walk"
  /\ stage = "exchange"
  /\ \E r \in IF ctx = "done" THEN {"err"} ELSE {"good", "bad", "err"} :
       /\ answer' = [answer EXCEPT ![query.rule] = r]
       /\ IF query.fallback /\ ctx = "live" /\ failed(r)
          THEN /\ ruleIndex' = nextAfter(ruleIndex)
               /\ suspension' = NoSuspension
               /\ stage' = "loop"
               /\ UNCHANGED <<outcome, cancelled>>
          ELSE Return(r, query.rule) /\ UNCHANGED <<ruleIndex, suspension>>
  /\ UNCHANGED <<mode, rules, ctx, options, query, future, unsent, wake, latest, settled, armed,
                 sweepAt, sweepFrom, ahead, missed>>

-----------------------------------------------------------------------------
(* The other side of a future, and the caller *)

\* The callback of ExchangeAsync stores what came and closes done, ...
Resolve(i) ==
  /\ future[i] = "running"
  /\ \E r \in {"good", "bad", "err"} : future' = [future EXCEPT ![i] = r]
  /\ unsent' = unsent \cup {i}
  /\ UNCHANGED <<mode, rules, ctx, stage, ruleIndex, options, query, outcome, answer, cancelled,
                 wake, latest, settled, armed, sweepAt, sweepFrom, suspension, ahead, missed>>

\* Mutant: the channel has no room, so a wake-up nobody waits for is lost.
wakeUp_unbuffered == wake' = (wake \/ stage = "wait")

\* The channel keeps one token.
wakeUp == wake' = TRUE

\* ... then sends a wake-up, unless one is waiting to be taken.
SendWake(i) ==
  /\ i \in unsent
  /\ unsent' = unsent \ {i}
  /\ wakeUp
  /\ UNCHANGED <<mode, rules, ctx, stage, ruleIndex, options, query, outcome, answer, future,
                 cancelled, latest, settled, armed, sweepAt, sweepFrom, suspension, ahead, missed>>

Cancel ==
  /\ ctx = "live"
  /\ outcome.result = "none"
  /\ ctx' = "done"
  /\ UNCHANGED <<mode, rules, stage, ruleIndex, options, query, outcome, answer, walkVars>>

-----------------------------------------------------------------------------
(* The legacy modes: matchDNS, exchangeLegacy, Lookup *)

matches(i) == \/ rules[i].act = "route" /\ rules[i].loaded
              \/ rules[i].act \in {"answer", "drop"}

\* Mutant: the default server counts as a rule with fallback.
isDNSFallbackRule_default(i) == i = Default \/ rules[i].fallback

isDNSFallbackRule(i) == i # Default /\ rules[i].act = "route" /\ rules[i].fallback

limited(i) == i # Default /\ rules[i].limit

MatchDNS ==
  /\ stage = "match"
  /\ \E i \in nextAfter(ruleIndex)..Default :
       /\ i # Default => matches(i)
       /\ \A j \in nextAfter(ruleIndex)..(i - 1) : ~matches(j)
       /\ options' = {j \in nextAfter(ruleIndex)..(i - 1) : rules[j].act = "options"}
       /\ ruleIndex' = IF i = Default THEN 0 ELSE i
       /\ query' = queryOf(i, options', FALSE)
       /\ IF i # Default /\ rules[i].act # "route"
          THEN outcome' = [result |-> resultOf(i), by |-> i] /\ stage' = "done"
          ELSE stage' = "exchange" /\ UNCHANGED outcome
  /\ UNCHANGED <<mode, rules, ctx, answer, walkVars>>

\* Mutant: a response with an rcode is not taken for a failure.
goesOn_byError(i, r) == (limited(i) /\ r = "rejected")
                        \/ (isDNSFallbackRule(i) /\ ctx = "live" /\ r \in {"err", "rejected"})

\* Whether the loop goes on to the next rule after this result. exchangeLegacy does
\* for a response the address limit rejects, Lookup for any error of such a rule.
goesOn(i, r) ==
  \/ limited(i) /\ (IF mode = "legacy" THEN r = "rejected" ELSE r \in {"err", "rejected"})
  \/ isDNSFallbackRule(i) /\ ctx = "live" /\ failed(r)

\* client.Exchange, or client.Lookup, which turns an rcode into an error.
results(i) ==
  IF ctx = "done" THEN {"err"}
  ELSE {"good", "err"} \cup (IF mode = "legacy" THEN {"bad"} ELSE {})
                       \cup (IF limited(i) THEN {"rejected"} ELSE {})

FinishLegacy ==
  /\ mode # "walk"
  /\ stage = "exchange"
  /\ \E r \in results(query.rule) :
       /\ answer' = [answer EXCEPT ![query.rule] = r]
       /\ IF goesOn(query.rule, r)
          THEN stage' = "match" /\ UNCHANGED outcome
          ELSE outcome' = [result |-> r, by |-> query.rule] /\ stage' = "done"
  /\ UNCHANGED <<mode, rules, ctx, ruleIndex, options, query, walkVars>>

-----------------------------------------------------------------------------

RouterInit ==
  /\ mode \in {"walk", "legacy", "lookup"}
  /\ rules \in IF mode = "walk" THEN WalkLists ELSE LegacyLists
  /\ ctx = "live"
  /\ ruleIndex = IF mode = "walk" THEN 1 ELSE 0
  /\ stage = IF mode = "walk" THEN "act" ELSE "match"
  /\ options = {}
  /\ query = NoQuery
  /\ outcome = [result |-> "none", by |-> 0]
  /\ answer = [i \in 1..Default |-> "none"]
  /\ future = [i \in Index |-> "none"]
  /\ cancelled = {} /\ unsent = {} /\ wake = FALSE
  /\ latest = [t \in Tag |-> 0]
  /\ settled = {}
  /\ armed = <<>> /\ sweepAt = 1 /\ sweepFrom = "loop"
  /\ suspension = NoSuspension
  /\ ahead = 0
  /\ missed = {}

Step ==
  \/ SettleAtRule \/ Arm \/ Bind \/ RouteOptions \/ Evaluate \/ Respond \/ Route
  \/ RejectOrPredefined \/ EndOfRules \/ Settle \/ SweepPast \/ SweepMiss \/ SweepHit
  \/ SweepEnd \/ Hold \/ Wake \/ Abandon \/ TakeAhead \/ FinishExchange \/ MatchDNS
  \/ FinishLegacy

\* What comes after the query is decided is read by nobody.
Deliver == stage # "done" /\ \E i \in Index : Resolve(i) \/ SendWake(i)

RouterNext == Step \/ Deliver \/ Cancel

\* The goroutine runs; a query ends, by its transport's answer or the timeout of the
\* DNS client; the callback that has closed done goes on. Nobody has to cancel.
RouterFairness == WF_routerVars(Step) /\ WF_routerVars(Deliver)

RouterSpec == RouterInit /\ [][RouterNext]_routerVars /\ RouterFairness

-----------------------------------------------------------------------------
(* Properties *)

Done == outcome.result # "none"

\* Rules take effect in listed order. The rule that decides a query comes after no other
\* terminal rule, but those that did not match, route to no server, or were asked, failed
\* and may be passed over; and a rule with fallback is not the final word on a failure
\* (resumeExchangeWithRules, exchangeLegacy, Lookup), unless the caller is gone or the
\* rule was asked ahead of a race rule. Race rules may decide out of order.
ListedOrder ==
  Done /\ outcome.by # 0 /\ (outcome.by = Default \/ ~rules[outcome.by].race) =>
    /\ \A i \in 1..(outcome.by - 1) :
         /\ rules[i].act \in Terminal
         /\ ~rules[i].race
         => \/ i \in missed
            \/ rules[i].act = "route" /\ ~rules[i].loaded
            \/ failed(answer[i]) /\ (rules[i].fallback \/ rules[i].limit)
    /\ outcome.by # Default /\ rules[outcome.by].fallback /\ failed(outcome.result)
         => ctx = "done" \/ ahead = outcome.by

\* While a race rule is not judged, nothing listed after it is asked or decides, but what
\* is speculative: walkDNSRules holds evaluate, respond, route, reject and predefined.
\* The query of a rule that is asked or has decided is the one under `asked`.
RaceHeld ==
  LET asked == {k \in Index : future[k] # "none" /\ ~rules[k].speculative}
               \cup (IF stage = "exchange" THEN {query.rule} ELSE {})
               \cup (IF Done THEN {outcome.by} \ {0} ELSE {})
  IN mode = "walk" =>
       \A k \in asked, a \in DOMAIN armed :
         armed[a].rule < k => k # Default /\ rules[k].race

\* A query is asked with the options of the rules listed before its rule, also when its
\* rule was armed and other options applied before it matched (dnsArmedRule.options).
OptionsInOrder ==
  mode = "walk" /\ stage = "exchange" =>
    query.options = {j \in 1..(query.rule - 1) :
                       rules[j].act = "options" /\ j \notin missed}

\* The wait of the loop is not missed: when what it waits for has come, or an armed rule
\* could be judged, a wake-up is in the channel or about to be sent.
NoLostWakeup ==
  stage = "wait" =>
    \/ wake
    \/ unsent # {}
    \/ /\ suspension.kind = "await" => ~resolved(suspension.on)
       /\ \A a \in DOMAIN armed : ~ready(armed[a])

\* A rule that matches on responses, and whose other conditions match, misses only when
\* they do not match: none of the responses it needs was still to come, and not all of
\* them were accepted.
JudgedByItsResponses ==
  \A i \in missed : rules[i].others =>
    ~ \A t \in rules[i].bind :
        \E k \in 1..(i - 1) : /\ rules[k].act = "evaluate" /\ rules[k].tag = t
                              /\ future[k] = "good"

\* Every query is decided, whatever its rules and their servers do.
QueryTerminates == <>Done
=============================================================================
