----------------------------- MODULE CoreStartup -----------------------------
(***************************************************************************)
(* How a sing-box Box starts and closes: box.go drives its components      *)
(* through the stages of adapter.StartStage, adapter.Scope remembers what   *)
(* has to be undone, and the outbound and DNS transport managers start      *)
(* their members in the order their dependencies allow.                     *)
(*                                                                          *)
(* BoxInstance.access keeps Box.Start and Box.Close apart (BoxLifecycle),   *)
(* so one sequence of steps is all there is; every step may fail.           *)
(***************************************************************************)
EXTENDS Naturals, Sequences

CONSTANTS Member,   \* the outbounds and endpoints, or the DNS servers, of the config
          Missing   \* a tag the config names as a dependency and does not define

ASSUME MissingAssumption == Missing \notin Member

\* The steps of Box.preStart and Box.start in the order of the code.
stage(s, comps) == [k \in DOMAIN comps |-> [stage |-> s, comp |-> comps[k]]]

Plan ==
     stage("start", <<"logger", "debug">>)
  \o stage("initialize", <<"internal", "http-client", "network", "dns-transport",
                           "dns-router", "connection", "router", "outbound", "endpoint",
                           "certificate-provider", "inbound", "service">>)
  \o stage("start", <<"outbound", "dns-transport", "network", "connection", "http-client",
                      "router", "dns-router", "internal", "ntp", "endpoint",
                      "certificate-provider", "inbound", "service">>)
  \o stage("post-start", <<"outbound", "network", "dns-transport", "dns-router",
                           "connection", "router", "endpoint", "certificate-provider",
                           "inbound", "service", "internal">>)
  \o stage("started", <<"network", "dns-transport", "dns-router", "connection", "router",
                        "outbound", "endpoint", "certificate-provider", "inbound",
                        "service", "internal">>)

Component == {Plan[k].comp : k \in DOMAIN Plan}

\* Started directly and added to Box.scope once they run; the rest go through
\* Scope.Start.
Plain == {"logger", "debug", "ntp"}

\* Components that start their members by dependency, in the stage "start".
Manager == {"outbound", "dns-transport"}

VARIABLES phase,     \* of the Box
          step,      \* the next entry of Plan
          cleanups,  \* Box.scope.cleanups: the components with a scope of their own
          cancelled, \* Box.scope.ctx
          held,      \* the components whose own scope has cleanups left to run
          deps,      \* Dependencies() of the members of the manager being started
          started,   \* startOutbounds / startTransports: the map of that name
          ready,     \* members the current pass of its loop has yet to look at
          canContinue,
          oTree,     \* lintOutbound / lintTransport: the tags on the path so far
          oCurrent,  \* and the last of them
          verdict    \* how the manager's loop ended

boxVars == <<phase, step, cleanups, cancelled, held>>
managerVars == <<deps, started, ready, canContinue, oTree, oCurrent, verdict>>
vars == <<boxVars, managerVars>>

Phase == {"new", "starting", "members", "lint", "failed", "running", "closing", "closed"}
Verdict == {"none", "ok", "circular", "missing", "failed"}

TypeOK ==
  /\ phase \in Phase
  /\ step \in 1..(Len(Plan) + 1)
  /\ cleanups \in Seq(Component)
  /\ cancelled \in BOOLEAN
  /\ held \in SUBSET Component
  /\ deps \in [Member -> SUBSET (Member \cup {Missing})]
  /\ started \in SUBSET Member
  /\ ready \in SUBSET Member
  /\ canContinue \in BOOLEAN
  /\ oTree \in SUBSET Member
  /\ oCurrent \in Member \cup {Missing}
  /\ verdict \in Verdict

noDeps == [m \in Member |-> {}]

Init ==
  /\ phase = "new"
  /\ step = 1
  /\ cleanups = << >>
  /\ cancelled = FALSE
  /\ held = {}
  /\ deps = noDeps
  /\ started = {}
  /\ ready = {}
  /\ canContinue = FALSE
  /\ oTree = {}
  /\ oCurrent = Missing
  /\ verdict = "none"

-----------------------------------------------------------------------------
(* adapter.Scope *)

registered == {cleanups[k] : k \in DOMAIN cleanups}

\* Mutant: the scope of a component is remembered once its Start has returned.
register_late(c, ok) ==
  IF c \in registered \/ ~ok THEN cleanups ELSE Append(cleanups, c)

\* Scope.Start adds the closing of the component's scope when it first sees the
\* component, and before it calls it.
register(c, ok) ==
  IF c \in registered \/ (c \in Plain /\ ~ok) THEN cleanups ELSE Append(cleanups, c)

\* Mutant: the cleanups run in the order they were added.
nextCleanup_first == 1

\* Scope.Close walks them backwards.
nextCleanup == Len(cleanups)

-----------------------------------------------------------------------------
(* Box.Start *)

BoxStart ==
  /\ phase = "new"
  /\ phase' = "starting"
  /\ UNCHANGED <<step, cleanups, cancelled, held, managerVars>>

advance ==
  /\ step' = step + 1
  /\ phase' = IF step = Len(Plan) THEN "running" ELSE "starting"

byDependency(e) == e.comp \in Manager /\ e.stage = "start"

\* What startOutbounds and startTransports keep is gone once they have returned.
Forget ==
  /\ deps' = noDeps /\ started' = {} /\ ready' = {} /\ canContinue' = FALSE
  /\ oTree' = {} /\ oCurrent' = Missing /\ verdict' = "none"

\* One component, one stage: it adds to its scope, or fails before or after it did.
\* A Plain one fails with nothing to undo, and ntp and debug may not be configured.
StartComponent ==
  /\ phase = "starting"
  /\ ~byDependency(Plan[step])
  /\ LET c == Plan[step].comp IN
       \/ /\ cleanups' = register(c, TRUE)
          /\ held' = held \cup {c}
          /\ advance
       \/ /\ c \in {"debug", "ntp"}
          /\ advance
          /\ UNCHANGED <<cleanups, held>>
       \/ /\ cleanups' = register(c, FALSE)
          /\ held' \in {held} \cup (IF c \in Plain THEN {} ELSE {held \cup {c}})
          /\ phase' = "failed"
          /\ UNCHANGED step
  /\ Forget
  /\ UNCHANGED cancelled

\* A manager's Start in the stage "start": the members of this config and what
\* they depend on.
StartManager ==
  /\ phase = "starting"
  /\ byDependency(Plan[step])
  /\ cleanups' = register(Plan[step].comp, TRUE)
  /\ phase' = "members"
  /\ deps' \in [Member -> SUBSET (Member \cup {Missing})]
  /\ started' = {}
  /\ ready' = Member
  /\ canContinue' = FALSE
  /\ verdict' = "none"
  /\ UNCHANGED <<step, cancelled, held, oTree, oCurrent>>

\* Mutant: one dependency that has started is enough.
dependenciesMet_some(m) == deps[m] = {} \/ deps[m] \cap started # {}

dependenciesMet(m) == deps[m] \subseteq started

\* The loop body for the next member of a pass (in the config's order there, in any
\* order here): skipped while a dependency has not started.
StartOne(m) ==
  /\ phase = "members"
  /\ m \in ready
  /\ ready' = ready \ {m}
  /\ \/ /\ m \in started \/ ~dependenciesMet(m)
        /\ UNCHANGED <<phase, started, canContinue, held, verdict>>
     \/ /\ m \notin started
        /\ dependenciesMet(m)
        /\ started' = started \cup {m}
        /\ canContinue' = TRUE
        /\ held' = held \cup {Plan[step].comp}
        /\ \/ UNCHANGED <<phase, verdict>>
           \/ phase' = "failed" /\ verdict' = "failed"
  /\ UNCHANGED <<step, cleanups, cancelled, deps, oTree, oCurrent>>

passDone == started = Member

\* The end of a pass: all started, another pass, or a dependency that can never
\* be met, which the lint then looks for.
PassEnd ==
  /\ phase = "members"
  /\ ready = {}
  /\ \/ /\ passDone
        /\ verdict' = "ok"
        /\ advance
        /\ UNCHANGED <<ready, canContinue, oTree, oCurrent>>
     \/ /\ ~passDone
        /\ canContinue
        /\ ready' = Member
        /\ canContinue' = FALSE
        /\ UNCHANGED <<phase, step, oTree, oCurrent, verdict>>
     \/ /\ ~passDone
        /\ ~canContinue
        /\ phase' = "lint"
        /\ oCurrent' \in Member \ started
        /\ oTree' = {oCurrent'}
        /\ UNCHANGED <<step, ready, canContinue, verdict>>
  /\ UNCHANGED <<cleanups, cancelled, held, deps, started>>

\* Mutant: the path is not looked at.
onPath_never(d) == FALSE

onPath(d) == d \in oTree

\* lintOutbound / lintTransport: from a member that did not start to a dependency
\* of it that did not, until a tag comes up again or names no member.
Lint ==
  /\ phase = "lint"
  /\ \E d \in deps[oCurrent] \ started :
       \/ /\ onPath(d)
          /\ verdict' = "circular"
          /\ phase' = "failed"
          /\ UNCHANGED <<oTree, oCurrent>>
       \/ /\ ~onPath(d)
          /\ d \notin Member
          /\ verdict' = "missing"
          /\ phase' = "failed"
          /\ UNCHANGED <<oTree, oCurrent>>
       \/ /\ ~onPath(d)
          /\ d \in Member
          /\ oTree' = oTree \cup {d}
          /\ oCurrent' = d
          /\ UNCHANGED <<phase, verdict>>
  /\ UNCHANGED <<step, cleanups, cancelled, held, deps, started, ready, canContinue>>

-----------------------------------------------------------------------------
(* Box.Close: by Box.Start itself when it failed, by BoxInstance.Close later. *)

BoxClose ==
  /\ phase \in {"new", "failed", "running"}
  /\ cancelled' = TRUE
  /\ phase' = "closing"
  /\ Forget
  /\ UNCHANGED <<step, cleanups, held>>

\* A cleanup may return an error; the next one runs all the same.
RunCleanup ==
  /\ phase = "closing"
  /\ cleanups # << >>
  /\ held' = held \ {cleanups[nextCleanup]}
  /\ cleanups' = SubSeq(cleanups, 1, nextCleanup - 1)
                 \o SubSeq(cleanups, nextCleanup + 1, Len(cleanups))
  /\ UNCHANGED <<phase, step, cancelled, managerVars>>

CloseDone ==
  /\ phase = "closing"
  /\ cleanups = << >>
  /\ phase' = "closed"
  /\ UNCHANGED <<step, cleanups, cancelled, held, managerVars>>

Next ==
  \/ BoxStart \/ StartComponent \/ StartManager \/ PassEnd \/ Lint
  \/ \E m \in Member : StartOne(m)
  \/ BoxClose \/ RunCleanup \/ CloseDone
  \/ phase = "closed" /\ UNCHANGED vars   \* a second Close finds nothing to run

\* Once Box.Start has been called it and the Close after a failure run to their end.
Spec == Init /\ [][Next]_vars /\ WF_vars(Next)

-----------------------------------------------------------------------------
(* Properties *)

\* At whatever step Box.Start gives up, Scope.Close releases every component that
\* had something to release: the ones whose Start failed half way too.
NothingLeft == phase = "closed" => held = {}

\* What carries the traffic of the inbounds outlives them: Scope.Close never stops a
\* router, an outbound, the DNS or the network under an inbound that still listens.
UsersCloseFirst ==
  "inbound" \in held =>
    {"outbound", "endpoint", "router", "connection", "dns-router", "dns-transport",
     "network", "http-client"} \subseteq registered

\* A set of members none of which can be the first of them to start.
Stuck(S) == \A m \in S : deps[m] \cap (S \cup {Missing}) # {}

\* startOutbounds and startTransports succeed for exactly the dependency graphs an order
\* of starting exists for, and the error names the cause: a cycle is reported only where
\* there is one, an unknown dependency only where a member has one.
StartsIffPossible ==
  /\ verdict = "ok" => \A S \in SUBSET Member : Stuck(S) => S = {}
  /\ verdict \in {"circular", "missing"} =>
       \E S \in SUBSET Member : S # {} /\ S \cap started = {} /\ Stuck(S)
  /\ verdict = "circular" =>
       \E S \in SUBSET oTree : S # {} /\ \A m \in S : deps[m] \cap S # {}
  /\ verdict = "missing" => Missing \in deps[oCurrent]

\* The passes over the members and the walk along a cycle come to an end, whatever
\* the graph: Box.Start runs or fails, and a failed one is closed.
StartTerminates == phase = "starting" ~> phase \in {"running", "closed"}
=============================================================================
