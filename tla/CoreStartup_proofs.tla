------------------------- MODULE CoreStartup_proofs -------------------------
(***************************************************************************)
(* Proofs about CoreStartup for every set of members and every dependency  *)
(* graph: Box.Start leaves nothing behind at whatever step it gives up,    *)
(* Scope.Close never stops what carries the inbounds before them, and the  *)
(* managers start exactly the graphs that can be started.                  *)
(***************************************************************************)
EXTENDS CoreStartup, SequenceTheorems, TLAPS

-----------------------------------------------------------------------------
(* What the proofs need to know of Plan. *)

\* What the inbounds rely on (UsersCloseFirst).
Carriers == {"outbound", "endpoint", "router", "connection", "dns-router", "dns-transport",
             "network", "http-client"}

Stage == {"initialize", "start", "post-start", "started"}
Name == {"logger", "debug", "internal", "http-client", "network", "dns-transport", "dns-router",
         "connection", "router", "outbound", "endpoint", "certificate-provider", "inbound",
         "service", "ntp"}
Entry == [stage : Stage, comp : Name]

\* A stage goes through its components in their order.
LEMMA StageEntries ==
  ASSUME NEW s \in Stage, NEW comps \in Seq(Name)
  PROVE  /\ stage(s, comps) \in Seq(Entry)
         /\ Len(stage(s, comps)) = Len(comps)
         /\ \A k \in 1..Len(comps) : stage(s, comps)[k].comp = comps[k]
<1>1. stage(s, comps) \in [1..Len(comps) -> Entry]
  BY DEF stage, Entry
<1>2. stage(s, comps) \in Seq(Entry)
  BY <1>1
<1> QED BY <1>1, <1>2 DEF stage

\* What is appended to a sequence leaves its beginning alone.
LEMMA ConcatPrefix ==
  ASSUME NEW S, NEW s \in Seq(S), NEW t \in Seq(S), NEW n \in Nat, Len(s) >= n
  PROVE  /\ s \o t \in Seq(S)
         /\ Len(s \o t) >= n
         /\ \A k \in 1..n : (s \o t)[k] = s[k]
<1>1. /\ s \o t \in Seq(S)
      /\ Len(s \o t) = Len(s) + Len(t)
      /\ \A i \in 1..(Len(s) + Len(t)) : (s \o t)[i] = IF i <= Len(s) THEN s[i] ELSE t[i - Len(s)]
  BY ConcatProperties, Zenon
<1>2. Len(s) \in Nat /\ Len(t) \in Nat
  OBVIOUS
<1> DEFINE u == s \o t
<1>3. Len(u) >= n /\ \A k \in 1..n : u[k] = s[k]
  <2> HIDE DEF u
  <2>1. Len(u) = Len(s) + Len(t)
        /\ \A i \in 1..(Len(s) + Len(t)) : u[i] = IF i <= Len(s) THEN s[i] ELSE t[i - Len(s)]
    BY <1>1 DEF u
  <2> QED BY <1>2, <2>1
<1> QED BY <1>1, <1>3

\* Plan is a sequence of steps that begins with the stage "initialize" after the logger
\* and the debug server.
LEMMA PlanBegins ==
  /\ Plan \in Seq(Entry)
  /\ Len(Plan) >= 14
  /\ \A k \in 1..2 : Plan[k].comp = <<"logger", "debug">>[k]
  /\ \A k \in 1..12 : Plan[k + 2].comp =
       <<"internal", "http-client", "network", "dns-transport",
         "dns-router", "connection", "router", "outbound", "endpoint",
         "certificate-provider", "inbound", "service">>[k]
<1> DEFINE a == <<"logger", "debug">>
           b == <<"internal", "http-client", "network", "dns-transport",
                  "dns-router", "connection", "router", "outbound", "endpoint",
                  "certificate-provider", "inbound", "service">>
           c == <<"outbound", "dns-transport", "network", "connection", "http-client",
                  "router", "dns-router", "internal", "ntp", "endpoint",
                  "certificate-provider", "inbound", "service">>
           d == <<"outbound", "network", "dns-transport", "dns-router",
                  "connection", "router", "endpoint", "certificate-provider",
                  "inbound", "service", "internal">>
           e == <<"network", "dns-transport", "dns-router", "connection", "router",
                  "outbound", "endpoint", "certificate-provider", "inbound",
                  "service", "internal">>
           A == stage("start", a)
           B == stage("initialize", b)
           C == stage("start", c)
           D == stage("post-start", d)
           E == stage("started", e)
<1>1. a \in Seq(Name) /\ Len(a) = 2
  BY DEF Name
<1>2. b \in Seq(Name) /\ Len(b) = 12
  BY DEF Name
<1>3. c \in Seq(Name)
  BY DEF Name
<1>4. d \in Seq(Name)
  BY DEF Name
<1>5. e \in Seq(Name)
  BY DEF Name
<1>6. Plan = A \o B \o C \o D \o E
  BY DEF Plan
<1> HIDE DEF a, b, c, d, e
<1>7. {"initialize", "start", "post-start", "started"} \subseteq Stage
  BY DEF Stage
<1>8. A \in Seq(Entry) /\ Len(A) = 2 /\ \A k \in 1..2 : A[k].comp = a[k]
  BY <1>1, <1>7, StageEntries
<1>9. B \in Seq(Entry) /\ Len(B) = 12 /\ \A k \in 1..12 : B[k].comp = b[k]
  BY <1>2, <1>7, StageEntries
<1>10. C \in Seq(Entry) /\ D \in Seq(Entry) /\ E \in Seq(Entry)
  BY <1>3, <1>4, <1>5, <1>7, StageEntries
<1> HIDE DEF A, B, C, D, E
<1>11. /\ A \o B \in Seq(Entry)
       /\ Len(A \o B) = Len(A) + Len(B)
       /\ \A i \in 1..(Len(A) + Len(B)) : (A \o B)[i] = IF i <= Len(A) THEN A[i] ELSE B[i - Len(A)]
  BY <1>8, <1>9, ConcatProperties, Zenon
<1> DEFINE AB == A \o B
<1>12. AB \in Seq(Entry) /\ Len(AB) = 14
  BY <1>8, <1>9, <1>11
<1>13. /\ \A k \in 1..2 : AB[k] = A[k]
       /\ \A k \in 1..12 : AB[k + 2] = B[k]
  <2>1. \A i \in 1..(Len(A) + Len(B)) : AB[i] = IF i <= Len(A) THEN A[i] ELSE B[i - Len(A)]
    BY <1>11, Zenon
  <2> HIDE DEF AB
  <2> QED BY <1>8, <1>9, <2>1
<1> DEFINE ABC == AB \o C
           ABCD == ABC \o D
<1>14. ABC \in Seq(Entry) /\ Len(ABC) >= 14 /\ \A k \in 1..14 : ABC[k] = AB[k]
  <2> HIDE DEF AB
  <2>1. AB \in Seq(Entry) /\ C \in Seq(Entry) /\ 14 \in Nat /\ Len(AB) >= 14
    BY <1>10, <1>12
  <2> QED BY <2>1, ConcatPrefix, ZenonT(40)
<1>15. ABCD \in Seq(Entry) /\ Len(ABCD) >= 14 /\ \A k \in 1..14 : ABCD[k] = ABC[k]
  <2> HIDE DEF ABC
  <2>1. ABC \in Seq(Entry) /\ D \in Seq(Entry) /\ 14 \in Nat /\ Len(ABC) >= 14
    BY <1>10, <1>14
  <2> QED BY <2>1, ConcatPrefix, ZenonT(40)
<1>16. /\ ABCD \o E \in Seq(Entry) /\ Len(ABCD \o E) >= 14
       /\ \A k \in 1..14 : (ABCD \o E)[k] = ABCD[k]
  <2> HIDE DEF ABCD
  <2>1. ABCD \in Seq(Entry) /\ E \in Seq(Entry) /\ 14 \in Nat /\ Len(ABCD) >= 14
    BY <1>10, <1>15
  <2> QED BY <2>1, ConcatPrefix, ZenonT(40)
<1>17. \A k \in 1..14 : Plan[k] = AB[k]
  BY <1>6, <1>14, <1>15, <1>16
<1> HIDE DEF AB
<1>18. /\ \A k \in 1..2 : Plan[k].comp = a[k]
       /\ \A k \in 1..12 : Plan[k + 2].comp = b[k]
  BY <1>8, <1>9, <1>13, <1>17
<1> QED BY <1>6, <1>16, <1>18 DEF a, b, AB

\* The components of its first fourteen steps.
LEMMA FirstComponents ==
  \A k \in 1..14 : Plan[k].comp =
    <<"logger", "debug", "internal", "http-client", "network", "dns-transport",
      "dns-router", "connection", "router", "outbound", "endpoint",
      "certificate-provider", "inbound", "service">>[k]
<1>1. \A k \in 3..14 : k - 2 \in 1..12 /\ k = (k - 2) + 2
  OBVIOUS
<1>2. \A k \in 3..14 : Plan[k].comp =
         <<"internal", "http-client", "network", "dns-transport",
           "dns-router", "connection", "router", "outbound", "endpoint",
           "certificate-provider", "inbound", "service">>[k - 2]
  BY <1>1, PlanBegins
<1> QED BY <1>2, PlanBegins

\* Whatever carries the inbounds comes before the first step of the inbounds.
LEMMA CarriersFirst ==
  /\ Len(Plan) \in Nat /\ Len(Plan) > 0 /\ DOMAIN Plan = 1..Len(Plan)
  /\ \A k \in 1..Len(Plan), c \in Carriers :
       Plan[k].comp = "inbound" => \E j \in 1..(k - 1) : Plan[j].comp = c
<1>1. Len(Plan) \in Nat /\ Len(Plan) >= 14 /\ DOMAIN Plan = 1..Len(Plan)
  BY PlanBegins, LenProperties
<1>2. ASSUME NEW k \in 1..Len(Plan), Plan[k].comp = "inbound" PROVE k >= 13
  BY <1>1, <1>2, FirstComponents
<1>3. \A c \in Carriers : \E j \in 4..11 : Plan[j].comp = c
  BY FirstComponents DEF Carriers
<1> QED BY <1>1, <1>2, <1>3

-----------------------------------------------------------------------------
(* The inductive invariant. *)

Busy == {"starting", "members", "lint"}

\* Where Box.Start is.
PlaceInv ==
  /\ phase = "new" => step = 1
  /\ phase \in Busy => step \in 1..Len(Plan)
  /\ phase \in Busy \ {"starting"} =>
       Plan[step].comp \in registered /\ verdict = "none"
  /\ phase = "closed" => cleanups = << >>

CarriersPrecede ==
  \A k \in DOMAIN cleanups : cleanups[k] = "inbound" =>
    \A c \in Carriers : \E j \in 1..(k - 1) : cleanups[j] = c

\* Whoever has something to release is on the list of cleanups, and what carries the
\* inbounds is there before them.
ScopeInv ==
  /\ held \subseteq registered
  /\ CarriersPrecede
  /\ phase \in Busy => \A k \in 1..(step - 1) : Plan[k].comp \in Carriers =>
       Plan[k].comp \in registered

\* A set of members that cannot be started has not been started from; and once a pass
\* has started nobody, none of those it has looked at can be started.
OrderInv ==
  /\ \A S \in SUBSET Member : Stuck(S) => S \cap started = {}
  /\ verdict = "ok" => started = Member
  /\ phase = "members" /\ ~canContinue =>
       \A m \in Member \ (started \cup ready) : ~(deps[m] \subseteq started)

\* The walk of the lint: from every tag on its path but the last a dependency is on the
\* path too.
LintInv ==
  /\ phase = "lint" \/ verdict \in {"circular", "missing"} =>
       /\ oCurrent \in oTree
       /\ oTree \subseteq Member
       /\ started # Member
       /\ \A m \in Member \ started : ~(deps[m] \subseteq started)
       /\ \A m \in oTree \ {oCurrent} : deps[m] \cap oTree # {}
  /\ verdict = "circular" => deps[oCurrent] \cap oTree # {}
  /\ verdict = "missing" => Missing \in deps[oCurrent]

IInv == TypeOK /\ PlaceInv /\ ScopeInv /\ OrderInv /\ LintInv

-----------------------------------------------------------------------------
(* adapter.Scope: what adding and running a cleanup do to the list. *)

\* Scope.Start adds a component at the end, if at all, and forgets none.
LEMMA Registering ==
  ASSUME cleanups \in Seq(Component), CarriersPrecede,
         NEW c \in Component, NEW ok \in BOOLEAN, cleanups' = register(c, ok),
         c = "inbound" => Carriers \subseteq registered
  PROVE  /\ cleanups' \in Seq(Component)
         /\ CarriersPrecede'
         /\ registered \subseteq registered'
         /\ ok \/ c \notin Plain => c \in registered'
<1>1. CASE cleanups' = cleanups
  BY <1>1 DEF register, registered, CarriersPrecede
<1>2. CASE cleanups' # cleanups
  <2>1. cleanups' = Append(cleanups, c)
    BY <1>2 DEF register
  <2>2. /\ cleanups' \in Seq(Component)
        /\ Len(cleanups) \in Nat /\ DOMAIN cleanups = 1..Len(cleanups)
        /\ DOMAIN cleanups' = 1..(Len(cleanups) + 1)
        /\ \A i \in 1..Len(cleanups) : cleanups'[i] = cleanups[i]
        /\ cleanups'[Len(cleanups) + 1] = c
    BY <2>1
  <2>3. registered \subseteq registered' /\ c \in registered'
    BY <2>2 DEF registered
  <2>4. CarriersPrecede'
    <3> SUFFICES ASSUME NEW k \in DOMAIN cleanups', cleanups'[k] = "inbound", NEW d \in Carriers
                 PROVE  \E j \in 1..(k - 1) : cleanups'[j] = d
      BY DEF CarriersPrecede
    <3>1. CASE k \in 1..Len(cleanups)
      <4>1. PICK j \in 1..(k - 1) : cleanups[j] = d
        BY <2>2, <3>1 DEF CarriersPrecede
      <4> QED BY <2>2, <3>1, <4>1
    <3>2. CASE k = Len(cleanups) + 1
      <4>1. PICK j \in 1..Len(cleanups) : cleanups[j] = d
        BY <2>2, <3>2 DEF registered
      <4> QED BY <2>2, <3>2, <4>1
    <3> QED BY <2>2, <3>1, <3>2
  <2> QED BY <2>2, <2>3, <2>4
<1> QED BY <1>1, <1>2

\* Scope.Close takes the last one off the list.
LEMMA Dropping ==
  ASSUME cleanups \in Seq(Component), CarriersPrecede, RunCleanup
  PROVE  /\ cleanups' \in Seq(Component)
         /\ CarriersPrecede'
         /\ registered \ {cleanups[Len(cleanups)]} \subseteq registered'
<1>1. /\ Len(cleanups) \in Nat \ {0} /\ DOMAIN cleanups = 1..Len(cleanups)
      /\ \A i \in 1..Len(cleanups) : cleanups[i] \in Component
  BY DEF RunCleanup
<1> DEFINE n == Len(cleanups)
           front == SubSeq(cleanups, 1, n - 1)
<1>2. front \in Seq(Component) /\ Len(front) = n - 1 /\ \A i \in 1..(n - 1) : front[i] = cleanups[i]
  BY <1>1
<1>3. SubSeq(cleanups, n + 1, n) = << >>
  BY <1>1, SubSeqEmpty
<1>4. cleanups' = front
  <2>1. cleanups' = front \o << >>
    BY <1>3 DEF RunCleanup, nextCleanup
  <2> HIDE DEF front
  <2> QED BY <1>2, <2>1, ConcatEmptySeq
<1> HIDE DEF front
<1>5. DOMAIN cleanups' = 1..(n - 1) /\ \A i \in 1..(n - 1) : cleanups'[i] = cleanups[i]
  BY <1>1, <1>2, <1>4
<1>6. CarriersPrecede'
  <2> SUFFICES ASSUME NEW k \in 1..(n - 1), cleanups'[k] = "inbound", NEW d \in Carriers
               PROVE  \E j \in 1..(k - 1) : cleanups'[j] = d
    BY <1>5 DEF CarriersPrecede
  <2>1. PICK j \in 1..(k - 1) : cleanups[j] = d
    BY <1>1, <1>5 DEF CarriersPrecede
  <2> QED BY <1>1, <1>5, <2>1
<1>7. registered \ {cleanups[n]} \subseteq registered'
  <2> SUFFICES ASSUME NEW k \in 1..n, cleanups[k] # cleanups[n]
               PROVE  cleanups[k] \in registered'
    BY <1>1 DEF registered
  <2>1. k \in 1..(n - 1)
    BY <1>1
  <2> QED BY <1>5, <2>1 DEF registered
<1> QED BY <1>2, <1>4, <1>6, <1>7

-----------------------------------------------------------------------------
(* The managers' loop, on sets of members. *)

\* A member whose dependencies have started is in no set that cannot be started.
LEMMA NoStuckStarted ==
  ASSUME deps \in [Member -> SUBSET (Member \cup {Missing})], started \in SUBSET Member,
         NEW m \in Member, deps[m] \subseteq started,
         NEW S \in SUBSET Member, Stuck(S), S \cap started = {}
  PROVE  m \notin S
BY MissingAssumption DEF Stuck

\* The members left over when none of them can be started cannot be started at all.
LEMMA LeftoverIsStuck ==
  ASSUME deps \in [Member -> SUBSET (Member \cup {Missing})], started \in SUBSET Member,
         \A m \in Member \ started : ~(deps[m] \subseteq started)
  PROVE  Stuck(Member \ started)
BY DEF Stuck

-----------------------------------------------------------------------------
(* Every step preserves the invariant. *)

\* The step Box.Start is at names a component, and what carries the inbounds has been
\* added to the scope when it is theirs.
LEMMA CurrentComponent ==
  ASSUME IInv, phase \in Busy
  PROVE  /\ step \in 1..Len(Plan) /\ Len(Plan) \in Nat
         /\ Plan[step].comp \in Component
         /\ Plan[step].comp = "inbound" => Carriers \subseteq registered
<1>1. step \in 1..Len(Plan) /\ Len(Plan) \in Nat /\ Plan[step].comp \in Component
  BY CarriersFirst DEF IInv, PlaceInv, Component
<1>2. ASSUME Plan[step].comp = "inbound", NEW c \in Carriers PROVE c \in registered
  <2>1. PICK j \in 1..(step - 1) : Plan[j].comp = c
    BY <1>1, <1>2, CarriersFirst
  <2> QED BY <2>1 DEF IInv, ScopeInv
<1> QED BY <1>1, <1>2

\* Types, Box.Start.
LEMMA ForgetType ==
  ASSUME Forget
  PROVE  /\ deps' \in [Member -> SUBSET (Member \cup {Missing})]
         /\ started' \in SUBSET Member
         /\ ready' \in SUBSET Member
         /\ canContinue' \in BOOLEAN
         /\ oTree' \in SUBSET Member
         /\ oCurrent' \in Member \cup {Missing}
         /\ verdict' \in Verdict
BY DEF Forget, noDeps, Verdict

\* What the managers' loop keeps is forgotten: its invariants hold of what is left.
LEMMA ForgetInv ==
  ASSUME Forget, phase' \notin {"members", "lint"}
  PROVE  OrderInv' /\ LintInv'
<1>1. started' = {} /\ verdict' = "none"
  BY DEF Forget
<1> QED BY <1>1 DEF OrderInv, LintInv

\* One component and one stage, started or failed.
LEMMA StartComponentInv ==
  ASSUME IInv, StartComponent
  PROVE  IInv'
<1> DEFINE c == Plan[step].comp
<1>1. phase = "starting" /\ phase \in Busy
  BY DEF StartComponent, Busy
<1>2. /\ step \in 1..Len(Plan) /\ Len(Plan) \in Nat /\ c \in Component
      /\ c = "inbound" => Carriers \subseteq registered
  BY <1>1, CurrentComponent
<1> HIDE DEF c
<1>3. PICK ok \in BOOLEAN :
        /\ \/ cleanups' = register(c, ok)
           \/ cleanups' = cleanups /\ c \in {"debug", "ntp"}
        /\ held' \in {held, held \cup {c}}
        /\ held' # held => cleanups' = register(c, ok) /\ (ok \/ c \notin Plain)
        /\ \/ /\ step' = step + 1
              /\ phase' = IF step = Len(Plan) THEN "running" ELSE "starting"
              /\ c \notin Plain => cleanups' = register(c, ok)
           \/ phase' = "failed" /\ step' = step
  BY DEF StartComponent, c, advance, Plain
<1>4. /\ cleanups' \in Seq(Component)
      /\ CarriersPrecede'
      /\ registered \subseteq registered'
      /\ cleanups' = register(c, ok) /\ (ok \/ c \notin Plain) => c \in registered'
  <2>1. cleanups \in Seq(Component) /\ CarriersPrecede
    BY DEF IInv, TypeOK, ScopeInv
  <2>2. CASE cleanups' = cleanups
    <3>1. registered' = registered /\ CarriersPrecede'
      BY <2>1, <2>2 DEF registered, CarriersPrecede
    <3>2. cleanups = register(c, ok) /\ (ok \/ c \notin Plain) => c \in registered
      <4>1. ASSUME c \notin registered PROVE Append(cleanups, c) # cleanups
        BY <1>2, <2>1
      <4> QED BY <4>1 DEF register
    <3> QED BY <2>1, <2>2, <3>1, <3>2
  <2>3. CASE cleanups' = register(c, ok)
    BY <1>2, <2>1, <2>3, Registering
  <2> QED BY <1>3, <2>2, <2>3
<1>5. TypeOK'
  <2>1. phase' \in Phase /\ step' \in 1..(Len(Plan) + 1)
    BY <1>2, <1>3 DEF Phase
  <2>2. held' \in SUBSET Component /\ cancelled' \in BOOLEAN
    BY <1>2, <1>3 DEF IInv, TypeOK, StartComponent
  <2> QED BY <1>4, <2>1, <2>2, ForgetType DEF TypeOK, StartComponent
<1>6. PlaceInv'
  BY <1>2, <1>3 DEF PlaceInv, Busy
<1>7. ScopeInv'
  <2>1. held' \subseteq registered'
    BY <1>3, <1>4 DEF IInv, ScopeInv
  <2>2. ASSUME phase' \in Busy, NEW k \in 1..(step' - 1), Plan[k].comp \in Carriers
        PROVE  Plan[k].comp \in registered'
    <3>1. step' = step + 1 /\ (c \notin Plain => cleanups' = register(c, ok))
      BY <1>3, <2>2 DEF Busy
    <3>2. CASE k = step
      BY <1>4, <2>2, <3>1, <3>2 DEF c, Carriers, Plain
    <3>3. CASE k \in 1..(step - 1)
      BY <1>1, <1>4, <2>2, <3>3 DEF IInv, ScopeInv
    <3> QED BY <1>2, <2>2, <3>1, <3>2, <3>3
  <2> QED BY <1>4, <2>1, <2>2 DEF ScopeInv
<1>8. OrderInv' /\ LintInv'
  BY <1>3, ForgetInv DEF StartComponent
<1> QED BY <1>5, <1>6, <1>7, <1>8 DEF IInv

\* The start of a manager's loop: nobody has started, everybody is to be looked at.
LEMMA StartManagerInv ==
  ASSUME IInv, StartManager
  PROVE  IInv'
<1> DEFINE c == Plan[step].comp
<1>1. phase = "starting" /\ phase \in Busy
  BY DEF StartManager, Busy
<1>2. /\ step \in 1..Len(Plan) /\ Len(Plan) \in Nat /\ c \in Component
      /\ c = "inbound" => Carriers \subseteq registered
  BY <1>1, CurrentComponent
<1>3. cleanups \in Seq(Component) /\ CarriersPrecede /\ cleanups' = register(c, TRUE)
  BY DEF IInv, TypeOK, ScopeInv, StartManager
<1>4. /\ cleanups' \in Seq(Component) /\ CarriersPrecede'
      /\ registered \subseteq registered' /\ c \in registered'
  <2> HIDE DEF c
  <2> QED BY <1>2, <1>3, Registering
<1>5. TypeOK'
  BY <1>4 DEF IInv, TypeOK, StartManager, Phase, Verdict
<1>6. PlaceInv'
  BY <1>2, <1>4 DEF StartManager, PlaceInv, Busy
<1>7. ScopeInv'
  BY <1>1, <1>4 DEF IInv, ScopeInv, StartManager
<1>8. OrderInv' /\ LintInv'
  BY DEF StartManager, OrderInv, LintInv
<1> QED BY <1>5, <1>6, <1>7, <1>8 DEF IInv

\* The loop body of startOutbounds and startTransports.
LEMMA StartOneInv ==
  ASSUME IInv, NEW m \in Member, StartOne(m)
  PROVE  IInv'
<1>1. phase = "members" /\ phase \in Busy
  BY DEF StartOne, Busy
<1>2. step \in 1..Len(Plan) /\ Plan[step].comp \in Component /\ Plan[step].comp \in registered
  BY <1>1, CurrentComponent DEF IInv, PlaceInv, Busy
<1>3. registered' = registered /\ (CarriersPrecede <=> CarriersPrecede')
  BY DEF StartOne, registered, CarriersPrecede
<1>4. TypeOK'
  BY <1>2 DEF IInv, TypeOK, StartOne, Phase, Verdict
<1>5. PlaceInv'
  BY <1>1, <1>3 DEF IInv, PlaceInv, StartOne, Busy
<1>6. ScopeInv'
  BY <1>1, <1>2, <1>3 DEF IInv, ScopeInv, StartOne
<1>7. OrderInv'
  <2>1. ASSUME NEW S \in SUBSET Member, Stuck(S)' PROVE S \cap started' = {}
    <3>1. Stuck(S) /\ S \cap started = {}
      BY <2>1 DEF IInv, OrderInv, StartOne, Stuck
    <3>2. CASE started' = started
      BY <3>1, <3>2
    <3>3. CASE deps[m] \subseteq started /\ started' = started \cup {m}
      BY <3>1, <3>3, NoStuckStarted DEF IInv, TypeOK
    <3> QED BY <3>2, <3>3 DEF StartOne, dependenciesMet
  <2>2. verdict' # "ok"
    BY <1>1 DEF IInv, PlaceInv, StartOne, Busy
  <2>3. phase' = "members" /\ ~canContinue' =>
          \A n \in Member \ (started' \cup ready') : ~(deps'[n] \subseteq started')
    BY <1>1 DEF IInv, OrderInv, StartOne, dependenciesMet
  <2> QED BY <2>1, <2>2, <2>3 DEF OrderInv
<1>8. LintInv'
  BY <1>1 DEF IInv, LintInv, PlaceInv, StartOne, Busy
<1> QED BY <1>4, <1>5, <1>6, <1>7, <1>8 DEF IInv

\* The end of a pass: done, once more, or the lint.
LEMMA PassEndInv ==
  ASSUME IInv, PassEnd
  PROVE  IInv'
<1>1. phase = "members" /\ phase \in Busy /\ verdict = "none"
  BY DEF PassEnd, Busy, IInv, PlaceInv
<1>2. step \in 1..Len(Plan) /\ Len(Plan) \in Nat /\ Plan[step].comp \in registered
  BY <1>1, CurrentComponent DEF IInv, PlaceInv, Busy
<1>3. registered' = registered /\ (CarriersPrecede <=> CarriersPrecede')
  BY DEF PassEnd, registered, CarriersPrecede
<1>4. CASE passDone /\ verdict' = "ok" /\ advance /\ UNCHANGED <<ready, canContinue, oTree, oCurrent>>
  <2>1. /\ step' = step + 1 /\ phase' \in {"running", "starting"}
        /\ phase' = "starting" => step' \in 1..Len(Plan)
    BY <1>2, <1>4 DEF advance
  <2>2. TypeOK'
    BY <1>2, <1>4, <2>1 DEF IInv, TypeOK, PassEnd, Phase, Verdict
  <2>3. PlaceInv'
    BY <2>1 DEF PlaceInv, Busy
  <2>4. ScopeInv'
    <3>1. ASSUME NEW k \in 1..(step' - 1), Plan[k].comp \in Carriers
          PROVE  Plan[k].comp \in registered
      BY <1>1, <1>2, <2>1, <3>1 DEF IInv, ScopeInv
    <3> QED BY <1>3, <3>1 DEF IInv, ScopeInv, PassEnd
  <2>5. OrderInv'
    BY <1>4, <2>1 DEF IInv, OrderInv, PassEnd, passDone, Stuck
  <2>6. LintInv'
    BY <1>4, <2>1 DEF LintInv
  <2> QED BY <2>2, <2>3, <2>4, <2>5, <2>6 DEF IInv
<1>5. CASE /\ canContinue /\ ready' = Member /\ canContinue' = FALSE
           /\ UNCHANGED <<phase, step, oTree, oCurrent, verdict>>
  <2>1. TypeOK'
    BY <1>5 DEF IInv, TypeOK, PassEnd
  <2>2. PlaceInv' /\ ScopeInv'
    BY <1>3, <1>5 DEF IInv, PlaceInv, ScopeInv, PassEnd
  <2>3. OrderInv' /\ LintInv'
    BY <1>1, <1>5 DEF IInv, OrderInv, LintInv, PassEnd, Stuck
  <2> QED BY <2>1, <2>2, <2>3 DEF IInv
<1>6. CASE /\ ~passDone /\ ~canContinue /\ phase' = "lint" /\ oCurrent' \in Member \ started
           /\ oTree' = {oCurrent'}
           /\ UNCHANGED <<step, ready, canContinue, verdict>>
  <2>1. TypeOK'
    BY <1>6 DEF IInv, TypeOK, PassEnd, Phase
  <2>2. PlaceInv' /\ ScopeInv'
    BY <1>1, <1>2, <1>3, <1>6 DEF IInv, PlaceInv, ScopeInv, PassEnd, Busy
  <2>3. OrderInv'
    BY <1>1, <1>6 DEF IInv, OrderInv, PassEnd, Stuck
  <2>4. \A m \in Member \ started : ~(deps[m] \subseteq started)
    BY <1>1, <1>6 DEF IInv, OrderInv, PassEnd
  <2>5. LintInv'
    BY <1>1, <1>6, <2>4 DEF LintInv, PassEnd, passDone
  <2> QED BY <2>1, <2>2, <2>3, <2>5 DEF IInv
<1> QED BY <1>4, <1>5, <1>6 DEF PassEnd

\* One step of lintOutbound / lintTransport along a dependency that has not started.
LEMMA LintStepInv ==
  ASSUME IInv, Lint
  PROVE  IInv'
<1>1. phase = "lint" /\ phase \in Busy /\ verdict = "none"
  BY DEF Lint, Busy, IInv, PlaceInv
<1>2. registered' = registered /\ (CarriersPrecede <=> CarriersPrecede')
  BY DEF Lint, registered, CarriersPrecede
<1>3. oCurrent \in Member /\ deps[oCurrent] \subseteq Member \cup {Missing}
  BY <1>1 DEF IInv, LintInv, TypeOK
<1>4. PICK d \in deps[oCurrent] \ started :
        \/ /\ d \in oTree /\ verdict' = "circular" /\ phase' = "failed"
           /\ UNCHANGED <<oTree, oCurrent>>
        \/ /\ d \notin Member /\ verdict' = "missing" /\ phase' = "failed"
           /\ UNCHANGED <<oTree, oCurrent>>
        \/ /\ d \in Member /\ oTree' = oTree \cup {d} /\ oCurrent' = d
           /\ UNCHANGED <<phase, verdict>>
  BY DEF Lint, onPath
<1>5. TypeOK'
  BY <1>4 DEF IInv, TypeOK, Lint, Phase, Verdict
<1>6. PlaceInv' /\ ScopeInv'
  BY <1>1, <1>2, <1>4 DEF IInv, PlaceInv, ScopeInv, Lint, Busy
<1>7. OrderInv'
  BY <1>1, <1>4 DEF IInv, OrderInv, Lint, Stuck
<1>8. LintInv'
  BY <1>1, <1>3, <1>4 DEF IInv, LintInv, Lint
<1> QED BY <1>5, <1>6, <1>7, <1>8 DEF IInv

\* Box.Close, a cleanup of its scope, and its end.
LEMMA CloseInv ==
  ASSUME IInv, BoxClose \/ RunCleanup \/ CloseDone
  PROVE  IInv'
<1>1. CASE BoxClose
  <2>1. registered' = registered /\ (CarriersPrecede <=> CarriersPrecede')
    BY <1>1 DEF BoxClose, registered, CarriersPrecede
  <2>2. TypeOK'
    BY <1>1, ForgetType DEF IInv, TypeOK, BoxClose, Phase
  <2>3. PlaceInv' /\ ScopeInv'
    BY <1>1, <2>1 DEF IInv, PlaceInv, ScopeInv, BoxClose, Busy
  <2>4. OrderInv' /\ LintInv'
    BY <1>1, ForgetInv DEF BoxClose
  <2> QED BY <2>2, <2>3, <2>4 DEF IInv
<1>2. CASE RunCleanup
  <2>1. /\ cleanups' \in Seq(Component) /\ CarriersPrecede'
        /\ registered \ {cleanups[Len(cleanups)]} \subseteq registered'
    BY <1>2, Dropping DEF IInv, TypeOK, ScopeInv
  <2>2. TypeOK'
    BY <1>2, <2>1 DEF IInv, TypeOK, RunCleanup, managerVars
  <2>3. PlaceInv' /\ ScopeInv'
    BY <1>2, <2>1 DEF IInv, PlaceInv, ScopeInv, RunCleanup, nextCleanup, Busy
  <2>4. OrderInv' /\ LintInv'
    BY <1>2 DEF IInv, OrderInv, LintInv, RunCleanup, managerVars, Stuck
  <2> QED BY <2>2, <2>3, <2>4 DEF IInv
<1>3. CASE CloseDone
  <2>1. registered' = registered /\ (CarriersPrecede <=> CarriersPrecede')
    BY <1>3 DEF CloseDone, registered, CarriersPrecede
  <2>2. TypeOK'
    BY <1>3 DEF IInv, TypeOK, CloseDone, Phase, managerVars
  <2>3. PlaceInv' /\ ScopeInv'
    BY <1>3, <2>1 DEF IInv, PlaceInv, ScopeInv, CloseDone, Busy
  <2>4. OrderInv' /\ LintInv'
    BY <1>3 DEF IInv, OrderInv, LintInv, CloseDone, managerVars, Stuck
  <2> QED BY <2>2, <2>3, <2>4 DEF IInv
<1> QED BY <1>1, <1>2, <1>3

\* Box.Start is called.
LEMMA BoxStartInv ==
  ASSUME IInv, BoxStart
  PROVE  IInv'
<1>1. registered' = registered /\ (CarriersPrecede <=> CarriersPrecede')
  BY DEF BoxStart, registered, CarriersPrecede
<1>2. TypeOK'
  BY DEF IInv, TypeOK, BoxStart, Phase, managerVars
<1>3. PlaceInv' /\ ScopeInv'
  BY <1>1, CarriersFirst DEF IInv, PlaceInv, ScopeInv, BoxStart, Busy
<1>4. OrderInv' /\ LintInv'
  BY DEF IInv, OrderInv, LintInv, BoxStart, managerVars, Stuck
<1> QED BY <1>2, <1>3, <1>4 DEF IInv

\* The inductive invariant holds of the initial state.
LEMMA InitIInv == Init => IInv
<1> SUFFICES ASSUME Init PROVE IInv
  OBVIOUS
<1>1. TypeOK
  <2>1. step \in 1..(Len(Plan) + 1)
    BY CarriersFirst DEF Init
  <2>2. cleanups \in Seq(Component) /\ held \in SUBSET Component
    BY DEF Init
  <2>3. deps \in [Member -> SUBSET (Member \cup {Missing})]
    BY DEF Init, noDeps
  <2> QED BY <2>1, <2>2, <2>3 DEF Init, TypeOK, Phase, Verdict
<1>2. PlaceInv /\ ScopeInv
  BY DEF Init, PlaceInv, ScopeInv, CarriersPrecede, Busy
<1>3. OrderInv /\ LintInv
  BY DEF Init, OrderInv, LintInv
<1> QED BY <1>1, <1>2, <1>3 DEF IInv

\* A step that changes nothing preserves it.
LEMMA StutterInv ==
  ASSUME IInv, UNCHANGED vars
  PROVE  IInv'
<1> USE DEF vars, boxVars, managerVars
<1>1. TypeOK'
  BY DEF IInv, TypeOK
<1>2. PlaceInv' /\ ScopeInv'
  BY DEF IInv, PlaceInv, ScopeInv, CarriersPrecede, registered
<1>3. OrderInv' /\ LintInv'
  BY DEF IInv, OrderInv, LintInv, Stuck
<1> QED BY <1>1, <1>2, <1>3 DEF IInv

-----------------------------------------------------------------------------
(* Theorems. *)

\* Every reachable state satisfies the inductive invariant, at whatever step Box.Start
\* fails and whatever the members depend on.
THEOREM Invariance == Spec => []IInv
<1>1. Init => IInv
  BY InitIInv
<1>2. IInv /\ [Next]_vars => IInv'
  BY BoxStartInv, StartComponentInv, StartManagerInv, PassEndInv, LintStepInv, StartOneInv,
     CloseInv, StutterInv DEF Next
<1> QED BY <1>1, <1>2, PTL DEF Spec

\* The variables keep their types.
THEOREM TypeCorrect == Spec => []TypeOK
<1>1. IInv => TypeOK
  BY DEF IInv
<1> QED BY <1>1, Invariance, PTL

\* adapter.Scope: a box that is closed holds nothing, at whatever step it gave up.
THEOREM NothingIsLeft == Spec => []NothingLeft
<1>1. IInv => NothingLeft
  BY DEF IInv, PlaceInv, ScopeInv, registered, NothingLeft
<1> QED BY <1>1, Invariance, PTL

\* Scope.Close never stops what carries the inbounds while they still listen.
THEOREM InboundsCloseFirst == Spec => []UsersCloseFirst
<1>1. IInv => UsersCloseFirst
  <2> SUFFICES ASSUME IInv, "inbound" \in held PROVE Carriers \subseteq registered
    BY DEF UsersCloseFirst, Carriers
  <2>1. cleanups \in Seq(Component) /\ DOMAIN cleanups = 1..Len(cleanups) /\ Len(cleanups) \in Nat
    BY DEF IInv, TypeOK
  <2>2. PICK k \in DOMAIN cleanups : cleanups[k] = "inbound"
    BY DEF IInv, ScopeInv, registered
  <2>3. ASSUME NEW c \in Carriers PROVE c \in registered
    <3>1. PICK j \in 1..(k - 1) : cleanups[j] = c
      BY <2>2 DEF IInv, ScopeInv, CarriersPrecede
    <3> QED BY <2>1, <3>1 DEF registered
  <2> QED BY <2>3
<1> QED BY <1>1, Invariance, PTL

\* startOutbounds and startTransports start exactly the dependency graphs an order exists
\* for, and name a cycle or an unknown dependency only where there is one.
THEOREM ManagersStartWhatTheyCan == Spec => []StartsIffPossible
<1>1. IInv => StartsIffPossible
  <2> SUFFICES ASSUME IInv PROVE StartsIffPossible
    OBVIOUS
  <2>0. deps \in [Member -> SUBSET (Member \cup {Missing})] /\ started \in SUBSET Member
    BY DEF IInv, TypeOK
  <2>1. verdict = "ok" => \A S \in SUBSET Member : Stuck(S) => S = {}
    BY DEF IInv, OrderInv
  <2>2. ASSUME verdict \in {"circular", "missing"}
        PROVE  \E S \in SUBSET Member : S # {} /\ S \cap started = {} /\ Stuck(S)
    <3>1. /\ started # Member
          /\ \A m \in Member \ started : ~(deps[m] \subseteq started)
      BY <2>2 DEF IInv, LintInv
    <3>2. Stuck(Member \ started)
      BY <2>0, <3>1, LeftoverIsStuck
    <3> QED BY <2>0, <3>1, <3>2
  <2>3. ASSUME verdict = "circular"
        PROVE  \E S \in SUBSET oTree : S # {} /\ \A m \in S : deps[m] \cap S # {}
    <3>1. oTree # {} /\ \A m \in oTree : deps[m] \cap oTree # {}
      BY <2>3 DEF IInv, LintInv
    <3> QED BY <3>1
  <2>4. verdict = "missing" => Missing \in deps[oCurrent]
    BY DEF IInv, LintInv
  <2> QED BY <2>1, <2>2, <2>3, <2>4 DEF StartsIffPossible
<1> QED BY <1>1, Invariance, PTL

=============================================================================
