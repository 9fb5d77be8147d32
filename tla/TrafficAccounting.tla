-------------------------- MODULE TrafficAccounting --------------------------
(***************************************************************************)
(* The traffic accounting of one run of the proxy: TrafficAccounting, the  *)
(* TrafficLooper that sweeps it and pushes the figures to the foreground   *)
(* callbacks, the three writers that bring the increments into the         *)
(* database, and the user interface clearing traffic in the database from  *)
(* another process.                                                        *)
(*                                                                         *)
(* One counter stands for both directions: upload and download are queried *)
(* and credited side by side and never mixed.  Rates and the session volume*)
(* are left out, and with them the tag "bypass", which is credited to no   *)
(* node.  DataStore.profileTrafficStatistics and the speed display are on. *)
(***************************************************************************)
EXTENDS Naturals, FiniteSets

CONSTANTS Sets,       \* TrafficBindings.tags: outbound tag -> set of node ids
          RuleTags,   \* TrafficBindings.ruleTags
          Member,     \* selector mode: node id -> outbound tag; otherwise <<>>
          SelectedId, \* the main node of the built configuration
          Initial,    \* TrafficBindings.initial: node id -> bytes in the database
          Callback,   \* binders of the activity that may come to the foreground
          MaxBytes,   \* bound: bytes the core carries in one behaviour
          MaxClears   \* bound: times the user clears traffic

TAG_PROXY == "proxy"
Tag == DOMAIN Sets
Ids == UNION {Sets[t] : t \in Tag}

ASSUME BindingsAssumption ==
  /\ Initial \in [Ids -> Nat]
  /\ MaxBytes \in Nat /\ MaxClears \in Nat

selectorMode == DOMAIN Member # {}

queryTags == IF selectorMode THEN {TAG_PROXY} \cup RuleTags ELSE Tag

\* flushStats at the end of stop, persistStats on ACTION_SHUTDOWN, selectMain.
Writer == {"final", "shutdown", "select"}

VARIABLES counter,    \* bytes in the core's counter of each queried outbound
          carried,    \* bytes the core has carried so far
          boxOpen,    \* the box has not been closed
          state,      \* BaseService.Data.state, as far as this run goes
          loop,       \* the coroutine of TrafficLooper.loop
          built,      \* TrafficLooper.accounting is set
          totals, baseline, clearEpochs, selectedSet, dirty,
          phase,      \* where the loop is in a round
          todo, hand, \* sweep: tags still to query, bytes taken and not credited
          changed,    \* Round.changed
          postedTo,   \* TrafficPosts.postedTo
          foreground, \* callbacks registered as the foreground activity
          shown,      \* the figures each callback has received last
          writer,     \* per writer: its phase, node ids and claim
          rows,       \* the snapshot flushStats will post when stop ends
          db,         \* proxy_entities.tx / rx
          broadcasts, \* CLEAR_TRAFFIC_STATISTICS broadcasts not handled yet
          clears,     \* times the user cleared so far
          \* history, for the properties only:
          credited,   \* bytes credited to a node
          forgotten,  \* bytes given up because the user cleared them
          allowance   \* since the last wipe: what the database may come to hold

coreVars == <<counter, carried, boxOpen>>
accVars  == <<built, totals, baseline, clearEpochs, selectedSet, dirty>>
sweepVars == <<state, loop, phase, todo, hand, changed>>
postVars == <<postedTo, foreground, shown>>
dbVars   == <<db, broadcasts, clears>>
history  == <<credited, forgotten, allowance>>
vars == <<coreVars, accVars, sweepVars, postVars, writer, rows, dbVars, history>>

Zero == [i \in Ids |-> 0]
Nothing == [tag |-> TAG_PROXY, bytes |-> 0]
NoChange == [ids |-> {}, totals |-> Zero]
IdleWriter == [phase |-> "idle", ids |-> {}, inc |-> Zero, epochs |-> Zero]

\* Still to be persisted, and claimed by a writer that has not finished.
Unpersisted(i) == totals[i] - baseline[i]
InFlight(i) == writer["final"].inc[i] + writer["shutdown"].inc[i] + writer["select"].inc[i]

CoreType ==
  /\ counter \in [queryTags -> Nat]
  /\ carried \in 0..MaxBytes
  /\ boxOpen \in BOOLEAN

AccountType ==
  /\ built \in BOOLEAN
  /\ totals \in [Ids -> Nat] /\ baseline \in [Ids -> Nat] /\ clearEpochs \in [Ids -> Nat]
  /\ selectedSet \in SUBSET Ids /\ dirty \in SUBSET Ids

SweepType ==
  /\ state \in {"Connecting", "Connected", "Stopping"}
  /\ loop \in {"running", "cancelled", "joined"}
  /\ phase \in {"delay", "sweep", "push"}
  /\ todo \in SUBSET queryTags
  /\ hand \in [tag : queryTags \cup {TAG_PROXY}, bytes : Nat]
  /\ changed \in [ids : SUBSET Ids, totals : [Ids -> Nat]]

PostType ==
  /\ postedTo \in SUBSET Callback /\ foreground \in SUBSET Callback
  /\ shown \in [Callback -> [Ids -> Nat]]
  /\ rows \in [Ids -> Nat]

Claims == [phase : {"idle", "claiming", "writing"}, ids : SUBSET Ids,
           inc : [Ids -> Nat], epochs : [Ids -> Nat]]

WriterType == writer \in [Writer -> Claims]

DbType ==
  /\ db \in [Ids -> Nat]
  /\ broadcasts \in [1..MaxClears -> SUBSET Ids]
  /\ clears \in 0..MaxClears

HistoryType ==
  credited \in [Ids -> Nat] /\ forgotten \in [Ids -> Nat] /\ allowance \in [Ids -> Nat]

TypeOK ==
  CoreType /\ AccountType /\ SweepType /\ PostType /\ WriterType /\ DbType /\ HistoryType

-----------------------------------------------------------------------------
(* The accounting's own helpers. *)

\* The set credited while member id is selected: the nodes of its outbound, or
\* the node alone when the outbound carries no statistics of its own.
memberSet(id) ==
  IF Member[id] \in Tag THEN Sets[Member[id]] ELSE {id} \cap Ids

initialSet == IF SelectedId \in DOMAIN Member THEN memberSet(SelectedId) ELSE {}

creditSet(t) ==
  IF selectorMode /\ t = TAG_PROXY THEN selectedSet
  ELSE IF t \in Tag THEN Sets[t] ELSE {}

\* box.queryStats takes the bytes out of the counter; a closed box answers 0.
query(t) == IF boxOpen THEN counter[t] ELSE 0
queried(t) == IF boxOpen THEN [counter EXCEPT ![t] = 0] ELSE counter

\* Mutant: a credited node is not marked for the next push.
credit_unmarked(ids, n) ==
  /\ totals' = [i \in Ids |-> IF i \in ids THEN totals[i] + n ELSE totals[i]]
  /\ credited' = [i \in Ids |-> IF i \in ids THEN credited[i] + n ELSE credited[i]]
  /\ allowance' = [i \in Ids |-> IF i \in ids THEN allowance[i] + n ELSE allowance[i]]
  /\ UNCHANGED <<dirty, forgotten>>

credit(ids, n) ==
  /\ totals' = [i \in Ids |-> IF i \in ids THEN totals[i] + n ELSE totals[i]]
  /\ dirty' = IF n = 0 THEN dirty ELSE dirty \cup ids
  /\ credited' = [i \in Ids |-> IF i \in ids THEN credited[i] + n ELSE credited[i]]
  /\ allowance' = [i \in Ids |-> IF i \in ids THEN allowance[i] + n ELSE allowance[i]]
  /\ UNCHANGED forgotten

\* Mutant: the other methods do not take the lock.
LockFree_never == TRUE

\* The accounting's lock is held for the whole of a sweep; the other methods
\* take it for one step.
LockFree == phase # "sweep"

Init ==
  /\ counter = [t \in queryTags |-> 0] /\ carried = 0 /\ boxOpen = TRUE
  /\ state = "Connecting" /\ loop = "running" /\ phase = "delay" /\ todo = {} /\ hand = Nothing
  /\ changed = NoChange
  /\ built = FALSE
  /\ totals = Initial /\ baseline = Initial
  /\ clearEpochs = Zero /\ selectedSet = {} /\ dirty = {}
  /\ postedTo = {} /\ foreground = {} /\ shown = [c \in Callback |-> Zero]
  /\ writer = [w \in Writer |-> IdleWriter]
  /\ rows = Zero
  /\ db = Initial /\ broadcasts = [n \in 1..MaxClears |-> {}] /\ clears = 0
  /\ credited = Zero /\ forgotten = Zero /\ allowance = Initial

-----------------------------------------------------------------------------
(* The core. *)

\* External: a connection through outbound t carries a byte.
Traffic(t) ==
  /\ boxOpen
  /\ carried < MaxBytes
  /\ carried' = carried + 1
  /\ counter' = [counter EXCEPT ![t] = @ + 1]
  /\ UNCHANGED <<boxOpen, accVars, sweepVars, postVars, writer, rows, dbVars, history>>

\* Box.Close; with ProxyInstance.close's fall-back it may overtake the loop.
CloseBox ==
  /\ boxOpen
  /\ boxOpen' = FALSE
  /\ UNCHANGED <<counter, carried, accVars, sweepVars, postVars, writer, rows, dbVars, history>>

-----------------------------------------------------------------------------
(* TrafficLooper.loop: one round. *)

\* The first round only builds the accounting, on the totals the configuration
\* was built with.
Build ==
  /\ loop = "running" /\ phase = "delay" /\ ~built
  /\ built' = TRUE
  /\ selectedSet' = initialSet
  /\ UNCHANGED <<coreVars, totals, baseline, clearEpochs, dirty, sweepVars, postVars,
                 writer, rows, dbVars, history>>

SweepBegin ==
  /\ loop = "running" /\ phase = "delay" /\ built
  /\ phase' = "sweep"
  /\ todo' = queryTags
  /\ UNCHANGED <<coreVars, accVars, state, loop, hand, changed, postVars, writer, rows, dbVars, history>>

\* The bytes are out of the core and not credited yet.
SweepQuery(t) ==
  /\ phase = "sweep" /\ t \in todo /\ hand.bytes = 0
  /\ TAG_PROXY \in todo => t = TAG_PROXY
  /\ todo' = todo \ {t}
  /\ hand' = [tag |-> t, bytes |-> query(t)]
  /\ counter' = queried(t)
  /\ UNCHANGED <<carried, boxOpen, accVars, state, loop, phase, changed, postVars, writer, rows,
                 dbVars, history>>

SweepCredit ==
  /\ phase = "sweep" /\ hand.bytes > 0
  /\ credit(creditSet(hand.tag), hand.bytes)
  /\ hand' = Nothing
  /\ UNCHANGED <<coreVars, built, baseline, clearEpochs, selectedSet, state, loop, phase, todo,
                 changed, postVars, writer, rows, dbVars>>

\* The changed nodes leave the dirty set; a cancelled loop pushes nothing.
SweepEnd ==
  /\ phase = "sweep" /\ todo = {} /\ hand.bytes = 0
  /\ dirty' = {}
  /\ IF loop = "running"
     THEN phase' = "push" /\ changed' = [ids |-> dirty, totals |-> totals]
     ELSE phase' = "delay" /\ changed' = NoChange
  /\ UNCHANGED <<coreVars, built, totals, baseline, clearEpochs, selectedSet, state, loop, todo,
                 hand, postVars, writer, rows, dbVars, history>>

\* TrafficPosts.itemsFor: what callback c has seen after this round's push.
itemsFor(c) ==
  IF c \in postedTo THEN [i \in Ids |-> IF i \in changed.ids THEN changed.totals[i] ELSE shown[c][i]]
                    ELSE totals

\* TrafficPosts.endRound
endRound(delivered) == postedTo' = delivered

\* Outside the lock, the foreground callbacks get this round's changes, and a
\* callback that was not there last round gets everything.  Unless the service
\* is Connected nobody gets anything.
Push ==
  /\ phase = "push"
  /\ phase' = "delay"
  /\ LET delivered == IF state = "Connected" THEN foreground ELSE {}
     IN  /\ shown' = [c \in Callback |-> IF c \in delivered THEN itemsFor(c) ELSE shown[c]]
         /\ endRound(delivered)
  /\ changed' = NoChange
  /\ UNCHANGED <<coreVars, accVars, state, loop, todo, hand, foreground, writer, rows,
                 dbVars, history>>

\* The activity comes to the foreground or leaves it.
Foreground(c) ==
  /\ foreground' = IF c \in foreground THEN foreground \ {c} ELSE foreground \cup {c}
  /\ UNCHANGED <<coreVars, accVars, sweepVars, postedTo, shown, writer, rows, dbVars, history>>

\* The loop starts at the end of launch, before the service is Connected.
ChangeState ==
  /\ \/ state = "Connecting" /\ state' = "Connected"
     \/ state \in {"Connecting", "Connected"} /\ state' = "Stopping"
  /\ UNCHANGED <<coreVars, accVars, loop, phase, todo, hand, changed, postVars, writer, rows,
                 dbVars, history>>

\* stopLoop: cancel, then join; the round under way runs to its end.
StopLoop ==
  /\ state = "Stopping"
  /\ \/ loop = "running" /\ loop' = "cancelled"
     \/ loop = "cancelled" /\ phase = "delay" /\ loop' = "joined"
  /\ UNCHANGED <<coreVars, accVars, state, phase, todo, hand, changed, postVars, writer, rows,
                 dbVars, history>>

-----------------------------------------------------------------------------
(* Switching the selector. *)

\* selectMain(id), on the serial dispatcher: what proxy carried so far goes to
\* the old member's set, whose increments are persisted next.  A switch to a
\* node that is not a member, or before the accounting exists, is dropped.
Select(id) ==
  /\ LockFree /\ built
  /\ id \in DOMAIN Member
  /\ writer["select"].phase = "idle"
  /\ credit(selectedSet, query(TAG_PROXY))
  /\ counter' = queried(TAG_PROXY)
  /\ selectedSet' = memberSet(id)
  /\ writer' = IF selectedSet = {} THEN writer
               ELSE [writer EXCEPT !["select"] = [IdleWriter EXCEPT !.phase = "claiming",
                                                                    !.ids = selectedSet]]
  /\ UNCHANGED <<carried, boxOpen, built, baseline, clearEpochs, sweepVars, postVars, rows, dbVars>>

-----------------------------------------------------------------------------
(* Persisting. *)

\* flushStats for stop (after the loop was joined) or for the shutdown
\* broadcast: the nodes of the proxy that is current by then, so any subset of
\* this run's nodes, and a snapshot of the totals to post.
Flush(w, bound) ==
  /\ w \in {"final", "shutdown"}
  /\ w = "final" => loop = "joined"
  /\ LockFree /\ built
  /\ writer[w].phase = "idle"
  /\ bound # {}
  /\ writer' = [writer EXCEPT ![w] = [IdleWriter EXCEPT !.phase = "claiming", !.ids = bound]]
  /\ rows' = IF w = "final" THEN totals ELSE rows
  /\ UNCHANGED <<coreVars, accVars, sweepVars, postVars, dbVars, history>>

\* claim: take the increments and move the baseline up to the totals.
claim(ids) == [i \in Ids |-> IF i \in ids THEN Unpersisted(i) ELSE 0]

\* Mutant: the baseline moves only when the write succeeds, that is, not here.
claimedBaseline_unmoved(ids) == baseline

claimedBaseline(ids) == [i \in Ids |-> IF i \in ids THEN totals[i] ELSE baseline[i]]

claimEpochs(ids) ==
  [i \in Ids |-> IF i \in ids /\ Unpersisted(i) # 0 THEN clearEpochs[i] ELSE 0]

Claim(w) ==
  /\ writer[w].phase = "claiming"
  /\ LockFree
  /\ claim(writer[w].ids) # Zero
  /\ writer' = [writer EXCEPT ![w].phase = "writing", ![w].inc = claim(writer[w].ids),
                              ![w].epochs = claimEpochs(writer[w].ids)]
  /\ baseline' = claimedBaseline(writer[w].ids)
  /\ UNCHANGED <<coreVars, built, totals, clearEpochs, selectedSet, dirty, sweepVars, postVars,
                 rows, dbVars, history>>

\* The end of postFinalTraffic: the snapshot goes to every callback.
postFinalTraffic(w) ==
  IF w = "final"
  THEN /\ shown' = [c \in Callback |->
                      [i \in Ids |-> IF i \in writer[w].ids THEN rows[i] ELSE shown[c][i]]]
       /\ rows' = Zero
  ELSE UNCHANGED <<shown, rows>>

\* No increments: nothing is written.
ClaimNothing(w) ==
  /\ writer[w].phase = "claiming"
  /\ LockFree
  /\ claim(writer[w].ids) = Zero
  /\ writer' = [writer EXCEPT ![w] = IdleWriter]
  /\ postFinalTraffic(w)
  /\ UNCHANGED <<coreVars, accVars, sweepVars, postedTo, foreground, dbVars, history>>

\* Mutant: the absolute totals are written, not the increments.
addTraffic_absolute(inc) == [i \in Ids |-> IF inc[i] # 0 THEN totals[i] ELSE db[i]]

\* persistTrafficIncrements: one transaction adds the increments.
addTraffic(inc) == [i \in Ids |-> db[i] + inc[i]]

Persist(w) ==
  /\ writer[w].phase = "writing"
  /\ db' = addTraffic(writer[w].inc)
  /\ writer' = [writer EXCEPT ![w] = IdleWriter]
  /\ postFinalTraffic(w)
  /\ UNCHANGED <<coreVars, accVars, sweepVars, postedTo, foreground, broadcasts, clears, history>>

\* A node that was cleared after the claim: its increment is not handed back.
stale(w, i) == clearEpochs[i] # writer[w].epochs[i]

\* release: the transaction failed, so the baseline moves back.
release(w) ==
  [i \in Ids |-> IF stale(w, i) THEN baseline[i] ELSE baseline[i] - writer[w].inc[i]]

PersistFails(w) ==
  /\ writer[w].phase = "writing"
  /\ LockFree
  /\ baseline' = release(w)
  /\ writer' = [writer EXCEPT ![w] = IdleWriter]
  /\ rows' = IF w = "final" THEN Zero ELSE rows
  /\ forgotten' = [i \in Ids |-> IF clearEpochs[i] # writer[w].epochs[i]
                                 THEN forgotten[i] + writer[w].inc[i] ELSE forgotten[i]]
  /\ UNCHANGED <<coreVars, built, totals, clearEpochs, selectedSet, dirty, sweepVars, postVars,
                 dbVars, credited, allowance>>

-----------------------------------------------------------------------------
(* Clearing. *)

\* GroupMaintenance.clearTraffic, in the user interface's process: the nodes of
\* a group found with traffic in the database are written to 0 there, and then
\* the service is told.  (Rows are read before the write and only grow in
\* between: any of the non-zero rows may be the ones found.)
UiClear(ids) ==
  /\ clears < MaxClears
  /\ ids # {}
  /\ \A i \in ids : db[i] # 0
  /\ clears' = clears + 1
  /\ db' = [i \in Ids |-> IF i \in ids THEN 0 ELSE db[i]]
  /\ broadcasts' = [broadcasts EXCEPT ![clears + 1] = ids]
  /\ forgotten' = [i \in Ids |-> IF i \in ids THEN forgotten[i] + db[i] ELSE forgotten[i]]
  /\ allowance' = [i \in Ids |-> IF i \in ids THEN Unpersisted(i) + InFlight(i) ELSE allowance[i]]
  /\ UNCHANGED <<coreVars, accVars, sweepVars, postVars, writer, rows, credited>>

\* clear: totals and baseline go to 0 together.
clear(f, ids) == [i \in Ids |-> IF i \in ids THEN 0 ELSE f[i]]

clearedBaseline(ids) == clear(baseline, ids)

\* The broadcast handler, on the Default dispatcher: broadcasts may be handled
\* late and in any order.  Before the accounting exists they are dropped.
ClearStats(n) ==
  /\ broadcasts[n] # {}
  /\ broadcasts' = [broadcasts EXCEPT ![n] = {}]
  /\ \/ /\ ~built
        /\ UNCHANGED <<accVars, history>>
     \/ /\ built
        /\ LockFree
        /\ totals' = clear(totals, broadcasts[n])
        /\ baseline' = clearedBaseline(broadcasts[n])
        /\ clearEpochs' = [i \in Ids |-> IF i \in broadcasts[n] THEN clearEpochs[i] + 1
                                         ELSE clearEpochs[i]]
        /\ dirty' = dirty \cup broadcasts[n]
        /\ forgotten' = [i \in Ids |-> IF i \in broadcasts[n] THEN forgotten[i] + Unpersisted(i)
                                       ELSE forgotten[i]]
        /\ UNCHANGED <<built, selectedSet, credited, allowance>>
  /\ UNCHANGED <<coreVars, sweepVars, postVars, writer, rows, db, clears>>

-----------------------------------------------------------------------------

LoopStep ==
  \/ Build \/ SweepBegin \/ SweepCredit \/ SweepEnd \/ Push
  \/ \E t \in queryTags : SweepQuery(t)

WriterStep == \E w \in Writer : Claim(w) \/ ClaimNothing(w) \/ Persist(w) \/ PersistFails(w)

Next ==
  \/ LoopStep
  \/ WriterStep
  \/ ChangeState
  \/ StopLoop
  \/ CloseBox
  \/ \E t \in queryTags : Traffic(t)
  \/ \E c \in Callback : Foreground(c)
  \/ \E id \in DOMAIN Member : Select(id)
  \/ \E w \in Writer, bound \in SUBSET Ids : Flush(w, bound)
  \/ \E ids \in SUBSET Ids : UiClear(ids)
  \/ \E n \in 1..MaxClears : ClearStats(n)

\* The loop's coroutine keeps being scheduled.
Spec == Init /\ [][Next]_vars /\ WF_vars(LoopStep)

-----------------------------------------------------------------------------
(* Properties *)

\* No byte is lost or counted twice on its way from a credit to the database,
\* whichever writers overlap, fail or race with a clear: the database, the
\* claims being written and the totals above the baseline add up to what was
\* there plus what was credited, less what the user cleared (claim / release).
Conservation ==
  \A i \in Ids :
    db[i] + InFlight(i) + Unpersisted(i) + forgotten[i] = Initial[i] + credited[i]

\* Cleared traffic does not come back: after the user interface has written 0,
\* the database never comes to hold more than what was not persisted at that
\* moment plus what is credited from then on (increments, not absolute values).
ClearedStaysCleared ==
  \A i \in Ids : db[i] + InFlight(i) + Unpersisted(i) <= allowance[i]

\* The baseline stays between 0 and the totals, so no claim is ever negative,
\* also when a failed write hands back its increment after a clear.
BaselineWithinTotals ==
  \A i \in Ids : 0 <= baseline[i] /\ baseline[i] <= totals[i]

\* A switch never comes between a sweep taking bytes from proxy and crediting
\* them: they go to the set that was selected when they were taken.
SwitchNeverStealsBytes == [][ hand.bytes > 0 => selectedSet' = selectedSet ]_vars

\* The figures of a callback that receives only the changes are the current
\* totals, for every node that is not about to be pushed (TrafficPosts, dirty).
ShownIsCurrent ==
  loop = "running" =>
    \A c \in postedTo, i \in Ids \ dirty :
      IF phase = "push" /\ i \in changed.ids THEN changed.totals[i] = totals[i]
                                             ELSE shown[c][i] = totals[i]

\* No change is lost between the dirty set, a round and the callbacks: an
\* activity that stays in the foreground of a service that stays connected ends
\* up with the current totals (traffic and clears are bounded here).
ForegroundCatchesUp ==
  \A c \in Callback :
    <>[](state = "Connected" /\ c \in foreground) => <>[](shown[c] = totals)

\* The comment on baseline and on clear: what the accounting takes to be in the
\* database is what is there, once nothing is being written or cleared.
BaselineIsPersisted ==
  built /\ (\A n \in 1..MaxClears : broadcasts[n] = {}) /\ (\A i \in Ids : InFlight(i) = 0)
    => baseline = db

Book == INSTANCE TrafficLedger WITH
  Node <- Ids,
  due <- [i \in Ids |-> Unpersisted(i) + InFlight(i)],
  lost <- forgotten

\* Claims, overlapping writers, failed transactions and late broadcasts implement one
\* atomic book (TrafficAccounting, persistTrafficIncrements): the database changes only by
\* adding bytes that were due, each once, or by the user clearing a node, and bytes are
\* given up only for nodes that were cleared.
ImplementsTrafficLedger == Book!Spec

=============================================================================
