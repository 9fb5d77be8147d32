# Verification of NekoBoxForAndroid

TLA+ models of the stateful core of NekoBoxForAndroid, checked with TLC and proved with TLAPS.
`PROJECT.json` lists every run, the source lines behind every definition, the hazards and the
findings. Paths below are relative to `src/app/src/main/java/io/nekohasekai/sagernet/` unless they
begin with `libcore/`.

## 1. The system

NekoBox is a proxy client. It runs as two processes of one app: **main** (the user interface, the
editors, manual subscription updates, backup import) and **:bg** (the VPN or proxy service, the
traffic statistics, the periodic subscription work). Both open the same two SQLite files
(`SagerDatabase`: profiles, groups, rules; `PublicDatabase`: settings) and share nothing else but
files, broadcasts and a binder. The proxying itself is done by sing-box, wrapped by the Go library
`libcore`.

| Component | State | Operations | Interacts with |
|---|---|---|---|
| Proxy service (`bg/BaseService.kt`, `VpnService.kt`, `ProxyService.kt`) | `Data` per Service object: state, `connectingJob`, `proxy`, `pendingStart`, `conn` | `onStartCommand`, `startConnecting`, `reload`, `stopRunner`, `destroyRunner` | Android framework, registry, box |
| Service registry (`bg/ServiceRegistry.kt`) | registered base and VPN service, process-wide state | `claim*`, `release*`, `setState`, `settleStoppedIfUnclaimed` | both service classes, Go callbacks |
| Box instances (`bg/proto/BoxInstance.kt`, `ProxyInstance.kt`, `TestInstance.kt`) | box, `closed`, processes, looper | `init`, `launch`, `close` | libcore, process pool |
| Core box (`libcore/box.go`, `protect.go`) | state and core per box under its mutex, `mainInstance` and the protect server under another | `Start`, `Close`, `SetAsMain`, `Sleep`, `Wake`, `QueryStats`, `SelectOutbound`, `UrlTest`, `ResetAllConnections` | sing-box, Kotlin callbacks |
| sing-box startup (`libcore/sing-box/box.go`, `adapter/lifecycle.go`, `adapter/outbound/manager.go`, `dns/transport_manager.go`) | scopes with their cleanups, the members started so far | the stages of `Box.Start`, `Scope.Start`, `Scope.Close` | every component of the core |
| DNS rule router (`libcore/sing-box/dns/router.go`) | per query: rule index, futures, armed rules, suspension, a wake-up channel | `walkDNSRules`, `sweepArmedDNSRules`, `resumeExchangeWithRules`, `exchangeLegacy`, `Lookup` | DNS client |
| DNS client and cache file (`libcore/sing-box/dns/client.go`, `experimental/cachefile/dns_cache.go`) | memory cache, `cacheLock`, pending saves, the file | `Exchange`, `ExchangeAsync`, `storeCache`, `backgroundRefreshDNS`, flush, clear | transports, rule router |
| Resolvers (`libcore/lookup.go`, `dns_sequential.go`, `dns_box.go`, `dns_android.go`) | one call: the server asked, results, contexts, a descriptor | `lookupHosts`, `SequentialTransport.Exchange`, `awaitPlatform`, `rawQueryFunc` | platform resolver, Kotlin callbacks |
| Plugin processes (`bg/GuardedProcessPool.kt`) | guards with a looper each | `start`, restart after a death, `close` | external cores |
| Traffic accounting (`bg/proto/TrafficAccounting.kt`, `TrafficLooper.kt`) | totals, baseline, clear epochs, selected set, dirty set | `sweep`, `select`, `clear`, `claim`, `release`, `persist` | core counters, database, foreground activity |
| Service connection (`bg/SagerConnection.kt`) | binder, callback, foreground flag | bind, unbind, death | both processes |
| Network listener (`utils/DefaultNetworkListener.kt`) | an actor with the listeners and the network | start, get, stop, callbacks | framework |
| Backup restore (`database/BackupRestore.kt`, `RestoreJournal.kt`, `ui/BackupFragment.kt`) | `pending.json` with attempts, file lock, data generation | stage, commit, compensate, replay at start | both databases, both processes |
| Subscription update (`group/GroupUpdater.kt`, `RawUpdater.kt`, `SubscriptionIdentity.kt`) | `updating` marker per process, `group_update_<id>.lock`, a snapshot held across a download | `executeUpdate`, `doUpdate` | database, both processes, restore |
| Storage and editors (`database/ProfileManager.kt`, `GroupManager.kt`, `ProxyConfigChange.kt`, editors) | rows | column-wise writes in transactions | updates, tests, traffic |
| Geo assets, HTTP (`libcore/*.go`) | a small cache | - | sing-box |
| Configuration builder and formats (`fmt/`) | none | pure translation of profiles | - |

What is hard here, and what correctness means:

* **Service.** Coroutines on the main thread, IO threads and Go threads interleave; the framework
  may destroy a service at any moment; a mode switch runs two services at once. No stopped or
  destroyed service may keep a resource; the registry belongs to the newest owner; a start requested
  while stopping is not lost; a stop completes.
* **Traffic.** Three writers claim increments, each may fail, while the user clears the figures from
  the other process. No byte is lost or counted twice, and what was cleared does not come back.
* **Restore.** Two databases, two commits, two processes and death anywhere. Nothing stays half
  restored without a journal, and a backup reported as rolled back is not applied afterwards.
* **Updates.** Tens of seconds lie between reading rows and writing them by id; meanwhile rows are
  edited, tested, deleted or replaced by a restore that reuses their ids.
* **Boxes.** Kotlin coroutines, Go threads and a callback from Go into Kotlin and back meet on two
  mutexes. A closed box is not used and is not the main instance; close leaves neither core nor loop
  behind, whenever it comes; nobody waits on himself.
* **Start of the core.** Some fifteen components in four stages, any of which may fail; members with
  dependencies on each other. What was started is closed, users before what they use.
* **DNS.** Answers come late, twice, out of order or never, while the caller cancels and the network
  changes. Servers and rules count in their listed order, every call ends, nothing is left waiting,
  and a cached answer is the last one stored for that network.

## 2. Modules

| Module | Models | Proofs | Runs |
|---|---|---|---|
| `ServiceLifecycle` | service objects, registry, connecting job, box, tun descriptor | `ServiceLifecycle_proofs` | `service_*` |
| `TrafficAccounting` | one run's accounting, loop, writers, display, clear | `TrafficAccounting_proofs` | `traffic_persistence` |
| `TrafficLedger` | abstract: each credited byte reaches the database once; `TrafficAccounting` implements it | - | `traffic_persistence` |
| `RestoreJournal` | journal, two databases, lock, both processes | `RestoreJournal_proofs` | `restore_crash` |
| `AtomicRestore` | abstract: content changes by whole imports and rollbacks; `RestoreJournal` implements it | - | `restore_crash` |
| `SubscriptionUpdate` | updates of one group against every other writer of its rows | `SubscriptionUpdate_proofs` | `subscription_races` |
| `BoxLifecycle` | Kotlin and Go halves of box instances, both mutexes, the traffic loop's start and stop | `BoxLifecycle_proofs` | `box_lifecycle` |
| `GuardedBoxes` | abstract: boxes used only while open; `BoxLifecycle` implements it | - | `box_lifecycle` |
| `CoreStartup` | stages, scopes and dependency order of a sing-box start and its close | `CoreStartup_proofs` | `core_startup` |
| `Resolvers` | one call of `lookupHosts` or of the sequential transport down to the descriptor | `Resolvers_proofs` | `resolvers` |
| `OrderedFallback` | abstract: ask servers in order, first answer is final; `Resolvers` implements it | - | `resolvers` |
| `DnsRuleWalk` | one DNS query through the rule router, walk and legacy modes | `Dns_proofs` | `dns_walk`, `dns_race` |
| `DnsCache` | queries of one question, memory cache, write-behind file | `Dns_proofs` | `dns_cache` |

`MC*.tla` instantiate them for TLC. The modules touch at these places and agree there: the service
waits for the last traffic flush when it stops (`stopRunner` / writer `final`); a restore bumps the
data generation (`gen` in `RestoreJournal` and `SubscriptionUpdate`) in the transaction that replaces
the rows; the traffic columns are written by increment, so that updates, which write the configuration
columns only, and the accounting do not meet; `ServiceLifecycle` uses what `BoxLifecycle` shows of a
box (a start and a close exclude each other, a closed owner leaves nothing); `BoxLifecycle` takes the
start of the core as one step that succeeds or closes what it started, which is what `CoreStartup`
shows; and an exchange in `DnsRuleWalk` is a call that ends, which `DnsCache` and `Resolvers` show.

### ServiceLifecycle
One element of `Instance` is one Service object. All methods run on the main thread of :bg, so a body
up to its next suspension is one action; `job` names the suspension `connectingJob` is in, and code
on the IO dispatcher or a Go thread is an action of its own (`ProxyInit`, `ProxyLaunch`, `StartVpn`,
`BoxStarted`). `destroyRunner` is cut in three, because `startVpn` runs concurrently with it.
`requests` are `startForegroundService` calls the framework has not delivered. Destruction by the
framework, refusal of a start and failure of every stage are choices. `owed` is a history variable: the
objects that were told to start while they were stopping, or stopped by a reload, until the start has
been sent to the framework or the framework has refused it. (A reload that finds its object already
destroyed is owed nothing.) Opening the tun fails when no
VPN service is registered, as `openTun` does. Left out: notifications, the wake-lock setting, binder
callbacks, and a box that asks for its tun after another VPN object has registered, whose `startVpn`
would serve it (the model uses its own).

### TrafficAccounting
`Sets`, `Member`, `RuleTags` and `Initial` are the bindings of the built configuration. A sweep is one
query per tag under the accounting's lock (`SweepQuery` takes the bytes, then credits); `Traffic`
increments the core's counters at any time. The writers `final`, `shutdown` and `select` claim, write
in a transaction that may fail, and release. The user interface writes 0 in its own process and its
broadcast arrives later, in any order. One counter stands for upload and download, which are handled
side by side; rates, the session volume and the tag `bypass` are left out. `credited`, `forgotten` and
`allowance` are history variables. In the mapping to `TrafficLedger` a byte is due while it is in the
totals and not in the baseline, or in the claim of a writer; what is lost is `forgotten`. Every write to the database is then a posting of bytes that were due, a clear wipes a
node at once, and the late broadcast, or a stale claim whose write fails, drops what is due of nodes
wiped before.

### RestoreJournal
A section of the databases holds the number of the import its content comes from. Each process is
dead, running, waiting for the file lock, or at one step inside it. A process may die before any step;
any read, write or commit may fail; `Die` frees the lock. An import selects any set of sections. Left
out: decoding and integrity checks, the merge of settings, other writers of the databases (they are in
`SubscriptionUpdate`), a `File.delete` that fails, and `rulesFirstCreate`. The compensating commit and
the `journal.clear()` after it are one step: a death between them leaves the journal, and the next start
replays it, as after a death before the commit. In the mapping to
`AtomicRestore` a staged import counts as applied, since whoever finds its journal applies it; what a
rollback would leave are the rows of the profile database read for the compensation, beside the present
settings. The import becomes final when its settings are committed, or when its process dies or gives
up the lock with the journal in place. `torn` says
that a journal was given up or replaced (`lost`): from there on nothing is promised.

### SubscriptionUpdate
One group, its rows by id, and requests in both processes. An update marks the group, takes the file
lock, reads the generation, the group and (after the download) the rows, compares, and commits one
transaction: insert, delete and overwrite by id, lastUpdated. What is published is chosen when the
rows are read; resolution of addresses lies between that and the transaction. The profile editor
saves any name and configuration, however old; the group editor reads and writes in two steps;
connection tests write what they measured in one batch; a process may die anywhere.

A configuration is what is published, the local override (which stands for the custom JSON fields), the
core chosen and, for AnyTLS, the certificate policy with the source of it. `replaceSubscriptionBean` is
`merged`: the override stays, the core stays unless the protocol type changes, and of two certificate
policies the published one replaces one that was only migrated, one the user set stays, and one of
unknown source that differs makes the update fail and the transaction roll back (`policyConflict`,
`PoliciesMerge`).

A restore replaces everything and bumps the generation, at any time: it may be the replay of a journal by
the other process, so editors, saves, tests and updates stay open across it. `upgraded` is what
`BackupRestore.decode` does to each row: canonical xhttp settings, labels and cores of older versions, a
policy for an AnyTLS profile without one. Which values it gives are constants (`canonical`,
`legacyCore`, `legacyPolicy`), and decoding twice changes nothing. Test results are restored as they are,
so a result may be one of the configuration before the upgrade. A backup need not have distinct names, and
its lastUpdated may be anything.

`born` is the generation a row was inserted in, `loose` the rows restored or renamed since an update
compared their names, `stray` that the group's lastUpdated was kept by a save decided before a restore,
or came with a backup that has it from another link (all history). Left out: the order of profiles (rows are listed by id), the
remote name and name server, front and landing proxies, the selected profile, identity settings other
than the link, moving rows (not offered for subscription groups), clearing test results, imports into the
group, changes of the global setting that a migrated policy is taken from.

### BoxLifecycle
`Box` are the instances, `Proxy` those of the service (the others are test instances), `Thread` the
threads that call into them. A call is invoked, walks from label to label (`at`) and returns; a label
lies before every lock and wherever another thread can get between two accesses. `state`, `access`,
`core`, `mainInstance`, `mainInstanceAccess` and `protect` are the Go side; `closed`, `looper`,
`stopped`, `job`, `block` and `stopper` the Kotlin side: the flag of `close()`, the looper reference,
the job, the coroutine block of `launch()` and the one `close()` hands out. The refinement mapping
takes the abstract box as open while `state` is not `boxClosed`, its user as the holder of `access`
while it is open, and reads a main instance that is being closed as none. Left out: external processes
and temporary files (their failures are a choice), what pauses do inside the core.

### CoreStartup
`Plan` is the list of stages and components of `Box.preStart` and `Box.start`. `cleanups` is the stack
of `Box.scope`; `held` are the components whose own scope has something to release. A component may
fail before or after it has added to its scope. For the managers the model chooses a dependency graph
and runs the passes, in any order of members, and the search for the cause. Starting an endpoint ends
in the same manager step. Left out: members created at run time, errors returned by cleanups (the next
cleanup runs all the same).

### Resolvers
`kind` chooses the call. A lookup asks two families per server in goroutines, collects them from a
buffered channel, starts the grace timer, and judges the server; the sequential transport asks its
members, each of them the platform resolver, by callback or by the native raw query. `budget` is the
deadline of the whole call and `ctx` its context, which notices the deadline later or is cancelled. The
platform may call back up to `MaxCallbacks` times per query, also after the call has returned. Only the
kind of a reply is kept: addresses or none, an answer, an rcode or an error.

### DnsRuleWalk
The list holds the rules whose own conditions match the query, and of the others those that refer to
responses (`others = FALSE`): they wait or are armed all the same, and then miss. An evaluate rule that
does not match is like one without a server. "good" is a response that satisfies the rules that refer to
it. `loaded = FALSE` stands
for a missing server and for a fake-IP server that is skipped. A rule is an index; `future[i]` is the
query of an evaluate or speculative rule, `settled` what `settleDNSFutures` has published, `armed` the
race rules that wait, `unsent` the callbacks between closing `done` and sending the wake-up. The loop of
`resumeExchangeWithRules` is cut wherever an answer can come in between. The legacy modes are
`exchangeLegacy` and `Lookup`; the app runs these, since its rules carry a strategy.
`exchangeWithRulesAsync` takes the same path but for a shortcut when nothing waits. Deliveries after
the decision are left out. `missed` is a history variable.

### DnsCache
One question; a key is the environment it was built for, 0 the unknown one. A query is at one of the
points of `beginExchange`, `Exchange` and `finishExchange`; `cond` names the owner of the
channel it found.
Answers are numbered in the order they are given and `origin` is the network each came over. `cache`,
`file` and `pending` are the three places an entry can be in, a flush reads, writes and ends in separate
steps, and a save may fail. Left out: the response checker and the cache of rejected responses, ECS, the
arithmetic of TTLs (an answer is fresh, stale or expired) and the capacity of the memory cache.

## 3. Runs

| Run | Checks | Bounds |
|---|---|---|
| `service_mode_switch` | resources released at rest, registry rules, starts given while stopping are answered, no empty started service | one object of each class, 5 events |
| `service_liveness` | a stop completes; a destroyed service comes to rest | two successive VPN objects, 4 events |
| `traffic_persistence` | refinement of `TrafficLedger`, cleared stays cleared, switches, the display catches up | a selector group of two nodes, 1 callback, 1 byte, 1 clear |
| `restore_crash` | refinement of `AtomicRestore`, rollback is final, a pending journal is resolved | 2 imports of any selection, 3 deaths or failures, `MAX_ATTEMPTS` = 2 |
| `subscription_races` | six properties of updates against every other writer | 2 updates of 3 requests in 2 processes, 2 user steps, 2 names, 2 protocol types, 3 ids, 3 backups |
| `box_lifecycle` | main instance open, nothing left after close, no deadlock, refinement of `GuardedBoxes` | 2 proxy boxes and 1 test box, 2 threads, 4 calls |
| `core_startup` | nothing left, order of closing, starts iff an order exists, ends | every graph over 3 members and an unknown tag |
| `resolvers` | refinement of `OrderedFallback`, right answer, descriptor closed once, everything ends | 3 servers, 2 callbacks per query |
| `dns_walk` | listed order, race rules held, options, wake-ups, termination | the lists of `MCWalkLists` (4 rules) and all lists of 3 in the legacy modes |
| `dns_cache` | last store served, stored under its network, calls and saves end | 2 queries (one asynchronous, one that refuses stale answers), 2 networks and the unknown one, 1 change, 1 clear |
| `dns_race` (violation) | a rule is judged by the responses it refers to | as `dns_walk` |
| `service_tun_leak` (violation) | no tun descriptor survives a destroy | one VPN object, 2 events |

Why these bounds: two service objects are all that can be alive or dying at the same time for the races
in question, and five events contain start, mode switch, reload, destroy and a second start. One byte
distinguishes credited from not credited. Three faults exceed `MAX_ATTEMPTS` = 2, so giving up is
reached. Two updates and two user steps contain an update overlapping any two of edit, rename, deletion,
test, group edit, restore and death, and the backups
contain what a restore can bring: a profile with a removed core and no policy; another link, another
profile with a policy of unknown source and another group's profile under the ids the update has read;
and no group at all. Two threads and the loop's own coroutines are enough for
either mutex to be held while another call wants it, and four calls contain a run, a close, a second run
and a use or a switch; a second proxy box lets a new main instance replace one that is being closed.
Three members allow a cycle beside a chain. Three servers are one passed over, one asked while work of
the first still ends, and one never asked. The lists of `dns_walk` start with a tagged evaluate rule and
put two race rules, options and a held rule behind it in every combination. All safety properties that
hold and all refinements are also proved without bounds (section 4).

Deadlock is checked in `core_startup` and `resolvers`, where every call must reach its end. Elsewhere
bounded behaviours end and an idle app may stop; `NoDeadlock` states for the boxes what matters.

Symmetric: the two main-process requests of `subscription_races`, the threads and the proxy boxes of
`box_lifecycle` (no liveness is checked there).

**Fairness.** `ServiceLifecycle`: weak fairness of the connecting job, the stop and the background
close of each object, since dispatchers run what is queued and every native call returns; nothing is
assumed of the user or the framework. `TrafficAccounting`: weak fairness of the loop, a coroutine that
delays and goes on. `RestoreJournal`: weak fairness of a process's steps, of its start and of the exit
of an idle process: the journal is only looked at when a process starts, so resolution presupposes that
processes keep starting. `CoreStartup`: the start is one sequence of calls, and a component's start
returns. `Resolvers`: timers fire, goroutines that can go on do, and whoever made the context cancels it
after the call, as `defer cancel()` does; no server and no platform callback has to answer. `DnsRuleWalk`:
the goroutine of the query runs and a query that was launched ends, by its answer or the client's
timeout. `DnsCache`: goroutines run, and a transport answers or times out; a waiter need not give up.
`SubscriptionUpdate` and `BoxLifecycle` state none; that a group stays updatable and that locks do not
deadlock are expressed as safety (`MarkersHaveOwners`, `NoDeadlock`).

### What the violations show

1. `dns_race`: `settleDNSFutures` and the checks that a future is resolved are separate steps. A tagged
   response that arrives in between lets the rule go on without waiting, yet is not among the responses
   it is matched against: a rule that should have matched is judged a miss
   (`libcore/sing-box/dns/router.go:586`, and 780 for race rules).
2. `service_tun_leak`: `conn?.closeQuietly(); conn = null` is not atomic with `conn = c` on a Go
   thread; a descriptor assigned in between is neither closed nor referenced (`VpnService.kt:62`).

### Further disagreements

These configurations are not in the run list; each reproduces, with its one property, a difference
between a comment and the code.

* `ServiceSettle.cfg` (`MCServiceLifecycle`): a destroyed service settles the registry to Stopped
  although a newer service is Stopping; that one has already released its registration
  (`BaseService.kt:466-468`).
* `TrafficBaseline.cfg` (`MCTrafficAccounting`): a clear handled before the loop's first round is
  dropped, and the figures shown stay too high for that run, though the database is right
  (`TrafficAccounting.kt:83`).
* `RestoreSuperseded.cfg` (`MCRestoreJournal`): a new import overwrites the journal of one whose
  compensation failed (`RestoreJournal.kt:36`).
* `RestoreRefused.cfg` (`MCRestoreJournal`): a failing read of the rows to compensate with leaves the
  staged journal, and the next start applies an import reported as failed (`BackupRestore.kt:186`).
* `SubscriptionSave.cfg` (`MCSubscriptionUpdate`): the group editor resets lastUpdated when the link
  changes, so that the first update of the new link is not postponed (comment in
  `ui/GroupSettingsActivity.kt`). It decides so by the row it has read. A restore between that and the
  write, replayed by the other process, puts another link there, and the save keeps the lastUpdated of
  that link beside its own (`GroupManager.kt:117-140`).
* `SubscriptionUpgrade.cfg` (`MCSubscriptionUpdate`): no result of an old configuration is to stand
  beside a new one (comment in `ProxyConfigChange.kt`). A restore rewrites the configuration or the core of
  a profile of an older version and keeps its status and ping (`BackupRestore.kt:97,139-158`,
  `ProxyEntity.kt:193-194`), which were measured with the old core. `StatusMatchesConfig` therefore admits
  a result of what the row was before the upgrade, and nothing else.
* `BoxReset.cfg` (`MCBoxLifecycle`): after a `Start` that failed, the core has closed itself while
  the state stays `boxStarted`; `ResetAllConnections` then resets the network of a closed core, which
  its comment sets out to avoid (`libcore/box.go:43-46`).

### Observations

* Members of a manager close in the reverse of the order they were first started in a stage, which for
  the stage `initialize` is that of the configuration and not that of the dependencies.
* In the legacy modes the options of a `route-options` rule are lost when a later rule falls back: each
  turn of the loop starts from the caller's options (`router.go:1158`, `1327`). `OptionsInOrder` is
  therefore about the walk only.
* A fallback in the walk cancels the evaluate queries launched before it (`finishPendingExchange`), so a
  later rule that refers to them sees a failure.
* After an error that is not a rejection, `Lookup` goes on past a rule with an address limit and
  `exchangeLegacy` does not.
* A rule asked ahead of a race rule does not fall back, as `libcore/sing-box/NEKO.md` says.
* `StoredUnderItsNetwork` exempts a network that is back by the end of the query, and one that was not
  known at its start: the code compares hashes and cannot tell.
* A clear during a flush restarts the sequence numbers of the cache file, so a save may be taken for the
  one queued after the clear; `LastStoreIsServed` is about the time until something is cleared.

## 4. Proofs

Each proof module defines an inductive invariant `IInv` (`RouterInv` for the rule router), shows that it
holds initially and that every action preserves it, and derives the properties. All theorems hold for any constants that satisfy the named
assumptions. The bounds on counters remain constants and may be any natural number.

**`TrafficAccounting_proofs`** (assumes `BindingsAssumption`): `TypeCorrect`, `NothingLost`,
`ClearingHolds`, `BaselineBounded`, `DisplayCurrent`, `SwitchIsAtomic`, `LedgerIsAtomic`. `Conservation`
(what is credited is in the database, due, or forgotten) is not
inductive: a failing writer hands its claim back, and the baseline must still contain it. The
strengthening is `ClaimsBacked`, the claims that are not stale sum to at most the baseline; a clear
makes them stale by raising the epoch. `LedgerIsAtomic` is the refinement of `TrafficLedger`. The ledger
equation before and after a step fixes what is due from what is credited, stored and forgotten, so
most actions need only be shown to change one of these in the permitted way. That bytes are given up only
for nodes the user cleared needs `ClearsKnown`: an epoch is raised, and a broadcast is under way, only
for nodes whose figures were wiped in the database.

**`RestoreJournal_proofs`** (`ProcessAssumption`, `BoundAssumption`): `TypeCorrect`,
`HalfRestoreIsJournalled`, `RollbackIsFinal`, `CrashLoopEnds`, `RestoreIsAtomic`. Between the commits nothing is whole, so
the invariant says of every import but the journalled one that it is whole in the databases and in
what the compensation would make of them (`UndoWhole`), that a rolled-back import is in no database,
journal or process (`Gone`), and that numbers are fresh until staged. `RestoreIsAtomic` is the refinement
of `AtomicRestore`: staging is `Apply`, the commit of the settings or leaving the journal behind `Confirm`, the end of a compensation `Revoke`, giving up or replacing a journal `Tear`, and every other step, the commits
of a replay among them, changes nothing of the mapped state. It needs the freshness of import numbers,
and that a compensation finds the rows it has saved.

**`SubscriptionUpdate_proofs`** (`ProcessAssumption`, `DataAssumption`, `CoreAssumption`,
`PolicyAssumption`, `DecodeAssumption`, `RowAssumption`, `BackupAssumption`, `BoundAssumption`):
`TypeCorrect`, `ResultsMatch`, `UpdateIsOfThisLink`, `NoOrphanRows`, `UpdatesExclude`,
`NamesStayUnique`, `MarkersAreOwned`, and the action properties `ComparedBeforeWritten` and
`OverridesAreKept`. The core is `Compared`: while the generation is the one the update read first, a row
still present is the row it read, and a row of the group that is not in its snapshot does not exist
unless it is `loose`. Only a download, a transaction and a restore can disturb it; every other step is
`Gentle`. A transaction is excluded by `Locks`, a restore by the generation. `UpdateIsOfThisLink` needs in
addition that a save decided in this generation still agrees with the row; one decided before a restore
makes lastUpdated `stray`. `NamesStayUnique` is about rows that are not `loose`. `BackupAssumption` says of a
backup only what is in the code: its rows are under ids that were given out, without the group none of
its profiles is there, and a result belongs to the configuration beside it or to what that was before an
upgrade. `DecodeAssumption` says that decoding is idempotent, `PolicyAssumption` and `CoreAssumption` type
what is published and what the editor offers.

**`ServiceLifecycle_proofs`** (`InstanceAssumption`, `NoneAssumption`, `MaxEventsAssumption`):
`TypeCorrect`, `NothingIsHeldAtRest`, `RegistryIsAlive`, `StoppedIsNotStarted`,
`StartsReachTheFramework`, and the action property `RegistryBelongsToItsOwner`. That an object at rest holds
nothing says nothing of the way there, so `ObjectOK` says of a record and of the place of the main
thread in its destruction: a live object's stop waits for the job it has cancelled (`JobOK`); what it
holds it holds with its proxy, and a descriptor with `conn` (`HeldOK`); and an open box has somebody who
will close it, the owner of the proxy, a close under way, or the init that created it after the close
(`BoxOK`). Every handler changes one record, so it is shown once per update of a record
(`...Keeps`) and lifted (`Lift`). What the objects share is shown of `Sound`: a handler registers only its
own object, alive, and takes only a start of its own class. `Owns` is the action property of one handler. That a start given to a stopping object is answered needs
`OwedInv`: the object that owes it still has the start recorded, and a stop under way that will read it;
`Remembers` says of each handler that it keeps this, whichever of a repeated stop, a reload or a
destruction comes before the stop completes. `NoneAssumption` says that null is neither an object nor a place.

**`BoxLifecycle_proofs`** (`BoxAssumption`, `MaxCallsAssumption`): `TypeCorrect`, `MainInstanceIsOpen`,
`DeadlockFree`, `NothingIsLeft`, `Refinement`. `LockInv` names the steps inside each mutex, `OpenInv`
says that closers are inside a closed box and all others inside an open one, `MainInv` that a closed
main instance is about to be cleared by the thread inside it. `MainIsOpen` and the refinement follow from
these; `DeadlockFree` because the holder of `mainInstanceAccess` waits for nobody. `NothingIsLeft`
needs in addition who will close the core (`CloseInv`) and stop the loop (`LoopInv`): the thread that
won the flag, the coroutine it handed out, or the coroutine of `launch()` that checks again. The
refinement is shown action by action under the mapping described in section 2.

**`CoreStartup_proofs`** (`MissingAssumption`): `TypeCorrect`, `NothingIsLeft`, `InboundsCloseFirst`,
`ManagersStartWhatTheyCan`. `ScopeInv`: who has something to release is on the stack, and what carries
the inbounds is below them, which follows from the plan. `OrderInv`: a member of a set that cannot be
started (each member waits for one of the set or for an unknown tag) is never started, and when a pass
starts nobody the rest is such a set. `LintInv`: every tag on the path of the search but the last has a
dependency on the path, so a repeated tag closes a cycle.

**`Resolvers_proofs`** (`NAssumption`, `MaxCallbacksAssumption`): `TypeCorrect`, `AnswersAreReplies`,
`DescriptorsClosedOnce`, the action property `OnlyFailedServersAreLeft`, and `Refinement`. A reply that
came by callback is the one its exchange was settled with (`ReplyInv`), a descriptor is open while it is
polled and exists only for a server asked (`FdInv`), the grace timer runs only beside a family that
brought addresses (`FoundInv`).

**`Dns_proofs`**, the cache (`KnownAssumption`, `QueryAssumption`, `BoundAssumption`): `TypeCorrect`,
`WriteBehindIsInvisible`, and the action property `KeysNameTheNetwork`. `AnswerInv`: an answer not yet
stored has one holder, so it is stored once. `NetworkInv` counts changes: a network that differs from the
key has changed at least once since the key was read, an answer of another network under an unchanged
one means twice. `StoreInv`, until something is cleared or a save fails: one goroutine writes for a key
as long as an answer is pending, what it has read is the pending entry or an older one, and what is no
longer pending is in the file. `KnownAssumption` says that networks have nonzero hashes and are not null.

**`Dns_proofs`**, the router (`RuleAssumption`, `ListAssumption`): `RouterTypeCorrect`, `RulesInOrder`,
`RaceRulesHold`, `OptionsAsListed`, `WakeUpsArrive`, for lists of any length. `ListAssumption` says of the
lists what `validateLegacyDNSModeDisabledRules` checks, and that address limits are found in the legacy
modes only, responses in the walk only. `RouterInv` has a part for the walk and one for the legacy loops.
* That the first listed rule decides is a statement about the end; on the way, every rule before the
  one of the turn was passed over for a reason (`JudgedInv`), only passed rules are noted as missed
  (`MissedInv`), and a query asked belongs to the rule of the turn with nothing armed, or to a race
  rule hit by a sweep (`AskedInv`, `ParkedInv`, `DecidedInv`).
* A race rule holds what is listed after it because whatever was launched with an armed rule present lies
  before that rule (`ArmedInv`, `HeldInv`), a rule asked ahead excepted (`LaunchInv`).
* The options in force are those of the rules before the one of the turn, and an armed rule keeps a copy
  of those before it, with which it is asked (`OptionsInv`).
* No wake-up is lost: as long as there is no token in the channel and no callback still to leave one, the
  loop has found nothing ready: behind the sweep, in the whole list once the sweep has ended, and in
  the response it awaits (`WakeInv`). It rests on `SettledInv`: what is published has come.

Proved and in no run: the type invariants of the nine modules, `Conservation`, `NoSilentHalfRestore`,
`BaselineWithinTotals`, `ShownIsCurrent`, `ReplaysBounded`, `OneUpdateAtATime`, `OneProfilePerName`. The
inductive invariants were checked by TLC on the instances of the runs before they were proved, `RouterInv`
on about three quarters of the states of `dns_walk`.

Only model-checked: liveness (`TeardownCompletes`, `ForegroundCatchesUp`, `PendingIsResolved`,
`StartTerminates`, `EverythingSettles`, `QueryTerminates`, `CallsAndSavesEnd`), which is outside what
TLAPS can do.

## 5. Not modelled

External core probes, notifications, HTTP client, outbound trial and the configuration builder keep
little or no shared state; the formats in `fmt/` are pure translations without a reference to compare
with. Of the vendored sing-box the start and the DNS path are modelled, because the app patches them or
depends on their order; the protocols, the routing of connections, the daemon and gomobile are
third-party code, and generated option classes are out of scope. The source of these is most of the
Go lines of the repository. The plugin process pool, the service connection and the default network
listener are planned.

## 6. Plan

`GuardedProcessPool`: loopers, restart, fatal exit, close from inside a callback; then
`SagerConnection` and `DefaultNetworkListener`.
