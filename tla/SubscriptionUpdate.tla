-------------------------- MODULE SubscriptionUpdate --------------------------
(***************************************************************************)
(* Updating a subscription group: GroupUpdater.executeUpdate and           *)
(* RawUpdater.doUpdate, in the main process (the user) and in :bg (the     *)
(* periodic work), against everything else that writes the same rows: the  *)
(* profile editor, the group editor, connection tests, deletions and the   *)
(* restore of a backup.                                                    *)
(*                                                                         *)
(* An update holds old data across a download that may take tens of        *)
(* seconds and writes back by row id.  Ids are never reused, except by a   *)
(* restore, which inserts the rows of the backup under their old ids.      *)
(*                                                                         *)
(* One group is modelled.  Of a profile the model keeps its name, its      *)
(* configuration (what the subscription publishes, the local overrides,    *)
(* the core chosen for it and, for AnyTLS, the certificate policy with its *)
(* source) and its test result, of the group its subscription link and for *)
(* which link lastUpdated was written.                                     *)
(***************************************************************************)
EXTENDS Naturals, FiniteSets

CONSTANTS Process,      \* main and :bg
          Main,         \* the one with the user interface
          Job,          \* update requests
          procOf,       \* the process a request runs in
          Name,         \* display names of profiles
          Content,      \* published configurations
          Type,         \* protocol types
          typeOf,       \* the type of a published configuration
          policyOf,     \* the certificate policy it comes with
          NoPolicy,     \* the profile is not an AnyTLS one
          Override,     \* local overrides of a profile
          NoOverride,   \* what a new profile has
          Core,         \* choices of a core
          CoreAuto,     \* CORE_AUTO
          cores,        \* the choices the editor offers for a type
          canonical,    \* a configuration as BackupRestore.decode leaves it,
          legacyCore,   \* the core it is left with,
          legacyPolicy, \* and what an AnyTLS profile without a policy is given
          Link,         \* subscription links (the other settings of the identity stay)
          Never,        \* lastUpdated = 0
          NoRow,        \* no such row
          None,         \* nobody, nothing
          Backups,      \* backups that may be restored
          MaxId,        \* bound: row ids
          MaxUpdates,   \* bound: updates begun
          MaxUser       \* bound: edits, deletions, tests, restores and deaths

Id == 1..MaxId

\* POLICY_* : who has set the certificate policy.
Source == {"default", "published", "migrated", "local", "unknown"}
PolicyValue == {"pin", "trust"}
Legacy == "legacy"                       \* written before there was a policy
Policy == [value : PolicyValue \cup {Legacy}, source : Source]

Config == [content : Content, override : Override, core : Core, policy : Policy \cup {NoPolicy}]
Row == [name : Name, config : Config, status : SUBSET Config, mine : BOOLEAN, born : Nat]
Group == [link : Link, updated : Link \cup {Never}]
Feed == [Name -> Content \cup {None}]              \* None for a name not published

\* A configuration of a backup, as it is restored: xhttp settings are made
\* canonical, profiles of older versions are labelled, cores that are no longer
\* there replaced, and an AnyTLS profile without a certificate policy gets one.
upgraded(config) ==
  [content |-> canonical[config.content][config.core],
   override |-> config.override,
   core |-> legacyCore[config.content][config.core],
   policy |-> IF config.policy # NoPolicy /\ config.policy.value = Legacy
              THEN [value |-> legacyPolicy[config.content][config.core], source |-> "migrated"]
              ELSE config.policy]

\* A result of this configuration, or of what it was before it was restored.
ResultOf(status, config) == \A s \in status : config \in {s, upgraded(s)}

\* A backup: the rows of both tables and the highest id ever given out.  The group
\* may be missing, but then none of its profiles is there (BackupIntegrity), and
\* test results are exported with the configuration beside them.
GoodBackup(b) ==
  /\ b.rows \in [Id -> Row \cup {NoRow}]
  /\ b.group \in Group \cup {None}
  /\ b.top \in 0..MaxId
  /\ \A i \in Id : b.rows[i] # NoRow =>
       /\ i <= b.top
       /\ ResultOf(b.rows[i].status, b.rows[i].config)
       /\ b.rows[i].mine => b.group # None

ASSUME ProcessAssumption == Main \in Process /\ None \notin Process /\ procOf \in [Job -> Process]
ASSUME DataAssumption ==
  NoOverride \in Override /\ Never \notin Link /\ None \notin Content /\ IsFiniteSet(Name)
ASSUME CoreAssumption == CoreAuto \in Core /\ cores \in [Type -> SUBSET Core]
ASSUME PolicyAssumption ==
  /\ typeOf \in [Content -> Type]
  /\ policyOf \in [Content -> Policy \cup {NoPolicy}]
  /\ NoPolicy \notin Policy
ASSUME DecodeAssumption ==      \* decode changes nothing of what it has produced
  /\ canonical \in [Content -> [Core -> Content]]
  /\ legacyCore \in [Content -> [Core -> Core]]
  /\ legacyPolicy \in [Content -> [Core -> PolicyValue]]
  /\ \A c \in Content, k \in Core :
       LET d == canonical[c][k]
           l == legacyCore[c][k]
       IN  canonical[d][l] = d /\ legacyCore[d][l] = l
ASSUME RowAssumption == NoRow \notin Row /\ None \notin Group
ASSUME BackupAssumption == \A b \in Backups : GoodBackup(b)
ASSUME BoundAssumption == MaxId \in Nat /\ MaxUpdates \in Nat /\ MaxUser \in Nat

VARIABLES rows,     \* proxy_entities
          top,      \* the highest id given out (AUTOINCREMENT)
          group,    \* the group's row, None once it is deleted
          gen,      \* SagerDatabase.dataGeneration
          updating, \* GroupUpdater.updating, per process
          lock,     \* holder of group_update_<id>.lock
          pc,       \* where each update is
          sgen,     \* its startedGeneration
          sid,      \* its startedIdentity
          exists,   \* the rows of the group it has read
          feed,     \* what it has downloaded, by name
          testing,  \* configurations a running connection test has read
          edit,     \* the profile open in the editor, as it was read
          save,     \* a save of the group editor between read and write
          loose,    \* history: rows restored, or renamed by the user, since an
                    \* update compared their names
          stray,    \* history: lastUpdated comes from a group that a restore replaced
          updates,  \* updates begun
          users     \* steps of the user, and deaths, so far

dbVars == <<rows, top, group, gen>>
jobVars == <<updating, lock, pc, sgen, sid, exists, feed, updates>>
uiVars == <<testing, edit, save, loose, stray>>
vars == <<dbVars, jobVars, uiVars, users>>

Working == {"generation", "group", "download", "commit"}   \* holding the lock
Place == {"idle", "lock", "unlock", "finish"} \cup Working
NoRows == [i \in Id |-> NoRow]
NoFeed == [n \in Name |-> None]
NoEdit == [id |-> 0]
NoSave == [link |-> Never, keep |-> FALSE, gen |-> 0]

TypeOK ==
  /\ rows \in [Id -> Row \cup {NoRow}]
  /\ top \in 0..MaxId
  /\ group \in Group \cup {None}
  /\ gen \in Nat
  /\ updating \in [Process -> BOOLEAN]
  /\ lock \in Process \cup {None}
  /\ pc \in [Job -> Place]
  /\ sgen \in [Job -> Nat]
  /\ sid \in [Job -> Link \cup {Never}]
  /\ exists \in [Job -> [Id -> Row \cup {NoRow}]]
  /\ feed \in [Job -> Feed]
  /\ testing \in [Id -> SUBSET Config]
  /\ edit \in {NoEdit} \cup [id : Id, config : Config]
  /\ save \in {NoSave} \cup [link : Link, keep : BOOLEAN, gen : Nat]
  /\ loose \subseteq Id
  /\ stray \in BOOLEAN
  /\ updates \in 0..MaxUpdates
  /\ users \in 0..MaxUser

Present(i) == rows[i] # NoRow
getIdsByGroup == {i \in Id : Present(i) /\ rows[i].mine}

\* The rows of a backup, decoded and inserted in generation g; the test results
\* are kept.
inserted(b, g) ==
  [i \in Id |-> IF b.rows[i] = NoRow THEN NoRow
                ELSE [b.rows[i] EXCEPT !.config = upgraded(@), !.born = g]]

\* lastUpdated of the group's row is of another subscription than its link.
Astray(row) == row # None /\ row.updated \notin {Never, row.link}

Init ==
  /\ \E b \in Backups : rows = inserted(b, 0) /\ top = b.top /\ group = b.group /\ stray = Astray(group)
  /\ gen = 0
  /\ updating = [p \in Process |-> FALSE]
  /\ lock = None
  /\ pc = [j \in Job |-> "idle"]
  /\ sgen = [j \in Job |-> 0]
  /\ sid = [j \in Job |-> Never]
  /\ exists = [j \in Job |-> NoRows]
  /\ feed = [j \in Job |-> NoFeed]
  /\ testing = [i \in Id |-> {}]
  /\ edit = NoEdit
  /\ save = NoSave
  /\ loose = Id
  /\ updates = 0
  /\ users = 0

-----------------------------------------------------------------------------
(* executeUpdate, up to the download. *)

Goto(j, place) == pc' = [pc EXCEPT ![j] = place]

\* The locals of the updates that have come to an end.
Forget(jobs) ==
  /\ sgen' = [j \in Job |-> IF j \in jobs THEN 0 ELSE sgen[j]]
  /\ sid' = [j \in Job |-> IF j \in jobs THEN Never ELSE sid[j]]
  /\ exists' = [j \in Job |-> IF j \in jobs THEN NoRows ELSE exists[j]]
  /\ feed' = [j \in Job |-> IF j \in jobs THEN NoFeed ELSE feed[j]]

\* updating.add; a request for a group already being updated in this process
\* returns at once.
Begin(j) ==
  /\ pc[j] = "idle"
  /\ ~updating[procOf[j]]
  /\ updates < MaxUpdates
  /\ updates' = updates + 1
  /\ updating' = [updating EXCEPT ![procOf[j]] = TRUE]
  /\ Goto(j, "lock")
  /\ UNCHANGED <<dbVars, lock, sgen, sid, exists, feed, uiVars, users>>

LockFree == lock = None

\* Mutant: a request turned away by the file lock leaves its marker behind.
unmark_forgotten(p) == updating

unmark(p) == [updating EXCEPT ![p] = FALSE]

\* tryLock on the file both processes know; when the other process has it only
\* the marker is taken back.
TryLock(j) ==
  /\ pc[j] = "lock"
  /\ \/ /\ LockFree
        /\ lock' = procOf[j]
        /\ Goto(j, "generation")
        /\ UNCHANGED updating
     \/ /\ ~LockFree
        /\ updating' = unmark(procOf[j])
        /\ Goto(j, "idle")
        /\ UNCHANGED lock
  /\ UNCHANGED <<dbVars, sgen, sid, exists, feed, updates, uiVars, users>>

\* The generation is read before the group's row and the rows of its profiles.
ReadGeneration(j) ==
  /\ pc[j] = "generation"
  /\ sgen' = [sgen EXCEPT ![j] = gen]
  /\ Goto(j, "group")
  /\ UNCHANGED <<dbVars, updating, lock, sid, exists, feed, updates, uiVars, users>>

\* The group's current row gives the identity; a deleted group goes on with the
\* row the request came with, whose identity does not matter any more.
ReadGroup(j) ==
  /\ pc[j] = "group"
  /\ sid' = [sid EXCEPT ![j] = IF group = None THEN Never ELSE group.link]
  /\ Goto(j, "download")
  /\ UNCHANGED <<dbVars, updating, lock, sgen, exists, feed, updates, uiVars, users>>

\* The rows of the group are read after the download.
Download(j) ==
  /\ pc[j] = "download"
  /\ exists' = [exists EXCEPT ![j] = [i \in Id |-> IF i \in getIdsByGroup THEN rows[i] ELSE NoRow]]
  /\ \E f \in Feed \ {NoFeed} : feed' = [feed EXCEPT ![j] = f]
  /\ Goto(j, "commit")
  /\ UNCHANGED <<dbVars, updating, lock, sgen, sid, updates, uiVars, users>>

\* The group has no subscription, the user declines, a read, the download or the
\* parsing fails, the work is cancelled.
Abandon(j) ==
  /\ pc[j] \in Working
  /\ Goto(j, "unlock")
  /\ Forget({j})
  /\ UNCHANGED <<dbVars, updating, lock, updates, uiVars, users>>

-----------------------------------------------------------------------------
(* What an update does to the rows. *)

Seen(j) == {i \in Id : exists[j][i] # NoRow}
Published(j) == {name \in Name : feed[j][name] # None}
Named(j, name) == {i \in Seen(j) : exists[j][i].name = name}

\* The first row of each published name is kept, all others go.  (Rows are listed
\* by id here, by userOrder in the code.)
toReplace(j) ==
  {i \in Seen(j) : /\ exists[j][i].name \in Published(j)
                   /\ \A k \in Named(j, exists[j][i].name) : i <= k}
toDelete(j) == Seen(j) \ toReplace(j)
toInsert(j) == {name \in Published(j) : Named(j, name) = {}}

\* The certificate policy of a profile that gets a new AnyTLS configuration: the
\* user's own stays, the one of an older version gives way to a published one.
keptPolicy(old, new) ==
  IF \/ NoPolicy \in {old, new}
     \/ old.source \in {"default", "published"}
     \/ old.source = "migrated" /\ new.source = "published"
  THEN new
  ELSE old

\* Whose the old policy is is unknown and the published one is another: the update
\* fails.
policyConflict(old, new) ==
  /\ NoPolicy \notin {old, new}
  /\ old.source = "unknown" /\ new.source = "published" /\ new.value # old.value

preserveSubscriptionOverridesFrom(old, content) ==
  [content |-> content, override |-> old.override, core |-> old.core,
   policy |-> keptPolicy(old.policy, policyOf[content])]

\* Kept rows whose configuration, merged with the local settings, has changed.
toUpdate(j) ==
  {i \in toReplace(j) :
     LET old == exists[j][i].config
     IN  preserveSubscriptionOverridesFrom(old, feed[j][exists[j][i].name]) # old}

\* Writes the configuration; a changed one loses its test result.
updateConfigResettingStatus(row, name, config) ==
  [row EXCEPT !.name = name, !.config = config,
              !.status = IF row.config = config THEN @ ELSE {}]

\* The published part is replaced, the local settings stay; a core chosen for
\* another protocol does not.
merged(old, content) ==
  [preserveSubscriptionOverridesFrom(old, content) EXCEPT
     !.core = IF typeOf[content] = typeOf[old.content] THEN @ ELSE CoreAuto]

\* Mutant: the local settings come from the row read before the transaction.
replaceSubscriptionBean_stale(j, i) == merged(exists[j][i].config, feed[j][exists[j][i].name])

\* Merged with the row as it is in the transaction.
replaceSubscriptionBean(j, i) == merged(rows[i].config, feed[j][exists[j][i].name])

newRow(name, content) ==
  [name |-> name,
   config |-> [content |-> content, override |-> NoOverride, core |-> CoreAuto, policy |-> policyOf[content]],
   status |-> {}, mine |-> TRUE, born |-> gen]

\* Mutant: the generation is not compared.
isDataRestoredSince_never(started) == FALSE

isDataRestoredSince(started) == gen # started

\* Mutant: the identity is not compared.
isSubscriptionSuperseded_never(started) == FALSE

isSubscriptionSuperseded(started) == group.link # started

\* No certificate policy in the way, neither among the rows compared nor, in the
\* transaction, among the rows there now.
PoliciesMerge(j) ==
  /\ \A i \in toReplace(j) :
       ~policyConflict(exists[j][i].config.policy, policyOf[feed[j][exists[j][i].name]])
  /\ \A i \in toUpdate(j) \cap getIdsByGroup :
       ~policyConflict(rows[i].config.policy, policyOf[feed[j][exists[j][i].name]])

\* Mutant: a group deleted meanwhile goes unnoticed.
mayCommit_orphans(j) ==
  /\ ~isDataRestoredSince(sgen[j])
  /\ group # None => ~isSubscriptionSuperseded(sid[j])
  /\ PoliciesMerge(j)

\* Whether the transaction goes through; any failed check rolls all of it back.
mayCommit(j) ==
  /\ ~isDataRestoredSince(sgen[j])
  /\ group # None
  /\ ~isSubscriptionSuperseded(sid[j])
  /\ PoliciesMerge(j)

\* The write transaction: new rows, named by "names", under the next ids.  Only
\* rows still in the group are deleted or updated.
written(j, names) ==
  [i \in Id |->
     IF i > top /\ i <= top + Cardinality(toInsert(j)) THEN newRow(names[i], feed[j][names[i]])
     ELSE IF i \in toDelete(j) \cap getIdsByGroup THEN NoRow
     ELSE IF i \in toUpdate(j) \cap getIdsByGroup
     THEN updateConfigResettingStatus(rows[i], exists[j][i].name, replaceSubscriptionBean(j, i))
     ELSE rows[i]]

\* Rows the update leaves with a name it has not compared.
stillLoose(j) ==
  {i \in loose \cap getIdsByGroup : /\ i \notin toUpdate(j)
                                   /\ i \in Seen(j) => exists[j][i].name # rows[i].name}

Commit(j) ==
  /\ pc[j] = "commit"
  /\ mayCommit(j)
  /\ top + Cardinality(toInsert(j)) <= MaxId
  /\ \E names \in [(top + 1)..(top + Cardinality(toInsert(j))) -> toInsert(j)] :
       /\ \A i, k \in DOMAIN names : names[i] = names[k] => i = k
       /\ rows' = written(j, names)
  /\ top' = top + Cardinality(toInsert(j))
  /\ group' = IF group = None THEN group ELSE [group EXCEPT !.updated = sid[j]]
  /\ loose' = stillLoose(j)
  /\ stray' = FALSE
  /\ Goto(j, "unlock")
  /\ Forget({j})
  /\ UNCHANGED <<gen, updating, lock, updates, testing, edit, save, users>>

CommitRefused(j) ==
  /\ pc[j] = "commit"
  /\ ~mayCommit(j)
  /\ Goto(j, "unlock")
  /\ Forget({j})
  /\ UNCHANGED <<dbVars, updating, lock, updates, uiVars, users>>

\* The finally blocks: the file lock first, then finishUpdate.
Unlock(j) ==
  /\ pc[j] = "unlock"
  /\ lock' = None
  /\ Goto(j, "finish")
  /\ UNCHANGED <<dbVars, updating, sgen, sid, exists, feed, updates, uiVars, users>>

finishUpdate(j) ==
  /\ pc[j] = "finish"
  /\ updating' = unmark(procOf[j])
  /\ Goto(j, "idle")
  /\ UNCHANGED <<dbVars, lock, sgen, sid, exists, feed, updates, uiVars, users>>

-----------------------------------------------------------------------------
(* The user, in the main process. *)

User == users < MaxUser /\ users' = users + 1

\* The profile editor reads the row once, when it is opened.
OpenEditor(i) ==
  /\ User
  /\ edit = NoEdit
  /\ Present(i)
  /\ edit' = [id |-> i, config |-> rows[i].config]
  /\ UNCHANGED <<dbVars, jobVars, testing, save, loose, stray>>

\* A certificate policy the user has changed is his own.
editedPolicies(policy) ==
  IF policy = NoPolicy THEN {NoPolicy}
  ELSE {policy} \cup {[value |-> v, source |-> "local"] : v \in PolicyValue \ {policy.value}}

\* What an editor opened with this configuration can save.
edited(config) ==
  [content : {c \in Content : typeOf[c] = typeOf[config.content]},
   override : Override,
   core : cores[typeOf[config.content]],
   policy : editedPolicies(config.policy)]

\* updateProfile, with whatever the editor holds, however old; nothing is written
\* when the row has gone meanwhile.
SaveProfile(name) ==
  /\ edit # NoEdit
  /\ LET i == edit.id IN
       /\ \E config \in edited(edit.config) :
            rows' = IF Present(i)
                    THEN [rows EXCEPT ![i] = updateConfigResettingStatus(rows[i], name, config)]
                    ELSE rows
       /\ loose' = IF Present(i) /\ name # rows[i].name THEN loose \cup {i} ELSE loose
  /\ edit' = NoEdit
  /\ UNCHANGED <<top, group, gen, jobVars, testing, save, stray, users>>

CloseEditor ==
  /\ edit # NoEdit
  /\ edit' = NoEdit
  /\ UNCHANGED <<dbVars, jobVars, testing, save, loose, stray, users>>

\* The group editor reads the row, and writes it in a transaction of its own.
OpenSave(link) ==
  /\ User
  /\ save = NoSave
  /\ group # None
  /\ save' = [link |-> link, keep |-> group.link = link, gen |-> gen]
  /\ UNCHANGED <<dbVars, jobVars, testing, edit, loose, stray>>

\* lastUpdated survives an edit that keeps the subscription.
keptUpdated(s) == IF s.keep THEN group.updated ELSE Never

updateGroup ==
  /\ save # NoSave
  /\ group' = IF group = None THEN group ELSE [link |-> save.link, updated |-> keptUpdated(save)]
  /\ stray' = (group # None /\ save.keep /\ (stray \/ save.gen # gen))
  /\ save' = NoSave
  /\ UNCHANGED <<rows, top, gen, jobVars, testing, edit, loose, users>>

\* deleteProfile, deleteProfiles, clearGroup.
DeleteProfiles(ids) ==
  /\ User
  /\ ids # {}
  /\ rows' = [i \in Id |-> IF i \in ids THEN NoRow ELSE rows[i]]
  /\ UNCHANGED <<top, group, gen, jobVars, uiVars>>

\* The group goes with its profiles.
deleteGroup ==
  /\ User
  /\ group # None
  /\ group' = None
  /\ rows' = [i \in Id |-> IF i \in getIdsByGroup THEN NoRow ELSE rows[i]]
  /\ UNCHANGED <<top, gen, jobVars, uiVars>>

\* A connection test of the group reads all its rows.
StartTest ==
  /\ User
  /\ \A i \in Id : testing[i] = {}
  /\ testing' = [i \in Id |-> IF i \in getIdsByGroup THEN {rows[i].config} ELSE {}]
  /\ UNCHANGED <<dbVars, jobVars, edit, save, loose, stray>>

\* Mutant: the configuration is not compared with the one tested.
sameConfig_unchecked(i) == testing[i] # {}

sameConfig(i) == testing[i] = {rows[i].config}

\* updateTestResults, for the rows tested by then: a result is written only where
\* the configuration is still the one tested.
updateTestResults(done) ==
  /\ \E i \in Id : testing[i] # {}
  /\ rows' = [i \in Id |-> IF i \in done /\ Present(i) /\ sameConfig(i)
                           THEN [rows[i] EXCEPT !.status = testing[i]]
                           ELSE rows[i]]
  /\ testing' = [i \in Id |-> {}]
  /\ UNCHANGED <<top, group, gen, jobVars, edit, save, loose, stray, users>>

\* A restore, or its replay by the process that starts next: everything is replaced in
\* one transaction that also moves the generation on. Editors that are open stay open.
\* (A compensation is another one, to rows that decode leaves as they are.)
Restore(b) ==
  /\ User
  /\ gen' = gen + 1
  /\ rows' = inserted(b, gen')
  /\ top' = IF b.top > top THEN b.top ELSE top
  /\ group' = b.group
  /\ loose' = Id
  /\ stray' = Astray(b.group)
  /\ UNCHANGED <<jobVars, testing, edit, save>>

\* A process dies; the system drops its lock.
Die(p) ==
  /\ User
  /\ updating' = [updating EXCEPT ![p] = FALSE]
  /\ lock' = IF lock = p THEN None ELSE lock
  /\ pc' = [j \in Job |-> IF procOf[j] = p THEN "idle" ELSE pc[j]]
  /\ IF p = Main
     THEN testing' = [i \in Id |-> {}] /\ edit' = NoEdit /\ save' = NoSave
     ELSE UNCHANGED <<testing, edit, save>>
  /\ Forget({j \in Job : procOf[j] = p})
  /\ UNCHANGED <<dbVars, updates, loose, stray>>

-----------------------------------------------------------------------------

JobStep(j) ==
  \/ TryLock(j) \/ ReadGeneration(j) \/ ReadGroup(j) \/ Download(j) \/ Abandon(j)
  \/ Commit(j) \/ CommitRefused(j) \/ Unlock(j) \/ finishUpdate(j)

UserStep ==
  \/ \E i \in Id : OpenEditor(i)
  \/ \E name \in Name : SaveProfile(name)
  \/ CloseEditor
  \/ \E link \in Link : OpenSave(link)
  \/ updateGroup
  \/ \E ids \in SUBSET getIdsByGroup : DeleteProfiles(ids)
  \/ deleteGroup
  \/ StartTest
  \/ \E done \in SUBSET Id : updateTestResults(done)
  \/ \E b \in Backups : Restore(b)
  \/ \E p \in Process : Die(p)

Next == (\E j \in Job : Begin(j) \/ JobStep(j)) \/ UserStep

Spec == Init /\ [][Next]_vars

-----------------------------------------------------------------------------
(* Properties *)

\* A test result shown beside a profile was measured with the configuration the
\* profile has now, whichever of tests, editor, updates and restores came last; or
\* with what decode has since made this configuration of, and nothing else.
StatusMatchesConfig == \A i \in Id : Present(i) => ResultOf(rows[i].status, rows[i].config)

\* What ProxyConfigChange says without that exception, and a restore does not keep.
StatusOfThisConfig == \A i \in Id : Present(i) => rows[i].status \subseteq {rows[i].config}

\* lastUpdated is of the subscription the group has: a download made for another
\* subscription neither fills the group nor postpones the next update.  Only the
\* save of a group editor that read its row before a restore can break it.
UpdatedForThisLink == group # None /\ ~stray => group.updated \in {Never, group.link}

\* What GroupSettingsActivity says without that exception.
UpdatedForLinkAlways == group # None => group.updated \in {Never, group.link}

\* No profile is left in a group that has been deleted.
NoOrphans == group = None => getIdsByGroup = {}

\* No two updates of the group work on it at the same time, in either process.
OneUpdateAtATime == \A j, k \in Job : pc[j] \in Working /\ pc[k] \in Working => j = k

\* One profile per name among those an update has compared and the user has not
\* renamed since.
OneProfilePerName ==
  \A i, k \in getIdsByGroup \ loose : rows[i].name = rows[k].name => i = k

\* The end of the transaction, committed or rolled back.
Ends(j) == pc[j] = "commit" /\ pc'[j] = "unlock"

\* The rows an update deletes or overwrites are the very rows it compared, not
\* ones a restore has put in their place.
WritesWhatItCompared ==
  [][\A j \in Job : Ends(j) =>
       \A i \in Id : Present(i) /\ rows'[i] # rows[i] =>
         exists[j][i] # NoRow /\ exists[j][i].born = rows[i].born]_vars

\* What an update may do to the local part of a profile: the overrides stay, the
\* core stays unless the protocol has changed (then it is automatic again), and so
\* does a certificate policy of the user's or of an unknown source, as long as the
\* profile has one.
LocalKept(old, new) ==
  /\ new.override = old.override
  /\ new.core = IF typeOf[new.content] = typeOf[old.content] THEN old.core ELSE CoreAuto
  /\ NoPolicy \notin {old.policy, new.policy} /\ old.policy.source \in {"local", "unknown"}
     => new.policy = old.policy

\* An update keeps what is local to a profile as it is at that moment, also what was
\* saved while it was downloading.
OverridesSurvive ==
  [][\A j \in Job : Ends(j) =>
       \A i \in Id : Present(i) /\ rows'[i] # NoRow =>
         LocalKept(rows[i].config, rows'[i].config)]_vars

\* A group can always be updated again: a marker and the file lock belong to an
\* update that is still going to take them back.
MarkersHaveOwners ==
  \A p \in Process :
    /\ updating[p] => \E j \in Job : procOf[j] = p /\ pc[j] # "idle"
    /\ lock = p => \E j \in Job : procOf[j] = p /\ pc[j] \in Working \cup {"unlock"}

=============================================================================
