---------------------- MODULE SubscriptionUpdate_proofs ----------------------
(***************************************************************************)
(* Every safety property of SubscriptionUpdate, for any number of          *)
(* processes, requests, names, rows and backups.                           *)
(*                                                                         *)
(* Locks is inductive by itself.  OneProfilePerName is not: that a commit  *)
(* leaves one row per name needs that the rows it compared are the rows    *)
(* that are there (Compared), which holds only while the generation is the *)
(* one read first, no other update commits in between (Locks), and new     *)
(* rows get ids nobody has seen (IdsGivenOut).  Every other step is        *)
(* "gentle": it removes rows or writes them in place.  Of backups only     *)
(* BackupAssumption is used: names in them may repeat, and lastUpdated may *)
(* be of another link.                                                     *)
(***************************************************************************)
EXTENDS SubscriptionUpdate, TLAPS, FiniteSetTheorems

\* The marker and the file lock keep updates apart.
Locks ==
  /\ \A j \in Job : pc[j] \in Working \cup {"unlock"} => lock = procOf[j]
  /\ \A j \in Job : pc[j] # "idle" => updating[procOf[j]]
  /\ \A j, k \in Job : pc[j] # "idle" /\ pc[k] # "idle" /\ procOf[j] = procOf[k] => j = k
  /\ MarkersHaveOwners

\* A group editor that keeps the subscription has read the present one, unless
\* everything has been restored since.
SaveFresh ==
  /\ save.gen <= gen
  /\ save.keep /\ save.gen = gen /\ group # None => save.link = group.link

\* Ids beyond the counter have not been used.
IdsGivenOut ==
  \A i \in Id : /\ Present(i) => i <= top
                /\ \A j \in Job : exists[j][i] # NoRow => i <= top

\* While the generation is the one read at the start, a row still there is the row
\* that was read, and a row of the group keeps its name or is known to be loose.
Compared(j) ==
  pc[j] = "commit" /\ sgen[j] = gen =>
    \A i \in Id :
      /\ exists[j][i] # NoRow /\ Present(i) => exists[j][i].born = rows[i].born
      /\ i \in getIdsByGroup \ loose =>
           exists[j][i] # NoRow /\ exists[j][i].name = rows[i].name

IInv ==
  /\ TypeOK
  /\ Locks
  /\ StatusMatchesConfig
  /\ SaveFresh
  /\ UpdatedForThisLink
  /\ NoOrphans
  /\ IdsGivenOut
  /\ \A j \in Job : sgen[j] <= gen
  /\ \A j \in Job : Compared(j)
  /\ OneProfilePerName

-----------------------------------------------------------------------------
(* Rows. *)

\* What writing a configuration does to a row.
LEMMA RowUpdate ==
  ASSUME NEW r \in Row, NEW n \in Name, NEW c \in Config
  PROVE  LET u == updateConfigResettingStatus(r, n, c)
         IN  /\ u \in Row /\ u.name = n /\ u.config = c /\ u.mine = r.mine /\ u.born = r.born
             /\ ResultOf(r.status, r.config) => ResultOf(u.status, u.config)
<1>1. CASE r.config = c  BY <1>1 DEF updateConfigResettingStatus, Row
<1>2. CASE r.config # c  BY <1>2 DEF updateConfigResettingStatus, Row, ResultOf
<1>. QED  BY <1>1, <1>2

\* Decoding a configuration gives one, and decoding it again changes nothing.
LEMMA Upgrade ==
  ASSUME NEW c \in Config
  PROVE  upgraded(c) \in Config /\ upgraded(upgraded(c)) = upgraded(c)
<1> DEFINE d == canonical[c.content][c.core]
           l == legacyCore[c.content][c.core]
           v == legacyPolicy[c.content][c.core]
           old == c.policy # NoPolicy /\ c.policy.value = Legacy
           p == IF old THEN [value |-> v, source |-> "migrated"] ELSE c.policy
<1>1. /\ c.content \in Content /\ c.override \in Override /\ c.core \in Core
      /\ c.policy \in Policy \cup {NoPolicy}
      /\ c = [content |-> c.content, override |-> c.override, core |-> c.core, policy |-> c.policy]
  BY DEF Config
<1>2. d \in Content /\ l \in Core /\ v \in PolicyValue  BY <1>1, DecodeAssumption
<1>3. canonical[d][l] = d /\ legacyCore[d][l] = l  BY <1>1, DecodeAssumption
<1>4. p \in Policy \cup {NoPolicy} /\ ~(p # NoPolicy /\ p.value = Legacy)
  <2>1. [value |-> v, source |-> "migrated"] \in Policy  BY <1>2 DEF Policy, Source
  <2>2. v # Legacy  BY <1>2 DEF PolicyValue, Legacy
  <2>. QED  BY <1>1, <2>1, <2>2
<1>5. upgraded(c) = [content |-> d, override |-> c.override, core |-> l, policy |-> p]
  BY <1>1 DEF upgraded
<1> HIDE DEF d, l, v, p
<1>6. upgraded(c) \in Config  BY <1>1, <1>2, <1>4, <1>5 DEF Config
<1>7. upgraded([content |-> d, override |-> c.override, core |-> l, policy |-> p])
        = [content |-> d, override |-> c.override, core |-> l, policy |-> p]
  BY <1>3, <1>4 DEF upgraded
<1>. QED  BY <1>5, <1>6, <1>7

\* What merging a published configuration with the local settings gives.
LEMMA Merge ==
  ASSUME NEW c \in Config, NEW t \in Content
  PROVE  LET m == merged(c, t)
         IN  /\ m \in Config /\ m.content = t /\ m.override = c.override
             /\ m.core = IF typeOf[t] = typeOf[c.content] THEN c.core ELSE CoreAuto
             /\ m.policy = keptPolicy(c.policy, policyOf[t])
<1>1. keptPolicy(c.policy, policyOf[t]) \in Policy \cup {NoPolicy}
  BY PolicyAssumption DEF keptPolicy, Config
<1>2. c.override \in Override /\ c.core \in Core  BY DEF Config
<1>3. PICK p : p = keptPolicy(c.policy, policyOf[t])  OBVIOUS
<1>4. merged(c, t) = [content |-> t, override |-> c.override, policy |-> p,
                      core |-> IF typeOf[t] = typeOf[c.content] THEN c.core ELSE CoreAuto]
  BY <1>3 DEF merged, preserveSubscriptionOverridesFrom
<1>. QED  BY <1>1, <1>2, <1>3, <1>4, CoreAssumption DEF Config

\* A policy of the user's, or of an unknown source, is kept while there is one.
LEMMA PolicyStays ==
  ASSUME NEW p, NEW q, NoPolicy \notin {p, keptPolicy(p, q)}, p.source \in {"local", "unknown"}
  PROVE  keptPolicy(p, q) = p
BY DEF keptPolicy

\* A row that is not absent is a row.
LEMMA RowThere ==
  ASSUME TypeOK, NEW i \in Id
  PROVE  /\ Present(i) => rows[i] \in Row
         /\ \A j \in Job : exists[j][i] # NoRow => exists[j][i] \in Row
BY DEF TypeOK, Present

\* The fields of a row.
LEMMA RowFields ==
  ASSUME NEW r \in Row
  PROVE  /\ r.name \in Name /\ r.config \in Config /\ r.mine \in BOOLEAN /\ r.born \in Nat
         /\ r.status \subseteq Config /\ r # NoRow
BY RowAssumption DEF Row, Config

\* The number of profiles an update adds.
LEMMA InsertCount ==
  ASSUME NEW j \in Job
  PROVE  Cardinality(toInsert(j)) \in Nat
<1>1. toInsert(j) \subseteq Name  BY DEF toInsert, Published
<1>2. IsFiniteSet(toInsert(j))  BY <1>1, FS_Subset, DataAssumption
<1>. QED  BY <1>2, FS_CardinalityType

\* The rows of a backup, as a restore inserts them.
LEMMA InsertedRows ==
  ASSUME NEW b \in Backups, NEW g \in Nat
  PROVE  LET r == inserted(b, g)
         IN  /\ r \in [Id -> Row \cup {NoRow}]
             /\ \A i \in Id : r[i] # NoRow =>
                  /\ b.rows[i] # NoRow /\ i <= b.top /\ r[i].born = g
                  /\ ResultOf(r[i].status, r[i].config)
                  /\ r[i].mine = b.rows[i].mine /\ r[i].name = b.rows[i].name
<1>1. GoodBackup(b)  BY BackupAssumption
<1>2. ASSUME NEW i \in Id, b.rows[i] # NoRow
      PROVE  LET r == [b.rows[i] EXCEPT !.config = upgraded(@), !.born = g]
             IN  /\ r \in Row /\ r.born = g /\ i <= b.top
                 /\ ResultOf(r.status, r.config)
                 /\ r.mine = b.rows[i].mine /\ r.name = b.rows[i].name
  <2> DEFINE old == b.rows[i]
             r == [old EXCEPT !.config = upgraded(@), !.born = g]
  <2>1. old \in Row /\ i <= b.top /\ ResultOf(old.status, old.config)
    BY <1>1, <1>2 DEF GoodBackup
  <2> HIDE DEF old
  <2>2. old.config \in Config /\ old.status \subseteq Config  BY <2>1 DEF Row
  <2>3. upgraded(old.config) \in Config  BY <2>2, Upgrade
  <2>4. /\ r \in Row /\ r.born = g /\ r.status = old.status /\ r.config = upgraded(old.config)
        /\ r.mine = old.mine /\ r.name = old.name
    BY <2>1, <2>3 DEF Row
  <2>5. ASSUME NEW s \in old.status PROVE upgraded(old.config) = upgraded(s)
    <3>1. old.config = s \/ old.config = upgraded(s)  BY <2>1, <2>5 DEF ResultOf
    <3>2. upgraded(upgraded(s)) = upgraded(s)  BY <2>2, <2>5, Upgrade
    <3>. QED  BY <3>1, <3>2
  <2>6. ResultOf(r.status, r.config)  BY <2>4, <2>5 DEF ResultOf
  <2>. QED  BY <2>1, <2>4, <2>6 DEF old
<1>. QED  BY <1>2 DEF inserted

\* What the transaction of an update does to each row: it is new, deleted,
\* updated, or left alone.
Inserted(j, i) ==
  /\ i > top /\ i <= top'
  /\ rows'[i] \in Row /\ rows'[i].mine /\ rows'[i].status = {}
  /\ rows'[i].name \in toInsert(j)
Deleted(j, i) == i \in toDelete(j) /\ i \in getIdsByGroup /\ rows'[i] = NoRow
Updated(j, i) ==
  /\ i \in toUpdate(j) /\ i \in getIdsByGroup
  /\ rows'[i] \in Row
  /\ rows'[i].name = exists[j][i].name
  /\ rows'[i].mine = rows[i].mine /\ rows'[i].born = rows[i].born
  /\ LocalKept(rows[i].config, rows'[i].config)
  /\ ResultOf(rows[i].status, rows[i].config) => ResultOf(rows'[i].status, rows'[i].config)
Untouched(j, i) == rows'[i] = rows[i] /\ ~(i \in toDelete(j) /\ i \in getIdsByGroup)
                                      /\ ~(i \in toUpdate(j) /\ i \in getIdsByGroup)

\* The transaction, row by row.
LEMMA CommitRows ==
  ASSUME TypeOK, NEW j \in Job, Commit(j)
  PROVE  /\ rows' \in [Id -> Row \cup {NoRow}]
         /\ top' \in 0..MaxId /\ top <= top'
         /\ \A i \in Id : Inserted(j, i) \/ Deleted(j, i) \/ Updated(j, i) \/ Untouched(j, i)
         /\ \A i, k \in Id : i > top /\ k > top /\ i <= top' /\ k <= top'
                               /\ rows'[i].name = rows'[k].name => i = k
<1> DEFINE n == Cardinality(toInsert(j))
<1>1. n \in Nat  BY InsertCount
<1>2. top \in 0..MaxId /\ top' = top + n /\ top + n <= MaxId /\ gen \in Nat /\ MaxId \in Nat
  BY BoundAssumption DEF Commit, TypeOK
<1>3. PICK names \in [(top + 1)..(top + n) -> toInsert(j)] :
        /\ \A i, k \in DOMAIN names : names[i] = names[k] => i = k
        /\ rows' = written(j, names)
  BY DEF Commit
<1> HIDE DEF n
<1>4. \A m \in toInsert(j) : m \in Name /\ feed[j][m] \in Content
  BY DEF toInsert, Published, TypeOK, Feed
<1>5. ASSUME NEW i \in Id, i > top, i <= top + n
      PROVE  /\ rows'[i] \in Row /\ rows'[i].mine /\ rows'[i].status = {}
             /\ rows'[i].name = names[i] /\ names[i] \in toInsert(j) /\ i \in DOMAIN names
  <2>1. i \in (top + 1)..(top + n)  BY <1>1, <1>2, <1>5 DEF Id
  <2>2. names[i] \in toInsert(j) /\ i \in DOMAIN names  BY <1>3, <2>1
  <2>3. rows'[i] = newRow(names[i], feed[j][names[i]])
    BY <1>3, <1>5 DEF written, n
  <2>4. newRow(names[i], feed[j][names[i]]) \in Row
    <3>1. policyOf[feed[j][names[i]]] \in Policy \cup {NoPolicy}  BY <1>4, <2>2, PolicyAssumption
    <3>. QED  BY <1>2, <1>4, <2>2, <3>1, DataAssumption, CoreAssumption DEF newRow, Row, Config
  <2>. QED  BY <2>2, <2>3, <2>4 DEF newRow
<1>6. ASSUME NEW i \in Id, ~(i > top /\ i <= top + n)
      PROVE  Deleted(j, i) \/ Updated(j, i) \/ Untouched(j, i)
  <2>1. CASE i \in toDelete(j) /\ i \in getIdsByGroup
    BY <1>3, <1>6, <2>1 DEF written, n, Deleted
  <2>2. CASE ~(i \in toDelete(j) /\ i \in getIdsByGroup) /\ i \in toUpdate(j) /\ i \in getIdsByGroup
    <3>1. rows'[i] = updateConfigResettingStatus(rows[i], exists[j][i].name, replaceSubscriptionBean(j, i))
      BY <1>3, <1>6, <2>2 DEF written, n
    <3>2. rows[i] \in Row  BY <2>2, RowThere DEF getIdsByGroup
    <3>3. exists[j][i] \in Row /\ exists[j][i].name \in Published(j)
      BY <2>2, RowThere DEF toUpdate, toReplace, Seen
    <3>4. feed[j][exists[j][i].name] \in Content /\ exists[j][i].name \in Name
      BY <3>3 DEF Published, TypeOK, Feed
    <3>5. rows[i].config \in Config  BY <3>2, RowFields
    <3>6. PICK c : c = replaceSubscriptionBean(j, i)  OBVIOUS
    <3>7. c = merged(rows[i].config, feed[j][exists[j][i].name])  BY <3>6 DEF replaceSubscriptionBean
    <3>8. /\ c \in Config /\ c.content = feed[j][exists[j][i].name]
          /\ c.override = rows[i].config.override
          /\ c.core = IF typeOf[c.content] = typeOf[rows[i].config.content] THEN rows[i].config.core ELSE CoreAuto
          /\ c.policy = keptPolicy(rows[i].config.policy, policyOf[c.content])
      <4>1. PICK t : t = feed[j][exists[j][i].name]  OBVIOUS
      <4>2. t \in Content /\ c = merged(rows[i].config, t)  BY <3>4, <3>7, <4>1
      <4>. QED  BY <3>5, <4>1, <4>2, Merge
    <3>9. LocalKept(rows[i].config, c)  BY <3>8, PolicyStays DEF LocalKept
    <3>10. /\ rows'[i] \in Row /\ rows'[i].name = exists[j][i].name /\ rows'[i].config = c
           /\ rows'[i].mine = rows[i].mine /\ rows'[i].born = rows[i].born
           /\ ResultOf(rows[i].status, rows[i].config) => ResultOf(rows'[i].status, rows'[i].config)
      BY <3>1, <3>2, <3>4, <3>6, <3>8, RowUpdate
    <3>11. LocalKept(rows[i].config, rows'[i].config)  BY <3>9, <3>10 DEF LocalKept
    <3>. QED  BY <2>2, <3>10, <3>11 DEF Updated
  <2>3. CASE ~(i \in toDelete(j) /\ i \in getIdsByGroup) /\ ~(i \in toUpdate(j) /\ i \in getIdsByGroup)
    BY <1>3, <1>6, <2>3 DEF written, n, Untouched
  <2>. QED  BY <2>1, <2>2, <2>3
<1>7. \A i \in Id : Inserted(j, i) \/ Deleted(j, i) \/ Updated(j, i) \/ Untouched(j, i)
  BY <1>2, <1>5, <1>6 DEF Inserted
<1>8. rows' \in [Id -> Row \cup {NoRow}]
  <2>1. \A i \in Id : rows'[i] \in Row \cup {NoRow}
    BY <1>7 DEF Inserted, Deleted, Updated, Untouched, TypeOK
  <2>. QED  BY <1>3, <2>1 DEF written
<1>9. \A i, k \in Id : i > top /\ k > top /\ i <= top' /\ k <= top'
                         /\ rows'[i].name = rows'[k].name => i = k
  BY <1>2, <1>3, <1>5
<1>. QED  BY <1>1, <1>2, <1>7, <1>8, <1>9

-----------------------------------------------------------------------------
(* Types. *)

\* What forgetting the locals of some updates leaves.
LEMMA ForgetTypes ==
  ASSUME TypeOK, NEW jobs, Forget(jobs)
  PROVE  /\ sgen' \in [Job -> Nat] /\ sid' \in [Job -> Link \cup {Never}]
         /\ exists' \in [Job -> [Id -> Row \cup {NoRow}]] /\ feed' \in [Job -> Feed]
<1>1. NoRows \in [Id -> Row \cup {NoRow}]  BY DEF NoRows
<1>2. NoFeed \in Feed  BY DEF NoFeed, Feed
<1>. QED  BY <1>1, <1>2 DEF Forget, TypeOK

\* The initial state has the declared types.
LEMMA InitType == Init => TypeOK
<1>. SUFFICES ASSUME Init PROVE TypeOK  OBVIOUS
<1>1. PICK b \in Backups : rows = inserted(b, 0) /\ top = b.top /\ group = b.group /\ stray = Astray(group)
  BY DEF Init
<1>2. rows \in [Id -> Row \cup {NoRow}]  BY <1>1, InsertedRows
<1>3. top \in 0..MaxId /\ group \in Group \cup {None}  BY <1>1, BackupAssumption DEF GoodBackup
<1>4. NoRows \in [Id -> Row \cup {NoRow}]  BY DEF NoRows
<1>5. NoFeed \in Feed  BY DEF NoFeed, Feed
<1>6. stray \in BOOLEAN  BY <1>1 DEF Astray
<1>. QED
  BY <1>2, <1>3, <1>4, <1>5, <1>6, BoundAssumption DEF Init, TypeOK, Place, Working

\* The steps of an update keep the types.
LEMMA JobType ==
  ASSUME TypeOK, NEW j \in Job, Begin(j) \/ JobStep(j)
  PROVE  TypeOK'
<1>0. updating \in [Process -> BOOLEAN] /\ procOf[j] \in Process  BY ProcessAssumption DEF TypeOK
<1>1. CASE Begin(j)
  <2>1. updating' \in [Process -> BOOLEAN]  BY <1>0, <1>1 DEF Begin
  <2>2. updates' \in 0..MaxUpdates  BY <1>1, BoundAssumption DEF Begin, TypeOK
  <2>3. pc' \in [Job -> Place]  BY <1>1 DEF Begin, TypeOK, Goto, Place
  <2>. QED  BY <1>1, <2>1, <2>2, <2>3 DEF TypeOK, Begin, dbVars, uiVars
<1>2. CASE TryLock(j)
  <2>1. updating' \in [Process -> BOOLEAN]  BY <1>0, <1>2 DEF TryLock, unmark
  <2>2. lock' \in Process \cup {None}  BY <1>0, <1>2 DEF TryLock, TypeOK
  <2>3. pc' \in [Job -> Place]  BY <1>2 DEF TryLock, TypeOK, Goto, Place, Working
  <2>. QED  BY <1>2, <2>1, <2>2, <2>3 DEF TypeOK, TryLock, dbVars, uiVars
<1>3. CASE ReadGeneration(j)
  BY <1>3 DEF TypeOK, ReadGeneration, Goto, Place, Working, dbVars, uiVars
<1>4. CASE ReadGroup(j)
  <2>1. group # None => group.link \in Link  BY DEF TypeOK, Group
  <2>. QED  BY <2>1, <1>4 DEF TypeOK, ReadGroup, Goto, Place, Working, dbVars, uiVars
<1>5. CASE Download(j)
  <2>1. [i \in Id |-> IF i \in getIdsByGroup THEN rows[i] ELSE NoRow] \in [Id -> Row \cup {NoRow}]
    BY DEF TypeOK
  <2>. QED  BY <2>1, <1>5 DEF TypeOK, Download, Goto, Place, Working, dbVars, uiVars
<1>6. CASE Abandon(j)
  BY <1>6, ForgetTypes DEF TypeOK, Abandon, Goto, Place, Working, dbVars, uiVars
<1>7. CASE Commit(j)
  <2>1. rows' \in [Id -> Row \cup {NoRow}] /\ top' \in 0..MaxId  BY <1>7, CommitRows
  <2>2. group # None /\ group' = [group EXCEPT !.updated = sid[j]]
    BY <1>7 DEF Commit, mayCommit
  <2>3. group' \in Group
    <3>1. group \in Group /\ sid[j] \in Link \cup {Never}  BY <2>2 DEF TypeOK
    <3>. QED  BY <2>2, <3>1 DEF Group
  <2>4. loose' \subseteq Id /\ stray' \in BOOLEAN  BY <1>7 DEF Commit, stillLoose, TypeOK
  <2>. QED  BY <1>7, <2>1, <2>3, <2>4, ForgetTypes DEF TypeOK, Commit, Goto, Place, Working
<1>8. CASE CommitRefused(j)
  BY <1>8, ForgetTypes DEF TypeOK, CommitRefused, Goto, Place, Working, dbVars, uiVars
<1>9. CASE Unlock(j)
  BY <1>9 DEF TypeOK, Unlock, Goto, Place, Working, dbVars, uiVars
<1>10. CASE finishUpdate(j)
  BY <1>10, ProcessAssumption DEF TypeOK, finishUpdate, unmark, Goto, Place, Working, dbVars, uiVars
<1>. QED  BY <1>1, <1>2, <1>3, <1>4, <1>5, <1>6, <1>7, <1>8, <1>9, <1>10 DEF JobStep

\* What an editor saves is a configuration.
LEMMA Edited ==
  ASSUME NEW c \in Config
  PROVE  edited(c) \subseteq Config
<1>1. c.content \in Content /\ c.policy \in Policy \cup {NoPolicy}  BY DEF Config
<1>2. cores[typeOf[c.content]] \subseteq Core  BY <1>1, CoreAssumption, PolicyAssumption
<1>3. editedPolicies(c.policy) \subseteq Policy \cup {NoPolicy}
  BY <1>1 DEF editedPolicies, Policy, Source
<1>. QED  BY <1>2, <1>3 DEF edited, Config

\* The save of a profile editor, row by row.
LEMMA SavedRow ==
  ASSUME TypeOK, NEW name \in Name, SaveProfile(name)
  PROVE  /\ rows' \in [Id -> Row \cup {NoRow}]
         /\ \A i \in Id :
              \/ rows'[i] = rows[i]
              \/ /\ Present(i) /\ i = edit.id
                 /\ rows'[i] \in Row /\ rows'[i].name = name
                 /\ rows'[i].mine = rows[i].mine /\ rows'[i].born = rows[i].born
                 /\ ResultOf(rows[i].status, rows[i].config) => ResultOf(rows'[i].status, rows'[i].config)
<1>1. PICK k : k = edit.id  OBVIOUS
<1>2. k \in Id /\ edit.config \in Config  BY <1>1 DEF TypeOK, SaveProfile
<1>3. PICK config \in edited(edit.config) :
        rows' = IF Present(k)
                THEN [rows EXCEPT ![k] = updateConfigResettingStatus(rows[k], name, config)]
                ELSE rows
  BY <1>1 DEF SaveProfile
<1>4. config \in Config  BY <1>2, <1>3, Edited
<1>5. rows \in [Id -> Row \cup {NoRow}]  BY DEF TypeOK
<1>6. CASE ~Present(k)  BY <1>3, <1>5, <1>6
<1>7. CASE Present(k)
  <2>1. PICK u : u = updateConfigResettingStatus(rows[k], name, config)  OBVIOUS
  <2>2. rows[k] \in Row  BY <1>2, <1>7, RowThere
  <2>3. /\ u \in Row /\ u.name = name /\ u.mine = rows[k].mine /\ u.born = rows[k].born
        /\ ResultOf(rows[k].status, rows[k].config) => ResultOf(u.status, u.config)
    BY <1>4, <2>1, <2>2, RowUpdate
  <2>4. rows' = [rows EXCEPT ![k] = u]  BY <1>3, <1>7, <2>1
  <2>. QED  BY <1>1, <1>2, <1>5, <1>7, <2>3, <2>4
<1>. QED  BY <1>6, <1>7

\* The steps of the user, a restore and a death keep the types.
LEMMA UserType ==
  ASSUME TypeOK, UserStep
  PROVE  TypeOK'
<1>0. User => users' \in 0..MaxUser  BY BoundAssumption DEF TypeOK, User
<1>1. ASSUME NEW i \in Id, OpenEditor(i) PROVE TypeOK'
  <2>1. edit' \in [id : Id, config : Config]  BY <1>1, RowThere, RowFields DEF OpenEditor
  <2>. QED  BY <1>0, <1>1, <2>1 DEF TypeOK, OpenEditor, dbVars, jobVars
<1>2. ASSUME NEW name \in Name, SaveProfile(name) PROVE TypeOK'
  <2>1. edit.id \in Id  BY <1>2 DEF TypeOK, SaveProfile
  <2>2. rows' \in [Id -> Row \cup {NoRow}]  BY <1>2, SavedRow
  <2>3. loose' \subseteq Id  BY <1>2, <2>1 DEF SaveProfile, TypeOK
  <2>. QED  BY <1>2, <2>2, <2>3 DEF TypeOK, SaveProfile, jobVars
<1>3. CASE CloseEditor  BY <1>3 DEF TypeOK, CloseEditor, dbVars, jobVars
<1>4. ASSUME NEW link \in Link, OpenSave(link) PROVE TypeOK'
  <2>1. save' \in [link : Link, keep : BOOLEAN, gen : Nat]  BY <1>4 DEF OpenSave, TypeOK
  <2>. QED  BY <1>0, <1>4, <2>1 DEF TypeOK, OpenSave, dbVars, jobVars
<1>5. CASE updateGroup
  <2>2. group' \in Group \cup {None}
    <3>1. CASE group = None  BY <1>5, <3>1 DEF updateGroup
    <3>2. CASE group # None
      <4>1. save.link \in Link  BY <1>5 DEF updateGroup, TypeOK
      <4>2. keptUpdated(save) \in Link \cup {Never}  BY <3>2 DEF keptUpdated, TypeOK, Group
      <4>. QED  BY <1>5, <3>2, <4>1, <4>2 DEF updateGroup, Group
    <3>. QED  BY <3>1, <3>2
  <2>3. stray' \in BOOLEAN  BY <1>5 DEF updateGroup
  <2>. QED  BY <1>5, <2>2, <2>3 DEF TypeOK, updateGroup, jobVars
<1>6. ASSUME NEW ids, DeleteProfiles(ids) PROVE TypeOK'
  BY <1>0, <1>6 DEF TypeOK, DeleteProfiles, jobVars, uiVars
<1>7. CASE deleteGroup  BY <1>0, <1>7 DEF TypeOK, deleteGroup, jobVars, uiVars
<1>8. CASE StartTest
  <2>1. \A i \in getIdsByGroup : rows[i].config \in Config
    BY RowThere, RowFields DEF getIdsByGroup
  <2>. QED  BY <1>0, <1>8, <2>1 DEF TypeOK, StartTest, dbVars, jobVars
<1>9. ASSUME NEW done \in SUBSET Id, updateTestResults(done) PROVE TypeOK'
  <2>1. ASSUME NEW i \in Id, Present(i) PROVE [rows[i] EXCEPT !.status = testing[i]] \in Row
    BY <2>1, RowThere DEF TypeOK, Row
  <2>2. rows' \in [Id -> Row \cup {NoRow}]  BY <1>9, <2>1 DEF updateTestResults, TypeOK
  <2>. QED  BY <1>9, <2>2 DEF TypeOK, updateTestResults, jobVars
<1>10. ASSUME NEW b \in Backups, Restore(b) PROVE TypeOK'
  <2>1. gen' \in Nat  BY <1>10 DEF Restore, TypeOK
  <2>2. rows' \in [Id -> Row \cup {NoRow}]  BY <1>10, <2>1, InsertedRows DEF Restore
  <2>3. top' \in 0..MaxId /\ group' \in Group \cup {None}
    BY <1>10, BackupAssumption DEF Restore, GoodBackup, TypeOK
  <2>4. loose' \subseteq Id /\ stray' \in BOOLEAN  BY <1>10 DEF Restore, Astray
  <2>. QED  BY <1>0, <1>10, <2>1, <2>2, <2>3, <2>4 DEF TypeOK, Restore, jobVars
<1>11. ASSUME NEW p \in Process, Die(p) PROVE TypeOK'
  <2>. QED  BY <1>0, <1>11, ForgetTypes DEF TypeOK, Die, dbVars, Place
<1>. QED
  BY <1>1, <1>2, <1>3, <1>4, <1>5, <1>6, <1>7, <1>8, <1>9, <1>10, <1>11 DEF UserStep

-----------------------------------------------------------------------------
(* The marker and the file lock. *)

\* One step of one update, as far as Locks is concerned.
LEMMA LocksStep ==
  ASSUME TypeOK, Locks, NEW j \in Job, Begin(j) \/ JobStep(j)
  PROVE  Locks'
<1>1. /\ pc \in [Job -> Place] /\ updating \in [Process -> BOOLEAN] /\ lock \in Process \cup {None}
      /\ procOf \in [Job -> Process] /\ None \notin Process
  BY ProcessAssumption DEF TypeOK
<1>2. \A k \in Job : k # j => pc'[k] = pc[k]
  BY <1>1 DEF Begin, JobStep, TryLock, ReadGeneration, ReadGroup, Download, Abandon, Commit, CommitRefused, Unlock, finishUpdate, Goto
<1>3. CASE Begin(j)
  <2>1. pc[j] = "idle" /\ pc'[j] = "lock" /\ lock' = lock /\ updating[procOf[j]] = FALSE
        /\ updating' = [updating EXCEPT ![procOf[j]] = TRUE]
    BY <1>1, <1>3 DEF Begin, Goto
  <2>2. \A p \in Process : updating'[p] = (p = procOf[j] \/ updating[p])
    BY <1>1, <2>1
  <2>3. \A k \in Job : pc[k] # "idle" => procOf[k] # procOf[j]  BY <2>1 DEF Locks
  <2>4. \A k \in Job : pc'[k] \in Working \cup {"unlock"} => lock' = procOf[k]
    BY <1>2, <2>1 DEF Locks, Working
  <2>5. \A k \in Job : pc'[k] # "idle" => updating'[procOf[k]]
    BY <1>1, <1>2, <2>1, <2>2 DEF Locks
  <2>6. \A k, l \in Job : pc'[k] # "idle" /\ pc'[l] # "idle" /\ procOf[k] = procOf[l] => k = l
    BY <1>2, <2>1, <2>3 DEF Locks
  <2>7. ASSUME NEW p \in Process
        PROVE  /\ updating'[p] => \E k \in Job : procOf[k] = p /\ pc'[k] # "idle"
               /\ lock' = p => \E k \in Job : procOf[k] = p /\ pc'[k] \in Working \cup {"unlock"}
    BY <1>1, <1>2, <2>1, <2>2 DEF Locks, MarkersHaveOwners, Working
  <2>. QED  BY <2>4, <2>5, <2>6, <2>7 DEF Locks, MarkersHaveOwners
<1>4. CASE pc[j] = "lock" /\ lock' = procOf[j] /\ lock = None /\ updating' = updating /\ pc'[j] = "generation"
  <2>. QED  BY <1>1, <1>2, <1>4 DEF Locks, MarkersHaveOwners, Working
<1>5. CASE /\ pc[j] \in {"lock", "finish"} /\ pc'[j] = "idle" /\ lock' = lock
           /\ updating' = [updating EXCEPT ![procOf[j]] = FALSE]
  <2>1. \A p \in Process : updating'[p] = (p # procOf[j] /\ updating[p])
    BY <1>1, <1>5
  <2>2. \A k \in Job : k # j /\ pc[k] # "idle" => procOf[k] # procOf[j]
    BY <1>5 DEF Locks
  <2>. QED  BY <1>1, <1>2, <1>5, <2>1, <2>2 DEF Locks, MarkersHaveOwners, Working
<1>6. CASE /\ pc[j] \in Working /\ pc'[j] \in Working \cup {"unlock"}
           /\ lock' = lock /\ updating' = updating
  BY <1>1, <1>2, <1>6 DEF Locks, MarkersHaveOwners, Working
<1>7. CASE pc[j] = "unlock" /\ pc'[j] = "finish" /\ lock' = None /\ updating' = updating
  <2>1. lock = procOf[j]  BY <1>7 DEF Locks
  <2>2. ASSUME NEW k \in Job, pc[k] \in Working \cup {"unlock"} PROVE k = j
    <3>1. lock = procOf[k]  BY <2>2 DEF Locks
    <3>2. pc[k] # "idle" /\ pc[j] # "idle"  BY <1>7, <2>2 DEF Working
    <3>. QED  BY <2>1, <3>1, <3>2 DEF Locks
  <2>. QED  BY <1>1, <1>2, <1>7, <2>2 DEF Locks, MarkersHaveOwners, Working
<1>. QED
  BY <1>1, <1>3, <1>4, <1>5, <1>6, <1>7
  DEF JobStep, TryLock, ReadGeneration, ReadGroup, Download, Abandon, Commit, CommitRefused, Unlock, finishUpdate, Goto, LockFree, unmark, Working, dbVars

\* The death of a process takes back its marker and its lock with its updates.
LEMMA LocksDie ==
  ASSUME TypeOK, Locks, NEW p \in Process, Die(p)
  PROVE  Locks'
<1>1. /\ pc \in [Job -> Place] /\ updating \in [Process -> BOOLEAN] /\ lock \in Process \cup {None}
      /\ procOf \in [Job -> Process] /\ None \notin Process
  BY ProcessAssumption DEF TypeOK
<1>2. \A k \in Job : pc'[k] = IF procOf[k] = p THEN "idle" ELSE pc[k]  BY DEF Die
<1>3. \A q \in Process : updating'[q] = (q # p /\ updating[q])  BY <1>1 DEF Die
<1>4. lock' = IF lock = p THEN None ELSE lock  BY DEF Die
<1>5. \A k \in Job : pc'[k] \in Working \cup {"unlock"} => lock' = procOf[k]
  BY <1>2, <1>4 DEF Locks, Working
<1>6. \A k \in Job : pc'[k] # "idle" => updating'[procOf[k]]
  BY <1>1, <1>2, <1>3 DEF Locks
<1>7. \A k, l \in Job : pc'[k] # "idle" /\ pc'[l] # "idle" /\ procOf[k] = procOf[l] => k = l
  BY <1>2 DEF Locks
<1>8. ASSUME NEW q \in Process
      PROVE  /\ updating'[q] => \E k \in Job : procOf[k] = q /\ pc'[k] # "idle"
             /\ lock' = q => \E k \in Job : procOf[k] = q /\ pc'[k] \in Working \cup {"unlock"}
  <2>1. updating'[q] => q # p /\ updating[q]  BY <1>3
  <2>2. lock' = q => q # p /\ lock = q  BY <1>1, <1>4
  <2>. QED  BY <1>2, <2>1, <2>2 DEF Locks, MarkersHaveOwners, Working
<1>. QED  BY <1>5, <1>6, <1>7, <1>8 DEF Locks, MarkersHaveOwners

\* Nothing else touches them.
LEMMA LocksInv ==
  ASSUME TypeOK, Locks, [Next]_vars
  PROVE  Locks'
<1>1. CASE UNCHANGED <<pc, updating, lock>>  BY <1>1 DEF Locks, MarkersHaveOwners
<1>2. ASSUME UserStep, ~\E p \in Process : Die(p) PROVE UNCHANGED <<pc, updating, lock>>
  BY <1>2 DEF UserStep, OpenEditor, SaveProfile, CloseEditor, OpenSave, updateGroup, DeleteProfiles, deleteGroup, StartTest, updateTestResults, Restore, jobVars
<1>. QED  BY <1>1, <1>2, LocksStep, LocksDie DEF Next, vars, jobVars

-----------------------------------------------------------------------------
(* Test results, the group's row, and rows of a deleted group. *)

\* A test result goes with its configuration.
LEMMA StatusInv ==
  ASSUME TypeOK, StatusMatchesConfig, [Next]_vars
  PROVE  StatusMatchesConfig'
<1>. SUFFICES ASSUME NEW i \in Id, rows'[i] # NoRow PROVE ResultOf(rows'[i].status, rows'[i].config)
  BY DEF StatusMatchesConfig, Present
<1>0. Present(i) => rows[i] \in Row /\ ResultOf(rows[i].status, rows[i].config)
  BY RowThere DEF StatusMatchesConfig
<1>1. CASE rows' = rows  BY <1>0, <1>1 DEF Present
<1>2. ASSUME NEW j \in Job, Commit(j) PROVE ResultOf(rows'[i].status, rows'[i].config)
  <2>1. Inserted(j, i) \/ Deleted(j, i) \/ Updated(j, i) \/ Untouched(j, i)  BY <1>2, CommitRows
  <2>2. CASE Inserted(j, i)  BY <2>2 DEF Inserted, ResultOf
  <2>3. CASE Updated(j, i)
    <3>1. Present(i)  BY <2>3 DEF Updated, getIdsByGroup
    <3>. QED  BY <1>0, <2>3, <3>1 DEF Updated
  <2>4. CASE Untouched(j, i)  BY <1>0, <2>4 DEF Untouched, Present
  <2>. QED  BY <2>1, <2>2, <2>3, <2>4 DEF Deleted
<1>3. ASSUME NEW name \in Name, SaveProfile(name) PROVE ResultOf(rows'[i].status, rows'[i].config)
  BY <1>0, <1>3, SavedRow DEF Present
<1>4. ASSUME NEW ids, DeleteProfiles(ids) PROVE ResultOf(rows'[i].status, rows'[i].config)
  BY <1>0, <1>4 DEF DeleteProfiles, Present
<1>5. CASE deleteGroup  BY <1>0, <1>5 DEF deleteGroup, Present
<1>6. ASSUME NEW done \in SUBSET Id, updateTestResults(done)
      PROVE  ResultOf(rows'[i].status, rows'[i].config)
  <2>1. CASE i \in done /\ Present(i) /\ sameConfig(i)
    <3>1. rows'[i] = [rows[i] EXCEPT !.status = testing[i]]  BY <1>6, <2>1 DEF updateTestResults
    <3>2. rows'[i].status = testing[i] /\ rows'[i].config = rows[i].config
      BY <1>0, <2>1, <3>1 DEF Row
    <3>. QED  BY <2>1, <3>2 DEF sameConfig, ResultOf
  <2>2. CASE ~(i \in done /\ Present(i) /\ sameConfig(i))
    <3>1. rows'[i] = rows[i]  BY <1>6, <2>2 DEF updateTestResults
    <3>. QED  BY <1>0, <3>1 DEF Present
  <2>. QED  BY <2>1, <2>2
<1>7. ASSUME NEW b \in Backups, Restore(b) PROVE ResultOf(rows'[i].status, rows'[i].config)
  <2>1. rows' = inserted(b, gen') /\ gen' \in Nat  BY <1>7 DEF Restore, TypeOK
  <2>. QED  BY <2>1, InsertedRows
<1>8. ASSUME NEW j \in Job, Begin(j) \/ JobStep(j), ~Commit(j) PROVE rows' = rows
  BY <1>8 DEF Begin, JobStep, TryLock, ReadGeneration, ReadGroup, Download, Abandon, CommitRefused, Unlock, finishUpdate, dbVars
<1>9. ASSUME NEW k \in Id, OpenEditor(k) PROVE rows' = rows  BY <1>9 DEF OpenEditor, dbVars
<1>10. ASSUME NEW p \in Process, Die(p) PROVE rows' = rows  BY <1>10 DEF Die, dbVars
<1>11. ASSUME NEW link \in Link, OpenSave(link) PROVE rows' = rows  BY <1>11 DEF OpenSave, dbVars
<1>12. ASSUME CloseEditor \/ updateGroup \/ StartTest \/ UNCHANGED vars PROVE rows' = rows
  BY <1>12 DEF CloseEditor, updateGroup, StartTest, vars, dbVars
<1>. QED
  BY <1>1, <1>2, <1>3, <1>4, <1>5, <1>6, <1>7, <1>8, <1>9, <1>10, <1>11, <1>12 DEF Next, UserStep

\* lastUpdated stays that of the group's subscription.
LEMMA GroupInv ==
  ASSUME TypeOK, SaveFresh, UpdatedForThisLink, [Next]_vars
  PROVE  SaveFresh' /\ UpdatedForThisLink'
<1>0. (group # None => group \in Group) /\ gen \in Nat  BY DEF TypeOK
<1>1. CASE UNCHANGED <<group, save, gen, stray>>  BY <1>1 DEF SaveFresh, UpdatedForThisLink
<1>2. ASSUME NEW j \in Job, Commit(j) PROVE SaveFresh' /\ UpdatedForThisLink'
  <2>1. group # None /\ group.link = sid[j] /\ save' = save /\ gen' = gen
        /\ group' = [group EXCEPT !.updated = sid[j]]
    BY <1>2 DEF Commit, mayCommit, isSubscriptionSuperseded
  <2>2. group'.link = group.link /\ group'.updated = sid[j]  BY <1>0, <2>1 DEF Group
  <2>. QED  BY <2>1, <2>2 DEF SaveFresh, UpdatedForThisLink
<1>3. ASSUME NEW link \in Link, OpenSave(link) PROVE SaveFresh' /\ UpdatedForThisLink'
  <2>1. UNCHANGED <<group, gen, stray>> /\ save'.gen = gen /\ save'.link = link
        /\ (save'.keep => group.link = link)
    BY <1>3 DEF OpenSave, dbVars
  <2>. QED  BY <1>0, <2>1 DEF SaveFresh, UpdatedForThisLink
<1>4. CASE updateGroup
  <2>1. SaveFresh'  BY <1>0, <1>4 DEF updateGroup, SaveFresh, NoSave
  <2>2. UpdatedForThisLink'
    <3>1. SUFFICES ASSUME group' # None, ~stray' PROVE group'.updated \in {Never, group'.link}
      BY DEF UpdatedForThisLink
    <3>2. group # None /\ group' = [link |-> save.link, updated |-> keptUpdated(save)]
      BY <1>4, <3>1 DEF updateGroup
    <3>3. CASE ~save.keep  BY <3>2, <3>3 DEF keptUpdated
    <3>4. CASE save.keep
      <4>1. save.gen = gen /\ ~stray  BY <1>4, <3>1, <3>2, <3>4 DEF updateGroup
      <4>. QED  BY <3>2, <3>4, <4>1 DEF keptUpdated, SaveFresh, UpdatedForThisLink
    <3>. QED  BY <3>3, <3>4
  <2>. QED  BY <2>1, <2>2
<1>5. CASE deleteGroup  BY <1>5 DEF deleteGroup, uiVars, SaveFresh, UpdatedForThisLink
<1>6. ASSUME NEW b \in Backups, Restore(b) PROVE SaveFresh' /\ UpdatedForThisLink'
  <2>1. save' = save /\ gen' = gen + 1 /\ group' = b.group /\ stray' = Astray(b.group)
    BY <1>6 DEF Restore
  <2>2. save.gen \in Nat /\ save.gen <= gen  BY DEF TypeOK, NoSave, SaveFresh
  <2>3. SaveFresh'  BY <1>0, <2>1, <2>2 DEF SaveFresh
  <2>. QED  BY <2>1, <2>3 DEF UpdatedForThisLink, Astray
<1>7. ASSUME NEW p \in Process, Die(p) PROVE SaveFresh' /\ UpdatedForThisLink'
  <2>1. UNCHANGED <<group, gen, stray>> /\ save' \in {save, NoSave}  BY <1>7 DEF Die, dbVars
  <2>. QED  BY <1>0, <2>1 DEF SaveFresh, UpdatedForThisLink, NoSave
<1>8. ASSUME NEW j \in Job, Begin(j) \/ JobStep(j), ~Commit(j) PROVE UNCHANGED <<group, save, gen, stray>>
  BY <1>8 DEF Begin, JobStep, TryLock, ReadGeneration, ReadGroup, Download, Abandon, CommitRefused, Unlock, finishUpdate, dbVars, uiVars
<1>9. ASSUME NEW k \in Id, OpenEditor(k) PROVE UNCHANGED <<group, save, gen, stray>>
  BY <1>9 DEF OpenEditor, dbVars
<1>10. ASSUME NEW name, SaveProfile(name) PROVE UNCHANGED <<group, save, gen, stray>>
  BY <1>10 DEF SaveProfile
<1>11. ASSUME NEW ids, DeleteProfiles(ids) \/ updateTestResults(ids)
       PROVE  UNCHANGED <<group, save, gen, stray>>
  BY <1>11 DEF DeleteProfiles, updateTestResults, uiVars
<1>12. ASSUME CloseEditor \/ StartTest \/ UNCHANGED vars PROVE UNCHANGED <<group, save, gen, stray>>
  BY <1>12 DEF CloseEditor, StartTest, vars, dbVars, uiVars
<1>. QED
  BY <1>1, <1>2, <1>3, <1>4, <1>5, <1>6, <1>7, <1>8, <1>9, <1>10, <1>11, <1>12 DEF Next, UserStep

-----------------------------------------------------------------------------
(* What an update compared with. *)

\* A step that leaves row i, or removes it, or writes it in place.
RowKept(i) ==
  \/ rows'[i] = NoRow
  \/ /\ Present(i)
     /\ rows'[i].mine = rows[i].mine /\ rows'[i].born = rows[i].born
     /\ rows'[i].name = rows[i].name \/ i \in loose'

\* A step that gives out no id, takes no snapshot and restores nothing.
Gentle ==
  /\ \A i \in Id : RowKept(i)
  /\ loose \subseteq loose'
  /\ top' = top /\ gen' = gen
  /\ \A j \in Job :
       /\ sgen'[j] <= gen
       /\ pc'[j] = "commit" => pc[j] = "commit" /\ sgen'[j] = sgen[j] /\ exists'[j] = exists[j]
       /\ \A i \in Id : exists'[j][i] # NoRow => exists[j][i] # NoRow

\* The steps of an update but the download and the transaction are gentle.
LEMMA GentleJob ==
  ASSUME TypeOK, \A k \in Job : sgen[k] <= gen,
         NEW j \in Job, Begin(j) \/ JobStep(j), ~Download(j), ~Commit(j)
  PROVE  Gentle
<1>1. rows' = rows /\ loose' = loose /\ top' = top /\ gen' = gen
  BY DEF Begin, JobStep, TryLock, ReadGeneration, ReadGroup, Abandon, CommitRefused, Unlock, finishUpdate, dbVars, uiVars
<1>2. gen \in Nat /\ pc \in [Job -> Place] /\ sgen \in [Job -> Nat]
      /\ exists \in [Job -> [Id -> Row \cup {NoRow}]]
  BY DEF TypeOK
<1>3. \A k \in Job : k # j => pc'[k] = pc[k] /\ sgen'[k] = sgen[k] /\ exists'[k] = exists[k]
  BY <1>2 DEF Begin, JobStep, TryLock, ReadGeneration, ReadGroup, Abandon, CommitRefused, Unlock, finishUpdate, Goto, Forget
<1>4. /\ pc'[j] # "commit"
      /\ sgen'[j] \in {0, gen, sgen[j]}
      /\ exists'[j] \in {NoRows, exists[j]}
  BY <1>2 DEF Begin, JobStep, TryLock, ReadGeneration, ReadGroup, Abandon, CommitRefused, Unlock, finishUpdate, Goto, Forget
<1>5. \A i \in Id : NoRows[i] = NoRow  BY DEF NoRows
<1>. QED  BY <1>1, <1>2, <1>3, <1>4, <1>5 DEF Gentle, RowKept, Present

\* So are the steps of the user, and deaths.
LEMMA GentleUser ==
  ASSUME TypeOK, \A k \in Job : sgen[k] <= gen,
         UserStep, ~\E b \in Backups : Restore(b)
  PROVE  Gentle
<1>1. ASSUME NEW p \in Process, Die(p) PROVE Gentle
  <2>1. rows' = rows /\ loose' = loose /\ top' = top /\ gen' = gen  BY <1>1 DEF Die, dbVars
  <2>2. ASSUME NEW k \in Job
        PROVE  /\ pc'[k] = "commit" => procOf[k] # p /\ pc[k] = "commit"
               /\ sgen'[k] = 0 \/ sgen'[k] = sgen[k]
               /\ procOf[k] # p => sgen'[k] = sgen[k] /\ exists'[k] = exists[k]
               /\ exists'[k] \in {NoRows, exists[k]}
    BY <1>1 DEF Die, Forget
  <2>3. gen \in Nat /\ \A i \in Id : NoRows[i] = NoRow  BY DEF NoRows, TypeOK
  <2>. QED  BY <2>1, <2>2, <2>3 DEF Gentle, RowKept, Present
<1>2. ASSUME UNCHANGED <<top, gen, jobVars>>, loose \subseteq loose', \A i \in Id : RowKept(i)
      PROVE  Gentle
  BY <1>2 DEF Gentle, jobVars
<1>3. ASSUME NEW i \in Id, OpenEditor(i) PROVE Gentle
  BY <1>2, <1>3 DEF OpenEditor, dbVars, RowKept, Present
<1>4. ASSUME NEW name \in Name, SaveProfile(name) PROVE Gentle
  <2>1. ASSUME NEW i \in Id PROVE RowKept(i)
    <3>1. CASE rows'[i] = rows[i]  BY <3>1 DEF RowKept, Present
    <3>2. CASE rows'[i] # rows[i]
      <4>1. Present(i) /\ i = edit.id /\ rows'[i].name = name
            /\ rows'[i].mine = rows[i].mine /\ rows'[i].born = rows[i].born
        BY <1>4, <3>2, SavedRow
      <4>2. name # rows[i].name => i \in loose'  BY <1>4, <4>1 DEF SaveProfile
      <4>. QED  BY <4>1, <4>2 DEF RowKept
    <3>. QED  BY <3>1, <3>2
  <2>2. loose \subseteq loose'  BY <1>4 DEF SaveProfile
  <2>. QED  BY <1>2, <1>4, <2>1, <2>2 DEF SaveProfile
<1>5. CASE CloseEditor  BY <1>2, <1>5 DEF CloseEditor, dbVars, RowKept, Present
<1>6. ASSUME NEW link \in Link, OpenSave(link) PROVE Gentle
  BY <1>2, <1>6 DEF OpenSave, dbVars, RowKept, Present
<1>7. CASE updateGroup  BY <1>2, <1>7 DEF updateGroup, RowKept, Present
<1>8. ASSUME NEW ids, DeleteProfiles(ids) PROVE Gentle
  BY <1>2, <1>8 DEF DeleteProfiles, uiVars, RowKept, Present
<1>9. CASE deleteGroup  BY <1>2, <1>9 DEF deleteGroup, uiVars, RowKept, Present
<1>10. CASE StartTest  BY <1>2, <1>10 DEF StartTest, dbVars, RowKept, Present
<1>11. ASSUME NEW done \in SUBSET Id, updateTestResults(done) PROVE Gentle
  <2>1. ASSUME NEW i \in Id PROVE RowKept(i)
    <3>1. CASE i \in done /\ Present(i) /\ sameConfig(i)
      <4>1. rows'[i] = [rows[i] EXCEPT !.status = testing[i]] /\ rows[i] \in Row
        BY <1>11, <3>1, RowThere DEF updateTestResults
      <4>2. rows'[i].name = rows[i].name /\ rows'[i].mine = rows[i].mine /\ rows'[i].born = rows[i].born
        BY <4>1 DEF Row
      <4>. QED  BY <3>1, <4>2 DEF RowKept
    <3>2. CASE ~(i \in done /\ Present(i) /\ sameConfig(i))
      BY <1>11, <3>2 DEF updateTestResults, RowKept, Present
    <3>. QED  BY <3>1, <3>2
  <2>. QED  BY <1>2, <1>11, <2>1 DEF updateTestResults
<1>. QED
  BY <1>1, <1>3, <1>4, <1>5, <1>6, <1>7, <1>8, <1>9, <1>10, <1>11 DEF UserStep

\* The conjuncts of the invariant about rows and snapshots.
Snapshots ==
  /\ IdsGivenOut
  /\ \A j \in Job : sgen[j] <= gen
  /\ \A j \in Job : Compared(j)
  /\ OneProfilePerName

\* A gentle step keeps them.
LEMMA GentleInv ==
  ASSUME TypeOK, Snapshots, Gentle
  PROVE  Snapshots'
<1>1. \A i \in Id : rows'[i] # NoRow =>
        /\ Present(i) /\ rows'[i].mine = rows[i].mine /\ rows'[i].born = rows[i].born
        /\ rows'[i].name = rows[i].name \/ i \in loose'
  BY DEF Gentle, RowKept
<1>2. \A i \in Id : i \in getIdsByGroup' \ loose' =>
        i \in getIdsByGroup \ loose /\ rows'[i].name = rows[i].name
  BY <1>1 DEF Gentle, getIdsByGroup, Present
<1>3. IdsGivenOut'  BY <1>1 DEF Snapshots, IdsGivenOut, Gentle, Present
<1>4. \A j \in Job : sgen'[j] <= gen'  BY DEF Gentle
<1>5. ASSUME NEW j \in Job PROVE Compared(j)'
  <2>1. SUFFICES ASSUME pc'[j] = "commit", sgen'[j] = gen', NEW i \in Id
                 PROVE  /\ exists'[j][i] # NoRow /\ rows'[i] # NoRow => exists'[j][i].born = rows'[i].born
                        /\ i \in getIdsByGroup' \ loose' =>
                             exists'[j][i] # NoRow /\ exists'[j][i].name = rows'[i].name
    BY DEF Compared, Present
  <2>2. pc[j] = "commit" /\ sgen[j] = gen /\ exists'[j] = exists[j]  BY <2>1 DEF Gentle
  <2>3. /\ exists[j][i] # NoRow /\ Present(i) => exists[j][i].born = rows[i].born
        /\ i \in getIdsByGroup \ loose => exists[j][i] # NoRow /\ exists[j][i].name = rows[i].name
    BY <2>2 DEF Snapshots, Compared
  <2>. QED  BY <1>1, <1>2, <2>2, <2>3
<1>6. OneProfilePerName'
  <2>1. SUFFICES ASSUME NEW i \in Id, NEW k \in Id, i \in getIdsByGroup' \ loose',
                        k \in getIdsByGroup' \ loose', rows'[i].name = rows'[k].name
                 PROVE  i = k
    BY DEF OneProfilePerName, getIdsByGroup
  <2>. QED  BY <1>2, <2>1 DEF Snapshots, OneProfilePerName
<1>. QED  BY <1>3, <1>4, <1>5, <1>6 DEF Snapshots

\* The download ends by reading the rows it will be compared with.
LEMMA DownloadInv ==
  ASSUME TypeOK, Snapshots, NEW j \in Job, Download(j)
  PROVE  Snapshots'
<1>1. rows' = rows /\ loose' = loose /\ top' = top /\ gen' = gen /\ sgen' = sgen
  BY DEF Download, dbVars, uiVars
<1>2. \A k \in Job : k # j => pc'[k] = pc[k] /\ exists'[k] = exists[k]
  BY DEF Download, Goto, TypeOK
<1>3. \A i \in Id : exists'[j][i] = IF i \in getIdsByGroup THEN rows[i] ELSE NoRow
  BY DEF Download, TypeOK
<1>4. getIdsByGroup' = getIdsByGroup  BY <1>1 DEF getIdsByGroup, Present
<1>5. IdsGivenOut'
  <2>1. ASSUME NEW i \in Id, NEW k \in Job, exists'[k][i] # NoRow PROVE i <= top'
    <3>1. CASE k = j
      <4>1. Present(i)  BY <1>3, <2>1, <3>1 DEF Present
      <4>. QED  BY <1>1, <4>1 DEF Snapshots, IdsGivenOut
    <3>2. CASE k # j  BY <1>1, <1>2, <2>1, <3>2 DEF Snapshots, IdsGivenOut
    <3>. QED  BY <3>1, <3>2
  <2>. QED  BY <1>1, <2>1 DEF Snapshots, IdsGivenOut, Present
<1>6. ASSUME NEW k \in Job PROVE Compared(k)'
  <2>1. CASE k = j
    <3>1. \A i \in Id : exists'[k][i] # NoRow => exists'[k][i] = rows'[i]  BY <1>1, <1>3, <2>1
    <3>2. \A i \in getIdsByGroup : exists'[k][i] = rows'[i] /\ rows'[i] # NoRow
      BY <1>1, <1>3, <2>1 DEF getIdsByGroup, Present
    <3>. QED  BY <1>4, <3>1, <3>2 DEF Compared, Present
  <2>2. CASE k # j
    <3>1. Compared(k)  BY DEF Snapshots
    <3>2. pc'[k] = pc[k] /\ exists'[k] = exists[k]  BY <1>2, <2>2
    <3>. QED  BY <1>1, <1>4, <3>1, <3>2 DEF Compared, Present
  <2>. QED  BY <2>1, <2>2
<1>7. OneProfilePerName'  BY <1>1, <1>4 DEF Snapshots, OneProfilePerName
<1>. QED  BY <1>1, <1>5, <1>6, <1>7 DEF Snapshots

\* A restore: no update that began before it can compare again.
LEMMA RestoreInv ==
  ASSUME TypeOK, Snapshots, NEW b \in Backups, Restore(b)
  PROVE  Snapshots'
<1>1. /\ gen' = gen + 1 /\ gen \in Nat /\ rows' = inserted(b, gen') /\ loose' = Id
      /\ sgen' = sgen /\ exists' = exists /\ top' = IF b.top > top THEN b.top ELSE top
  BY DEF Restore, jobVars, TypeOK
<1>2. \A i \in Id : rows'[i] # NoRow =>
        /\ b.rows[i] # NoRow /\ i <= b.top
        /\ rows'[i].mine = b.rows[i].mine /\ rows'[i].name = b.rows[i].name
  <2>1. gen' \in Nat  BY <1>1
  <2>. QED  BY <1>1, <2>1, InsertedRows
<1>3. GoodBackup(b)  BY BackupAssumption
<1>4. top \in Nat /\ b.top \in Nat  BY <1>3 DEF TypeOK, GoodBackup
<1>5. IdsGivenOut'
  <2>1. \A i \in Id : i <= top => i <= top'  BY <1>1, <1>4 DEF Id
  <2>2. \A i \in Id : i <= b.top => i <= top'  BY <1>1, <1>4 DEF Id
  <2>. QED  BY <1>1, <1>2, <2>1, <2>2 DEF Snapshots, IdsGivenOut, Present
<1>6. \A k \in Job : sgen'[k] <= gen' /\ sgen'[k] # gen'
  <2>1. \A k \in Job : sgen[k] \in Nat /\ sgen[k] <= gen  BY DEF Snapshots, TypeOK
  <2>. QED  BY <1>1, <2>1
<1>7. \A k \in Job : Compared(k)'  BY <1>6 DEF Compared
<1>8. OneProfilePerName'  BY <1>1 DEF OneProfilePerName, getIdsByGroup
<1>. QED  BY <1>5, <1>6, <1>7, <1>8 DEF Snapshots

\* The transaction leaves one profile per name.
LEMMA CommitInv ==
  ASSUME TypeOK, Locks, Snapshots, NEW j \in Job, Commit(j)
  PROVE  Snapshots'
<1>1. /\ top \in Nat /\ top' \in Nat /\ top <= top'
      /\ \A i \in Id : Inserted(j, i) \/ Deleted(j, i) \/ Updated(j, i) \/ Untouched(j, i)
      /\ \A i, k \in Id : i > top /\ k > top /\ i <= top' /\ k <= top'
                            /\ rows'[i].name = rows'[k].name => i = k
  <2>1. top \in 0..MaxId  BY DEF TypeOK
  <2>. QED  BY <2>1, CommitRows
<1>2. /\ pc[j] = "commit" /\ sgen[j] = gen /\ gen' = gen /\ loose' = stillLoose(j)
      /\ pc'[j] = "unlock"
  BY DEF Commit, mayCommit, isDataRestoredSince, Goto, TypeOK
<1>3. \A k \in Job :
        /\ exists'[k] \in {NoRows, exists[k]} /\ sgen'[k] \in {0, sgen[k]}
        /\ k # j => pc'[k] = pc[k]
  BY DEF Commit, Forget, Goto, TypeOK
<1>4. IdsGivenOut'
  <2>1. ASSUME NEW i \in Id, rows'[i] # NoRow PROVE i <= top'
    <3>1. Present(i) => i <= top'  BY <1>1 DEF Snapshots, IdsGivenOut, Id
    <3>. QED  BY <1>1, <2>1, <3>1 DEF Inserted, Deleted, Updated, Untouched, getIdsByGroup, Present
  <2>2. ASSUME NEW i \in Id, NEW k \in Job, exists'[k][i] # NoRow PROVE i <= top'
    <3>1. exists[k][i] # NoRow  BY <1>3, <2>2 DEF NoRows
    <3>2. i <= top  BY <3>1 DEF Snapshots, IdsGivenOut
    <3>. QED  BY <1>1, <3>2 DEF Id
  <2>. QED  BY <2>1, <2>2 DEF IdsGivenOut, Present
<1>5. \A k \in Job : sgen'[k] <= gen'  BY <1>2, <1>3 DEF Snapshots, TypeOK
<1>6. ASSUME NEW k \in Job PROVE Compared(k)'
  <2>1. pc'[k] # "commit"
    <3>1. CASE k = j  BY <1>2, <3>1
    <3>2. CASE k # j
      <4>1. SUFFICES ASSUME pc[k] = "commit" PROVE FALSE  BY <1>3, <3>2
      <4>2. lock = procOf[k] /\ lock = procOf[j]  BY <1>2, <4>1 DEF Locks, Working
      <4>. QED  BY <1>2, <3>2, <4>1, <4>2 DEF Locks
    <3>. QED  BY <3>1, <3>2
  <2>. QED  BY <2>1 DEF Compared
<1>7. OneProfilePerName'
  <2>1. SUFFICES ASSUME NEW i \in Id, NEW k \in Id,
                        i \in getIdsByGroup' \ loose', k \in getIdsByGroup' \ loose',
                        rows'[i].name = rows'[k].name
                 PROVE  i = k
    BY DEF OneProfilePerName, getIdsByGroup
  <2>2. ASSUME NEW l \in Id, l \in getIdsByGroup' \ loose', ~Inserted(j, l)
        PROVE  l \in toReplace(j) /\ rows'[l].name = exists[j][l].name
    <3>1. CASE Updated(j, l)  BY <3>1 DEF Updated, toUpdate
    <3>2. CASE Untouched(j, l)
      <4>1. l \in getIdsByGroup  BY <2>2, <3>2 DEF Untouched, getIdsByGroup, Present
      <4>2. l \notin toUpdate(j) /\ l \notin toDelete(j)  BY <3>2, <4>1 DEF Untouched
      <4>3. l \notin stillLoose(j)  BY <1>2, <2>2
      <4>4. exists[j][l] # NoRow /\ exists[j][l].name = rows[l].name
        <5>1. CASE l \in loose  BY <2>2, <4>1, <4>2, <4>3, <5>1 DEF stillLoose, Seen
        <5>2. CASE l \notin loose  BY <1>2, <4>1, <5>2 DEF Snapshots, Compared
        <5>. QED  BY <5>1, <5>2
      <4>. QED  BY <3>2, <4>2, <4>4 DEF Untouched, toDelete, Seen
    <3>3. ~Deleted(j, l)  BY <2>2 DEF Deleted, getIdsByGroup, Present
    <3>. QED  BY <1>1, <2>2, <3>1, <3>2, <3>3
  <2>3. ASSUME NEW l \in Id, NEW m \in Id, l \in toReplace(j),
               rows'[m].name \in toInsert(j), exists[j][l].name = rows'[m].name
        PROVE  FALSE
    BY <2>3 DEF toReplace, toInsert, Named
  <2>4. CASE Inserted(j, i) /\ Inserted(j, k)  BY <1>1, <2>1, <2>4 DEF Inserted
  <2>5. CASE Inserted(j, i) /\ ~Inserted(j, k)  BY <2>1, <2>2, <2>3, <2>5 DEF Inserted
  <2>6. CASE ~Inserted(j, i) /\ Inserted(j, k)  BY <2>1, <2>2, <2>3, <2>6 DEF Inserted
  <2>7. CASE ~Inserted(j, i) /\ ~Inserted(j, k)
    <3>1. /\ i \in toReplace(j) /\ k \in toReplace(j) /\ exists[j][i].name = exists[j][k].name
      BY <2>1, <2>2, <2>7
    <3>2. i <= k /\ k <= i  BY <3>1 DEF toReplace, Named
    <3>. QED  BY <3>2 DEF Id
  <2>. QED  BY <2>4, <2>5, <2>6, <2>7
<1>. QED  BY <1>4, <1>5, <1>6, <1>7 DEF Snapshots

\* A deleted group keeps no rows.
LEMMA OrphansInv ==
  ASSUME TypeOK, Snapshots, NoOrphans, [Next]_vars
  PROVE  NoOrphans'
<1>. SUFFICES ASSUME group' = None PROVE getIdsByGroup' = {}  BY DEF NoOrphans
<1>1. ASSUME NEW j \in Job, Commit(j) PROVE FALSE
  <2>1. group \in Group /\ group' = [group EXCEPT !.updated = sid[j]]
    BY <1>1 DEF Commit, mayCommit, TypeOK
  <2>2. sid[j] \in Link \cup {Never}  BY DEF TypeOK
  <2>3. group' \in Group  BY <2>1, <2>2 DEF Group
  <2>. QED  BY <2>3, RowAssumption
<1>2. ASSUME NEW b \in Backups, Restore(b) PROVE getIdsByGroup' = {}
  <2>1. b.group = None /\ rows' = inserted(b, gen') /\ gen' \in Nat  BY <1>2 DEF Restore, TypeOK
  <2>2. \A i \in Id : rows'[i] # NoRow => b.rows[i] # NoRow /\ rows'[i].mine = b.rows[i].mine
    BY <2>1, InsertedRows
  <2>3. \A i \in Id : b.rows[i] # NoRow => ~b.rows[i].mine  BY <2>1, BackupAssumption DEF GoodBackup
  <2>. QED  BY <2>2, <2>3 DEF getIdsByGroup, Present
<1>3. ASSUME Gentle, group' = group PROVE getIdsByGroup' = {}
  <2>1. \A i \in Id : RowKept(i)  BY <1>3 DEF Gentle
  <2>2. getIdsByGroup = {}  BY <1>3 DEF NoOrphans
  <2>. QED  BY <2>1, <2>2 DEF RowKept, getIdsByGroup, Present
<1>4. ASSUME NEW j \in Job, Begin(j) \/ JobStep(j) PROVE getIdsByGroup' = {}
  <2>1. group' = group
    BY <1>1, <1>4 DEF Begin, JobStep, TryLock, ReadGeneration, ReadGroup, Download, Abandon, CommitRefused, Unlock, finishUpdate, dbVars
  <2>2. CASE Download(j)
    BY <2>1, <2>2 DEF Download, dbVars, NoOrphans, getIdsByGroup, Present
  <2>3. CASE ~Download(j)
    <3>1. Gentle  BY <1>1, <1>4, <2>3, GentleJob DEF Snapshots
    <3>. QED  BY <1>3, <2>1, <3>1
  <2>. QED  BY <2>2, <2>3
<1>5. CASE deleteGroup
  BY <1>5 DEF deleteGroup, getIdsByGroup, Present
<1>6. CASE updateGroup
  <2>1. CASE group = None
    BY <1>6, <2>1 DEF updateGroup, NoOrphans, getIdsByGroup, Present
  <2>2. CASE group # None
    <3>1. group' = [link |-> save.link, updated |-> keptUpdated(save)]  BY <1>6, <2>2 DEF updateGroup
    <3>2. save.link \in Link  BY <1>6 DEF updateGroup, TypeOK
    <3>3. keptUpdated(save) \in Link \cup {Never}  BY <2>2 DEF keptUpdated, TypeOK, Group
    <3>4. group' \in Group  BY <3>1, <3>2, <3>3 DEF Group
    <3>. QED  BY <3>4, RowAssumption
  <2>. QED  BY <2>1, <2>2
<1>7. ASSUME UserStep, ~deleteGroup, ~updateGroup, ~\E b \in Backups : Restore(b)
      PROVE  getIdsByGroup' = {}
  <2>1. Gentle  BY <1>7, GentleUser DEF Snapshots
  <2>2. group' = group
    BY <1>7 DEF UserStep, OpenEditor, SaveProfile, CloseEditor, OpenSave, DeleteProfiles, StartTest, updateTestResults, Die, dbVars
  <2>. QED  BY <1>3, <2>1, <2>2
<1>8. CASE UNCHANGED vars
  BY <1>8 DEF vars, dbVars, NoOrphans, getIdsByGroup, Present
<1>. QED  BY <1>2, <1>4, <1>5, <1>6, <1>7, <1>8 DEF Next

-----------------------------------------------------------------------------
(* The invariant. *)

\* The first installation, or a restored one, satisfies the invariant.
LEMMA InitInv == Init => IInv
<1>. SUFFICES ASSUME Init PROVE IInv  OBVIOUS
<1>1. TypeOK  BY InitType
<1>2. PICK b \in Backups : rows = inserted(b, 0) /\ top = b.top /\ group = b.group /\ stray = Astray(group)
  BY DEF Init
<1>3. GoodBackup(b)  BY BackupAssumption
<1>4. \A i \in Id : rows[i] # NoRow =>
        /\ b.rows[i] # NoRow /\ i <= b.top /\ ResultOf(rows[i].status, rows[i].config)
        /\ rows[i].mine = b.rows[i].mine /\ rows[i].name = b.rows[i].name
  BY <1>2, InsertedRows
<1>5. Locks  BY ProcessAssumption DEF Init, Locks, MarkersHaveOwners, Working
<1>6. StatusMatchesConfig  BY <1>4 DEF StatusMatchesConfig, Present
<1>7. SaveFresh  BY DEF Init, SaveFresh, NoSave
<1>8. UpdatedForThisLink  BY <1>2 DEF UpdatedForThisLink, Astray
<1>9. NoOrphans  BY <1>2, <1>3, <1>4 DEF NoOrphans, GoodBackup, getIdsByGroup, Present
<1>10. IdsGivenOut  BY <1>2, <1>4 DEF Init, IdsGivenOut, NoRows, Present
<1>11. \A j \in Job : sgen[j] <= gen /\ Compared(j)  BY DEF Init, Compared
<1>12. OneProfilePerName  BY DEF Init, OneProfilePerName, getIdsByGroup
<1>. QED  BY <1>1, <1>5, <1>6, <1>7, <1>8, <1>9, <1>10, <1>11, <1>12 DEF IInv

\* Every step preserves it.
LEMMA NextInv == IInv /\ [Next]_vars => IInv'
<1>. SUFFICES ASSUME IInv, [Next]_vars PROVE IInv'  OBVIOUS
<1>1. TypeOK /\ Locks /\ StatusMatchesConfig /\ SaveFresh /\ UpdatedForThisLink /\ NoOrphans /\ Snapshots
  BY DEF IInv, Snapshots
<1>2. TypeOK'
  <2>1. CASE UNCHANGED vars
    BY <1>1, <2>1 DEF TypeOK, vars, dbVars, jobVars, uiVars
  <2>. QED  BY <1>1, <2>1, JobType, UserType DEF Next
<1>3. Locks'  BY <1>1, LocksInv
<1>4. StatusMatchesConfig'  BY <1>1, StatusInv
<1>5. SaveFresh' /\ UpdatedForThisLink'  BY <1>1, GroupInv
<1>6. NoOrphans'  BY <1>1, OrphansInv
<1>7. Snapshots'
  <2>1. ASSUME NEW j \in Job, Begin(j) \/ JobStep(j) PROVE Snapshots'
    <3>1. Gentle => Snapshots'  BY <1>1, GentleInv
    <3>. QED  BY <1>1, <2>1, <3>1, DownloadInv, CommitInv, GentleJob DEF Snapshots
  <2>2. CASE UserStep
    <3>1. Gentle => Snapshots'  BY <1>1, GentleInv
    <3>. QED  BY <1>1, <2>2, <3>1, RestoreInv, GentleUser DEF Snapshots
  <2>3. CASE UNCHANGED vars
    <3>1. Snapshots  BY <1>1
    <3>. QED
      BY <2>3, <3>1 DEF vars, dbVars, jobVars, uiVars, Snapshots, IdsGivenOut, Compared, OneProfilePerName, getIdsByGroup, Present
  <2>. QED  BY <2>1, <2>2, <2>3 DEF Next
<1>. QED  BY <1>2, <1>3, <1>4, <1>5, <1>6, <1>7 DEF IInv, Snapshots

\* The inductive invariant holds in every reachable state: locks, snapshots, rows
\* and the group's row fit together whatever runs in between.
THEOREM Invariance == Spec => []IInv
BY InitInv, NextInv, PTL DEF Spec

-----------------------------------------------------------------------------
(* The properties. *)

\* Every variable keeps its type; new profiles get default values.
THEOREM TypeCorrect == Spec => []TypeOK
<1>1. IInv => TypeOK  BY DEF IInv
<1>. QED  BY <1>1, Invariance, PTL

\* updateTestResult, updateConfigResettingStatus and the transaction of RawUpdater
\* leave no test result beside a configuration it was not measured with.
THEOREM ResultsMatch == Spec => []StatusMatchesConfig
<1>1. IInv => StatusMatchesConfig  BY DEF IInv
<1>. QED  BY <1>1, Invariance, PTL

\* A download made for one subscription is never written as the last update of
\* another, whatever the group editor does meanwhile.
THEOREM UpdateIsOfThisLink == Spec => []UpdatedForThisLink
<1>1. IInv => UpdatedForThisLink  BY DEF IInv
<1>. QED  BY <1>1, Invariance, PTL

\* An update that outlives its group adds no profiles to it.
THEOREM NoOrphanRows == Spec => []NoOrphans
<1>1. IInv => NoOrphans  BY DEF IInv
<1>. QED  BY <1>1, Invariance, PTL

\* The marker of each process and the file lock admit one update at a time, also
\* across a death at any point.
THEOREM UpdatesExclude == Spec => []OneUpdateAtATime
<1>1. IInv => OneUpdateAtATime
  <2>. SUFFICES ASSUME IInv, NEW j \in Job, NEW k \in Job, pc[j] \in Working, pc[k] \in Working
                PROVE  j = k
    BY DEF OneUpdateAtATime
  <2>1. lock = procOf[j] /\ lock = procOf[k]  BY DEF IInv, Locks
  <2>2. pc[j] # "idle" /\ pc[k] # "idle"  BY DEF Working
  <2>. QED  BY <2>1, <2>2 DEF IInv, Locks
<1>. QED  BY <1>1, Invariance, PTL

\* Successive updates neither duplicate a profile nor leave two of one name.
THEOREM NamesStayUnique == Spec => []OneProfilePerName
<1>1. IInv => OneProfilePerName  BY DEF IInv
<1>. QED  BY <1>1, Invariance, PTL

\* No request finds a marker or a lock whose owner is gone.
THEOREM MarkersAreOwned == Spec => []MarkersHaveOwners
<1>1. IInv => MarkersHaveOwners  BY DEF IInv, Locks
<1>. QED  BY <1>1, Invariance, PTL

\* Only the transaction ends a comparison with a change to the rows.
LEMMA EndsHow ==
  ASSUME IInv, [Next]_vars, NEW j \in Job, Ends(j)
  PROVE  Commit(j) \/ rows' = rows
<1>1. pc[j] = "commit" /\ pc'[j] = "unlock" /\ pc \in [Job -> Place]  BY DEF Ends, IInv, TypeOK
<1>2. ASSUME NEW k \in Job, Begin(k) \/ JobStep(k) PROVE Commit(j) \/ rows' = rows
  <2>1. CASE k # j
    <3>1. pc'[j] = pc[j]
      BY <1>1, <1>2, <2>1 DEF Begin, JobStep, TryLock, ReadGeneration, ReadGroup, Download, Abandon, Commit, CommitRefused, Unlock, finishUpdate, Goto
    <3>. QED  BY <1>1, <3>1
  <2>2. CASE k = j
    BY <1>2, <2>2 DEF Begin, JobStep, TryLock, ReadGeneration, ReadGroup, Download, Abandon, CommitRefused, Unlock, finishUpdate, dbVars
  <2>. QED  BY <2>1, <2>2
<1>3. ASSUME UserStep PROVE FALSE
  <2>1. pc'[j] \in {pc[j], "idle"}
    BY <1>3 DEF UserStep, OpenEditor, SaveProfile, CloseEditor, OpenSave, updateGroup, DeleteProfiles, deleteGroup, StartTest, updateTestResults, Restore, Die, jobVars
  <2>. QED  BY <1>1, <2>1
<1>. QED  BY <1>2, <1>3 DEF Next, vars, dbVars

\* An update deletes or overwrites only rows it has read itself, never ones that a
\* restore put under the same ids.
THEOREM ComparedBeforeWritten == Spec => WritesWhatItCompared
<1>1. ASSUME IInv, [Next]_vars, NEW j \in Job, Ends(j), NEW i \in Id, Present(i), rows'[i] # rows[i]
      PROVE  exists[j][i] # NoRow /\ exists[j][i].born = rows[i].born
  <2>1. Commit(j)  BY <1>1, EndsHow
  <2>2. TypeOK /\ Compared(j) /\ i <= top /\ top \in Nat /\ i \in Nat
    BY <1>1 DEF IInv, IdsGivenOut, TypeOK, Id
  <2>3. Inserted(j, i) \/ Deleted(j, i) \/ Updated(j, i)  BY <1>1, <2>1, <2>2, CommitRows DEF Untouched
  <2>4. Deleted(j, i) \/ Updated(j, i)  BY <2>2, <2>3 DEF Inserted
  <2>5. exists[j][i] # NoRow  BY <2>4 DEF Deleted, Updated, toDelete, toUpdate, toReplace, Seen
  <2>6. pc[j] = "commit" /\ sgen[j] = gen  BY <2>1 DEF Commit, mayCommit, isDataRestoredSince
  <2>. QED  BY <1>1, <2>2, <2>5, <2>6 DEF Compared
<1>2. IInv /\ [Next]_vars =>
        [\A j \in Job : Ends(j) =>
           \A i \in Id : Present(i) /\ rows'[i] # rows[i] =>
             exists[j][i] # NoRow /\ exists[j][i].born = rows[i].born]_vars
  BY <1>1
<1>. QED  BY <1>2, Invariance, PTL DEF Spec, WritesWhatItCompared

\* replaceSubscriptionBean keeps what is local to the row as it is at that moment,
\* and resets a core that was chosen for another protocol.
THEOREM OverridesAreKept == Spec => OverridesSurvive
<1>1. ASSUME IInv, [Next]_vars, NEW j \in Job, Ends(j), NEW i \in Id, Present(i), rows'[i] # NoRow
      PROVE  LocalKept(rows[i].config, rows'[i].config)
  <2>0. LocalKept(rows[i].config, rows[i].config)  BY DEF LocalKept
  <2>1. CASE rows' = rows  BY <2>0, <2>1
  <2>2. CASE Commit(j)
    <3>1. TypeOK /\ i <= top /\ top \in Nat /\ i \in Nat  BY <1>1 DEF IInv, IdsGivenOut, TypeOK, Id
    <3>2. Inserted(j, i) \/ Deleted(j, i) \/ Updated(j, i) \/ Untouched(j, i)
      BY <2>2, <3>1, CommitRows
    <3>3. Updated(j, i) \/ Untouched(j, i)  BY <1>1, <3>1, <3>2 DEF Inserted, Deleted
    <3>. QED  BY <2>0, <3>3 DEF Updated, Untouched
  <2>. QED  BY <1>1, <2>1, <2>2, EndsHow
<1>2. IInv /\ [Next]_vars =>
        [\A j \in Job : Ends(j) =>
           \A i \in Id : Present(i) /\ rows'[i] # NoRow => LocalKept(rows[i].config, rows'[i].config)]_vars
  BY <1>1
<1>. QED  BY <1>2, Invariance, PTL DEF Spec, OverridesSurvive

=============================================================================
