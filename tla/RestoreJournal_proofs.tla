------------------------ MODULE RestoreJournal_proofs ------------------------
(***************************************************************************)
(* Proofs about RestoreJournal, for any set of processes and any bounds.   *)
(*                                                                         *)
(* None of the safety properties is inductive.  Whole fails between the    *)
(* two commits, so the invariant says it of every import but the one in    *)
(* the journal, of the databases AND of what the compensation would make   *)
(* of them.  That a rolled-back import stays away needs that no process    *)
(* and no journal carries its number any more, and that needs that import  *)
(* numbers are fresh until they are staged.                                *)
(***************************************************************************)
EXTENDS RestoreJournal, TLAPS

\* The lock is held by exactly the process that is inside the locked block.
Holder == \A p \in Process : pc[p] \in Locked <=> lock = p

Active == Locked \cup {"importing"}
Committing == {"sager", "settings", "undo"}

\* The number a process carries: none outside an import or a replay, that of the
\* journal once it is staged; only Main imports, and it is the latest import.
Numbered(p) ==
  /\ pc[p] \notin Active => num[p] = 0
  /\ pc[p] \in Active => num[p] \in 1..imports
  /\ pc[p] \in Locked \ {"stage"} => journal.n = num[p]
  /\ pc[p] = "read" => replay[p]
  /\ pc[p] \notin Locked \ {"stage"} => ~replay[p]
  /\ pc[p] \in Active /\ ~replay[p] => p = Main /\ num[p] = imports

\* Until an import commits, its number is nowhere in the databases; until it is
\* staged, it is not in the journal either.
Unused(p) ==
  /\ pc[p] \in {"importing", "stage"} => journal.n # num[p] /\ replays[num[p]] = 0
  /\ pc[p] \in {"importing", "stage", "snapshot", "sager"} /\ ~replay[p] =>
       \A s \in Section : db[s] # num[p]
  /\ pc[p] \in {"settings", "undo"} /\ ~replay[p] =>
       db["settings"] # num[p] /\ \A s \in SagerSection : old[p][s] # num[p]

\* The databases at each step of commit, in terms of the snapshot.
Progress(p) ==
  /\ pc[p] \notin Committing \cup {"clear"} => \A s \in SagerSection : old[p][s] = 0
  /\ pc[p] = "sager" => \A s \in SagerSection : old[p][s] = db[s]
  /\ pc[p] \in {"settings", "undo", "clear"} =>
       \A s \in SagerSection :
         /\ s \in sel[num[p]] => db[s] = num[p]
         /\ s \notin sel[num[p]] => db[s] = old[p][s]
  /\ pc[p] = "clear" /\ "settings" \in sel[num[p]] => db["settings"] = num[p]
  /\ pc[p] \in Committing => \A s \in SagerSection : old[p][s] <= num[p]
  /\ pc[p] = "settings" /\ ~committed[p] => sel[num[p]] \cap SagerSection = {}

\* What the compensation of p would leave in section s.
undone(p, s) == IF s \in SagerSection THEN old[p][s] ELSE db[s]

\* It would leave no import half applied but the one in the journal.
UndoWhole(p) ==
  pc[p] \in Committing /\ lost = {} =>
    \A i \in Import : i # num[p] =>
      \A s, t \in sel[i] : undone(p, s) = i => undone(p, t) >= i

\* Numbers beyond the imports so far are unused everywhere.
Fresh ==
  /\ journal.n <= imports
  /\ \A s \in Section : db[s] <= imports
  /\ isPending => \A s \in Section : db[s] <= journal.n
  /\ \A i \in Import : i > imports => replays[i] = 0 /\ outcome[i] = "none"

\* Only the import in the journal may be half applied.
WholeButJournal ==
  lost = {} => \A i \in Import : i # journal.n => \A s, t \in sel[i] : db[s] = i => db[t] >= i

\* A rolled-back import is in no database, no journal and no process.
Gone ==
  \A i \in Import : outcome[i] = "rolledBack" =>
    /\ journal.n # i
    /\ \A s \in Section : db[s] # i
    /\ \A p \in Process : num[p] # i /\ \A s \in SagerSection : old[p][s] # i

\* The replays of the staged import have been counted in the journal.
Counted ==
  \A i \in Import : replays[i] <= MAX_ATTEMPTS /\ (journal.n = i => replays[i] <= journal.attempts)

IInv ==
  /\ TypeOK
  /\ Holder
  /\ \A p \in Process : Numbered(p)
  /\ \A p \in Process : Unused(p)
  /\ \A p \in Process : Progress(p)
  /\ \A p \in Process : UndoWhole(p)
  /\ Fresh
  /\ WholeButJournal
  /\ Gone
  /\ Counted

\* What the steps below use of TypeOK.
Types ==
  /\ imports \in Nat /\ journal.n \in Nat /\ journal.attempts \in Nat
  /\ \A s \in Section : db[s] \in Nat
  /\ \A i \in Import : sel[i] \subseteq Section /\ replays[i] \in Nat
  /\ \A p \in Process : num[p] \in Nat /\ \A s \in SagerSection : old[p][s] \in Nat

-----------------------------------------------------------------------------
(* The invariant holds initially and every action preserves it. *)

\* What the steps use of the types.
LEMMA TypeFacts == TypeOK => Types
  BY BoundAssumption DEF TypeOK, Types, Import, Version, Section, SagerSection

\* Both databases start whole, with no journal and every process dead.
LEMMA InitInv == Init => IInv
<1>. SUFFICES ASSUME Init PROVE IInv  OBVIOUS
<1>1. TypeOK
  BY BoundAssumption, ProcessAssumption DEF Init, TypeOK, NoJournal, NoRows, Import, Version, Section, SagerSection, Locked, Place
<1>2. Holder  BY ProcessAssumption DEF Init, Holder, Locked
<1>3. ASSUME NEW p \in Process PROVE Numbered(p) /\ Unused(p) /\ Progress(p) /\ UndoWhole(p)
  BY DEF Init, Numbered, Unused, Progress, UndoWhole, Active, Committing, Locked, NoRows
<1>4. Fresh  BY BoundAssumption DEF Init, Fresh, isPending, NoJournal, Import
<1>5. WholeButJournal  BY DEF Init, WholeButJournal, Import
<1>6. Gone /\ Counted  BY BoundAssumption DEF Init, Gone, Counted, NoJournal, Import
<1>. QED  BY <1>1, <1>2, <1>3, <1>4, <1>5, <1>6 DEF IInv

\* A process starts.
LEMMA StartInv ==
  ASSUME IInv, NEW p \in Process,
         Start(p)
  PROVE  IInv'
<1>1. /\ TypeOK /\ Holder /\ Fresh /\ WholeButJournal /\ Gone /\ Counted
      /\ \A q \in Process : Numbered(q) /\ Unused(q) /\ Progress(q) /\ UndoWhole(q)
  BY DEF IInv
<1>2. TypeOK'
  BY <1>1, BoundAssumption, ProcessAssumption DEF TypeOK, Numbered, Active, Locked, Place, Import, Version, Section, SagerSection, NoRows, NoJournal, locals, Start, Goto, Forget
<1>3. Types /\ Types'
  <2>1. Types  BY <1>1, TypeFacts
  <2>2. Types'  BY <1>2, TypeFacts, PTL
  <2>. QED  BY <2>1, <2>2
<1>4. \A q \in Process : q # p =>
        pc'[q] = pc[q] /\ num'[q] = num[q] /\ replay'[q] = replay[q]
        /\ committed'[q] = committed[q] /\ old'[q] = old[q]
  BY <1>1 DEF TypeOK, locals, Start, Goto, Forget
<1>5. /\ pc[p] = "dead" /\ pc'[p] \in {"run", "waiting"}
      /\ num'[p] = num[p] /\ replay'[p] = replay[p] /\ old'[p] = old[p]
      /\ journal' = journal /\ db' = db /\ lock' = lock /\ sel' = sel /\ imports' = imports /\ outcome' = outcome /\ lost' = lost /\ replays' = replays
  BY <1>1 DEF TypeOK, Holder, Locked, Import, Version, SagerSection, NoRows, NoJournal, locals, Start, Goto, Forget
<1>6. Holder'  BY <1>1, <1>4, <1>5, ProcessAssumption DEF Holder, Locked
<1>7. ASSUME NEW q \in Process PROVE Numbered(q)'
  <2>1. CASE q = p
    BY <2>1, <1>1, <1>3, <1>5 DEF Types, Import, Section, SagerSection, Numbered, Active, Locked, Fresh, isPending, Unused
  <2>2. CASE q # p
    <3>1. Numbered(q)  BY <1>1
    <3>. QED  BY <3>1, <2>2, <1>4, <1>5 DEF Numbered
  <2>. QED  BY <2>1, <2>2
<1>8. ASSUME NEW q \in Process PROVE Unused(q)'
  <2>1. CASE q = p
    BY <2>1, <1>1, <1>3, <1>5 DEF Types, Import, Section, SagerSection, Unused, Numbered, Active, Locked, Fresh, Progress, Committing, isPending
  <2>2. CASE q # p
    <3>1. Unused(q)  BY <1>1
    <3>. QED  BY <3>1, <2>2, <1>4, <1>5 DEF Unused
  <2>. QED  BY <2>1, <2>2
<1>9. ASSUME NEW q \in Process PROVE Progress(q)'
  <2>1. CASE q = p
    BY <2>1, <1>1, <1>3, <1>5 DEF Types, Import, Section, SagerSection, Progress, Numbered, Active, Locked, Committing, Fresh, isPending
  <2>2. CASE q # p
    <3>1. Progress(q)  BY <1>1
    <3>. QED  BY <3>1, <2>2, <1>4, <1>5 DEF Progress
  <2>. QED  BY <2>1, <2>2
<1>10. ASSUME NEW q \in Process PROVE UndoWhole(q)'
  <2>1. CASE q = p
    BY <2>1, <1>1, <1>3, <1>5 DEF Types, Import, Section, SagerSection, UndoWhole, WholeButJournal, Numbered, Active, Locked, undone, Committing, Progress
  <2>2. CASE q # p
    <3>1. UndoWhole(q)  BY <1>1
    <3>. QED  BY <3>1, <2>2, <1>4, <1>5 DEF UndoWhole, undone
  <2>. QED  BY <2>1, <2>2
<1>11. Fresh'
  BY <1>1, <1>3, <1>4, <1>5, BoundAssumption DEF Types, Import, Section, SagerSection, Fresh, Numbered, Active, Locked, isPending, Progress, Committing
<1>12. WholeButJournal'
  BY <1>1, <1>3, <1>4, <1>5, BoundAssumption DEF Types, Import, Section, SagerSection, WholeButJournal, Fresh
<1>13. Gone'
  BY <1>1, <1>3, <1>4, <1>5, BoundAssumption DEF Types, Import, Section, SagerSection, Gone, Fresh, Numbered, Active, Locked
<1>14. Counted'
  BY <1>1, <1>3, <1>4, <1>5, BoundAssumption DEF Types, Import, Section, SagerSection, Counted, Numbered, Active, Locked, Fresh, Unused
<1>. QED  BY <1>2, <1>6, <1>7, <1>8, <1>9, <1>10, <1>11, <1>12, <1>13, <1>14 DEF IInv

\* An import takes the next number.
LEMMA StartImportInv ==
  ASSUME IInv, NEW p \in Process,
         StartImport(p)
  PROVE  IInv'
<1>1. /\ TypeOK /\ Holder /\ Fresh /\ WholeButJournal /\ Gone /\ Counted
      /\ \A q \in Process : Numbered(q) /\ Unused(q) /\ Progress(q) /\ UndoWhole(q)
  BY DEF IInv
<1>2. TypeOK'
  <2>1. PICK sections \in SUBSET Section : sel' = [sel EXCEPT ![imports'] = sections]
    BY DEF StartImport
  <2>2. imports \in Version /\ imports' \in Version /\ imports' \in Import
    BY <1>1, BoundAssumption DEF TypeOK, StartImport, Version, Import
  <2>3. sel' \in [Import -> SUBSET Section]
    BY <2>1, <1>1 DEF TypeOK
  <2>4. pc' \in [Process -> Place] /\ num' \in [Process -> Version]
    BY <2>2, <1>1 DEF TypeOK, StartImport, Goto, Place
  <2>. QED  BY <1>1, <2>2, <2>3, <2>4 DEF TypeOK, StartImport
<1>3. Types /\ Types'
  <2>1. Types  BY <1>1, TypeFacts
  <2>2. Types'  BY <1>2, TypeFacts, PTL
  <2>. QED  BY <2>1, <2>2
<1>4. \A q \in Process : q # p =>
        pc'[q] = pc[q] /\ num'[q] = num[q] /\ replay'[q] = replay[q]
        /\ committed'[q] = committed[q] /\ old'[q] = old[q]
  BY <1>1 DEF TypeOK, locals, StartImport, Goto, Forget
<1>5. /\ p = Main /\ pc[p] = "run" /\ pc'[p] = "importing" /\ num'[p] = imports + 1 /\ replay'[p] = replay[p] /\ old'[p] = old[p]
      /\ imports + 1 \in Import /\ imports' = imports + 1 /\ \A i \in Import : i # imports + 1 => sel'[i] = sel[i]
      /\ journal' = journal /\ db' = db /\ lock' = lock /\ outcome' = outcome /\ lost' = lost /\ replays' = replays
  <2>1. PICK sections \in SUBSET Section : sel' = [sel EXCEPT ![imports'] = sections]
    BY DEF StartImport
  <2>2. \A i \in Import : i # imports' => sel'[i] = sel[i]  BY <2>1, <1>1 DEF TypeOK
  <2>3. imports + 1 \in Import /\ imports' = imports + 1
    BY <1>1, BoundAssumption DEF TypeOK, StartImport, Version, Import
  <2>4. pc'[p] = "importing" /\ num'[p] = imports + 1
    BY <1>1, <2>3 DEF TypeOK, StartImport, Goto
  <2>. QED  BY <2>2, <2>3, <2>4 DEF StartImport
<1>6. Holder'  BY <1>1, <1>4, <1>5, ProcessAssumption DEF Holder, Locked
<1>7. ASSUME NEW q \in Process PROVE Numbered(q)'
  <2>1. CASE q = p
    BY <2>1, <1>1, <1>3, <1>5 DEF Types, Import, Section, SagerSection, Numbered, Active, Locked, Fresh, isPending, Unused
  <2>2. CASE q # p
    <3>1. Numbered(q) /\ Fresh  BY <1>1
    <3>. QED  BY <3>1, <2>2, <1>4, <1>5, <1>3 DEF Types, Numbered, Active, Locked, Fresh
  <2>. QED  BY <2>1, <2>2
<1>8. ASSUME NEW q \in Process PROVE Unused(q)'
  <2>1. CASE q = p
    BY <2>1, <1>1, <1>3, <1>5 DEF Types, Import, Section, SagerSection, Unused, Numbered, Active, Locked, Fresh, Progress, Committing, isPending
  <2>2. CASE q # p
    <3>1. Unused(q)  BY <1>1
    <3>. QED  BY <3>1, <2>2, <1>4, <1>5 DEF Unused
  <2>. QED  BY <2>1, <2>2
<1>9. ASSUME NEW q \in Process PROVE Progress(q)'
  <2>1. CASE q = p
    BY <2>1, <1>1, <1>3, <1>5 DEF Types, Import, Section, SagerSection, Progress, Numbered, Active, Locked, Committing, Fresh, isPending
  <2>2. CASE q # p
    <3>1. Progress(q) /\ Numbered(q)  BY <1>1
    <3>2. pc[q] \in Active => sel'[num[q]] = sel[num[q]]
      BY <3>1, <1>3, <1>5, BoundAssumption DEF Numbered, Types, Import
    <3>3. {"settings", "undo", "clear"} \subseteq Active  BY DEF Active, Locked
    <3>. QED  BY <3>1, <3>2, <3>3, <2>2, <1>4, <1>5 DEF Progress
  <2>. QED  BY <2>1, <2>2
<1>10. ASSUME NEW q \in Process PROVE UndoWhole(q)'
  <2>1. CASE q = p
    BY <2>1, <1>1, <1>3, <1>5 DEF Types, Import, Section, SagerSection, UndoWhole, WholeButJournal, Numbered, Active, Locked, undone, Committing, Progress
  <2>2. CASE q # p
    <3>1. UndoWhole(q) /\ Numbered(q) /\ Progress(q) /\ Fresh  BY <1>1
    <3>. QED  BY <3>1, <2>2, <1>4, <1>5, <1>3 DEF Types, UndoWhole, undone, Progress, Numbered, Active, Locked, Committing, Fresh, Section, SagerSection, Import
  <2>. QED  BY <2>1, <2>2
<1>11. Fresh'
  BY <1>1, <1>3, <1>4, <1>5, BoundAssumption DEF Types, Import, Section, SagerSection, Fresh, Numbered, Active, Locked, isPending, Progress, Committing
<1>12. WholeButJournal'
  BY <1>1, <1>3, <1>4, <1>5, BoundAssumption DEF Types, Import, Section, SagerSection, WholeButJournal, Fresh
<1>13. Gone'
  BY <1>1, <1>3, <1>4, <1>5, BoundAssumption DEF Types, Import, Section, SagerSection, Gone, Fresh, Numbered, Active, Locked
<1>14. Counted'
  BY <1>1, <1>3, <1>4, <1>5, BoundAssumption DEF Types, Import, Section, SagerSection, Counted, Numbered, Active, Locked, Fresh, Unused
<1>. QED  BY <1>2, <1>6, <1>7, <1>8, <1>9, <1>10, <1>11, <1>12, <1>13, <1>14 DEF IInv

\* An import gets the lock.
LEMMA LockForImportInv ==
  ASSUME IInv, NEW p \in Process,
         LockForImport(p)
  PROVE  IInv'
<1>1. /\ TypeOK /\ Holder /\ Fresh /\ WholeButJournal /\ Gone /\ Counted
      /\ \A q \in Process : Numbered(q) /\ Unused(q) /\ Progress(q) /\ UndoWhole(q)
  BY DEF IInv
<1>2. TypeOK'
  BY <1>1, BoundAssumption, ProcessAssumption DEF TypeOK, Numbered, Active, Locked, Place, Import, Version, Section, SagerSection, NoRows, NoJournal, locals, LockForImport, LockFree, Goto, Forget
<1>3. Types /\ Types'
  <2>1. Types  BY <1>1, TypeFacts
  <2>2. Types'  BY <1>2, TypeFacts, PTL
  <2>. QED  BY <2>1, <2>2
<1>4. \A q \in Process : q # p =>
        pc'[q] = pc[q] /\ num'[q] = num[q] /\ replay'[q] = replay[q]
        /\ committed'[q] = committed[q] /\ old'[q] = old[q]
  BY <1>1 DEF TypeOK, locals, LockForImport, LockFree, Goto, Forget
<1>5. /\ pc[p] = "importing" /\ pc'[p] = "stage" /\ lock = None /\ lock' = p
      /\ num'[p] = num[p] /\ replay'[p] = replay[p] /\ old'[p] = old[p]
      /\ journal' = journal /\ db' = db /\ sel' = sel /\ imports' = imports /\ outcome' = outcome /\ lost' = lost /\ replays' = replays
  BY <1>1 DEF TypeOK, Holder, Locked, Import, Version, SagerSection, NoRows, NoJournal, locals, LockForImport, LockFree, Goto, Forget
<1>6. Holder'  BY <1>1, <1>4, <1>5, ProcessAssumption DEF Holder, Locked
<1>7. ASSUME NEW q \in Process PROVE Numbered(q)'
  <2>1. CASE q = p
    BY <2>1, <1>1, <1>3, <1>5 DEF Types, Import, Section, SagerSection, Numbered, Active, Locked, Fresh, isPending, Unused
  <2>2. CASE q # p
    <3>1. Numbered(q)  BY <1>1
    <3>. QED  BY <3>1, <2>2, <1>4, <1>5 DEF Numbered
  <2>. QED  BY <2>1, <2>2
<1>8. ASSUME NEW q \in Process PROVE Unused(q)'
  <2>1. CASE q = p
    BY <2>1, <1>1, <1>3, <1>5 DEF Types, Import, Section, SagerSection, Unused, Numbered, Active, Locked, Fresh, Progress, Committing, isPending
  <2>2. CASE q # p
    <3>1. Unused(q)  BY <1>1
    <3>. QED  BY <3>1, <2>2, <1>4, <1>5 DEF Unused
  <2>. QED  BY <2>1, <2>2
<1>9. ASSUME NEW q \in Process PROVE Progress(q)'
  <2>1. CASE q = p
    BY <2>1, <1>1, <1>3, <1>5 DEF Types, Import, Section, SagerSection, Progress, Numbered, Active, Locked, Committing, Fresh, isPending
  <2>2. CASE q # p
    <3>1. Progress(q)  BY <1>1
    <3>. QED  BY <3>1, <2>2, <1>4, <1>5 DEF Progress
  <2>. QED  BY <2>1, <2>2
<1>10. ASSUME NEW q \in Process PROVE UndoWhole(q)'
  <2>1. CASE q = p
    BY <2>1, <1>1, <1>3, <1>5 DEF Types, Import, Section, SagerSection, UndoWhole, WholeButJournal, Numbered, Active, Locked, undone, Committing, Progress
  <2>2. CASE q # p
    <3>1. UndoWhole(q)  BY <1>1
    <3>. QED  BY <3>1, <2>2, <1>4, <1>5 DEF UndoWhole, undone
  <2>. QED  BY <2>1, <2>2
<1>11. Fresh'
  BY <1>1, <1>3, <1>4, <1>5, BoundAssumption DEF Types, Import, Section, SagerSection, Fresh, Numbered, Active, Locked, isPending, Progress, Committing
<1>12. WholeButJournal'
  BY <1>1, <1>3, <1>4, <1>5, BoundAssumption DEF Types, Import, Section, SagerSection, WholeButJournal, Fresh
<1>13. Gone'
  BY <1>1, <1>3, <1>4, <1>5, BoundAssumption DEF Types, Import, Section, SagerSection, Gone, Fresh, Numbered, Active, Locked
<1>14. Counted'
  BY <1>1, <1>3, <1>4, <1>5, BoundAssumption DEF Types, Import, Section, SagerSection, Counted, Numbered, Active, Locked, Fresh, Unused
<1>. QED  BY <1>2, <1>6, <1>7, <1>8, <1>9, <1>10, <1>11, <1>12, <1>13, <1>14 DEF IInv

\* A process has nothing of this to do any more; if it held the lock, it drops it.
LEMMA IdleInv ==
  ASSUME IInv, NEW p \in Process,
         Goto(p, "dead") \/ Goto(p, "run"), Forget(p), lock' = IF lock = p THEN None ELSE lock, UNCHANGED gen,
         UNCHANGED <<journal, db, sel, imports, outcome, lost, replays>>, faults' \in 0..MaxFaults
  PROVE  IInv'
<1>1. /\ TypeOK /\ Holder /\ Fresh /\ WholeButJournal /\ Gone /\ Counted
      /\ \A q \in Process : Numbered(q) /\ Unused(q) /\ Progress(q) /\ UndoWhole(q)
  BY DEF IInv
<1>2. TypeOK'
  <2>1. pc' \in [Process -> Place]  BY <1>1 DEF TypeOK, Goto, Place
  <2>2. /\ num' \in [Process -> Version] /\ replay' \in [Process -> BOOLEAN]
        /\ committed' \in [Process -> BOOLEAN] /\ old' \in [Process -> [SagerSection -> Version]]
    BY <1>1, BoundAssumption DEF TypeOK, Forget, NoRows, Version
  <2>. QED  BY <1>1, <2>1, <2>2 DEF TypeOK
<1>3. Types /\ Types'
  <2>1. Types  BY <1>1, TypeFacts
  <2>2. Types'  BY <1>2, TypeFacts, PTL
  <2>. QED  BY <2>1, <2>2
<1>4. \A q \in Process : q # p =>
        pc'[q] = pc[q] /\ num'[q] = num[q] /\ replay'[q] = replay[q]
        /\ committed'[q] = committed[q] /\ old'[q] = old[q]
  BY <1>1 DEF TypeOK, locals, Goto, Forget
<1>5. /\ pc'[p] \in {"dead", "run"} /\ lock' = IF lock = p THEN None ELSE lock
      /\ num'[p] = 0 /\ ~replay'[p] /\ \A s \in SagerSection : old'[p][s] = 0
      /\ journal' = journal /\ db' = db /\ sel' = sel /\ imports' = imports /\ outcome' = outcome /\ lost' = lost /\ replays' = replays
  BY <1>1 DEF TypeOK, Holder, Locked, Import, Version, SagerSection, NoRows, NoJournal, locals, Goto, Forget
<1>6. Holder'  BY <1>1, <1>4, <1>5, ProcessAssumption DEF Holder, Locked
<1>7. ASSUME NEW q \in Process PROVE Numbered(q)'
  <2>1. CASE q = p
    BY <2>1, <1>1, <1>3, <1>5 DEF Types, Import, Section, SagerSection, Numbered, Active, Locked, Fresh, isPending, Unused
  <2>2. CASE q # p
    <3>1. Numbered(q)  BY <1>1
    <3>. QED  BY <3>1, <2>2, <1>4, <1>5 DEF Numbered
  <2>. QED  BY <2>1, <2>2
<1>8. ASSUME NEW q \in Process PROVE Unused(q)'
  <2>1. CASE q = p
    BY <2>1, <1>1, <1>3, <1>5 DEF Types, Import, Section, SagerSection, Unused, Numbered, Active, Locked, Fresh, Progress, Committing, isPending
  <2>2. CASE q # p
    <3>1. Unused(q)  BY <1>1
    <3>. QED  BY <3>1, <2>2, <1>4, <1>5 DEF Unused
  <2>. QED  BY <2>1, <2>2
<1>9. ASSUME NEW q \in Process PROVE Progress(q)'
  <2>1. CASE q = p
    BY <2>1, <1>1, <1>3, <1>5 DEF Types, Import, Section, SagerSection, Progress, Numbered, Active, Locked, Committing, Fresh, isPending
  <2>2. CASE q # p
    <3>1. Progress(q)  BY <1>1
    <3>. QED  BY <3>1, <2>2, <1>4, <1>5 DEF Progress
  <2>. QED  BY <2>1, <2>2
<1>10. ASSUME NEW q \in Process PROVE UndoWhole(q)'
  <2>1. CASE q = p
    BY <2>1, <1>1, <1>3, <1>5 DEF Types, Import, Section, SagerSection, UndoWhole, WholeButJournal, Numbered, Active, Locked, undone, Committing, Progress
  <2>2. CASE q # p
    <3>1. UndoWhole(q)  BY <1>1
    <3>. QED  BY <3>1, <2>2, <1>4, <1>5 DEF UndoWhole, undone
  <2>. QED  BY <2>1, <2>2
<1>11. Fresh'
  BY <1>1, <1>3, <1>4, <1>5, BoundAssumption DEF Types, Import, Section, SagerSection, Fresh, Numbered, Active, Locked, isPending, Progress, Committing
<1>12. WholeButJournal'
  BY <1>1, <1>3, <1>4, <1>5, BoundAssumption DEF Types, Import, Section, SagerSection, WholeButJournal, Fresh
<1>13. Gone'
  BY <1>1, <1>3, <1>4, <1>5, BoundAssumption DEF Types, Import, Section, SagerSection, Gone, Fresh, Numbered, Active, Locked
<1>14. Counted'
  BY <1>1, <1>3, <1>4, <1>5, BoundAssumption DEF Types, Import, Section, SagerSection, Counted, Numbered, Active, Locked, Fresh, Unused
<1>. QED  BY <1>2, <1>6, <1>7, <1>8, <1>9, <1>10, <1>11, <1>12, <1>13, <1>14 DEF IInv

\* The locked block ends; what becomes of databases and journal is the caller's.
LEMMA LeaveInv ==
  ASSUME IInv, NEW p \in Process,
         lock = p, Leave(p), UNCHANGED <<sel, imports, replays>>, TypeOK',
         journal' = journal \/ journal' = NoJournal, Fresh', WholeButJournal', Gone',
         \A s \in Section : db'[s] = db[s] \/ (pc[p] = "undo" /\ s \in SagerSection /\ db'[s] = old[p][s])
  PROVE  IInv'
<1>1. /\ TypeOK /\ Holder /\ Fresh /\ WholeButJournal /\ Gone /\ Counted
      /\ \A q \in Process : Numbered(q) /\ Unused(q) /\ Progress(q) /\ UndoWhole(q)
  BY DEF IInv
<1>2. TypeOK'  OBVIOUS
<1>3. Types /\ Types'
  <2>1. Types  BY <1>1, TypeFacts
  <2>2. Types'  BY <1>2, TypeFacts, PTL
  <2>. QED  BY <2>1, <2>2
<1>4. \A q \in Process : q # p =>
        pc'[q] = pc[q] /\ num'[q] = num[q] /\ replay'[q] = replay[q]
        /\ committed'[q] = committed[q] /\ old'[q] = old[q]
  BY <1>1 DEF TypeOK, locals, Leave, Goto, Forget
<1>5. /\ pc[p] \in Locked /\ pc'[p] = "run" /\ lock = p /\ lock' = None
      /\ num'[p] = 0 /\ ~replay'[p] /\ \A s \in SagerSection : old'[p][s] = 0
      /\ sel' = sel /\ imports' = imports /\ replays' = replays
      /\ journal' = journal \/ journal'.n = 0
      /\ \A s \in Section : db'[s] = db[s] \/ (pc[p] = "undo" /\ s \in SagerSection /\ db'[s] = old[p][s])
  BY <1>1 DEF TypeOK, Holder, Locked, Import, Version, SagerSection, NoRows, NoJournal, locals, Leave, Goto, Forget
<1>6. Holder'  BY <1>1, <1>4, <1>5, ProcessAssumption DEF Holder, Locked
<1>7. \A q \in Process : q # p => pc[q] \notin Locked /\ pc'[q] \notin Locked
  BY <1>1, <1>4, <1>5 DEF Holder
<1>8. ASSUME NEW q \in Process PROVE Numbered(q)'
  <2>1. CASE q = p
    BY <2>1, <1>1, <1>3, <1>5 DEF Types, Import, Section, SagerSection, Numbered, Active, Locked, Fresh, isPending, Unused
  <2>2. CASE q # p
    <3>1. Numbered(q)  BY <1>1
    <3>. QED  BY <3>1, <2>2, <1>4, <1>5, <1>7 DEF Numbered, Active, Locked
  <2>. QED  BY <2>1, <2>2
<1>9. ASSUME NEW q \in Process PROVE Unused(q)'
  <2>1. CASE q = p
    BY <2>1, <1>1, <1>3, <1>5 DEF Types, Import, Section, SagerSection, Unused, Numbered, Active, Locked, Fresh, Progress, Committing, isPending
  <2>2. CASE q # p
    BY <2>2, <1>4, <1>5, <1>7, <1>1, <1>3 DEF Types, Unused, Numbered, Progress, Committing, Active, Locked, Fresh
  <2>. QED  BY <2>1, <2>2
<1>10. ASSUME NEW q \in Process PROVE Progress(q)'
  <2>1. CASE q = p
    BY <2>1, <1>1, <1>3, <1>5 DEF Types, Import, Section, SagerSection, Progress, Numbered, Active, Locked, Committing, Fresh, isPending
  <2>2. CASE q # p
    <3>1. Progress(q)  BY <1>1
    <3>. QED  BY <3>1, <2>2, <1>4, <1>5, <1>7 DEF Progress, Committing, Locked
  <2>. QED  BY <2>1, <2>2
<1>11. ASSUME NEW q \in Process PROVE UndoWhole(q)'
  <2>1. CASE q = p
    BY <2>1, <1>1, <1>3, <1>5 DEF Types, Import, Section, SagerSection, UndoWhole, WholeButJournal, Numbered, Active, Locked, undone, Committing, Progress
  <2>2. CASE q # p
    <3>1. UndoWhole(q)  BY <1>1
    <3>. QED  BY <3>1, <2>2, <1>4, <1>5, <1>7 DEF UndoWhole, Committing, Locked
  <2>. QED  BY <2>1, <2>2
<1>12. Fresh'  OBVIOUS
<1>13. WholeButJournal'  OBVIOUS
<1>14. Gone'  OBVIOUS
<1>15. Counted'
  BY <1>1, <1>3, <1>4, <1>5, BoundAssumption DEF Types, Import, Section, SagerSection, Counted, Numbered, Active, Locked, Fresh, Unused
<1>. QED  BY <1>2, <1>6, <1>8, <1>9, <1>10, <1>11, <1>12, <1>13, <1>14, <1>15 DEF IInv

\* A replay gets the lock.
LEMMA LockForReplayInv ==
  ASSUME IInv, NEW p \in Process,
         pc[p] = "waiting", LockFree, isPending, Goto(p, "read"), lock' = p,
         num' = [num EXCEPT ![p] = journal.n], replay' = [replay EXCEPT ![p] = TRUE],
         UNCHANGED <<journal, db, gen, committed, old, sel, imports, outcome, lost, replays, faults>>
  PROVE  IInv'
<1>1. /\ TypeOK /\ Holder /\ Fresh /\ WholeButJournal /\ Gone /\ Counted
      /\ \A q \in Process : Numbered(q) /\ Unused(q) /\ Progress(q) /\ UndoWhole(q)
  BY DEF IInv
<1>2. TypeOK'
  BY <1>1, BoundAssumption, ProcessAssumption DEF TypeOK, Numbered, Active, Locked, Place, Import, Version, Section, SagerSection, NoRows, NoJournal, locals, LockFree, isPending, Goto
<1>3. Types /\ Types'
  <2>1. Types  BY <1>1, TypeFacts
  <2>2. Types'  BY <1>2, TypeFacts, PTL
  <2>. QED  BY <2>1, <2>2
<1>4. \A q \in Process : q # p =>
        pc'[q] = pc[q] /\ num'[q] = num[q] /\ replay'[q] = replay[q]
        /\ committed'[q] = committed[q] /\ old'[q] = old[q]
  BY <1>1 DEF TypeOK, locals, LockFree, isPending, Goto
<1>5. /\ pc[p] = "waiting" /\ pc'[p] = "read" /\ lock = None /\ lock' = p /\ journal.n # 0
      /\ num'[p] = journal.n /\ replay'[p] /\ old'[p] = old[p]
      /\ journal' = journal /\ db' = db /\ sel' = sel /\ imports' = imports /\ outcome' = outcome /\ lost' = lost /\ replays' = replays
  BY <1>1 DEF TypeOK, Holder, Locked, Import, Version, SagerSection, NoRows, NoJournal, locals, LockFree, isPending, Goto
<1>6. Holder'  BY <1>1, <1>4, <1>5, ProcessAssumption DEF Holder, Locked
<1>7. ASSUME NEW q \in Process PROVE Numbered(q)'
  <2>1. CASE q = p
    BY <2>1, <1>1, <1>3, <1>5 DEF Types, Import, Section, SagerSection, Numbered, Active, Locked, Fresh, isPending, Unused
  <2>2. CASE q # p
    <3>1. Numbered(q)  BY <1>1
    <3>. QED  BY <3>1, <2>2, <1>4, <1>5 DEF Numbered
  <2>. QED  BY <2>1, <2>2
<1>8. ASSUME NEW q \in Process PROVE Unused(q)'
  <2>1. CASE q = p
    BY <2>1, <1>1, <1>3, <1>5 DEF Types, Import, Section, SagerSection, Unused, Numbered, Active, Locked, Fresh, Progress, Committing, isPending
  <2>2. CASE q # p
    <3>1. Unused(q)  BY <1>1
    <3>. QED  BY <3>1, <2>2, <1>4, <1>5 DEF Unused
  <2>. QED  BY <2>1, <2>2
<1>9. ASSUME NEW q \in Process PROVE Progress(q)'
  <2>1. CASE q = p
    BY <2>1, <1>1, <1>3, <1>5 DEF Types, Import, Section, SagerSection, Progress, Numbered, Active, Locked, Committing, Fresh, isPending
  <2>2. CASE q # p
    <3>1. Progress(q)  BY <1>1
    <3>. QED  BY <3>1, <2>2, <1>4, <1>5 DEF Progress
  <2>. QED  BY <2>1, <2>2
<1>10. ASSUME NEW q \in Process PROVE UndoWhole(q)'
  <2>1. CASE q = p
    BY <2>1, <1>1, <1>3, <1>5 DEF Types, Import, Section, SagerSection, UndoWhole, WholeButJournal, Numbered, Active, Locked, undone, Committing, Progress
  <2>2. CASE q # p
    <3>1. UndoWhole(q)  BY <1>1
    <3>. QED  BY <3>1, <2>2, <1>4, <1>5 DEF UndoWhole, undone
  <2>. QED  BY <2>1, <2>2
<1>11. Fresh'
  BY <1>1, <1>3, <1>4, <1>5, BoundAssumption DEF Types, Import, Section, SagerSection, Fresh, Numbered, Active, Locked, isPending, Progress, Committing
<1>12. WholeButJournal'
  BY <1>1, <1>3, <1>4, <1>5, BoundAssumption DEF Types, Import, Section, SagerSection, WholeButJournal, Fresh
<1>13. Gone'
  BY <1>1, <1>3, <1>4, <1>5, BoundAssumption DEF Types, Import, Section, SagerSection, Gone, Fresh, Numbered, Active, Locked
<1>14. Counted'
  BY <1>1, <1>3, <1>4, <1>5, BoundAssumption DEF Types, Import, Section, SagerSection, Counted, Numbered, Active, Locked, Fresh, Unused
<1>. QED  BY <1>2, <1>6, <1>7, <1>8, <1>9, <1>10, <1>11, <1>12, <1>13, <1>14 DEF IInv

\* An attempt is counted and begun.
LEMMA CountedInv ==
  ASSUME IInv, NEW p \in Process,
         pc[p] = "read", journal.attempts < MAX_ATTEMPTS, journal' = counted(journal), Goto(p, "snapshot"),
         replays' = [replays EXCEPT ![journal.n] = @ + 1],
         UNCHANGED <<db, gen, lock, locals, sel, imports, outcome, lost, faults>>
  PROVE  IInv'
<1>1. /\ TypeOK /\ Holder /\ Fresh /\ WholeButJournal /\ Gone /\ Counted
      /\ \A q \in Process : Numbered(q) /\ Unused(q) /\ Progress(q) /\ UndoWhole(q)
  BY DEF IInv
<1>2. TypeOK'
  <2>1. journal.n \in Import
    BY <1>1 DEF TypeOK, Numbered, Active, Locked, Import, Version
  <2>2. replays' \in [Import -> Nat]  BY <2>1, <1>1 DEF TypeOK
  <2>3. journal' \in [n : Version, attempts : 0..MAX_ATTEMPTS, readable : BOOLEAN]
    BY <1>1, BoundAssumption DEF TypeOK, counted
  <2>4. pc' \in [Process -> Place]  BY <1>1 DEF TypeOK, Goto, Place, Locked
  <2>. QED  BY <1>1, <2>2, <2>3, <2>4 DEF TypeOK, locals
<1>3. Types /\ Types'
  <2>1. Types  BY <1>1, TypeFacts
  <2>2. Types'  BY <1>2, TypeFacts, PTL
  <2>. QED  BY <2>1, <2>2
<1>4. \A q \in Process : q # p =>
        pc'[q] = pc[q] /\ num'[q] = num[q] /\ replay'[q] = replay[q]
        /\ committed'[q] = committed[q] /\ old'[q] = old[q]
  BY <1>1 DEF TypeOK, locals, counted, Goto
<1>5. /\ pc[p] = "read" /\ lock = p /\ pc'[p] = "snapshot" /\ journal'.n = journal.n /\ journal'.attempts = journal.attempts + 1 /\ journal.attempts < MAX_ATTEMPTS
      /\ \A i \in Import : replays'[i] = IF i = journal.n THEN replays[i] + 1 ELSE replays[i]
      /\ num'[p] = num[p] /\ replay'[p] = replay[p] /\ old'[p] = old[p]
      /\ db' = db /\ lock' = lock /\ sel' = sel /\ imports' = imports /\ outcome' = outcome /\ lost' = lost
  BY <1>1 DEF TypeOK, Holder, Locked, Import, Version, SagerSection, NoRows, NoJournal, locals, counted, Goto
<1>6. Holder'  BY <1>1, <1>4, <1>5, ProcessAssumption DEF Holder, Locked
<1>7. \A q \in Process : q # p => pc[q] \notin Locked /\ pc'[q] \notin Locked
  BY <1>1, <1>4, <1>5 DEF Holder
<1>8. ASSUME NEW q \in Process PROVE Numbered(q)'
  <2>1. CASE q = p
    BY <2>1, <1>1, <1>3, <1>5 DEF Types, Import, Section, SagerSection, Numbered, Active, Locked, Fresh, isPending, Unused
  <2>2. CASE q # p
    <3>1. Numbered(q)  BY <1>1
    <3>. QED  BY <3>1, <2>2, <1>4, <1>5, <1>7 DEF Numbered, Active, Locked
  <2>. QED  BY <2>1, <2>2
<1>9. ASSUME NEW q \in Process PROVE Unused(q)'
  <2>1. CASE q = p
    BY <2>1, <1>1, <1>3, <1>5 DEF Types, Import, Section, SagerSection, Unused, Numbered, Active, Locked, Fresh, Progress, Committing, isPending
  <2>2. CASE q # p
    <3>1. Unused(q) /\ Numbered(q) /\ Fresh  BY <1>1
    <3>. QED  BY <3>1, <2>2, <1>4, <1>5, <1>7, <1>3 DEF Types, Unused, Numbered, Active, Locked, Fresh
  <2>. QED  BY <2>1, <2>2
<1>10. ASSUME NEW q \in Process PROVE Progress(q)'
  <2>1. CASE q = p
    BY <2>1, <1>1, <1>3, <1>5 DEF Types, Import, Section, SagerSection, Progress, Numbered, Active, Locked, Committing, Fresh, isPending
  <2>2. CASE q # p
    <3>1. Progress(q)  BY <1>1
    <3>. QED  BY <3>1, <2>2, <1>4, <1>5, <1>7 DEF Progress, Committing, Locked
  <2>. QED  BY <2>1, <2>2
<1>11. ASSUME NEW q \in Process PROVE UndoWhole(q)'
  <2>1. CASE q = p
    BY <2>1, <1>1, <1>3, <1>5 DEF Types, Import, Section, SagerSection, UndoWhole, WholeButJournal, Numbered, Active, Locked, undone, Committing, Progress
  <2>2. CASE q # p
    <3>1. UndoWhole(q)  BY <1>1
    <3>. QED  BY <3>1, <2>2, <1>4, <1>5, <1>7 DEF UndoWhole, Committing, Locked
  <2>. QED  BY <2>1, <2>2
<1>12. Fresh'
  BY <1>1, <1>3, <1>4, <1>5, BoundAssumption DEF Types, Import, Section, SagerSection, Fresh, Numbered, Active, Locked, isPending, Progress, Committing
<1>13. WholeButJournal'
  BY <1>1, <1>3, <1>4, <1>5, BoundAssumption DEF Types, Import, Section, SagerSection, WholeButJournal, Fresh
<1>14. Gone'
  BY <1>1, <1>3, <1>4, <1>5, BoundAssumption DEF Types, Import, Section, SagerSection, Gone, Fresh, Numbered, Active, Locked
<1>15. Counted'
  BY <1>1, <1>3, <1>4, <1>5, BoundAssumption DEF Types, Import, Section, SagerSection, Counted, Numbered, Active, Locked, Fresh, Unused
<1>. QED  BY <1>2, <1>6, <1>8, <1>9, <1>10, <1>11, <1>12, <1>13, <1>14, <1>15 DEF IInv

\* An import is staged.
LEMMA StagedInv ==
  ASSUME IInv, NEW p \in Process,
         pc[p] = "stage", Goto(p, "snapshot"), NEW readable \in BOOLEAN,
         journal' = [n |-> num[p], attempts |-> 0, readable |-> readable],
         lost' = IF isPending THEN lost \cup {"superseded"} ELSE lost,
         UNCHANGED <<db, gen, lock, locals, sel, imports, outcome, replays, faults>>
  PROVE  IInv'
<1>1. /\ TypeOK /\ Holder /\ Fresh /\ WholeButJournal /\ Gone /\ Counted
      /\ \A q \in Process : Numbered(q) /\ Unused(q) /\ Progress(q) /\ UndoWhole(q)
  BY DEF IInv
<1>2. TypeOK'
  <2>1. journal' \in [n : Version, attempts : 0..MAX_ATTEMPTS, readable : BOOLEAN]
    BY <1>1, BoundAssumption DEF TypeOK
  <2>2. lost' \in SUBSET {"gaveUp", "superseded"}  BY <1>1 DEF TypeOK
  <2>3. pc' \in [Process -> Place]  BY <1>1 DEF TypeOK, Goto, Place, Locked
  <2>. QED  BY <1>1, <2>1, <2>2, <2>3 DEF TypeOK, locals
<1>3. Types /\ Types'
  <2>1. Types  BY <1>1, TypeFacts
  <2>2. Types'  BY <1>2, TypeFacts, PTL
  <2>. QED  BY <2>1, <2>2
<1>4. \A q \in Process : q # p =>
        pc'[q] = pc[q] /\ num'[q] = num[q] /\ replay'[q] = replay[q]
        /\ committed'[q] = committed[q] /\ old'[q] = old[q]
  BY <1>1 DEF TypeOK, locals, isPending, Goto
<1>5. /\ pc[p] = "stage" /\ lock = p /\ pc'[p] = "snapshot" /\ journal'.n = num[p] /\ journal'.attempts = 0
      /\ journal.n # 0 => lost' # {}
      /\ journal.n = 0 => lost' = lost
      /\ num'[p] = num[p] /\ replay'[p] = replay[p] /\ old'[p] = old[p]
      /\ db' = db /\ lock' = lock /\ sel' = sel /\ imports' = imports /\ outcome' = outcome /\ replays' = replays
  BY <1>1 DEF TypeOK, Holder, Locked, Import, Version, SagerSection, NoRows, NoJournal, locals, isPending, Goto
<1>6. Holder'  BY <1>1, <1>4, <1>5, ProcessAssumption DEF Holder, Locked
<1>7. \A q \in Process : q # p => pc[q] \notin Locked /\ pc'[q] \notin Locked
  BY <1>1, <1>4, <1>5 DEF Holder
<1>8. ASSUME NEW q \in Process PROVE Numbered(q)'
  <2>1. CASE q = p
    BY <2>1, <1>1, <1>3, <1>5 DEF Types, Import, Section, SagerSection, Numbered, Active, Locked, Fresh, isPending, Unused
  <2>2. CASE q # p
    <3>1. Numbered(q)  BY <1>1
    <3>. QED  BY <3>1, <2>2, <1>4, <1>5, <1>7 DEF Numbered, Active, Locked
  <2>. QED  BY <2>1, <2>2
<1>9. ASSUME NEW q \in Process PROVE Unused(q)'
  <2>1. CASE q = p
    BY <2>1, <1>1, <1>3, <1>5 DEF Types, Import, Section, SagerSection, Unused, Numbered, Active, Locked, Fresh, Progress, Committing, isPending
  <2>2. CASE q # p
    BY <2>2, <1>4, <1>5, <1>7, <1>1, <1>3 DEF Types, Unused, Numbered, Active, Locked
  <2>. QED  BY <2>1, <2>2
<1>10. ASSUME NEW q \in Process PROVE Progress(q)'
  <2>1. CASE q = p
    BY <2>1, <1>1, <1>3, <1>5 DEF Types, Import, Section, SagerSection, Progress, Numbered, Active, Locked, Committing, Fresh, isPending
  <2>2. CASE q # p
    <3>1. Progress(q)  BY <1>1
    <3>. QED  BY <3>1, <2>2, <1>4, <1>5, <1>7 DEF Progress, Committing, Locked
  <2>. QED  BY <2>1, <2>2
<1>11. ASSUME NEW q \in Process PROVE UndoWhole(q)'
  <2>1. CASE q = p
    BY <2>1, <1>1, <1>3, <1>5 DEF Types, Import, Section, SagerSection, UndoWhole, WholeButJournal, Numbered, Active, Locked, undone, Committing, Progress
  <2>2. CASE q # p
    <3>1. UndoWhole(q)  BY <1>1
    <3>. QED  BY <3>1, <2>2, <1>4, <1>5, <1>7 DEF UndoWhole, Committing, Locked
  <2>. QED  BY <2>1, <2>2
<1>12. Fresh'
  BY <1>1, <1>3, <1>4, <1>5, BoundAssumption DEF Types, Import, Section, SagerSection, Fresh, Numbered, Active, Locked, isPending, Progress, Committing
<1>13. WholeButJournal'
  BY <1>1, <1>3, <1>4, <1>5, BoundAssumption DEF Types, Import, Section, SagerSection, WholeButJournal, Fresh
<1>14. Gone'
  BY <1>1, <1>3, <1>4, <1>5, BoundAssumption DEF Types, Import, Section, SagerSection, Gone, Fresh, Numbered, Active, Locked
<1>15. Counted'
  BY <1>1, <1>3, <1>4, <1>5, BoundAssumption DEF Types, Import, Section, SagerSection, Counted, Numbered, Active, Locked, Fresh, Unused
<1>. QED  BY <1>2, <1>6, <1>8, <1>9, <1>10, <1>11, <1>12, <1>13, <1>14, <1>15 DEF IInv

\* commit reads the rows it may have to write back.
LEMMA SnapshotTakenInv ==
  ASSUME IInv, NEW p \in Process,
         pc[p] = "snapshot", Goto(p, "sager"), old' = [old EXCEPT ![p] = [s \in SagerSection |-> db[s]]],
         UNCHANGED <<journal, db, gen, lock, num, replay, committed, sel, imports, outcome, lost, replays, faults>>
  PROVE  IInv'
<1>1. /\ TypeOK /\ Holder /\ Fresh /\ WholeButJournal /\ Gone /\ Counted
      /\ \A q \in Process : Numbered(q) /\ Unused(q) /\ Progress(q) /\ UndoWhole(q)
  BY DEF IInv
<1>2. TypeOK'
  BY <1>1, BoundAssumption, ProcessAssumption DEF TypeOK, Numbered, Active, Locked, Place, Import, Version, Section, SagerSection, NoRows, NoJournal, locals, Goto
<1>3. Types /\ Types'
  <2>1. Types  BY <1>1, TypeFacts
  <2>2. Types'  BY <1>2, TypeFacts, PTL
  <2>. QED  BY <2>1, <2>2
<1>4. \A q \in Process : q # p =>
        pc'[q] = pc[q] /\ num'[q] = num[q] /\ replay'[q] = replay[q]
        /\ committed'[q] = committed[q] /\ old'[q] = old[q]
  BY <1>1 DEF TypeOK, locals, Goto
<1>5. /\ pc[p] = "snapshot" /\ lock = p /\ pc'[p] = "sager"
      /\ num'[p] = num[p] /\ replay'[p] = replay[p] /\ \A s \in SagerSection : old'[p][s] = db[s]
      /\ journal' = journal /\ db' = db /\ lock' = lock /\ sel' = sel /\ imports' = imports /\ outcome' = outcome /\ lost' = lost /\ replays' = replays
  BY <1>1 DEF TypeOK, Holder, Locked, Import, Version, SagerSection, NoRows, NoJournal, locals, Goto
<1>6. Holder'  BY <1>1, <1>4, <1>5, ProcessAssumption DEF Holder, Locked
<1>7. \A q \in Process : q # p => pc[q] \notin Locked /\ pc'[q] \notin Locked
  BY <1>1, <1>4, <1>5 DEF Holder
<1>8. ASSUME NEW q \in Process PROVE Numbered(q)'
  <2>1. CASE q = p
    BY <2>1, <1>1, <1>3, <1>5 DEF Types, Import, Section, SagerSection, Numbered, Active, Locked, Fresh, isPending, Unused
  <2>2. CASE q # p
    <3>1. Numbered(q)  BY <1>1
    <3>. QED  BY <3>1, <2>2, <1>4, <1>5, <1>7 DEF Numbered, Active, Locked
  <2>. QED  BY <2>1, <2>2
<1>9. ASSUME NEW q \in Process PROVE Unused(q)'
  <2>1. CASE q = p
    BY <2>1, <1>1, <1>3, <1>5 DEF Types, Import, Section, SagerSection, Unused, Numbered, Active, Locked, Fresh, Progress, Committing, isPending
  <2>2. CASE q # p
    <3>1. Unused(q) /\ Numbered(q) /\ Fresh  BY <1>1
    <3>. QED  BY <3>1, <2>2, <1>4, <1>5, <1>7, <1>3 DEF Types, Unused, Numbered, Active, Locked, Fresh
  <2>. QED  BY <2>1, <2>2
<1>10. ASSUME NEW q \in Process PROVE Progress(q)'
  <2>1. CASE q = p
    BY <2>1, <1>1, <1>3, <1>5 DEF Types, Import, Section, SagerSection, Progress, Numbered, Active, Locked, Committing, Fresh, isPending
  <2>2. CASE q # p
    <3>1. Progress(q)  BY <1>1
    <3>. QED  BY <3>1, <2>2, <1>4, <1>5, <1>7 DEF Progress, Committing, Locked
  <2>. QED  BY <2>1, <2>2
<1>11. ASSUME NEW q \in Process PROVE UndoWhole(q)'
  <2>1. CASE q = p
    BY <2>1, <1>1, <1>3, <1>5 DEF Types, Import, Section, SagerSection, UndoWhole, WholeButJournal, Numbered, Active, Locked, undone, Committing, Progress
  <2>2. CASE q # p
    <3>1. UndoWhole(q)  BY <1>1
    <3>. QED  BY <3>1, <2>2, <1>4, <1>5, <1>7 DEF UndoWhole, Committing, Locked
  <2>. QED  BY <2>1, <2>2
<1>12. Fresh'
  BY <1>1, <1>3, <1>4, <1>5, BoundAssumption DEF Types, Import, Section, SagerSection, Fresh, Numbered, Active, Locked, isPending, Progress, Committing
<1>13. WholeButJournal'
  BY <1>1, <1>3, <1>4, <1>5, BoundAssumption DEF Types, Import, Section, SagerSection, WholeButJournal, Fresh
<1>14. Gone'
  BY <1>1, <1>3, <1>4, <1>5, BoundAssumption DEF Types, Import, Section, SagerSection, Gone, Fresh, Numbered, Active, Locked
<1>15. Counted'
  BY <1>1, <1>3, <1>4, <1>5, BoundAssumption DEF Types, Import, Section, SagerSection, Counted, Numbered, Active, Locked, Fresh, Unused
<1>. QED  BY <1>2, <1>6, <1>8, <1>9, <1>10, <1>11, <1>12, <1>13, <1>14, <1>15 DEF IInv

\* The first transaction.
LEMMA SagerCommittedInv ==
  ASSUME IInv, NEW p \in Process,
         pc[p] = "sager", Goto(p, "settings"),
         committed' = [committed EXCEPT ![p] = (sel[num[p]] \cap SagerSection # {})],
         db' = [s \in Section |-> IF s \in sel[num[p]] \cap SagerSection THEN num[p] ELSE db[s]], gen' \in Nat,
         UNCHANGED <<journal, lock, num, replay, old, sel, imports, outcome, lost, replays, faults>>
  PROVE  IInv'
<1>1. /\ TypeOK /\ Holder /\ Fresh /\ WholeButJournal /\ Gone /\ Counted
      /\ \A q \in Process : Numbered(q) /\ Unused(q) /\ Progress(q) /\ UndoWhole(q)
  BY DEF IInv
<1>2. TypeOK'
  BY <1>1, BoundAssumption, ProcessAssumption DEF TypeOK, Numbered, Active, Locked, Place, Import, Version, Section, SagerSection, NoRows, NoJournal, locals, Goto
<1>3. Types /\ Types'
  <2>1. Types  BY <1>1, TypeFacts
  <2>2. Types'  BY <1>2, TypeFacts, PTL
  <2>. QED  BY <2>1, <2>2
<1>4. \A q \in Process : q # p =>
        pc'[q] = pc[q] /\ num'[q] = num[q] /\ replay'[q] = replay[q]
        /\ committed'[q] = committed[q] /\ old'[q] = old[q]
  BY <1>1 DEF TypeOK, locals, Goto
<1>5. /\ pc[p] = "sager" /\ lock = p /\ pc'[p] = "settings"
      /\ num'[p] = num[p] /\ replay'[p] = replay[p] /\ old'[p] = old[p]
      /\ ~committed'[p] => sel[num[p]] \cap SagerSection = {}
      /\ \A s \in Section : db'[s] = IF s \in sel[num[p]] \cap SagerSection THEN num[p] ELSE db[s]
      /\ journal' = journal /\ lock' = lock /\ sel' = sel /\ imports' = imports /\ outcome' = outcome /\ lost' = lost /\ replays' = replays
  BY <1>1 DEF TypeOK, Holder, Locked, Import, Version, SagerSection, NoRows, NoJournal, locals, Goto
<1>6. Holder'  BY <1>1, <1>4, <1>5, ProcessAssumption DEF Holder, Locked
<1>7. \A q \in Process : q # p => pc[q] \notin Locked /\ pc'[q] \notin Locked
  BY <1>1, <1>4, <1>5 DEF Holder
<1>8. ASSUME NEW q \in Process PROVE Numbered(q)'
  <2>1. CASE q = p
    BY <2>1, <1>1, <1>3, <1>5 DEF Types, Import, Section, SagerSection, Numbered, Active, Locked, Fresh, isPending, Unused
  <2>2. CASE q # p
    <3>1. Numbered(q)  BY <1>1
    <3>. QED  BY <3>1, <2>2, <1>4, <1>5, <1>7 DEF Numbered, Active, Locked
  <2>. QED  BY <2>1, <2>2
<1>9. ASSUME NEW q \in Process PROVE Unused(q)'
  <2>1. CASE q = p
    BY <2>1, <1>1, <1>3, <1>5 DEF Types, Import, Section, SagerSection, Unused, Numbered, Active, Locked, Fresh, Progress, Committing, isPending
  <2>2. CASE q # p
    BY <2>2, <1>4, <1>5, <1>7, <1>1, <1>3 DEF Types, Unused, Numbered, Active, Locked, Section, SagerSection
  <2>. QED  BY <2>1, <2>2
<1>10. ASSUME NEW q \in Process PROVE Progress(q)'
  <2>1. CASE q = p
    BY <2>1, <1>1, <1>3, <1>5 DEF Types, Import, Section, SagerSection, Progress, Numbered, Active, Locked, Committing, Fresh, isPending
  <2>2. CASE q # p
    <3>1. Progress(q)  BY <1>1
    <3>. QED  BY <3>1, <2>2, <1>4, <1>5, <1>7 DEF Progress, Committing, Locked
  <2>. QED  BY <2>1, <2>2
<1>11. ASSUME NEW q \in Process PROVE UndoWhole(q)'
  <2>1. CASE q = p
    BY <2>1, <1>1, <1>3, <1>5 DEF Types, Import, Section, SagerSection, UndoWhole, WholeButJournal, Numbered, Active, Locked, undone, Committing, Progress
  <2>2. CASE q # p
    <3>1. UndoWhole(q)  BY <1>1
    <3>. QED  BY <3>1, <2>2, <1>4, <1>5, <1>7 DEF UndoWhole, Committing, Locked
  <2>. QED  BY <2>1, <2>2
<1>12. Fresh'
  BY <1>1, <1>3, <1>4, <1>5, BoundAssumption DEF Types, Import, Section, SagerSection, Fresh, Numbered, Active, Locked, isPending, Progress, Committing
<1>13. WholeButJournal'
  BY <1>1, <1>3, <1>4, <1>5, BoundAssumption DEF Types, Import, Section, SagerSection, WholeButJournal, Fresh, isPending, Numbered, Active, Locked
<1>14. Gone'
  BY <1>1, <1>3, <1>4, <1>5, BoundAssumption DEF Types, Import, Section, SagerSection, Gone, Fresh, Numbered, Active, Locked
<1>15. Counted'
  BY <1>1, <1>3, <1>4, <1>5, BoundAssumption DEF Types, Import, Section, SagerSection, Counted, Numbered, Active, Locked, Fresh, Unused
<1>. QED  BY <1>2, <1>6, <1>8, <1>9, <1>10, <1>11, <1>12, <1>13, <1>14, <1>15 DEF IInv

\* The second transaction.
LEMMA SettingsCommittedInv ==
  ASSUME IInv, NEW p \in Process,
         pc[p] = "settings", Goto(p, "clear"),
         db' = IF "settings" \in sel[num[p]] THEN [db EXCEPT !["settings"] = num[p]] ELSE db,
         UNCHANGED <<journal, gen, lock, locals, sel, imports, outcome, lost, replays, faults>>
  PROVE  IInv'
<1>1. /\ TypeOK /\ Holder /\ Fresh /\ WholeButJournal /\ Gone /\ Counted
      /\ \A q \in Process : Numbered(q) /\ Unused(q) /\ Progress(q) /\ UndoWhole(q)
  BY DEF IInv
<1>2. TypeOK'
  BY <1>1, BoundAssumption, ProcessAssumption DEF TypeOK, Numbered, Active, Locked, Place, Import, Version, Section, SagerSection, NoRows, NoJournal, locals, Goto, Section
<1>3. Types /\ Types'
  <2>1. Types  BY <1>1, TypeFacts
  <2>2. Types'  BY <1>2, TypeFacts, PTL
  <2>. QED  BY <2>1, <2>2
<1>4. \A q \in Process : q # p =>
        pc'[q] = pc[q] /\ num'[q] = num[q] /\ replay'[q] = replay[q]
        /\ committed'[q] = committed[q] /\ old'[q] = old[q]
  BY <1>1 DEF TypeOK, locals, Goto, Section
<1>5. /\ pc[p] = "settings" /\ lock = p /\ pc'[p] = "clear"
      /\ num'[p] = num[p] /\ replay'[p] = replay[p] /\ old'[p] = old[p]
      /\ \A s \in SagerSection : db'[s] = db[s]
      /\ db'["settings"] = IF "settings" \in sel[num[p]] THEN num[p] ELSE db["settings"]
      /\ journal' = journal /\ lock' = lock /\ sel' = sel /\ imports' = imports /\ outcome' = outcome /\ lost' = lost /\ replays' = replays
  BY <1>1 DEF TypeOK, Holder, Locked, Import, Version, SagerSection, NoRows, NoJournal, locals, Goto, Section
<1>6. Holder'  BY <1>1, <1>4, <1>5, ProcessAssumption DEF Holder, Locked
<1>7. \A q \in Process : q # p => pc[q] \notin Locked /\ pc'[q] \notin Locked
  BY <1>1, <1>4, <1>5 DEF Holder
<1>8. ASSUME NEW q \in Process PROVE Numbered(q)'
  <2>1. CASE q = p
    BY <2>1, <1>1, <1>3, <1>5 DEF Types, Import, Section, SagerSection, Numbered, Active, Locked, Fresh, isPending, Unused
  <2>2. CASE q # p
    <3>1. Numbered(q)  BY <1>1
    <3>. QED  BY <3>1, <2>2, <1>4, <1>5, <1>7 DEF Numbered, Active, Locked
  <2>. QED  BY <2>1, <2>2
<1>9. ASSUME NEW q \in Process PROVE Unused(q)'
  <2>1. CASE q = p
    BY <2>1, <1>1, <1>3, <1>5 DEF Types, Import, Section, SagerSection, Unused, Numbered, Active, Locked, Fresh, Progress, Committing, isPending
  <2>2. CASE q # p
    BY <2>2, <1>4, <1>5, <1>7, <1>1, <1>3 DEF Types, Unused, Numbered, Active, Locked, Section, SagerSection
  <2>. QED  BY <2>1, <2>2
<1>10. ASSUME NEW q \in Process PROVE Progress(q)'
  <2>1. CASE q = p
    BY <2>1, <1>1, <1>3, <1>5 DEF Types, Import, Section, SagerSection, Progress, Numbered, Active, Locked, Committing, Fresh, isPending
  <2>2. CASE q # p
    <3>1. Progress(q)  BY <1>1
    <3>. QED  BY <3>1, <2>2, <1>4, <1>5, <1>7 DEF Progress, Committing, Locked
  <2>. QED  BY <2>1, <2>2
<1>11. ASSUME NEW q \in Process PROVE UndoWhole(q)'
  <2>1. CASE q = p
    BY <2>1, <1>1, <1>3, <1>5 DEF Types, Import, Section, SagerSection, UndoWhole, WholeButJournal, Numbered, Active, Locked, undone, Committing, Progress
  <2>2. CASE q # p
    <3>1. UndoWhole(q)  BY <1>1
    <3>. QED  BY <3>1, <2>2, <1>4, <1>5, <1>7 DEF UndoWhole, Committing, Locked
  <2>. QED  BY <2>1, <2>2
<1>12. Fresh'
  BY <1>1, <1>3, <1>4, <1>5, BoundAssumption DEF Types, Import, Section, SagerSection, Fresh, Numbered, Active, Locked, isPending, Progress, Committing
<1>13. WholeButJournal'
  BY <1>1, <1>3, <1>4, <1>5, BoundAssumption DEF Types, Import, Section, SagerSection, WholeButJournal, Fresh, isPending, Numbered, Active, Locked
<1>14. Gone'
  BY <1>1, <1>3, <1>4, <1>5, BoundAssumption DEF Types, Import, Section, SagerSection, Gone, Fresh, Numbered, Active, Locked
<1>15. Counted'
  BY <1>1, <1>3, <1>4, <1>5, BoundAssumption DEF Types, Import, Section, SagerSection, Counted, Numbered, Active, Locked, Fresh, Unused
<1>. QED  BY <1>2, <1>6, <1>8, <1>9, <1>10, <1>11, <1>12, <1>13, <1>14, <1>15 DEF IInv

\* The second transaction fails after the first was committed.
LEMMA ToUndoInv ==
  ASSUME IInv, NEW p \in Process,
         pc[p] = "settings", committed[p], Goto(p, "undo"), faults' \in 0..MaxFaults,
         UNCHANGED <<journal, db, gen, lock, locals, sel, imports, outcome, lost, replays>>
  PROVE  IInv'
<1>1. /\ TypeOK /\ Holder /\ Fresh /\ WholeButJournal /\ Gone /\ Counted
      /\ \A q \in Process : Numbered(q) /\ Unused(q) /\ Progress(q) /\ UndoWhole(q)
  BY DEF IInv
<1>2. TypeOK'
  BY <1>1, BoundAssumption, ProcessAssumption DEF TypeOK, Numbered, Active, Locked, Place, Import, Version, Section, SagerSection, NoRows, NoJournal, locals, Goto
<1>3. Types /\ Types'
  <2>1. Types  BY <1>1, TypeFacts
  <2>2. Types'  BY <1>2, TypeFacts, PTL
  <2>. QED  BY <2>1, <2>2
<1>4. \A q \in Process : q # p =>
        pc'[q] = pc[q] /\ num'[q] = num[q] /\ replay'[q] = replay[q]
        /\ committed'[q] = committed[q] /\ old'[q] = old[q]
  BY <1>1 DEF TypeOK, locals, Goto
<1>5. /\ pc[p] = "settings" /\ lock = p /\ pc'[p] = "undo"
      /\ num'[p] = num[p] /\ replay'[p] = replay[p] /\ old'[p] = old[p]
      /\ journal' = journal /\ db' = db /\ lock' = lock /\ sel' = sel /\ imports' = imports /\ outcome' = outcome /\ lost' = lost /\ replays' = replays
  BY <1>1 DEF TypeOK, Holder, Locked, Import, Version, SagerSection, NoRows, NoJournal, locals, Goto
<1>6. Holder'  BY <1>1, <1>4, <1>5, ProcessAssumption DEF Holder, Locked
<1>7. \A q \in Process : q # p => pc[q] \notin Locked /\ pc'[q] \notin Locked
  BY <1>1, <1>4, <1>5 DEF Holder
<1>8. ASSUME NEW q \in Process PROVE Numbered(q)'
  <2>1. CASE q = p
    BY <2>1, <1>1, <1>3, <1>5 DEF Types, Import, Section, SagerSection, Numbered, Active, Locked, Fresh, isPending, Unused
  <2>2. CASE q # p
    <3>1. Numbered(q)  BY <1>1
    <3>. QED  BY <3>1, <2>2, <1>4, <1>5, <1>7 DEF Numbered, Active, Locked
  <2>. QED  BY <2>1, <2>2
<1>9. ASSUME NEW q \in Process PROVE Unused(q)'
  <2>1. CASE q = p
    BY <2>1, <1>1, <1>3, <1>5 DEF Types, Import, Section, SagerSection, Unused, Numbered, Active, Locked, Fresh, Progress, Committing, isPending
  <2>2. CASE q # p
    <3>1. Unused(q) /\ Numbered(q) /\ Fresh  BY <1>1
    <3>. QED  BY <3>1, <2>2, <1>4, <1>5, <1>7, <1>3 DEF Types, Unused, Numbered, Active, Locked, Fresh
  <2>. QED  BY <2>1, <2>2
<1>10. ASSUME NEW q \in Process PROVE Progress(q)'
  <2>1. CASE q = p
    BY <2>1, <1>1, <1>3, <1>5 DEF Types, Import, Section, SagerSection, Progress, Numbered, Active, Locked, Committing, Fresh, isPending
  <2>2. CASE q # p
    <3>1. Progress(q)  BY <1>1
    <3>. QED  BY <3>1, <2>2, <1>4, <1>5, <1>7 DEF Progress, Committing, Locked
  <2>. QED  BY <2>1, <2>2
<1>11. ASSUME NEW q \in Process PROVE UndoWhole(q)'
  <2>1. CASE q = p
    BY <2>1, <1>1, <1>3, <1>5 DEF Types, Import, Section, SagerSection, UndoWhole, WholeButJournal, Numbered, Active, Locked, undone, Committing, Progress
  <2>2. CASE q # p
    <3>1. UndoWhole(q)  BY <1>1
    <3>. QED  BY <3>1, <2>2, <1>4, <1>5, <1>7 DEF UndoWhole, Committing, Locked
  <2>. QED  BY <2>1, <2>2
<1>12. Fresh'
  BY <1>1, <1>3, <1>4, <1>5, BoundAssumption DEF Types, Import, Section, SagerSection, Fresh, Numbered, Active, Locked, isPending, Progress, Committing
<1>13. WholeButJournal'
  BY <1>1, <1>3, <1>4, <1>5, BoundAssumption DEF Types, Import, Section, SagerSection, WholeButJournal, Fresh
<1>14. Gone'
  BY <1>1, <1>3, <1>4, <1>5, BoundAssumption DEF Types, Import, Section, SagerSection, Gone, Fresh, Numbered, Active, Locked
<1>15. Counted'
  BY <1>1, <1>3, <1>4, <1>5, BoundAssumption DEF Types, Import, Section, SagerSection, Counted, Numbered, Active, Locked, Fresh, Unused
<1>. QED  BY <1>2, <1>6, <1>8, <1>9, <1>10, <1>11, <1>12, <1>13, <1>14, <1>15 DEF IInv

-----------------------------------------------------------------------------
(* The ways out of the locked block. *)

\* What a failing import or replay may do to the databases: nothing, or the
\* whole compensation.
UnchangedOrUndone(p) ==
  /\ db' \in [Section -> Version]
  /\ gen' \in Nat
  /\ \/ db' = db
     \/ pc[p] = "undo" /\ \A s \in Section : db'[s] = undone(p, s)

\* Leaving keeps the types.
LEMMA LeaveTypes ==
  ASSUME IInv, NEW p \in Process, Leave(p), UNCHANGED <<sel, imports, replays>>,
         journal' = journal \/ journal' = NoJournal, db' \in [Section -> Version], gen' \in Nat,
         faults' \in 0..MaxFaults, lost' \in SUBSET {"gaveUp", "superseded"},
         outcome' \in [Import -> {"none", "refused", "rolledBack", "undoFailed"}]
  PROVE  TypeOK'
<1>1. TypeOK  BY DEF IInv
<1>2. NoJournal \in [n : Version, attempts : 0..MAX_ATTEMPTS, readable : BOOLEAN]
  BY BoundAssumption DEF NoJournal, Version
<1>3. pc' \in [Process -> Place] /\ lock' \in Process \cup {None}
  BY <1>1 DEF TypeOK, Leave, Goto, Place
<1>4. /\ num' \in [Process -> Version] /\ replay' \in [Process -> BOOLEAN]
      /\ committed' \in [Process -> BOOLEAN] /\ old' \in [Process -> [SagerSection -> Version]]
  BY <1>1, BoundAssumption DEF TypeOK, Leave, Forget, NoRows, Version
<1>. QED  BY <1>1, <1>2, <1>3, <1>4 DEF TypeOK

\* An import that is refused, or whose compensation fails, leaves the journal.
LEMMA JournalStaysInv ==
  ASSUME IInv, NEW p \in Process, lock = p, Leave(p), num[p] \in Import, faults' \in 0..MaxFaults,
         NEW how \in {"refused", "undoFailed"},
         outcome' = outcome \/ outcome' = [outcome EXCEPT ![num[p]] = how],
         UNCHANGED <<journal, db, gen, lost, sel, imports, replays>>
  PROVE  IInv'
<1>1. /\ TypeOK /\ Holder /\ Fresh /\ WholeButJournal /\ Gone /\ Numbered(p)
  BY DEF IInv
<1>2. TypeOK'
  <2>1. outcome' \in [Import -> {"none", "refused", "rolledBack", "undoFailed"}]  BY <1>1 DEF TypeOK
  <2>2. /\ db' \in [Section -> Version] /\ gen' \in Nat
        /\ lost' \in SUBSET {"gaveUp", "superseded"}  BY <1>1 DEF TypeOK
  <2>. QED  BY <2>1, <2>2, LeaveTypes
<1>3. Types  BY <1>1, TypeFacts
<1>4. /\ num[p] \in 1..imports
      /\ \A q \in Process : q # p => num'[q] = num[q] /\ old'[q] = old[q]
      /\ num'[p] = 0 /\ \A s \in SagerSection : old'[p][s] = 0
  BY <1>1 DEF Numbered, Active, Holder, TypeOK, Leave, Forget, NoRows
<1>5. \A i \in Import : outcome'[i] = outcome[i] \/ (i = num[p] /\ outcome'[i] = how)
  BY <1>1 DEF TypeOK
<1>6. Fresh'  BY <1>1, <1>3, <1>4, <1>5 DEF Fresh, Types, isPending, Import
<1>7. WholeButJournal'  BY <1>1 DEF WholeButJournal
<1>8. Gone'  BY <1>1, <1>4, <1>5 DEF Gone, Import
<1>. QED  BY <1>2, <1>6, <1>7, <1>8, LeaveInv

\* A replay whose apply failed.
LEMMA FailedReplayInv ==
  ASSUME IInv, NEW p \in Process, lock = p, pc[p] \notin {"read", "stage"}, ReplayFailed(p), UnchangedOrUndone(p),
         faults' \in 0..MaxFaults, UNCHANGED <<sel, imports, replays>>
  PROVE  IInv'
<1>1. /\ TypeOK /\ Holder /\ Fresh /\ WholeButJournal /\ Gone
      /\ Numbered(p) /\ Progress(p) /\ UndoWhole(p)
  BY DEF IInv
<1>2. /\ Leave(p) /\ outcome' = outcome
      /\ \/ journal' = journal /\ lost' = lost
         \/ journal' = NoJournal /\ lost' = lost \cup {"gaveUp"}
  BY DEF ReplayFailed
<1>3. TypeOK'  BY <1>1, <1>2, LeaveTypes DEF TypeOK, UnchangedOrUndone
<1>4. Types  BY <1>1, TypeFacts
<1>5. /\ journal.n = num[p] /\ num[p] \in 1..imports
      /\ \A q \in Process : q # p => num'[q] = num[q] /\ old'[q] = old[q]
      /\ num'[p] = 0 /\ \A s \in SagerSection : old'[p][s] = 0
  BY <1>1, <1>2 DEF Numbered, Active, Locked, Holder, TypeOK, Leave, Forget, NoRows
<1>6. \A s \in Section : db'[s] = db[s] \/ (pc[p] = "undo" /\ s \in SagerSection /\ db'[s] = old[p][s])
  BY DEF UnchangedOrUndone, undone
<1>7. \A s \in Section : db'[s] <= journal.n
  BY <1>1, <1>4, <1>5, <1>6 DEF Fresh, isPending, Progress, Committing, Types
<1>8. Fresh'
  <2>1. journal'.n = journal.n \/ journal'.n = 0  BY <1>2 DEF NoJournal
  <2>2. \A s \in Section : db'[s] \in Nat  BY <1>4, <1>6 DEF Types
  <2>. QED  BY <1>1, <1>2, <1>4, <1>5, <1>7, <2>1, <2>2 DEF Fresh, isPending, Types
<1>9. WholeButJournal'
  <2>1. CASE lost' # {}  BY <2>1 DEF WholeButJournal
  <2>2. CASE lost' = {} /\ db' = db  BY <2>2, <1>1, <1>2 DEF WholeButJournal
  <2>3. CASE lost' = {} /\ pc[p] = "undo" /\ \A s \in Section : db'[s] = undone(p, s)
    BY <2>3, <1>1, <1>2, <1>4, <1>5 DEF WholeButJournal, UndoWhole, Committing, Types
  <2>. QED  BY <2>1, <2>2, <2>3 DEF UnchangedOrUndone
<1>10. Gone'
  <2>1. \A i \in Import : journal'.n = i => journal.n = i  BY <1>2 DEF NoJournal, Import
  <2>. QED  BY <1>1, <1>2, <1>5, <1>6, <2>1 DEF Gone, Import
<1>. QED  BY <1>2, <1>3, <1>6, <1>8, <1>9, <1>10, LeaveInv

\* An import that failed and left the databases as they were.
LEMMA RolledBackInv ==
  ASSUME IInv, NEW p \in Process, lock = p, pc[p] \in {"sager", "settings", "undo"}, ~replay[p],
         pc[p] = "settings" => ~committed[p], RolledBack(p), UnchangedOrUndone(p),
         pc[p] = "undo" => \A s \in Section : db'[s] = undone(p, s),
         faults' \in 0..MaxFaults, UNCHANGED <<sel, imports, replays>>
  PROVE  IInv'
<1>1. /\ TypeOK /\ Holder /\ Fresh /\ WholeButJournal /\ Gone
      /\ \A q \in Process : Numbered(q) /\ Unused(q) /\ Progress(q) /\ UndoWhole(q)
  BY DEF IInv
<1>2. /\ Leave(p) /\ journal' = NoJournal /\ lost' = lost
      /\ outcome' = [outcome EXCEPT ![num[p]] = "rolledBack"]
  BY DEF RolledBack
<1>3. Types  BY <1>1, TypeFacts
<1>4. /\ journal.n = num[p] /\ num[p] \in 1..imports /\ num[p] \in Import /\ p = Main
      /\ \A q \in Process : q # p => num'[q] = num[q] /\ old'[q] = old[q]
      /\ num'[p] = 0 /\ \A s \in SagerSection : old'[p][s] = 0
  BY <1>1, <1>2 DEF Numbered, Active, Locked, Holder, TypeOK, Leave, Forget, NoRows, Import, Version
<1>5. TypeOK'
  <2>1. outcome' \in [Import -> {"none", "refused", "rolledBack", "undoFailed"}]
    BY <1>1, <1>2 DEF TypeOK
  <2>. QED  BY <1>1, <1>2, <2>1, LeaveTypes DEF TypeOK, UnchangedOrUndone
<1>6. \A s \in Section : db'[s] = db[s] \/ (pc[p] = "undo" /\ s \in SagerSection /\ db'[s] = old[p][s])
  BY DEF UnchangedOrUndone, undone
<1>7. \A s \in Section : db'[s] # num[p]
  <2>1. CASE pc[p] = "sager"  BY <2>1, <1>1, <1>6 DEF Unused
  <2>2. CASE pc[p] = "settings"
    <3>1. \A s \in SagerSection : db[s] = old[p][s]  BY <2>2, <1>1 DEF Progress
    <3>. QED  BY <2>2, <3>1, <1>1, <1>6 DEF Unused, Section
  <2>3. CASE pc[p] = "undo"
    BY <2>3, <1>1 DEF Unused, undone, Section
  <2>. QED  BY <2>1, <2>2, <2>3
<1>8. \A s \in Section : db'[s] \in Nat /\ db'[s] <= imports
  BY <1>1, <1>3, <1>4, <1>6 DEF Fresh, Progress, Committing, Types
<1>9. Fresh'
  <2>1. journal'.n = 0  BY <1>2 DEF NoJournal
  <2>2. \A i \in Import : i > imports => i # num[p]  BY <1>3, <1>4 DEF Types, Import
  <2>3. \A i \in Import : i # num[p] => outcome'[i] = outcome[i]  BY <1>1, <1>2 DEF TypeOK
  <2>. QED  BY <1>1, <1>3, <1>8, <2>1, <2>2, <2>3 DEF Fresh, isPending, Types
<1>10. WholeButJournal'
  <2>1. SUFFICES ASSUME lost = {}, NEW i \in Import, NEW s \in sel[i], NEW t \in sel[i], db'[s] = i PROVE db'[t] >= i
    BY <1>2 DEF WholeButJournal
  <2>2. s \in Section /\ t \in Section  BY <2>1, <1>3 DEF Types
  <2>3. i # num[p]  BY <2>1, <2>2, <1>7
  <2>4. CASE db' = db  BY <2>1, <2>3, <2>4, <1>1, <1>4 DEF WholeButJournal
  <2>5. CASE pc[p] = "undo" /\ \A u \in Section : db'[u] = undone(p, u)
    BY <2>1, <2>2, <2>3, <2>5, <1>1 DEF UndoWhole, Committing
  <2>. QED  BY <2>4, <2>5 DEF UnchangedOrUndone
<1>11. Gone'
  <2>1. \A i \in Import : outcome'[i] = IF i = num[p] THEN "rolledBack" ELSE outcome[i]
    BY <1>1, <1>2 DEF TypeOK
  <2>2. journal'.n = 0  BY <1>2 DEF NoJournal
  <2>3. \A q \in Process : q # p => num[q] = 0 /\ \A s \in SagerSection : old[q][s] = 0
    <3>1. SUFFICES ASSUME NEW q \in Process, q # p PROVE num[q] = 0 /\ \A s \in SagerSection : old[q][s] = 0
      OBVIOUS
    <3>2. pc[q] \notin Locked  BY <3>1, <1>1 DEF Holder
    <3>3. pc[q] # "importing"
      BY <3>1, <3>2, <1>1, <1>4 DEF Numbered, Active, Locked
    <3>. QED  BY <3>2, <3>3, <1>1 DEF Numbered, Active, Progress, Committing, Locked
  <2>. QED  BY <1>1, <1>4, <1>6, <1>7, <2>1, <2>2, <2>3 DEF Gone, Import
<1>. QED  BY <1>2, <1>5, <1>6, <1>9, <1>10, <1>11, LeaveInv

\* A journal that is unreadable or out of attempts is given up.
LEMMA GaveUpInv ==
  ASSUME IInv, NEW p \in Process, lock = p, Leave(p), journal' = NoJournal, lost' = lost \cup {"gaveUp"},
         UNCHANGED <<db, gen, sel, imports, outcome, replays, faults>>
  PROVE  IInv'
<1>1. TypeOK /\ Holder /\ Fresh /\ Gone  BY DEF IInv
<1>2. TypeOK'
  <2>1. /\ db' \in [Section -> Version] /\ gen' \in Nat /\ faults' \in 0..MaxFaults
        /\ outcome' \in [Import -> {"none", "refused", "rolledBack", "undoFailed"}]
        /\ lost' \in SUBSET {"gaveUp", "superseded"}
    BY <1>1 DEF TypeOK
  <2>. QED  BY <2>1, LeaveTypes
<1>3. Types  BY <1>1, TypeFacts
<1>4. journal'.n = 0  BY DEF NoJournal
<1>5. /\ \A q \in Process : q # p => num'[q] = num[q] /\ old'[q] = old[q]
      /\ num'[p] = 0 /\ \A s \in SagerSection : old'[p][s] = 0
  BY <1>1 DEF TypeOK, Leave, Forget, NoRows
<1>6. Fresh'  BY <1>1, <1>3, <1>4 DEF Fresh, isPending, Types
<1>7. WholeButJournal'  BY DEF WholeButJournal
<1>8. Gone'  BY <1>1, <1>4, <1>5 DEF Gone, Import
<1>. QED  BY <1>2, <1>6, <1>7, <1>8, LeaveInv

\* A completed restore clears the journal: nothing of it is missing any more.
LEMMA ClearInv ==
  ASSUME IInv, NEW p \in Process, clear(p)
  PROVE  IInv'
<1>1. TypeOK /\ Holder /\ Fresh /\ WholeButJournal /\ Gone /\ Numbered(p) /\ Progress(p)  BY DEF IInv
<1>2. /\ pc[p] = "clear" /\ Leave(p) /\ journal' = NoJournal
      /\ UNCHANGED <<db, gen, sel, imports, outcome, lost, replays, faults>>
  BY DEF clear
<1>3. TypeOK'
  <2>1. /\ db' \in [Section -> Version] /\ gen' \in Nat /\ faults' \in 0..MaxFaults
        /\ outcome' \in [Import -> {"none", "refused", "rolledBack", "undoFailed"}]
        /\ lost' \in SUBSET {"gaveUp", "superseded"}
    BY <1>1, <1>2 DEF TypeOK
  <2>. QED  BY <1>2, <2>1, LeaveTypes
<1>4. Types  BY <1>1, TypeFacts
<1>5. /\ lock = p /\ journal'.n = 0 /\ journal.n = num[p] /\ num[p] \in Import
      /\ \A q \in Process : q # p => num'[q] = num[q] /\ old'[q] = old[q]
      /\ num'[p] = 0 /\ \A s \in SagerSection : old'[p][s] = 0
  BY <1>1, <1>2 DEF Numbered, Active, Locked, Holder, TypeOK, Leave, Forget, NoRows, NoJournal, Import, Version
<1>6. Fresh'  BY <1>1, <1>2, <1>4, <1>5 DEF Fresh, isPending, Types
<1>7. WholeButJournal'
  <2>1. SUFFICES ASSUME lost = {}, NEW i \in Import, NEW s \in sel[i], NEW t \in sel[i], db[s] = i PROVE db[t] >= i
    BY <1>2 DEF WholeButJournal
  <2>2. CASE i # num[p]  BY <2>1, <2>2, <1>1, <1>5 DEF WholeButJournal
  <2>3. CASE i = num[p]
    <3>1. t \in Section  BY <2>1, <1>4 DEF Types
    <3>2. db[t] = num[p]  BY <2>3, <3>1, <1>1, <1>2 DEF Progress, Section, SagerSection
    <3>. QED  BY <2>3, <3>1, <3>2, <1>4 DEF Types
  <2>. QED  BY <2>2, <2>3
<1>8. Gone'  BY <1>1, <1>2, <1>5 DEF Gone, Import
<1>. QED  BY <1>2, <1>3, <1>5, <1>6, <1>7, <1>8, LeaveInv

-----------------------------------------------------------------------------
(* Each action. *)

\* A process inside the locked block holds the lock, and its import exists.
LEMMA InsideHolds ==
  ASSUME IInv, NEW p \in Process, pc[p] \in Locked
  PROVE  lock = p /\ num[p] \in Import /\ db \in [Section -> Version] /\ gen \in Nat
  BY DEF IInv, TypeOK, Holder, Numbered, Active, Import, Version

\* A fault stays within the bound.
LEMMA FaultCount == ASSUME TypeOK, Fault PROVE faults' \in 0..MaxFaults
  BY BoundAssumption DEF TypeOK, Fault

\* The lock is taken for a replay, or the journal has gone meanwhile.
LEMMA LockForReplayStep ==
  ASSUME IInv, NEW p \in Process, LockForReplay(p)
  PROVE  IInv'
<1>1. CASE isPending
  BY <1>1, LockForReplayInv DEF LockForReplay
<1>2. CASE ~isPending
  <2>1. TypeOK  BY DEF IInv
  <2>2. faults' \in 0..MaxFaults  BY <2>1 DEF TypeOK, LockForReplay
  <2>. QED  BY <1>2, <2>2, IdleInv DEF LockForReplay, LockFree, Leave
<1>. QED  BY <1>1, <1>2

\* The attempt is counted, the journal given up, or the count cannot be written.
LEMMA CountAttemptStep ==
  ASSUME IInv, NEW p \in Process, CountAttempt(p)
  PROVE  IInv'
<1>1. pc[p] = "read" /\ TypeOK  BY DEF CountAttempt, IInv
<1>2. lock = p /\ num[p] \in Import  BY <1>1, InsideHolds DEF Locked
<1>3. CASE pc'[p] = "snapshot"
  BY <1>1, <1>3, CountedInv DEF CountAttempt, mayAttempt, TypeOK, Leave, Goto
<1>4. CASE pc'[p] # "snapshot" /\ journal' # journal
  BY <1>1, <1>2, <1>4, GaveUpInv DEF CountAttempt, Goto, TypeOK
<1>5. CASE pc'[p] # "snapshot" /\ journal' = journal
  <2>1. CASE Fault
    BY <1>1, <1>2, <1>5, <2>1, FaultCount, JournalStaysInv, GaveUpInv DEF CountAttempt, Goto, TypeOK
  <2>2. CASE ~Fault
    BY <1>1, <1>2, <1>5, <2>2, GaveUpInv DEF CountAttempt, Goto, TypeOK
  <2>. QED  BY <2>1, <2>2
<1>. QED  BY <1>3, <1>4, <1>5

\* The journal is staged, or the import refused.
LEMMA StageStep ==
  ASSUME IInv, NEW p \in Process, stage(p)
  PROVE  IInv'
<1>1. pc[p] = "stage" /\ TypeOK  BY DEF stage, IInv
<1>2. lock = p /\ num[p] \in Import  BY <1>1, InsideHolds DEF Locked
<1>3. CASE \E readable \in BOOLEAN :
             /\ journal' = [n |-> num[p], attempts |-> 0, readable |-> readable]
             /\ lost' = IF isPending THEN lost \cup {"superseded"} ELSE lost
             /\ Goto(p, "snapshot") /\ UNCHANGED <<lock, locals, outcome, faults>>
  BY <1>1, <1>3, StagedInv DEF stage
<1>4. CASE /\ Fault /\ outcome' = [outcome EXCEPT ![num[p]] = "refused"]
           /\ Leave(p) /\ UNCHANGED <<journal, lost>>
  BY <1>1, <1>2, <1>4, FaultCount, JournalStaysInv DEF stage
<1>. QED  BY <1>3, <1>4 DEF stage

\* The old rows are read, or reading them fails.
LEMMA SnapshotStep ==
  ASSUME IInv, NEW p \in Process, Snapshot(p)
  PROVE  IInv'
<1>1. pc[p] = "snapshot" /\ TypeOK  BY DEF Snapshot, IInv
<1>2. lock = p /\ num[p] \in Import /\ db \in [Section -> Version] /\ gen \in Nat
  BY <1>1, InsideHolds DEF Locked
<1>3. CASE /\ Goto(p, "sager") /\ old' = [old EXCEPT ![p] = [s \in SagerSection |-> db[s]]]
           /\ UNCHANGED <<num, replay, committed, journal, lock, outcome, lost, faults>>
  BY <1>1, <1>3, SnapshotTakenInv DEF Snapshot
<1>4. CASE Fault /\ ReplayFailed(p)
  BY <1>1, <1>2, <1>4, FaultCount, FailedReplayInv DEF Snapshot, UnchangedOrUndone
<1>5. CASE /\ Fault /\ outcome' = [outcome EXCEPT ![num[p]] = "refused"]
           /\ Leave(p) /\ UNCHANGED <<journal, lost>>
  BY <1>1, <1>2, <1>5, FaultCount, JournalStaysInv DEF Snapshot
<1>. QED  BY <1>3, <1>4, <1>5 DEF Snapshot

\* The first transaction commits or fails.
LEMMA CommitSagerStep ==
  ASSUME IInv, NEW p \in Process, CommitSager(p)
  PROVE  IInv'
<1>1. pc[p] = "sager" /\ TypeOK  BY DEF CommitSager, IInv
<1>2. lock = p /\ num[p] \in Import /\ db \in [Section -> Version] /\ gen \in Nat
  BY <1>1, InsideHolds DEF Locked
<1>3. CASE Fault /\ (IF replay[p] THEN ReplayFailed(p) ELSE RolledBack(p)) /\ UNCHANGED <<db, gen>>
  BY <1>1, <1>2, <1>3, FaultCount, FailedReplayInv, RolledBackInv DEF CommitSager, UnchangedOrUndone
<1>4. CASE /\ IF sel[num[p]] \cap SagerSection # {}
              THEN replaceSagerData(sel[num[p]], [s \in SagerSection |-> num[p]])
              ELSE UNCHANGED <<db, gen>>
           /\ Goto(p, "settings") /\ committed' = [committed EXCEPT ![p] = (sel[num[p]] \cap SagerSection # {})]
           /\ UNCHANGED <<num, replay, old, journal, lock, outcome, lost, faults>>
  <2>1. db' = [s \in Section |-> IF s \in sel[num[p]] \cap SagerSection THEN num[p] ELSE db[s]]
    <3>1. CASE sel[num[p]] \cap SagerSection # {}
      BY <1>4, <3>1 DEF replaceSagerData
    <3>2. CASE sel[num[p]] \cap SagerSection = {}
      BY <1>2, <1>4, <3>2
    <3>. QED  BY <3>1, <3>2
  <2>2. gen' \in Nat  BY <1>2, <1>4 DEF replaceSagerData
  <2>. QED  BY <1>1, <1>4, <2>1, <2>2, SagerCommittedInv DEF CommitSager
<1>. QED  BY <1>3, <1>4 DEF CommitSager

\* The second transaction commits, fails before anything was committed, or is to be compensated.
LEMMA CommitSettingsStep ==
  ASSUME IInv, NEW p \in Process, CommitSettings(p)
  PROVE  IInv'
<1>1. pc[p] = "settings" /\ TypeOK  BY DEF CommitSettings, IInv
<1>2. lock = p /\ num[p] \in Import /\ db \in [Section -> Version] /\ gen \in Nat
  BY <1>1, InsideHolds DEF Locked
<1>3. CASE /\ db' = IF "settings" \in sel[num[p]] THEN [db EXCEPT !["settings"] = num[p]] ELSE db
           /\ Goto(p, "clear") /\ UNCHANGED <<locals, journal, lock, outcome, lost, faults>>
  BY <1>1, <1>3, SettingsCommittedInv DEF CommitSettings
<1>4. CASE Fault /\ committed[p] /\ Goto(p, "undo") /\ UNCHANGED <<locals, db, journal, lock, outcome, lost>>
  BY <1>1, <1>4, FaultCount, ToUndoInv DEF CommitSettings
<1>5. CASE Fault /\ ~committed[p] /\ (IF replay[p] THEN ReplayFailed(p) ELSE RolledBack(p)) /\ UNCHANGED db
  BY <1>1, <1>2, <1>5, FaultCount, FailedReplayInv, RolledBackInv DEF CommitSettings, UnchangedOrUndone
<1>. QED  BY <1>3, <1>4, <1>5 DEF CommitSettings

\* The compensation succeeds or fails.
LEMMA UndoStep ==
  ASSUME IInv, NEW p \in Process, Undo(p)
  PROVE  IInv'
<1>1. pc[p] = "undo" /\ TypeOK /\ Progress(p)  BY DEF Undo, IInv
<1>2. lock = p /\ num[p] \in Import /\ db \in [Section -> Version] /\ gen \in Nat
  BY <1>1, InsideHolds DEF Locked
<1>3. CASE /\ replaceSagerData(sel[num[p]], before(p)) /\ UNCHANGED faults
           /\ IF replay[p] THEN ReplayFailed(p) ELSE RolledBack(p)
  <2>1. \A s \in Section : db'[s] = undone(p, s)
    BY <1>1, <1>3 DEF replaceSagerData, before, undone, Progress
  <2>2. old[p] \in [SagerSection -> Version]  BY <1>1 DEF TypeOK
  <2>3. db' \in [Section -> Version]
    BY <1>2, <1>3, <2>2 DEF replaceSagerData, before
  <2>4. gen' \in Nat /\ faults' \in 0..MaxFaults
    BY <1>1, <1>2, <1>3 DEF replaceSagerData, TypeOK
  <2>5. UnchangedOrUndone(p)  BY <1>1, <2>1, <2>3, <2>4 DEF UnchangedOrUndone
  <2>. QED  BY <1>1, <1>2, <1>3, <2>1, <2>4, <2>5, FailedReplayInv, RolledBackInv DEF Undo
<1>4. CASE Fault /\ ReplayFailed(p) /\ UNCHANGED <<db, gen>>
  BY <1>1, <1>2, <1>4, FaultCount, FailedReplayInv DEF Undo, UnchangedOrUndone
<1>5. CASE /\ Fault /\ outcome' = [outcome EXCEPT ![num[p]] = "undoFailed"]
           /\ Leave(p) /\ UNCHANGED <<db, gen, journal, lost>>
  BY <1>1, <1>2, <1>5, FaultCount, JournalStaysInv DEF Undo
<1>. QED  BY <1>3, <1>4, <1>5 DEF Undo

\* A process that goes away leaves the databases and the journal as they are.
LEMMA ExitStep ==
  ASSUME IInv, NEW p \in Process, Exit(p) \/ Die(p)
  PROVE  IInv'
<1>1. TypeOK /\ Holder  BY DEF IInv
<1>2. CASE Exit(p)
  <2>1. lock # p  BY <1>1, <1>2 DEF Holder, Exit, Locked
  <2>2. faults' \in 0..MaxFaults  BY <1>1, <1>2 DEF TypeOK, Exit
  <2>. QED  BY <1>2, <2>1, <2>2, IdleInv DEF Exit
<1>3. CASE Die(p)
  BY <1>1, <1>3, FaultCount, IdleInv DEF Die
<1>. QED  BY <1>2, <1>3

\* Every step of the system preserves the invariant.
LEMMA NextInv == IInv /\ [Next]_vars => IInv'
<1>1. ASSUME IInv, UNCHANGED vars PROVE IInv'
  BY <1>1 DEF vars, locals, IInv, TypeOK, Holder, Numbered, Unused, Progress, UndoWhole, undone,
              Fresh, WholeButJournal, Gone, Counted, isPending
<1>2. ASSUME IInv, NEW p \in Process,
             Start(p) \/ StartImport(p) \/ Step(p) \/ Exit(p) \/ Die(p)
      PROVE  IInv'
  BY <1>2, StartInv, StartImportInv, LockForReplayStep, CountAttemptStep, LockForImportInv, StageStep,
     SnapshotStep, CommitSagerStep, CommitSettingsStep, ClearInv, UndoStep, ExitStep DEF Step
<1>. QED  BY <1>1, <1>2 DEF Next

-----------------------------------------------------------------------------
(* The theorems. *)

\* The inductive invariant holds throughout every behaviour.
THEOREM Invariance == Spec => []IInv
  BY InitInv, NextInv, PTL DEF Spec

\* Type correctness; in particular attempts never exceed MAX_ATTEMPTS.
THEOREM TypeCorrect == Spec => []TypeOK
<1>1. IInv => TypeOK  BY DEF IInv
<1>. QED  BY <1>1, Invariance, PTL

\* Whatever dies or fails between the two commits, an import that is half
\* applied is in the journal, unless given up or superseded.
THEOREM HalfRestoreIsJournalled == Spec => []NoSilentHalfRestore
<1>1. IInv => NoSilentHalfRestore
  BY DEF IInv, WholeButJournal, NoSilentHalfRestore, Whole, isPending, Import
<1>. QED  BY <1>1, Invariance, PTL

\* An import reported as rolled back is never written by a later replay.
THEOREM RollbackIsFinal == Spec => []RolledBackLeavesNoTrace
<1>1. IInv => RolledBackLeavesNoTrace
  BY DEF IInv, Gone, RolledBackLeavesNoTrace
<1>. QED  BY <1>1, Invariance, PTL

\* A backup is replayed at most MAX_ATTEMPTS times, however processes die.
THEOREM CrashLoopEnds == Spec => []ReplaysBounded
<1>1. IInv => ReplaysBounded  BY DEF IInv, Counted, ReplaysBounded
<1>. QED  BY <1>1, Invariance, PTL

-----------------------------------------------------------------------------
(* The journal makes a restore atomic. *)

Sim == [Atomic!Next]_<<Content, Previous, lost # {}>>

\* The steps of AtomicRestore, and the steps that are none of its.
LEMMA Simulates ==
  /\ UNCHANGED <<Content, Previous, lost>> => Sim
  /\ lost' # {} => Sim
  /\ (Previous' = Content /\ Content' = Content /\ lost' = lost) => Sim
  /\ (Content' = Previous /\ Previous' = Previous /\ lost' = lost) => Sim
<1>1. UNCHANGED <<Content, Previous, lost>> => Sim
  BY DEF Sim
<1>2. lost' # {} => Sim
  BY DEF Sim, Atomic!Next, Atomic!Tear
<1>3. (Previous' = Content /\ Content' = Content /\ lost' = lost) => Sim
  BY DEF Sim, Atomic!Next, Atomic!Confirm
<1>4. (Content' = Previous /\ Previous' = Previous /\ lost' = lost) => Sim
  BY DEF Sim, Atomic!Next, Atomic!Revoke
<1> QED BY <1>1, <1>2, <1>3, <1>4

\* Nothing but the sections of the staged import is written while it is staged.
LEMMA ContentStays ==
  ASSUME UNCHANGED <<journal, sel>>,
         \A s \in Section : ~(isPending /\ s \in sel[journal.n]) => db'[s] = db[s]
  PROVE  Content' = Content
BY DEF Content, isPending

\* Without an import that may be rolled back, there is nothing to take back.
LEMMA Final ==
  /\ ~Revocable => Previous = Content
  /\ ~Revocable' => Previous' = Content'
BY DEF Previous

\* A step outside a locked block leaves the import under way alone.
LEMMA Bystander ==
  ASSUME IInv, NEW p \in Process, lock # p,
         UNCHANGED <<journal, db, lock, lost>>,
         \A q \in Process \ {p} : pc'[q] = pc[q] /\ replay'[q] = replay[q] /\ old'[q] = old[q],
         isPending => sel'[journal.n] = sel[journal.n]
  PROVE  Sim
<1>1. Content' = Content
  BY DEF Content, isPending
<1>2. CASE lock = None
  <2>1. ~Revocable /\ ~Revocable'
    BY <1>2 DEF Revocable
  <2> QED BY <1>1, <2>1, Final, Simulates
<1>3. CASE lock # None
  <2>1. lock \in Process \ {p}
    BY <1>3 DEF IInv, TypeOK
  <2>2. Revocable' = Revocable
    BY <2>1 DEF Revocable
  <2>3. Previous' = Previous
    BY <1>1, <2>1, <2>2 DEF Previous
  <2> QED BY <1>1, <2>3, Simulates
<1> QED BY <1>2, <1>3

\* A step that neither begins nor ends an import that may be rolled back.
LEMMA Unseen ==
  ASSUME ~Revocable, ~Revocable', Content' = Content, lost' = lost
  PROVE  Sim
BY Final, Simulates

\* The end of a replay that has failed: the journal stays, or the promise ends.
LEMMA ReplayEnds ==
  ASSUME IInv, NEW p \in Process, lock = p, replay[p], ReplayFailed(p), sel' = sel,
         \A s \in Section : ~(isPending /\ s \in sel[journal.n]) => db'[s] = db[s]
  PROVE  Sim
<1>1. ~Revocable /\ ~Revocable'
  BY DEF Revocable, ReplayFailed, Leave
<1>2. CASE journal.attempts < MAX_ATTEMPTS
  <2>1. UNCHANGED <<journal, lost>>
    BY <1>2 DEF ReplayFailed
  <2> QED BY <1>1, <2>1, ContentStays, Unseen
<1>3. CASE ~(journal.attempts < MAX_ATTEMPTS)
  BY <1>3, Simulates DEF ReplayFailed
<1> QED BY <1>2, <1>3

\* An import that leaves its journal behind is final: it will be replayed.
LEMMA ImportStays ==
  ASSUME IInv, NEW p \in Process, Leave(p) \/ lock' = None, UNCHANGED <<journal, db, sel, lost>>
  PROVE  Sim
<1>1. ~Revocable'
  BY DEF Leave, Revocable
<1>2. Content' = Content
  BY ContentStays
<1> QED BY <1>1, <1>2, Final, Simulates

\* A rollback restores what was there before the import.
LEMMA Rollback ==
  ASSUME IInv, NEW p \in Process, lock = p, ~replay[p],
         pc[p] \in {"snapshot", "sager", "settings", "undo"}, RolledBack(p), sel' = sel,
         db' \in [Section -> Version], \A s \in Section : db'[s] = Previous[s]
  PROVE  Sim
<1>1. Revocable
  BY ProcessAssumption DEF Revocable
<1>2. ~Revocable' /\ lost' = lost /\ ~isPending'
  BY DEF Revocable, RolledBack, Leave, isPending, NoJournal
<1>3. Content' = [s \in Section |-> db'[s]]
  BY <1>2 DEF Content
<1>4. Previous = [s \in Section |-> Previous[s]]
  BY <1>1 DEF Previous
<1>5. Content' = Previous
  BY <1>3, <1>4
<1>6. Previous' = Content'
  BY <1>2, Final
<1> QED BY <1>2, <1>5, <1>6, Simulates

\* What is taken back, by the place of the import.
LEMMA PreviousIs ==
  ASSUME NEW p \in Process, lock = p, ~replay[p]
  PROVE  /\ pc[p] \in {"snapshot", "sager"} => Previous = [s \in Section |-> db[s]]
         /\ pc[p] \in {"settings", "undo"} =>
              Previous = [s \in Section |-> IF s \in SagerSection THEN old[p][s] ELSE db[s]]
BY ProcessAssumption DEF Previous, Revocable

\* Staging an import is its commit: it will be completed, or rolled back as a whole.
LEMMA StageSim == ASSUME IInv, NEW p \in Process, stage(p) PROVE Sim
<1>1. lock = p /\ pc[p] = "stage" /\ ~Revocable
  BY DEF IInv, Holder, Locked, stage, Revocable
<1>2. CASE isPending /\ journal' # journal
  BY <1>2, Simulates DEF stage
<1>3. CASE journal' = journal
  <2>1. lock' = None \/ lost' # {}
    <3>1. journal.n # num[p]
      BY <1>1 DEF IInv, Unused
    <3>2. journal'.n # num[p]
      BY <1>3, <3>1
    <3> QED BY <3>2 DEF stage, Leave
  <2>2. CASE lost' # {}
    BY <2>2, Simulates
  <2>3. CASE lost' = {}
    <3>1. journal'.n # num[p]
      BY <1>1, <1>3 DEF IInv, Unused
    <3>2. Leave(p) /\ UNCHANGED <<db, sel, lost>>
      BY <3>1 DEF stage
    <3> QED BY <1>3, <3>2, ImportStays
  <2> QED BY <2>2, <2>3
<1>4. CASE ~isPending /\ journal' # journal
  <2>1. /\ journal'.n = num[p] /\ lost' = lost /\ UNCHANGED <<db, sel, lock, replay>>
        /\ pc' = [pc EXCEPT ![p] = "snapshot"]
    BY <1>4 DEF stage, Goto, locals
  <2>2. /\ ~replay[p] /\ num[p] \in 1..imports /\ num[p] = imports
        /\ \A s \in Section : db[s] # num[p] /\ db[s] <= imports
    <3>1. ~replay[p]
      BY <1>1 DEF IInv, Numbered
    <3> QED BY <1>1, <3>1 DEF IInv, Numbered, Unused, Fresh, Active, Locked
  <2>3. num[p] \in Import /\ imports \in Nat /\ \A s \in Section : db[s] \in Nat
    BY <2>2, TypeFacts, BoundAssumption DEF IInv, Types, TypeOK, Import, Version
  <2>4. Content = [s \in Section |-> db[s]] /\ Previous = Content
    BY <1>1, <1>4, Final DEF Content
  <2>5. isPending' /\ sel[num[p]] \in SUBSET Section
    BY <2>1, <2>2, <2>3, TypeFacts DEF isPending, IInv, Types
  <2>6. Content' = [s \in Section |-> IF s \in sel[num[p]] THEN num[p] ELSE Content[s]]
    BY <2>1, <2>4, <2>5 DEF Content
  <2>7. pc'[p] = "snapshot" /\ lock' = p /\ ~replay'[p]
    BY <1>1, <2>1, <2>2 DEF IInv, TypeOK
  <2>8. Previous' = [s \in Section |-> db'[s]]
    BY <2>7, ProcessAssumption DEF Previous, Revocable
  <2>9. Previous' = Content
    BY <2>1, <2>4, <2>8
  <2>10. \A s \in Section : Content[s] < num[p]
    BY <2>2, <2>3, <2>4
  <2>11. Atomic!Apply(num[p])
    BY <2>1, <2>4, <2>5, <2>6, <2>9, <2>10 DEF Atomic!Apply
  <2> QED BY <2>3, <2>11 DEF Sim, Atomic!Next
<1> QED BY <1>2, <1>3, <1>4

\* Reading the rows to compensate with.
LEMMA SnapshotSim == ASSUME IInv, NEW p \in Process, Snapshot(p) PROVE Sim
<1>1. lock = p /\ pc[p] = "snapshot"
  BY DEF IInv, Holder, Locked, Snapshot
<1>2. db' = db /\ sel' = sel
  BY DEF Snapshot
<1>3. CASE pc' = [pc EXCEPT ![p] = "sager"] /\ UNCHANGED <<replay, journal, lock, lost>>
  <2>1. Content' = Content
    BY <1>2, <1>3, ContentStays
  <2>2. pc'[p] = "sager"
    BY <1>3 DEF IInv, TypeOK
  <2>3. CASE replay[p]
    <3>1. ~Revocable /\ ~Revocable'
      BY <1>1, <1>3, <2>3 DEF Revocable
    <3> QED BY <1>3, <2>1, <3>1, Unseen
  <2>4. CASE ~replay[p]
    <3>1. Previous = [s \in Section |-> db[s]]
      BY <1>1, <2>4, PreviousIs
    <3>2. Previous' = [s \in Section |-> db'[s]]
      BY <1>1, <1>3, <2>2, <2>4, ProcessAssumption DEF Previous, Revocable
    <3> QED BY <1>2, <1>3, <2>1, <3>1, <3>2, Simulates
  <2> QED BY <2>3, <2>4
<1>4. CASE replay[p] /\ ReplayFailed(p)
  BY <1>1, <1>2, <1>4, ReplayEnds
<1>5. CASE Leave(p) /\ UNCHANGED <<journal, lost>>
  BY <1>2, <1>5, ImportStays
<1> QED BY <1>3, <1>4, <1>5 DEF Snapshot, Goto

\* The first transaction shows nothing: the import counts as applied already.
LEMMA CommitSagerSim == ASSUME IInv, NEW p \in Process, CommitSager(p) PROVE Sim
<1>1. lock = p /\ pc[p] = "sager"
  BY DEF IInv, Holder, Locked, CommitSager
<1>2. isPending /\ journal.n = num[p] /\ sel' = sel
  BY <1>1, TypeFacts DEF IInv, Numbered, Locked, Active, isPending, CommitSager, Types
<1>3. \A s \in SagerSection : old[p][s] = db[s]
  BY <1>1 DEF IInv, Progress
<1>4. CASE /\ pc' = [pc EXCEPT ![p] = "settings"] /\ UNCHANGED <<replay, old, journal, lock, lost>>
           /\ \A s \in Section : s \notin sel[num[p]] \cap SagerSection => db'[s] = db[s]
  <2>1. Content' = Content
    BY <1>2, <1>4, ContentStays
  <2>2. pc'[p] = "settings"
    BY <1>4 DEF IInv, TypeOK
  <2>3. CASE replay[p]
    <3>1. ~Revocable /\ ~Revocable'
      BY <1>1, <1>4, <2>3 DEF Revocable
    <3> QED BY <1>4, <2>1, <3>1, Unseen
  <2>4. CASE ~replay[p]
    <3>1. Previous = [s \in Section |-> db[s]]
      BY <1>1, <2>4, PreviousIs
    <3>2. Previous' = [s \in Section |-> IF s \in SagerSection THEN old[p][s] ELSE db'[s]]
      BY <1>1, <1>4, <2>2, <2>4, ProcessAssumption DEF Previous, Revocable
    <3>3. \A s \in Section : s \notin SagerSection => db'[s] = db[s]
      BY <1>4
    <3>4. Previous' = Previous
      BY <1>3, <3>1, <3>2, <3>3
    <3> QED BY <1>4, <2>1, <3>4, Simulates
  <2> QED BY <2>3, <2>4
<1>5. CASE replay[p] /\ ReplayFailed(p) /\ db' = db
  BY <1>1, <1>2, <1>5, ReplayEnds
<1>6. CASE ~replay[p] /\ RolledBack(p) /\ db' = db
  <2>1. Previous = [s \in Section |-> db[s]]
    BY <1>1, <1>6, PreviousIs
  <2>2. db' \in [Section -> Version]
    BY <1>6 DEF IInv, TypeOK
  <2> QED BY <1>1, <1>2, <1>6, <2>1, <2>2, Rollback
<1>7. \/ /\ pc' = [pc EXCEPT ![p] = "settings"] /\ UNCHANGED <<replay, old, journal, lock, lost>>
         /\ \A s \in Section : s \notin sel[num[p]] \cap SagerSection => db'[s] = db[s]
      \/ replay[p] /\ ReplayFailed(p) /\ db' = db
      \/ ~replay[p] /\ RolledBack(p) /\ db' = db
  BY DEF CommitSager, Goto, replaceSagerData
<1> QED BY <1>4, <1>5, <1>6, <1>7

\* The second one makes the import final, or leads to the compensation.
LEMMA CommitSettingsSim == ASSUME IInv, NEW p \in Process, CommitSettings(p) PROVE Sim
<1>1. lock = p /\ pc[p] = "settings"
  BY DEF IInv, Holder, Locked, CommitSettings
<1>2. isPending /\ journal.n = num[p] /\ sel' = sel
  BY <1>1, TypeFacts DEF IInv, Numbered, Locked, Active, isPending, CommitSettings, Types
<1>3. CASE /\ pc' = [pc EXCEPT ![p] = "clear"] /\ UNCHANGED <<journal, lock, lost>>
           /\ \A s \in Section : s \notin sel[num[p]] => db'[s] = db[s]
  <2>1. Content' = Content
    BY <1>2, <1>3, ContentStays
  <2>2. pc'[p] = "clear"
    BY <1>3 DEF IInv, TypeOK
  <2>3. ~Revocable'
    BY <1>1, <1>3, <2>2 DEF Revocable
  <2> QED BY <1>3, <2>1, <2>3, Final, Simulates
<1>4. CASE pc' = [pc EXCEPT ![p] = "undo"] /\ UNCHANGED <<replay, old, db, journal, lock, lost>>
  <2>1. Content' = Content
    BY <1>2, <1>4, ContentStays
  <2>2. pc'[p] = "undo"
    BY <1>4 DEF IInv, TypeOK
  <2>3. Revocable' = Revocable
    BY <1>1, <1>4, <2>2 DEF Revocable
  <2>4. Previous' = Previous
    BY <1>1, <1>4, <2>1, <2>2, <2>3 DEF Previous
  <2> QED BY <1>4, <2>1, <2>4, Simulates
<1>5. CASE replay[p] /\ ReplayFailed(p) /\ db' = db
  BY <1>1, <1>2, <1>5, ReplayEnds
<1>6. CASE ~replay[p] /\ RolledBack(p) /\ db' = db /\ ~committed[p]
  <2>1. Previous = [s \in Section |-> IF s \in SagerSection THEN old[p][s] ELSE db[s]]
    BY <1>1, <1>6, PreviousIs
  <2>2. \A s \in SagerSection : db[s] = old[p][s]
    BY <1>1, <1>6 DEF IInv, Progress
  <2>3. db' \in [Section -> Version]
    BY <1>6 DEF IInv, TypeOK
  <2> QED BY <1>1, <1>2, <1>6, <2>1, <2>2, <2>3, Rollback
<1>7. \/ /\ pc' = [pc EXCEPT ![p] = "clear"] /\ UNCHANGED <<journal, lock, lost>>
         /\ \A s \in Section : s \notin sel[num[p]] => db'[s] = db[s]
      \/ pc' = [pc EXCEPT ![p] = "undo"] /\ UNCHANGED <<replay, old, db, journal, lock, lost>>
      \/ replay[p] /\ ReplayFailed(p) /\ db' = db
      \/ ~replay[p] /\ RolledBack(p) /\ db' = db /\ ~committed[p]
  BY DEF CommitSettings, Goto, locals, IInv, TypeOK
<1> QED BY <1>3, <1>4, <1>5, <1>6, <1>7

\* The journal goes when the databases hold what it says.
LEMMA ClearSim == ASSUME IInv, NEW p \in Process, clear(p) PROVE Sim
<1>1. lock = p /\ pc[p] = "clear"
  BY DEF IInv, Holder, Locked, clear
<1>2. isPending /\ journal.n = num[p]
  BY <1>1, TypeFacts DEF IInv, Numbered, Locked, Active, isPending, Types
<1>3. ~Revocable /\ ~Revocable'
  BY <1>1 DEF Revocable, clear, Leave
<1>4. ~isPending' /\ db' = db /\ lost' = lost
  BY DEF clear, isPending, NoJournal
<1>5. \A s \in Section : s \in sel[num[p]] => db[s] = num[p]
  BY <1>1 DEF IInv, Progress, Section
<1>6. Content' = Content
  BY <1>2, <1>4, <1>5 DEF Content
<1> QED BY <1>3, <1>4, <1>6, Unseen

\* The compensation, of an import and of a replay.
LEMMA UndoSim == ASSUME IInv, NEW p \in Process, Undo(p) PROVE Sim
<1>1. lock = p /\ pc[p] = "undo"
  BY DEF IInv, Holder, Locked, Undo
<1>2. isPending /\ journal.n = num[p] /\ sel' = sel
  BY <1>1, TypeFacts DEF IInv, Numbered, Locked, Active, isPending, Undo, Types
<1>3. \/ replaceSagerData(sel[num[p]], old[p]) /\ replay[p] /\ ReplayFailed(p)
      \/ replaceSagerData(sel[num[p]], old[p]) /\ ~replay[p] /\ RolledBack(p)
      \/ db' = db /\ replay[p] /\ ReplayFailed(p)
      \/ db' = db /\ Leave(p) /\ UNCHANGED <<journal, lost>>
  BY DEF Undo, before
<1>4. CASE replay[p] /\ ReplayFailed(p)
  <2>1. \A s \in Section : s \notin sel[num[p]] => db'[s] = db[s]
    BY <1>3 DEF replaceSagerData
  <2> QED BY <1>1, <1>2, <1>4, <2>1, ReplayEnds
<1>5. CASE replaceSagerData(sel[num[p]], old[p]) /\ ~replay[p] /\ RolledBack(p)
  <2>1. Previous = [s \in Section |-> IF s \in SagerSection THEN old[p][s] ELSE db[s]]
    BY <1>1, <1>5, PreviousIs
  <2>2. \A s \in SagerSection : s \notin sel[num[p]] => db[s] = old[p][s]
    BY <1>1 DEF IInv, Progress
  <2>3. db' = [s \in Section |-> IF s \in sel[num[p]] \cap SagerSection THEN old[p][s] ELSE db[s]]
    BY <1>5 DEF replaceSagerData
  <2>4. \A s \in Section : db'[s] = Previous[s]
    BY <2>1, <2>2, <2>3
  <2>5. db \in [Section -> Version] /\ \A s \in SagerSection : old[p][s] \in Version
    BY DEF IInv, TypeOK
  <2>6. db' \in [Section -> Version]
    BY <2>3, <2>5
  <2> QED BY <1>1, <1>2, <1>5, <2>4, <2>6, Rollback
<1>6. CASE db' = db /\ Leave(p) /\ UNCHANGED <<journal, lost>>
  BY <1>2, <1>6, ImportStays
<1> QED BY <1>3, <1>4, <1>5, <1>6

\* Taking the lock, and counting an attempt.
LEMMA EnterSim ==
  ASSUME IInv, NEW p \in Process, LockForReplay(p) \/ CountAttempt(p) \/ LockForImport(p)
  PROVE  Sim
<1>1. CASE LockForReplay(p)
  <2>1. ~Revocable
    BY <1>1 DEF LockForReplay, LockFree, Revocable
  <2>2. UNCHANGED <<journal, db, sel, lost>>
    BY <1>1 DEF LockForReplay
  <2>3. \/ lock' = None
        \/ lock' = p /\ replay'[p]
    BY <1>1 DEF LockForReplay, Leave, IInv, TypeOK
  <2>4. ~Revocable'
    BY <2>3 DEF Revocable
  <2> QED BY <2>1, <2>2, <2>4, ContentStays, Unseen
<1>2. CASE LockForImport(p)
  <2>1. ~Revocable /\ UNCHANGED <<journal, db, sel, lost>>
    BY <1>2 DEF LockForImport, LockFree, Revocable
  <2>2. lock' = p /\ pc'[p] = "stage"
    BY <1>2 DEF LockForImport, Goto, IInv, TypeOK
  <2>3. ~Revocable'
    BY <2>2 DEF Revocable
  <2> QED BY <2>1, <2>3, ContentStays, Unseen
<1>3. CASE CountAttempt(p)
  <2>1. lock = p /\ pc[p] = "read" /\ replay[p] /\ db' = db /\ sel' = sel
    BY <1>3 DEF IInv, Holder, Locked, Numbered, CountAttempt
  <2>2. ~Revocable
    BY <2>1 DEF Revocable
  <2>3. CASE lost' # {}
    BY <2>3, Simulates
  <2>4. CASE lost' = {}
    <3>1. lost' = lost /\ journal'.n = journal.n
      BY <1>3, <2>4 DEF CountAttempt, counted, IInv, TypeOK
    <3>2. lock' = None \/ (lock' = p /\ replay' = replay)
      BY <1>3, <2>1 DEF CountAttempt, Leave, locals
    <3>3. ~Revocable'
      BY <2>1, <3>2 DEF Revocable
    <3>4. Content' = Content
      BY <2>1, <3>1 DEF Content, isPending
    <3> QED BY <2>2, <3>1, <3>3, <3>4, Unseen
  <2> QED BY <2>3, <2>4
<1> QED BY <1>1, <1>2, <1>3

\* Starting and ending processes, and an import before it has the lock.
LEMMA OutsideSim ==
  ASSUME IInv, NEW p \in Process, Start(p) \/ StartImport(p) \/ Exit(p) \/ Die(p)
  PROVE  Sim
<1>1. \A q \in Process \ {p} : pc'[q] = pc[q] /\ replay'[q] = replay[q] /\ old'[q] = old[q]
  BY DEF Start, StartImport, Exit, Die, Goto, Forget, locals, IInv, TypeOK
<1>2. CASE Start(p) \/ StartImport(p) \/ Exit(p)
  <2>1. lock # p
    BY <1>2 DEF IInv, Holder, Locked, Start, StartImport, Exit
  <2>2. UNCHANGED <<journal, db, lock, lost>>
    BY <1>2 DEF Start, StartImport, Exit
  <2>3. isPending => sel'[journal.n] = sel[journal.n]
    <3>1. CASE StartImport(p)
      <4>1. journal.n \in Nat /\ imports \in Nat /\ journal.n <= imports
        BY TypeFacts DEF IInv, Fresh, Types
      <4>2. journal.n # imports'
        BY <3>1, <4>1 DEF StartImport
      <4> QED BY <3>1, <4>2 DEF StartImport, IInv, TypeOK
    <3>2. CASE Start(p) \/ Exit(p)
      BY <3>2 DEF Start, Exit
    <3> QED BY <1>2, <3>1, <3>2
  <2> QED BY <1>1, <2>1, <2>2, <2>3, Bystander
<1>3. CASE Die(p)
  <2>1. UNCHANGED <<journal, db, sel, lost>>
    BY <1>3 DEF Die
  <2>2. CASE lock = p
    <3>1. lock' = None
      BY <1>3, <2>2 DEF Die
    <3> QED BY <2>1, <3>1, ImportStays
  <2>3. CASE lock # p
    <3>1. lock' = lock
      BY <1>3, <2>3 DEF Die
    <3> QED BY <1>1, <2>1, <2>3, <3>1, Bystander
  <2> QED BY <2>2, <2>3
<1> QED BY <1>2, <1>3

\* Every step of the processes is a step of the atomic restore, or none.
LEMMA StepSim == ASSUME IInv, [Next]_vars PROVE Sim
<1>1. ASSUME NEW p \in Process, Step(p) PROVE Sim
  BY <1>1, EnterSim, StageSim, SnapshotSim, CommitSagerSim, CommitSettingsSim, ClearSim, UndoSim
     DEF Step
<1>2. ASSUME NEW p \in Process, Start(p) \/ StartImport(p) \/ Exit(p) \/ Die(p) PROVE Sim
  BY <1>2, OutsideSim
<1>3. CASE UNCHANGED vars
  <2>1. UNCHANGED <<Content, Previous, lost>>
    BY <1>3 DEF vars, locals, Content, Previous, Revocable, isPending
  <2> QED BY <2>1, Simulates
<1> QED BY <1>1, <1>2, <1>3 DEF Next

\* The journal makes the two transactions of a restore one: whatever dies when, and however
\* often a replay is tried, the content changes by whole imports and by whole rollbacks,
\* until a journal is given up or replaced (RestoreJournal, BackupRestore.commit).
THEOREM RestoreIsAtomic == Spec => ImplementsAtomicRestore
<1>1. Init => Atomic!Init
  <2> SUFFICES ASSUME Init PROVE Atomic!Init
    OBVIOUS
  <2>1. ~isPending /\ lock = None /\ lost = {} /\ db = [s \in Section |-> 0]
    BY DEF Init, isPending, NoJournal
  <2>2. Content = [s \in Section |-> 0]
    BY <2>1 DEF Content
  <2>3. Previous = Content
    BY <2>1 DEF Previous, Revocable
  <2> QED BY <2>1, <2>2, <2>3 DEF Atomic!Init
<1>2. IInv /\ [Next]_vars => Sim
  BY StepSim
<1> QED BY <1>1, <1>2, Invariance, PTL DEF Spec, ImplementsAtomicRestore, Atomic!Spec, Atomic!state,
           Sim

=============================================================================
