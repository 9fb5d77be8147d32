---------------------------- MODULE RestoreJournal ----------------------------
(***************************************************************************)
(* Restoring a backup: RestoreJournal, BackupRestore.commit, the import of *)
(* BackupFragment and the replay in SagerNet.onCreate.                     *)
(*                                                                         *)
(* A restore spans two databases and therefore two transactions.  The      *)
(* backup is staged in a journal file first; a process that dies between   *)
(* the commits leaves the journal for the next start of either process.    *)
(* Everything between staging and clearing runs under a file lock both     *)
(* processes share, which the death of its holder releases.                *)
(*                                                                         *)
(* Imports are numbered; a section of the databases holds the number of    *)
(* the import its content comes from, 0 for what was there at first.       *)
(***************************************************************************)
EXTENDS Naturals

CONSTANTS Process,     \* the processes of the app: main and :bg
          Main,        \* the one with the user interface
          None,        \* nobody holds the lock
          MaxImports,  \* bound: imports the user starts
          MAX_ATTEMPTS,\* RestoreJournal.MAX_ATTEMPTS
          MaxFaults    \* bound: deaths and failing reads, writes or commits

ASSUME ProcessAssumption == Main \in Process /\ None \notin Process
ASSUME BoundAssumption == MaxImports \in Nat /\ MaxFaults \in Nat /\ MAX_ATTEMPTS \in Nat \ {0}

VARIABLES journal,  \* pending.json; n = 0 when there is no such file
          db,       \* the content of each section
          gen,      \* SagerDatabase.dataGeneration
          lock,     \* holder of the cross-process file lock
          pc,       \* where each process is
          num,      \* the import a process works on, 0 when none
          replay,   \* whether it replays the import
          committed,\* commit's sagerCommitted
          old,      \* commit's oldProfiles (with oldGroups) and oldRules
          sel,      \* the sections each import restores
          imports,  \* imports started so far
          outcome,  \* history: how each import that failed was reported
          lost,     \* history: why a pending journal went away unapplied
          replays,  \* history: replays begun per import
          faults

locals == <<num, replay, committed, old>>
vars == <<journal, db, gen, lock, pc, locals, sel, imports, outcome, lost, replays, faults>>

Import == 1..MaxImports
Version == 0..MaxImports
SagerSection == {"profiles", "rules"}              \* SagerDatabase
Section == SagerSection \cup {"settings"}          \* and PublicDatabase

NoJournal == [n |-> 0, attempts |-> 0, readable |-> TRUE]
isPending == journal.n # 0

\* Where a process is: dead; running with nothing of this to do; blocked on the
\* lock for a replay or an import; or inside the lock, before the named step.
Locked == {"read", "stage", "snapshot", "sager", "settings", "clear", "undo"}
Place == {"dead", "run", "waiting", "importing"} \cup Locked

TypeOK ==
  /\ journal \in [n : Version, attempts : 0..MAX_ATTEMPTS, readable : BOOLEAN]
  /\ db \in [Section -> Version]
  /\ gen \in Nat
  /\ lock \in Process \cup {None}
  /\ pc \in [Process -> Place]
  /\ num \in [Process -> Version]
  /\ replay \in [Process -> BOOLEAN]
  /\ committed \in [Process -> BOOLEAN]
  /\ old \in [Process -> [SagerSection -> Version]]
  /\ sel \in [Import -> SUBSET Section]
  /\ imports \in Version
  /\ outcome \in [Import -> {"none", "refused", "rolledBack", "undoFailed"}]
  /\ lost \in SUBSET {"gaveUp", "superseded"}
  /\ replays \in [Import -> Nat]
  /\ faults \in 0..MaxFaults

NoRows == [s \in SagerSection |-> 0]

Init ==
  /\ journal = NoJournal
  /\ db = [s \in Section |-> 0]
  /\ gen = 0
  /\ lock = None
  /\ pc = [p \in Process |-> "dead"]
  /\ num = [p \in Process |-> 0]
  /\ replay = [p \in Process |-> FALSE]
  /\ committed = [p \in Process |-> FALSE]
  /\ old = [p \in Process |-> NoRows]
  /\ sel = [i \in Import |-> {}]
  /\ imports = 0
  /\ outcome = [i \in Import |-> "none"]
  /\ lost = {}
  /\ replays = [i \in Import |-> 0]
  /\ faults = 0

-----------------------------------------------------------------------------

Fault == faults < MaxFaults /\ faults' = faults + 1

\* The locals of an import or replay are gone.
Forget(p) ==
  /\ num' = [num EXCEPT ![p] = 0]
  /\ replay' = [replay EXCEPT ![p] = FALSE]
  /\ committed' = [committed EXCEPT ![p] = FALSE]
  /\ old' = [old EXCEPT ![p] = NoRows]

Goto(p, place) == pc' = [pc EXCEPT ![p] = place]

\* Mutant: a block that ends early keeps the lock.
Leave_lockHeld(p) == Goto(p, "run") /\ Forget(p) /\ UNCHANGED lock

\* The process leaves the locked block and goes on with other things.
Leave(p) == Goto(p, "run") /\ Forget(p) /\ lock' = None

\* Mutant: the lock is not taken.
LockFree_never == TRUE

LockFree == lock = None

mayAttempt(attempts) == attempts < MAX_ATTEMPTS

\* The end of a replay whose apply threw: the journal stays for another start
\* until the attempts are used up, then it is deleted.
ReplayFailed(p) ==
  /\ Leave(p)
  /\ IF journal.attempts < MAX_ATTEMPTS
     THEN UNCHANGED <<journal, lost>>
     ELSE journal' = NoJournal /\ lost' = lost \cup {"gaveUp"}
  /\ UNCHANGED outcome

\* The end of an import whose first database is as it was before.
RolledBack(p) ==
  /\ Leave(p)
  /\ journal' = NoJournal
  /\ outcome' = [outcome EXCEPT ![num[p]] = "rolledBack"]
  /\ UNCHANGED lost

\* replaceSagerData: the selected sections in one transaction; a replacement of
\* the profiles also moves the generation on.
replaceSagerData(sections, content) ==
  /\ db' = [s \in Section |-> IF s \in sections \cap SagerSection THEN content[s] ELSE db[s]]
  /\ gen' = IF "profiles" \in sections THEN gen + 1 ELSE gen

-----------------------------------------------------------------------------
(* Starting, and the replay of a pending journal: SagerNet.onCreate and    *)
(* RestoreJournal.completePending.                                         *)

Start(p) ==
  /\ pc[p] = "dead"
  /\ Goto(p, IF isPending THEN "waiting" ELSE "run")
  /\ UNCHANGED <<journal, db, gen, lock, locals, sel, imports, outcome, lost, replays, faults>>

\* The journal is looked for again once the lock is held.
LockForReplay(p) ==
  /\ pc[p] = "waiting"
  /\ LockFree
  /\ IF isPending
     THEN /\ Goto(p, "read")
          /\ num' = [num EXCEPT ![p] = journal.n]
          /\ replay' = [replay EXCEPT ![p] = TRUE]
          /\ lock' = p
          /\ UNCHANGED <<committed, old>>
     ELSE Leave(p)
  /\ UNCHANGED <<journal, db, gen, sel, imports, outcome, lost, replays, faults>>

counted(j) == [j EXCEPT !.attempts = @ + 1]

\* An attempt is counted before it is made, so that a crash loop ends; a file
\* that cannot be read, or is out of attempts, is given up.
CountAttempt(p) ==
  /\ pc[p] = "read"
  /\ \/ /\ journal.readable
        /\ mayAttempt(journal.attempts)
        /\ journal' = counted(journal)
        /\ replays' = [replays EXCEPT ![journal.n] = @ + 1]
        /\ Goto(p, "snapshot")
        /\ UNCHANGED <<lock, locals, lost, faults>>
     \/ /\ ~journal.readable \/ ~mayAttempt(journal.attempts)
        /\ journal' = NoJournal
        /\ lost' = lost \cup {"gaveUp"}
        /\ Leave(p)
        /\ UNCHANGED <<replays, faults>>
     \/ /\ Fault                       \* the write fails; onCreate only logs it
        /\ journal.readable
        /\ mayAttempt(journal.attempts)
        /\ Leave(p)
        /\ UNCHANGED <<journal, lost, replays>>
  /\ UNCHANGED <<db, gen, sel, imports, outcome>>

-----------------------------------------------------------------------------
(* The user imports a backup: BackupFragment. *)

\* The backup is decoded and the service stopped before the lock is asked for.
StartImport(p) ==
  /\ p = Main
  /\ pc[p] = "run"
  /\ imports < MaxImports
  /\ imports' = imports + 1
  /\ \E sections \in SUBSET Section : sel' = [sel EXCEPT ![imports'] = sections]
  /\ Goto(p, "importing")
  /\ num' = [num EXCEPT ![p] = imports']
  /\ UNCHANGED <<replay, committed, old, journal, db, gen, lock, outcome, lost, replays, faults>>

LockForImport(p) ==
  /\ pc[p] = "importing"
  /\ LockFree
  /\ lock' = p
  /\ Goto(p, "stage")
  /\ UNCHANGED <<journal, db, gen, locals, sel, imports, outcome, lost, replays, faults>>

\* The journal is written to a temporary file and renamed: it is whole or absent.
\* It replaces one still pending.  The wrapped and escaped copy may be too long
\* to be read back.
stage(p) ==
  /\ pc[p] = "stage"
  /\ \/ /\ \E readable \in BOOLEAN :
             journal' = [n |-> num[p], attempts |-> 0, readable |-> readable]
        /\ lost' = IF isPending THEN lost \cup {"superseded"} ELSE lost
        /\ Goto(p, "snapshot")
        /\ UNCHANGED <<lock, locals, outcome, faults>>
     \/ /\ Fault
        /\ outcome' = [outcome EXCEPT ![num[p]] = "refused"]
        /\ Leave(p)
        /\ UNCHANGED <<journal, lost>>
  /\ UNCHANGED <<db, gen, sel, imports, replays>>

-----------------------------------------------------------------------------
(* BackupRestore.commit, for an import and for a replay. *)

\* The rows the compensation would write back are read before anything is tried;
\* an exception here leaves commit at once, the journal as it is.  (The replay
\* also decodes the backup here.)
Snapshot(p) ==
  /\ pc[p] = "snapshot"
  /\ \/ /\ Goto(p, "sager")
        /\ old' = [old EXCEPT ![p] = [s \in SagerSection |-> db[s]]]
        /\ UNCHANGED <<num, replay, committed, journal, lock, outcome, lost, faults>>
     \/ /\ Fault
        /\ replay[p]
        /\ ReplayFailed(p)
     \/ /\ Fault
        /\ ~replay[p]
        /\ sel[num[p]] \cap SagerSection # {}
        /\ outcome' = [outcome EXCEPT ![num[p]] = "refused"]
        /\ Leave(p)
        /\ UNCHANGED <<journal, lost>>
  /\ UNCHANGED <<db, gen, sel, imports, replays>>

\* The first transaction, if there is anything for it to do.
CommitSager(p) ==
  /\ pc[p] = "sager"
  /\ LET chosen == sel[num[p]]
         any == chosen \cap SagerSection # {}
     IN  \/ /\ IF any THEN replaceSagerData(chosen, [s \in SagerSection |-> num[p]])
                      ELSE UNCHANGED <<db, gen>>
            /\ Goto(p, "settings")
            /\ committed' = [committed EXCEPT ![p] = any]
            /\ UNCHANGED <<num, replay, old, journal, lock, outcome, lost, faults>>
         \/ /\ any
            /\ Fault
            /\ IF replay[p] THEN ReplayFailed(p) ELSE RolledBack(p)
            /\ UNCHANGED <<db, gen>>
  /\ UNCHANGED <<sel, imports, replays>>

\* The second one: the settings, or only the selections and flags that go with
\* the first.  A failure is compensated if the first has been committed.
CommitSettings(p) ==
  /\ pc[p] = "settings"
  /\ \/ /\ db' = IF "settings" \in sel[num[p]] THEN [db EXCEPT !["settings"] = num[p]] ELSE db
        /\ Goto(p, "clear")
        /\ UNCHANGED <<locals, journal, lock, outcome, lost, faults>>
     \/ /\ Fault
        /\ committed[p]
        /\ Goto(p, "undo")
        /\ UNCHANGED <<locals, db, journal, lock, outcome, lost>>
     \/ /\ Fault
        /\ ~committed[p]
        /\ IF replay[p] THEN ReplayFailed(p) ELSE RolledBack(p)
        /\ UNCHANGED db
  /\ UNCHANGED <<gen, sel, imports, replays>>

clear(p) ==
  /\ pc[p] = "clear"
  /\ journal' = NoJournal
  /\ Leave(p)
  /\ UNCHANGED <<db, gen, sel, imports, outcome, lost, replays, faults>>

\* Mutant: the compensation writes the rows of the backup again.
before_backup(p) == [s \in SagerSection |-> num[p]]

before(p) == old[p]

\* The compensation.  When it fails as well the journal of an import stays.
Undo(p) ==
  /\ pc[p] = "undo"
  /\ \/ /\ replaceSagerData(sel[num[p]], before(p))
        /\ IF replay[p] THEN ReplayFailed(p) ELSE RolledBack(p)
        /\ UNCHANGED faults
     \/ /\ Fault
        /\ replay[p]
        /\ ReplayFailed(p)
        /\ UNCHANGED <<db, gen>>
     \/ /\ Fault
        /\ ~replay[p]
        /\ outcome' = [outcome EXCEPT ![num[p]] = "undoFailed"]
        /\ Leave(p)
        /\ UNCHANGED <<db, gen, journal, lost>>
  /\ UNCHANGED <<sel, imports, replays>>

-----------------------------------------------------------------------------

\* A process with nothing to do goes away: killed while cached, an upgrade, a
\* reboot, the restart that follows an import.
Exit(p) ==
  /\ pc[p] = "run"
  /\ Goto(p, "dead")
  /\ Forget(p)
  /\ UNCHANGED <<journal, db, gen, lock, sel, imports, outcome, lost, replays, faults>>

\* A process dies in the middle of something; the system releases its lock.
Die(p) ==
  /\ Fault
  /\ pc[p] \notin {"dead", "run"}
  /\ Goto(p, "dead")
  /\ Forget(p)
  /\ lock' = IF lock = p THEN None ELSE lock
  /\ UNCHANGED <<journal, db, gen, sel, imports, outcome, lost, replays>>

Step(p) ==
  \/ LockForReplay(p) \/ CountAttempt(p) \/ LockForImport(p) \/ stage(p) \/ Snapshot(p)
  \/ CommitSager(p) \/ CommitSettings(p) \/ clear(p) \/ Undo(p)

Next == \E p \in Process : Start(p) \/ StartImport(p) \/ Step(p) \/ Exit(p) \/ Die(p)

\* A process that has begun goes on, and processes come and go for ever.
Fairness ==
  \A p \in Process : WF_vars(Step(p)) /\ WF_vars(Start(p)) /\ WF_vars(Exit(p))

Spec == Init /\ [][Next]_vars /\ Fairness

-----------------------------------------------------------------------------
(* Properties *)

\* No import is left half applied: a section restored by an import goes with the
\* other sections of that import, or with later content.
Whole ==
  \A i \in Import : \A s, t \in sel[i] : db[s] = i => db[t] >= i

\* The promise of the journal: with no journal pending and nobody inside the
\* lock, no import is half applied, unless replaying it has been given up or
\* another import has taken the place of its journal.
NoSilentHalfRestore == ~isPending /\ lock = None /\ lost = {} => Whole

\* The header of RestoreJournal: profiles and settings never stay half restored
\* (short of giving up, which the user is told of).
NeverHalfRestored == ~isPending /\ lock = None /\ "gaveUp" \notin lost => Whole

\* finishImport's comment on the lock: a backup whose import was rolled back and
\* reported as failed is not written by a replay afterwards.
RolledBackLeavesNoTrace ==
  \A i \in Import : outcome[i] = "rolledBack" => \A s \in Section : db[s] # i

\* commit's comment on the journal: it stays only when the compensation failed.
\* An import that was refused before its first commit is never applied.
RefusedLeavesNoTrace ==
  \A i \in Import : outcome[i] = "refused" => \A s \in Section : db[s] # i

\* A crash loop ends: however processes die, a backup is replayed at most
\* MAX_ATTEMPTS times.
ReplaysBounded == \A i \in Import : replays[i] <= MAX_ATTEMPTS

\* A pending restore is eventually completed or given up, as long as processes
\* keep being started.
PendingIsResolved == isPending ~> ~isPending

\* An import under way that may still be rolled back: its process holds the lock and has
\* not committed the settings.
Revocable == lock # None /\ ~replay[lock] /\ pc[lock] \in {"snapshot", "sager", "settings", "undo"}

\* The content the app is going to have: a staged import counts as applied, ...
Content ==
  [s \in Section |-> IF isPending /\ s \in sel[journal.n] THEN journal.n ELSE db[s]]

\* ... and what a rollback would leave.
Previous ==
  IF Revocable
  THEN [s \in Section |-> IF s \in SagerSection /\ pc[lock] \in {"settings", "undo"}
                          THEN old[lock][s] ELSE db[s]]
  ELSE Content

Atomic == INSTANCE AtomicRestore WITH
  content <- Content, previous <- Previous, torn <- lost # {}

\* The header of RestoreJournal: the journal makes the two transactions of a restore one.
\* However processes die and replay, the content changes by whole imports and by whole
\* rollbacks, until a journal is given up or replaced.
ImplementsAtomicRestore == Atomic!Spec

=============================================================================
