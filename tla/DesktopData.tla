---------------------------- MODULE DesktopData ----------------------------
(***************************************************************************)
(* The local database of the desktop application: how its sidecar starts,  *)
(* migrates, stops and recovers (host/desktop/host.go,                     *)
(* host/lifecycle/lifecycle.go, platform/desktop/backup.go and lock.go).   *)
(*                                                                         *)
(* A start takes the instance lock, copies the closed database aside,      *)
(* opens it and builds the application, which migrates it.  When anything  *)
(* after the copy fails, the database is closed and the copy put back:     *)
(* present files are moved to a rollback directory, the copy's are moved   *)
(* in, and if that fails the files are moved back.  The shell kills the    *)
(* sidecar when a start takes too long, so a process may die anywhere.     *)
(*                                                                         *)
(* The database is two files, the main file and its write-ahead log; the   *)
(* third, -shm, holds nothing that is not in the second.  A file is what   *)
(* it holds: commits are numbers, the main file is a set of them and a log *)
(* is the set it adds to the main file it belongs to.                      *)
(***************************************************************************)
EXTENDS Naturals

CONSTANTS Host,         \* sidecar processes: the user may start the program twice
          Nobody,       \* a lock nobody holds
          MaxCommits,   \* bound: transactions the program commits
          MaxFaults     \* bound: kills and failing file operations

ASSUME NobodyIsNoHost == Nobody \notin Host
ASSUME BoundsAreNaturals == MaxCommits \in Nat /\ MaxFaults \in Nat

VARIABLES
  step,          \* step[h]: what process h does next
  lock,          \* the process that holds the lock of .go-admin-instance.lock
  db,            \* the files of the database
  copied,        \* copied[h]: host.backup while it is made and afterwards
  backups,       \* the published directories under backups/
  aside,         \* aside[h]: the files in the rollback directory of h
  leftover,      \* a rollback directory with files in it was left behind
  stuck,         \* history: an installed file could not be removed again
  committed,     \* transactions committed so far
  acknowledged,  \* those the user was told of
  faults,        \* faults so far
  before         \* history: before[h] is what the database held when h started

vars == <<step, lock, db, copied, backups, aside, leftover, stuck, committed, acknowledged,
          faults, before>>
past == <<stuck, committed, acknowledged, before>>

Commits == SUBSET (1 .. MaxCommits)
NoMain  == [there |-> FALSE, holds |-> {}]
NoLog   == [there |-> FALSE, on |-> {}, adds |-> {}]
Main(s)   == [there |-> TRUE, holds |-> s]
Log(m, s) == [there |-> TRUE, on |-> m.holds, adds |-> s]

MainFile  == {NoMain} \cup [there : {TRUE}, holds : Commits]
LogFile   == {NoLog} \cup [there : {TRUE}, on : Commits, adds : Commits]
Directory == [main : MainFile, log : LogFile]
Nothing   == [main |-> NoMain, log |-> NoLog]

(* A log belongs to the main file it was begun on. *)
Fits(d)  == d.main.there /\ d.log.there => d.log.on = d.main.holds
Holds(d) == IF d.main.there THEN d.main.holds \cup d.log.adds ELSE {}

Opened   == {"building", "running"}          \* host.database # nil
Undoing  == {"dropping main", "dropping log", "returning main", "returning log"}
Restoring == {"staging", "moving main", "moving log", "installing main", "installing log",
              "discarding", "removing main", "removing log"} \cup Undoing
Step == {"down", "copying main", "copying log", "opening", "closing"}
          \cup Opened \cup Restoring

Init ==
  /\ step = [h \in Host |-> "down"]
  /\ lock = Nobody
  /\ db = Nothing
  /\ copied = [h \in Host |-> Nothing]
  /\ backups = {}
  /\ aside = [h \in Host |-> Nothing]
  /\ leftover = FALSE
  /\ stuck = FALSE
  /\ committed = 0
  /\ acknowledged = {}
  /\ faults = 0
  /\ before = [h \in Host |-> {}]

-----------------------------------------------------------------------------
Go(h, next) == step' = [step EXCEPT ![h] = next]

SpendFault == faults < MaxFaults /\ faults' = faults + 1

(* SQLite opens what it finds: without a main file it begins an empty one   *)
(* and deletes a log that is lying about; a log it finds is read.           *)
Open(d) ==
  LET main == IF d.main.there THEN d.main ELSE Main({})
      log  == IF d.main.there /\ d.log.there THEN d.log ELSE Log(main, {})
  IN [main |-> main, log |-> log]

(* The last connection closes: the log is worked into the main file; when   *)
(* that fails it stays, and closing may report it or not.                   *)
Closed(d) == [main |-> Main(Holds(d)), log |-> NoLog]

-----------------------------------------------------------------------------
(* startInstance: the lock is the operating system's; without it the start  *)
(* fails and the process ends.                                              *)
Launch(h) ==
  /\ step[h] = "down"
  /\ lock = Nobody
  /\ lock' = h
  /\ before' = [before EXCEPT ![h] = Holds(db)]
  /\ Go(h, "copying main")
  /\ UNCHANGED <<db, copied, backups, aside, leftover, stuck, committed, acknowledged, faults>>

(* BackupDatabase.  A database without a main file is a new one, of which   *)
(* there is nothing to copy.                                                *)
CopyMain(h) ==
  /\ step[h] = "copying main"
  /\ copied' = [copied EXCEPT ![h] = [Nothing EXCEPT !.main = db.main]]
  /\ Go(h, IF db.main.there THEN "copying log" ELSE "opening")
  /\ UNCHANGED <<lock, db, backups, aside, leftover, faults, past>>

(* mutant: only the database file is copied *)
CopyNoLog(h) ==
  /\ step[h] = "copying log"
  /\ backups' = backups \cup {copied[h]}
  /\ Go(h, "opening")
  /\ UNCHANGED <<lock, db, copied, aside, leftover, faults, past>>

(* The directory gets its name when everything is in it. *)
CopyLog(h) ==
  /\ step[h] = "copying log"
  /\ copied' = [copied EXCEPT ![h].log = db.log]
  /\ backups' = backups \cup {copied'[h]}
  /\ Go(h, "opening")
  /\ UNCHANGED <<lock, db, aside, leftover, faults, past>>

(* An error before or after the directory got its name: the start fails.    *)
CopyFails(h) ==
  /\ step[h] \in {"copying main", "copying log"}
  /\ SpendFault
  /\ \/ backups' = backups
     \/ step[h] = "copying log" /\ backups' = backups \cup {[copied[h] EXCEPT !.log = db.log]}
  /\ Go(h, "closing")
  /\ UNCHANGED <<lock, db, copied, aside, leftover, past>>

-----------------------------------------------------------------------------
(* The second lock, of database.openSQLite, is taken while it is open.      *)
NobodyHasItOpen == \A g \in Host : step[g] \notin Opened

OpenDatabase(h) ==
  /\ step[h] = "opening"
  /\ NobodyHasItOpen
  /\ db' = Open(db)
  /\ Go(h, "building")
  /\ UNCHANGED <<lock, copied, backups, aside, leftover, faults, past>>

(* restoreDatabase begins with the copy, or, of a new database, with the    *)
(* removal of what there is.                                                *)
RestoreFrom(h) == IF copied[h].main.there THEN "staging" ELSE "removing main"

OpenFails(h) ==
  /\ step[h] = "opening"
  /\ IF NobodyHasItOpen
     THEN SpendFault /\ db' \in {db, Open(db), Closed(Open(db))}
     ELSE faults' = faults /\ db' = db
  /\ Go(h, RestoreFrom(h))
  /\ UNCHANGED <<lock, copied, backups, aside, leftover, past>>

(* A transaction: a migration or what the application does before its start *)
(* is over, or one the user is told of.                                     *)
Commit(h) ==
  /\ step[h] \in Opened
  /\ committed < MaxCommits
  /\ committed' = committed + 1
  /\ db' = [db EXCEPT !.log.adds = @ \cup {committed + 1}]
  /\ acknowledged' = IF step[h] = "running" THEN acknowledged \cup {committed + 1}
                     ELSE acknowledged
  /\ UNCHANGED <<step, lock, copied, backups, aside, leftover, stuck, faults, before>>

(* SQLite works the log into the main file while the database is open.      *)
Checkpoint(h) ==
  /\ step[h] \in Opened
  /\ db' = Open(Closed(db))
  /\ UNCHANGED <<step, lock, copied, backups, aside, leftover, faults, past>>

(* The handler is built and the listener open: the host is ready. *)
Ready(h) ==
  /\ step[h] = "building"
  /\ Go(h, "running")
  /\ UNCHANGED <<lock, db, copied, backups, aside, leftover, faults, past>>

(* recoverDatabase after a failed migration, start or listener.  Nothing is *)
(* put back when the database cannot be closed, or when the start was       *)
(* cancelled between two parts, as the lifecycle then only stops them.      *)
BuildFails(h) ==
  /\ step[h] = "building"
  /\ SpendFault
  /\ \/ db' \in {db, Closed(db)} /\ Go(h, RestoreFrom(h))
     \/ db' \in {db, Closed(db)} /\ Go(h, "closing")
  /\ UNCHANGED <<lock, copied, backups, aside, leftover, past>>

(* Drain: the server and the application are stopped, then the database;    *)
(* its Close may fail and leave the log.                                    *)
Drain(h) ==
  /\ step[h] = "running"
  /\ \/ db' = Closed(db) /\ faults' = faults
     \/ db' = db /\ SpendFault
  /\ Go(h, "closing")
  /\ UNCHANGED <<lock, copied, backups, aside, leftover, past>>

(* mutant: the rollback directory is removed whatever happened *)
UnlockRemoving(h) ==
  /\ step[h] = "closing"
  /\ lock' = Nobody
  /\ Go(h, "down")
  /\ aside' = [aside EXCEPT ![h] = Nothing]
  /\ copied' = [copied EXCEPT ![h] = Nothing]
  /\ UNCHANGED <<db, backups, leftover, faults, past>>

(* stopInstance, the last part to be stopped; what Restore moved aside and  *)
(* did not return stays in its rollback directory.                          *)
Unlock(h) ==
  /\ step[h] = "closing"
  /\ lock' = Nobody
  /\ Go(h, "down")
  /\ leftover' = (leftover \/ aside[h] # Nothing)
  /\ aside' = [aside EXCEPT ![h] = Nothing]
  /\ copied' = [copied EXCEPT ![h] = Nothing]
  /\ UNCHANGED <<db, backups, faults, past>>

-----------------------------------------------------------------------------
(* DatabaseBackup.Restore, one operation on the disk at a time. *)
RestoreStep(h, at, next) ==
  /\ step[h] = at
  /\ Go(h, next)
  /\ UNCHANGED <<lock, copied, backups, leftover, faults, past>>

RemoveNew(h) ==
  \/ /\ RestoreStep(h, "removing main", "removing log")
     /\ db' = [db EXCEPT !.main = NoMain]
     /\ aside' = aside
  \/ /\ RestoreStep(h, "removing log", "closing")
     /\ db' = [db EXCEPT !.log = NoLog]
     /\ aside' = aside

Stage(h) ==
  /\ RestoreStep(h, "staging", "moving main")
  /\ UNCHANGED <<db, aside>>

(* mutant: only the database file is moved aside *)
MoveMainAside(h) ==
  /\ RestoreStep(h, "moving main", "installing main")
  /\ aside' = [aside EXCEPT ![h].main = db.main]
  /\ db' = [db EXCEPT !.main = NoMain]

MoveAside(h) ==
  \/ /\ RestoreStep(h, "moving main", "moving log")
     /\ aside' = [aside EXCEPT ![h].main = db.main]
     /\ db' = [db EXCEPT !.main = NoMain]
  \/ /\ RestoreStep(h, "moving log", "installing main")
     /\ aside' = [aside EXCEPT ![h].log = db.log]
     /\ db' = [db EXCEPT !.log = NoLog]

(* mutant: the log of the copy is forgotten *)
InstallMain(h) ==
  /\ RestoreStep(h, "installing main", "discarding")
  /\ db' = [db EXCEPT !.main = copied[h].main]
  /\ aside' = aside

Install(h) ==
  \/ /\ RestoreStep(h, "installing main", "installing log")
     /\ db' = [db EXCEPT !.main = copied[h].main]
     /\ aside' = aside
  \/ /\ RestoreStep(h, "installing log", "discarding")
     /\ db' = [db EXCEPT !.log = IF copied[h].log.there THEN copied[h].log ELSE @]
     /\ aside' = aside

Discard(h) ==
  /\ RestoreStep(h, "discarding", "closing")
  /\ aside' = [aside EXCEPT ![h] = Nothing]
  /\ db' = db

(* What was installed is removed and restoreRollback moves the files back.  *)
Undo(h) ==
  \/ /\ RestoreStep(h, "dropping main", "dropping log")
     /\ db' = [db EXCEPT !.main = NoMain]
     /\ aside' = aside
  \/ /\ RestoreStep(h, "dropping log", "returning main")
     /\ db' = [db EXCEPT !.log = NoLog]
     /\ aside' = aside
  \/ /\ RestoreStep(h, "returning main", "returning log")
     /\ db' = [db EXCEPT !.main = IF aside[h].main.there THEN aside[h].main ELSE @]
     /\ aside' = [aside EXCEPT ![h].main = NoMain]
  \/ /\ RestoreStep(h, "returning log", "closing")
     /\ db' = [db EXCEPT !.log = IF aside[h].log.there THEN aside[h].log ELSE @]
     /\ aside' = [aside EXCEPT ![h].log = NoLog]

(* Where a failing operation leads.  The removals of the undoing ignore     *)
(* their errors; a failing "discarding" is the sync before the rollback     *)
(* directory is removed, or its removal.                                    *)
AfterFailure(at) ==
  CASE at \in {"moving main", "moving log"} -> {"returning main"}
    [] at \in {"installing main", "installing log"} -> {"dropping main"}
    [] at = "discarding" -> {"dropping main", "closing"}
    [] at = "dropping main" -> {"dropping log"}
    [] at = "dropping log" -> {"returning main"}
    [] OTHER -> {"closing"}

RestoreFails(h) ==
  /\ step[h] \in Restoring
  /\ SpendFault
  /\ \E next \in AfterFailure(step[h]) : Go(h, next)
  /\ stuck' = (stuck \/ step[h] \in {"dropping main", "dropping log"})
  /\ UNCHANGED <<lock, db, copied, backups, aside, leftover, committed, acknowledged, before>>

-----------------------------------------------------------------------------
(* The shell kills the process, or it dies; the system frees its locks. *)
Kill(h) ==
  /\ step[h] # "down"
  /\ SpendFault
  /\ Go(h, "down")
  /\ lock' = IF lock = h THEN Nobody ELSE lock
  /\ leftover' = (leftover \/ aside[h] # Nothing)
  /\ aside' = [aside EXCEPT ![h] = Nothing]
  /\ copied' = [copied EXCEPT ![h] = Nothing]
  /\ UNCHANGED <<db, backups, past>>

StartStep(h) == Launch(h) \/ CopyMain(h) \/ CopyLog(h) \/ OpenDatabase(h) \/ Ready(h)
UseStep(h)   == Commit(h) \/ Checkpoint(h) \/ Drain(h) \/ Unlock(h)
Recover(h)   == RemoveNew(h) \/ Stage(h) \/ MoveAside(h) \/ Install(h) \/ Discard(h) \/ Undo(h)
Failure(h)   == CopyFails(h) \/ OpenFails(h) \/ BuildFails(h) \/ RestoreFails(h) \/ Kill(h)

Next == \E h \in Host : StartStep(h) \/ UseStep(h) \/ Recover(h) \/ Failure(h)

Spec == Init /\ [][Next]_vars

-----------------------------------------------------------------------------
(* Every variable has its type, and a process works on the data only under  *)
(* the lock.                                                                *)
DesktopDataTypeOK ==
  /\ step \in [Host -> Step]
  /\ lock \in Host \cup {Nobody}
  /\ \A h \in Host : step[h] # "down" => lock = h
  /\ db \in Directory
  /\ copied \in [Host -> Directory]
  /\ backups \subseteq Directory
  /\ aside \in [Host -> Directory]
  /\ leftover \in BOOLEAN
  /\ stuck \in BOOLEAN
  /\ committed \in 0 .. MaxCommits
  /\ acknowledged \subseteq 1 .. MaxCommits
  /\ faults \in 0 .. MaxFaults
  /\ before \in [Host -> Commits]

(* What the user was told is saved stays on the disk: every acknowledged    *)
(* commit is in the database or in a backup that can be read, wherever a    *)
(* start, a migration or the putting back of a copy was interrupted.        *)
NothingLost ==
  stuck \/ \A c \in acknowledged : \E d \in {db} \cup backups : Fits(d) /\ c \in Holds(d)

(* The database is never a main file with the log of another, unless an     *)
(* installed file could not be removed again.                               *)
NeverMixed == stuck \/ Fits(db)

(* A running program that lacks something it once acknowledged is one whose *)
(* recovery was interrupted, and the directory with the files it had moved  *)
(* aside is still there.                                                    *)
MissingIsMarked ==
  \A h \in Host :
    step[h] = "running" /\ ~(acknowledged \subseteq Holds(db)) => stuck \/ leftover

(* Before the recovery of a failed start throws away what it moved aside,   *)
(* the database holds again what it held when the start began.              *)
StartIsUndone ==
  \A h \in Host : step[h] = "discarding" => stuck \/ Holds(db) = before[h]
=============================================================================
