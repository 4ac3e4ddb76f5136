------------------------- MODULE DesktopDataProofs -------------------------
(***************************************************************************)
(* Theorems about DesktopData, for any number of processes, transactions,  *)
(* kills and failing file operations.                                      *)
(*                                                                         *)
(* The instance lock makes the work on the files sequential: while one     *)
(* process is at work the others are down.  What remains is a table that   *)
(* says, for every step of a start and of Restore, where the two files of  *)
(* the old database are: in place, moved aside, or copied.  A directory is *)
(* good when its log belongs to its main file and nothing acknowledged is  *)
(* missing from it, unless an earlier recovery left its files behind; the  *)
(* table says which directories are good.                                  *)
(***************************************************************************)
EXTENDS DesktopData, TLAPS

-----------------------------------------------------------------------------
(* The invariant. *)

(* The steps at which nothing has been moved aside. *)
Quiet == {"down", "copying main", "copying log", "opening", "building", "running",
          "staging", "moving main", "removing main", "removing log"}

(* What holds of the processes even when an installed file could not be     *)
(* removed.                                                                 *)
Resting ==
  \A h \in Host :
    /\ step[h] = "down" => copied[h] = Nothing
    /\ step[h] \in Quiet => aside[h] = Nothing
    /\ step[h] \in Opened => db.main.there /\ db.log.there

(* A directory with all the commits of a in it, unless l. *)
Full(d, a, l) == Fits(d) /\ (l \/ a \subseteq Holds(d))
Good(d) == Full(d, acknowledged, leftover)

(* Every commit of a is in a directory of D that can be read. *)
Saved(a, D) == \A c \in a : \E d \in D : Fits(d) /\ c \in Holds(d)

(* The copy is complete, and a backup. *)
CopyGood(h) ==
  /\ Good(copied[h])
  /\ Holds(copied[h]) = before[h]
  /\ Saved(acknowledged, backups)

(* The files of the old database, wherever they are.                        *)
Pair(m, l) == [main |-> m, log |-> l]
OldMain(h) == IF aside[h].main.there THEN aside[h].main ELSE db.main
OldLog(h)  == IF aside[h].log.there THEN aside[h].log ELSE db.log
AsideGood(h) == aside[h].main.there /\ Good(Pair(aside[h].main, aside[h].log))

(* What a process knows at a step of its own. *)
Row(h, s) ==
  CASE s \in {"down", "running", "closing"} -> TRUE
    [] s = "copying main" -> Holds(db) = before[h]
    [] s = "copying log" -> /\ Holds(db) = before[h] /\ db.main.there
                            /\ copied[h].main = db.main /\ copied[h].log = NoLog
    [] s = "opening" -> CopyGood(h) /\ copied[h].main.there = db.main.there
    [] s = "building" -> CopyGood(h)
    [] s \in {"removing main", "removing log"} -> CopyGood(h) /\ ~copied[h].main.there
    [] s \in {"staging", "moving main"} -> CopyGood(h) /\ copied[h].main.there /\ db.main.there
    [] s = "moving log" -> /\ CopyGood(h) /\ db.main = NoMain
                           /\ aside[h].main.there /\ ~aside[h].log.there
                           /\ Good(Pair(aside[h].main, db.log))
    [] s = "installing main" -> /\ CopyGood(h) /\ AsideGood(h)
                                /\ db.main = NoMain /\ db.log = NoLog
    [] s = "installing log" -> /\ CopyGood(h) /\ AsideGood(h)
                               /\ db.main = copied[h].main /\ db.log = NoLog
    [] s = "discarding" -> /\ CopyGood(h) /\ AsideGood(h)
                           /\ db.main = copied[h].main /\ db.log = copied[h].log
    [] s = "dropping main" -> CopyGood(h) /\ AsideGood(h)
    [] s = "dropping log" -> CopyGood(h) /\ AsideGood(h) /\ db.main = NoMain
    [] s = "returning main" -> /\ CopyGood(h)
                               /\ Good(Pair(OldMain(h), OldLog(h)))
                               /\ Fits(Pair(OldMain(h), db.log))
    [] s = "returning log" -> /\ CopyGood(h) /\ ~aside[h].main.there
                              /\ Good(Pair(db.main, OldLog(h)))

(* What holds as long as every installed file could be removed again.       *)
Data ==
  /\ Fits(db)
  /\ Good(db) \/ \E h \in Host : aside[h].main.there \/ aside[h].log.there
  /\ \A h \in Host : Row(h, step[h])
  /\ Saved(acknowledged, {db} \cup backups)

Inv == DesktopDataTypeOK /\ Resting /\ (stuck \/ Data)

-----------------------------------------------------------------------------
(* Files and directories. *)

(* A file that is not there is empty. *)
LEMMA AbsentMain ==
  ASSUME NEW m \in MainFile
  PROVE  m.there \in BOOLEAN /\ m.holds \in Commits /\ (~m.there => m = NoMain)
<1>1. CASE m = NoMain
  <2>1. m.there = FALSE /\ m.holds = {}
    BY <1>1 DEF NoMain
  <2>2. {} \in Commits
    BY DEF Commits
  <2> QED BY <1>1, <2>1, <2>2
<1>2. CASE m \in [there : {TRUE}, holds : Commits]
  <2>1. m.there = TRUE /\ m.holds \in Commits
    BY <1>2
  <2> QED BY <2>1
<1> QED BY <1>1, <1>2 DEF MainFile

(* So is a log; one that is there says on what it was begun.                *)
LEMMA AbsentLog ==
  ASSUME NEW l \in LogFile
  PROVE  /\ l.there \in BOOLEAN /\ l.on \in Commits /\ l.adds \in Commits
         /\ ~l.there => l = NoLog
         /\ l.there => l \in [there : {TRUE}, on : Commits, adds : Commits]
<1>1. CASE l = NoLog
  <2>1. l.there = FALSE /\ l.on = {} /\ l.adds = {}
    BY <1>1 DEF NoLog
  <2>2. {} \in Commits
    BY DEF Commits
  <2> QED BY <1>1, <2>1, <2>2
<1>2. CASE l \in [there : {TRUE}, on : Commits, adds : Commits]
  <2>1. l.there = TRUE /\ l.on \in Commits /\ l.adds \in Commits
    BY <1>2
  <2> QED BY <1>2, <2>1
<1> QED BY <1>1, <1>2 DEF LogFile

(* The files and directories the actions make, and the parts of a directory. *)
LEMMA FileTypes ==
  /\ NoMain \in MainFile /\ NoLog \in LogFile /\ Nothing \in Directory
  /\ \A s \in Commits : Main(s) \in MainFile
  /\ \A m \in MainFile : \A s \in Commits : Log(m, s) \in LogFile
  /\ \A d \in Directory : d.main \in MainFile /\ d.log \in LogFile
<1>1. NoMain \in MainFile /\ NoLog \in LogFile
  BY DEF MainFile, LogFile
<1>2. Nothing \in Directory
  BY <1>1 DEF Nothing, Directory
<1>3. \A s \in Commits : Main(s) \in MainFile
  BY DEF MainFile, Main
<1>4. \A m \in MainFile : \A s \in Commits : Log(m, s) \in LogFile
  BY AbsentMain, AbsentLog DEF LogFile, Log
<1>5. \A d \in Directory : d.main \in MainFile /\ d.log \in LogFile
  BY DEF Directory
<1> QED BY <1>1, <1>2, <1>3, <1>4, <1>5

(* What a directory holds is a set of commits.                              *)
LEMMA HoldsType ==
  ASSUME NEW d \in Directory
  PROVE  Holds(d) \in Commits
BY FileTypes, AbsentMain, AbsentLog DEF Holds, Commits

(* Opening keeps what the database holds and makes both files.              *)
LEMMA Opening ==
  ASSUME NEW d \in Directory
  PROVE  /\ Open(d) \in Directory
         /\ Open(d).main.there /\ Open(d).log.there
         /\ Fits(d) => Fits(Open(d))
         /\ Holds(Open(d)) = Holds(d)
<1>1. {} \in Commits
  BY DEF Commits
<1>2. d.main \in MainFile /\ d.log \in LogFile
  BY FileTypes
<1>3. CASE d.main.there /\ d.log.there
  <2>1. Open(d) = [main |-> d.main, log |-> d.log]
    BY <1>3 DEF Open
  <2> QED BY <1>2, <1>3, <2>1 DEF Directory, Fits, Holds
<1>4. CASE d.main.there /\ ~d.log.there
  <2>1. Open(d) = [main |-> d.main, log |-> Log(d.main, {})]
    BY <1>4 DEF Open
  <2>2. d.log = NoLog
    BY <1>2, <1>4, AbsentMain, AbsentLog
  <2>3. Log(d.main, {}) \in LogFile
    BY <1>1, <1>2, FileTypes
  <2>4. /\ Open(d).main = d.main /\ Open(d).log.there
        /\ Open(d).log.on = d.main.holds /\ Open(d).log.adds = {}
    BY <2>1 DEF Log
  <2>5. Holds(Open(d)) = d.main.holds \cup {} /\ Holds(d) = d.main.holds \cup {}
    BY <1>4, <2>2, <2>4 DEF Holds, NoLog
  <2>6. Open(d) \in Directory
    BY <1>2, <2>1, <2>3 DEF Directory
  <2> QED BY <1>4, <2>4, <2>5, <2>6 DEF Fits
<1>5. CASE ~d.main.there
  <2>1. Open(d) = [main |-> Main({}), log |-> Log(Main({}), {})]
    BY <1>5 DEF Open
  <2>2. Main({}) \in MainFile /\ Log(Main({}), {}) \in LogFile
    BY <1>1, FileTypes
  <2> QED BY <1>2, <1>5, <2>1, <2>2 DEF Directory, Fits, Holds, Log, Main
<1>6. d.main.there \in BOOLEAN /\ d.log.there \in BOOLEAN
  BY <1>2, AbsentMain, AbsentLog
<1> QED BY <1>3, <1>4, <1>5, <1>6

(* Closing keeps what the database holds and leaves one file.               *)
LEMMA Closing ==
  ASSUME NEW d \in Directory
  PROVE  /\ Closed(d) \in Directory
         /\ Closed(d).main.there /\ ~Closed(d).log.there
         /\ Fits(Closed(d))
         /\ Holds(Closed(d)) = Holds(d)
<1>1. Main(Holds(d)) \in MainFile /\ NoLog \in LogFile
  BY HoldsType, FileTypes
<1> QED BY <1>1 DEF Closed, Directory, Fits, Holds, Main, NoLog

(* A process at work is alone: it has the lock.                             *)
LEMMA Alone ==
  ASSUME DesktopDataTypeOK, NEW g \in Host, NEW h \in Host, g # h, step[h] # "down"
  PROVE  step[g] = "down"
BY DEF DesktopDataTypeOK

-----------------------------------------------------------------------------
(* Type correctness, with what rests while nothing is at work.              *)

(* One file of a directory is replaced.                                     *)
LEMMA Replaced ==
  ASSUME NEW d \in Directory
  PROVE  /\ \A m \in MainFile : [d EXCEPT !.main = m] \in Directory
         /\ \A l \in LogFile : [d EXCEPT !.log = l] \in Directory
BY DEF Directory

(* The same for a directory in a function.                                  *)
LEMMA ReplacedOf ==
  ASSUME NEW f \in [Host -> Directory], NEW h \in Host
  PROVE  /\ \A d \in Directory : [f EXCEPT ![h] = d] \in [Host -> Directory]
         /\ \A m \in MainFile : [f EXCEPT ![h].main = m] \in [Host -> Directory]
         /\ \A l \in LogFile : [f EXCEPT ![h].log = l] \in [Host -> Directory]
BY Replaced

(* A commit is added to a log. *)
LEMMA Added ==
  ASSUME NEW l \in LogFile, l.there, NEW c \in 1 .. MaxCommits
  PROVE  /\ [l EXCEPT !.adds = @ \cup {c}] \in LogFile
         /\ [l EXCEPT !.adds = @ \cup {c}].there
<1>1. l \in [there : {TRUE}, on : Commits, adds : Commits]
  BY AbsentLog
<1>2. l.adds \cup {c} \in Commits
  BY <1>1 DEF Commits
<1> QED BY <1>1, <1>2 DEF LogFile

(* What a step of h must do to keep the types and its own row; the others   *)
(* are down.                                                                *)
LEMMA RowOfOne ==
  ASSUME DesktopDataTypeOK, Resting, NEW h \in Host,
         \A g \in Host \ {h} : step[g] = "down",
         NEW s \in Step, step' = [step EXCEPT ![h] = s],
         lock' \in Host \cup {Nobody}, s # "down" => lock' = h,
         db' \in Directory,
         copied' \in [Host -> Directory], aside' \in [Host -> Directory],
         \A g \in Host \ {h} : copied'[g] = copied[g] /\ aside'[g] = aside[g],
         backups' \subseteq Directory, leftover' \in BOOLEAN, stuck' \in BOOLEAN,
         committed' \in 0 .. MaxCommits, acknowledged' \subseteq 1 .. MaxCommits,
         faults' \in 0 .. MaxFaults, before' \in [Host -> Commits],
         s = "down" => copied'[h] = Nothing,
         s \in Quiet => aside'[h] = Nothing,
         s \in Opened => db'.main.there /\ db'.log.there
  PROVE  DesktopDataTypeOK' /\ Resting'
<1>1. step'[h] = s /\ \A g \in Host \ {h} : step'[g] = "down"
  BY DEF DesktopDataTypeOK
<1>2. "down" \notin Opened
  BY DEF Opened
<1>3. "down" \in Quiet
  BY DEF Quiet
<1>4. \A g \in Host \ {h} : copied'[g] = Nothing /\ aside'[g] = Nothing
  BY <1>3 DEF Resting
<1>5. Resting'
  BY <1>1, <1>2, <1>4 DEF Resting
<1>6. step' \in [Host -> Step]
  BY DEF DesktopDataTypeOK
<1>7. DesktopDataTypeOK'
  BY <1>1, <1>6 DEF DesktopDataTypeOK
<1> QED BY <1>5, <1>7

(* Every step keeps the types and what holds of a process at rest.          *)
LEMMA RestingKept ==
  ASSUME DesktopDataTypeOK, Resting, [Next]_vars
  PROVE  DesktopDataTypeOK' /\ Resting'
<1>0. CASE UNCHANGED vars
  BY <1>0 DEF vars, DesktopDataTypeOK, Resting, Opened
<1> SUFFICES ASSUME NEW h \in Host,
                    StartStep(h) \/ UseStep(h) \/ Recover(h) \/ Failure(h)
             PROVE  DesktopDataTypeOK' /\ Resting'
  BY <1>0 DEF Next
<1> USE DEF Go, SpendFault, past
<1>a. /\ db \in Directory /\ db.main \in MainFile /\ db.log \in LogFile
      /\ copied[h] \in Directory /\ copied[h].main \in MainFile /\ copied[h].log \in LogFile
      /\ aside[h] \in Directory /\ aside[h].main \in MainFile /\ aside[h].log \in LogFile
      /\ Nothing \in Directory /\ NoMain \in MainFile /\ NoLog \in LogFile
  BY FileTypes DEF DesktopDataTypeOK
<1>b. /\ Open(db) \in Directory /\ Closed(db) \in Directory /\ Closed(Open(db)) \in Directory
      /\ Open(Closed(db)) \in Directory
  BY <1>a, Opening, Closing
<1>c. /\ \A m \in MainFile : [db EXCEPT !.main = m] \in Directory
      /\ \A l \in LogFile : [db EXCEPT !.log = l] \in Directory
      /\ \A l \in LogFile : [copied[h] EXCEPT !.log = l] \in Directory
      /\ \A m \in MainFile : [Nothing EXCEPT !.main = m] \in Directory
  BY <1>a, Replaced
<1>d. /\ \A d \in Directory : /\ [aside EXCEPT ![h] = d] \in [Host -> Directory]
                              /\ [copied EXCEPT ![h] = d] \in [Host -> Directory]
      /\ \A m \in MainFile : [aside EXCEPT ![h].main = m] \in [Host -> Directory]
      /\ \A l \in LogFile : /\ [aside EXCEPT ![h].log = l] \in [Host -> Directory]
                            /\ [copied EXCEPT ![h].log = l] \in [Host -> Directory]
  BY ReplacedOf DEF DesktopDataTypeOK
<1>e. faults \in 0 .. MaxFaults /\ (faults < MaxFaults => faults + 1 \in 0 .. MaxFaults)
  BY BoundsAreNaturals DEF DesktopDataTypeOK
<1>1. CASE Launch(h)
  <2>1. \A g \in Host : step[g] = "down"
    BY <1>1, NobodyIsNoHost DEF Launch, DesktopDataTypeOK
  <2>2. Holds(db) \in Commits
    BY <1>a, HoldsType
  <2>3. "copying main" \in Step /\ "copying main" \in Quiet /\ "copying main" \notin Opened
    BY DEF Step, Quiet, Opened
  <2>4. before' \in [Host -> Commits] /\ aside[h] = Nothing
    BY <1>1, <2>1, <2>2 DEF Launch, DesktopDataTypeOK, Resting, Quiet
  <2> QED BY <1>1, <2>1, <2>3, <2>4, RowOfOne DEF Launch, DesktopDataTypeOK
<1>2. CASE step[h] # "down"
  <2>0. (\A g \in Host \ {h} : step[g] = "down") /\ lock = h /\ "down" \in Step
    BY <1>2, Alone DEF Step, DesktopDataTypeOK
  <2>1. CASE CopyMain(h)
    <3>1. aside[h] = Nothing
      BY <2>1 DEF CopyMain, Resting, Quiet
    <3> QED BY <1>a, <1>b, <1>c, <1>d, <1>e, <2>0, <2>1, <3>1, RowOfOne DEF CopyMain,
               DesktopDataTypeOK, Step, Opened, Restoring, Undoing, Quiet
  <2>2. CASE CopyLog(h)
    <3>1. aside[h] = Nothing
      BY <2>2 DEF CopyLog, Resting, Quiet
    <3>2. /\ copied' \in [Host -> Directory]
          /\ copied'[h] \in Directory
          /\ \A g \in Host \ {h} : copied'[g] = copied[g]
      BY <1>a, <1>d, <2>2 DEF CopyLog, DesktopDataTypeOK
    <3>3. /\ "opening" \in Step /\ "opening" \notin Opened
          /\ step' = [step EXCEPT ![h] = "opening"]
      BY <2>2 DEF CopyLog, Step, Opened
    <3>4. backups' \subseteq Directory
      BY <2>2, <3>2 DEF CopyLog, DesktopDataTypeOK
    <3> QED BY <2>0, <2>2, <3>1, <3>2, <3>3, <3>4, RowOfOne DEF CopyLog, DesktopDataTypeOK
  <2>3. CASE OpenDatabase(h)
    <3>1. aside[h] = Nothing
      BY <2>3 DEF OpenDatabase, Resting, Quiet
    <3>2. Open(db).main.there /\ Open(db).log.there
      BY <1>a, Opening
    <3> QED BY <1>a, <1>b, <1>c, <1>d, <1>e, <2>0, <2>3, <3>1, <3>2, RowOfOne
            DEF OpenDatabase, DesktopDataTypeOK, Step, Opened, Restoring, Undoing, Quiet
  <2>4. CASE Ready(h)
    <3>1. aside[h] = Nothing /\ db.main.there /\ db.log.there
      BY <2>4 DEF Ready, Resting, Quiet, Opened
    <3> QED BY <1>a, <1>b, <1>c, <1>d, <1>e, <2>0, <2>4, <3>1, RowOfOne DEF Ready,
               DesktopDataTypeOK, Step, Opened, Restoring, Undoing, Quiet
  <2>5. CASE Commit(h)
    <3>1. PICK s \in Opened : s = step[h] /\ step' = [step EXCEPT ![h] = s]
      BY <2>5 DEF Commit, DesktopDataTypeOK
    <3>a. s \in Quiet /\ s \in Step /\ s # "down"
      BY DEF Opened, Quiet, Step
    <3>2. aside[h] = Nothing /\ db.main.there /\ db.log.there
      BY <3>1, <3>a DEF Resting
    <3>3. committed + 1 \in 1 .. MaxCommits /\ committed + 1 \in 0 .. MaxCommits
      BY <2>5, BoundsAreNaturals DEF Commit, DesktopDataTypeOK
    <3>4. [db.log EXCEPT !.adds = @ \cup {committed + 1}] \in LogFile
          /\ [db.log EXCEPT !.adds = @ \cup {committed + 1}].there
      BY <1>a, <3>2, <3>3, Added
    <3>5. db' = [db EXCEPT !.log = [db.log EXCEPT !.adds = @ \cup {committed + 1}]]
      BY <2>5 DEF Commit
    <3>6. db' \in Directory /\ db'.main.there /\ db'.log.there
      BY <1>a, <1>c, <3>2, <3>4, <3>5 DEF Directory
    <3>7. acknowledged' \subseteq 1 .. MaxCommits
      BY <2>5, <3>3 DEF Commit, DesktopDataTypeOK
    <3> QED BY <2>0, <2>5, <3>1, <3>a, <3>2, <3>3, <3>6, <3>7, RowOfOne DEF Commit,
               DesktopDataTypeOK
  <2>6. CASE Checkpoint(h)
    <3>1. PICK s \in Opened : s = step[h] /\ step' = [step EXCEPT ![h] = s]
      BY <2>6 DEF Checkpoint, DesktopDataTypeOK
    <3>a. s \in Quiet /\ s \in Step /\ s # "down"
      BY DEF Opened, Quiet, Step
    <3>2. aside[h] = Nothing
      BY <3>1, <3>a DEF Resting
    <3>3. Open(Closed(db)).main.there /\ Open(Closed(db)).log.there
      BY <1>b, Opening
    <3> QED BY <1>b, <2>0, <2>6, <3>1, <3>a, <3>2, <3>3, RowOfOne DEF Checkpoint,
               DesktopDataTypeOK
  <2>7. CASE Drain(h)
    <3>1. /\ "closing" \in Step /\ "closing" \notin Quiet /\ "closing" \notin Opened
          /\ step' = [step EXCEPT ![h] = "closing"]
      BY <2>7 DEF Drain, Step, Quiet, Opened
    <3>2. db' \in Directory /\ faults' \in 0 .. MaxFaults
      BY <1>a, <1>b, <1>e, <2>7 DEF Drain
    <3> QED BY <2>0, <2>7, <3>1, <3>2, RowOfOne DEF Drain, DesktopDataTypeOK
  <2>8. CASE Unlock(h)
    <3> QED BY <1>a, <1>b, <1>c, <1>d, <1>e, <2>0, <2>8, RowOfOne DEF Unlock,
               DesktopDataTypeOK, Step, Opened, Restoring, Undoing, Quiet
  <2>9. CASE RemoveNew(h)
    <3>1. aside[h] = Nothing
      BY <2>9 DEF RemoveNew, RestoreStep, Resting, Quiet
    <3>2. db' \in Directory
      BY <1>a, <1>c, <2>9 DEF RemoveNew
    <3>3. PICK s \in {"removing log", "closing"} : step' = [step EXCEPT ![h] = s]
      BY <2>9 DEF RemoveNew, RestoreStep
    <3>4. s \in Step /\ s \notin Opened /\ s # "down"
      BY <3>3 DEF Step, Opened, Restoring
    <3> QED BY <2>0, <2>9, <3>1, <3>2, <3>3, <3>4, RowOfOne
            DEF RemoveNew, RestoreStep, DesktopDataTypeOK
  <2>10. CASE Stage(h)
    <3>1. aside[h] = Nothing
      BY <2>10 DEF Stage, RestoreStep, Resting, Quiet
    <3> QED BY <1>a, <1>b, <1>c, <1>d, <1>e, <2>0, <2>10, <3>1, RowOfOne DEF Stage,
               DesktopDataTypeOK, Step, Opened, Restoring, Undoing, Quiet, RestoreStep
  <2>11. CASE MoveAside(h)
    <3>1. db' \in Directory /\ aside' \in [Host -> Directory]
      BY <1>a, <1>c, <1>d, <2>11 DEF MoveAside
    <3>2. \A g \in Host \ {h} : aside'[g] = aside[g]
      BY <2>11 DEF MoveAside, DesktopDataTypeOK
    <3>3. PICK s \in {"moving log", "installing main"} :
            step' = [step EXCEPT ![h] = s]
      BY <2>11 DEF MoveAside, RestoreStep
    <3>4. s \in Step /\ s \notin Opened /\ s \notin Quiet
      BY <3>3 DEF Step, Opened, Restoring, Undoing, Quiet
    <3> QED BY <2>0, <2>11, <3>1, <3>2, <3>3, <3>4, RowOfOne
            DEF MoveAside, RestoreStep, DesktopDataTypeOK, Quiet
  <2>12. CASE Install(h)
    <3>1. db' \in Directory /\ aside' \in [Host -> Directory]
      <4>1. \/ db' = [db EXCEPT !.main = copied[h].main]
            \/ \E l \in LogFile : db' = [db EXCEPT !.log = l]
        BY <1>a, <2>12 DEF Install
      <4> QED BY <1>a, <1>c, <2>12, <4>1 DEF Install, DesktopDataTypeOK
    <3>2. \A g \in Host \ {h} : aside'[g] = aside[g]
      BY <2>12 DEF Install, DesktopDataTypeOK
    <3>3. PICK s \in {"installing log", "discarding"} :
            step' = [step EXCEPT ![h] = s]
      BY <2>12 DEF Install, RestoreStep
    <3>4. s \in Step /\ s \notin Opened /\ s \notin Quiet
      BY <3>3 DEF Step, Opened, Restoring, Undoing, Quiet
    <3> QED BY <2>0, <2>12, <3>1, <3>2, <3>3, <3>4, RowOfOne
            DEF Install, RestoreStep, DesktopDataTypeOK, Quiet
  <2>13. CASE Discard(h)
    <3> QED BY <1>a, <1>b, <1>c, <1>d, <1>e, <2>0, <2>13, RowOfOne DEF Discard,
               DesktopDataTypeOK, Step, Opened, Restoring, Undoing, Quiet, RestoreStep
  <2>14. CASE Undo(h)
    <3>1. db' \in Directory /\ aside' \in [Host -> Directory]
      <4>1. \/ \E m \in MainFile : db' = [db EXCEPT !.main = m]
            \/ \E l \in LogFile : db' = [db EXCEPT !.log = l]
        BY <1>a, <2>14 DEF Undo
      <4>2. aside' \in [Host -> Directory]
        <5>1. \/ aside' = aside
              \/ \E m \in MainFile : aside' = [aside EXCEPT ![h].main = m]
              \/ \E l \in LogFile : aside' = [aside EXCEPT ![h].log = l]
          BY <1>a, <2>14 DEF Undo
        <5> QED BY <1>d, <5>1, ZenonT(60) DEF DesktopDataTypeOK
      <4> QED BY <1>c, <4>1, <4>2
    <3>2. \A g \in Host \ {h} : aside'[g] = aside[g]
      BY <2>14 DEF Undo, DesktopDataTypeOK
    <3>3. PICK s \in {"dropping log", "returning main", "returning log", "closing"} :
            step' = [step EXCEPT ![h] = s]
      BY <2>14 DEF Undo, RestoreStep
    <3>4. s \in Step /\ s \notin Opened /\ s \notin Quiet
      BY <3>3 DEF Step, Opened, Restoring, Undoing, Quiet
    <3> QED BY <2>0, <2>14, <3>1, <3>2, <3>3, <3>4, RowOfOne
            DEF Undo, RestoreStep, DesktopDataTypeOK, Quiet
  <2>15. CASE CopyFails(h)
    <3>1. /\ "closing" \in Step /\ "closing" \notin Quiet /\ "closing" \notin Opened
          /\ step' = [step EXCEPT ![h] = "closing"]
      BY <2>15 DEF CopyFails, Step, Quiet, Opened
    <3>2. [copied[h] EXCEPT !.log = db.log] \in Directory
      BY <1>a, <1>c
    <3>3. backups' \subseteq Directory /\ faults' \in 0 .. MaxFaults
      BY <1>e, <2>15, <3>2 DEF CopyFails, DesktopDataTypeOK
    <3> QED BY <2>0, <2>15, <3>1, <3>3, RowOfOne DEF CopyFails, DesktopDataTypeOK, Quiet
  <2>16. CASE OpenFails(h)
    <3>1. aside[h] = Nothing
      BY <2>16 DEF OpenFails, Resting, Quiet
    <3>2. db' \in Directory /\ faults' \in 0 .. MaxFaults
      BY <1>a, <1>b, <1>e, <2>16 DEF OpenFails
    <3>3. /\ RestoreFrom(h) \in Step /\ RestoreFrom(h) \notin Opened /\ RestoreFrom(h) # "down"
          /\ step' = [step EXCEPT ![h] = RestoreFrom(h)]
      BY <2>16 DEF OpenFails, RestoreFrom, Step, Opened, Restoring
    <3> QED BY <2>0, <2>16, <3>1, <3>2, <3>3, RowOfOne DEF OpenFails, DesktopDataTypeOK
  <2>17. CASE BuildFails(h)
    <3>1. aside[h] = Nothing
      BY <2>17 DEF BuildFails, Resting, Quiet
    <3>2. db' \in Directory /\ faults' \in 0 .. MaxFaults
      BY <1>a, <1>b, <1>e, <2>17 DEF BuildFails
    <3>3. PICK s \in {RestoreFrom(h), "closing"} : step' = [step EXCEPT ![h] = s]
      BY <2>17 DEF BuildFails
    <3>4. s \in Step /\ s \notin Opened /\ s # "down"
      BY <3>3 DEF RestoreFrom, Step, Opened, Restoring
    <3> QED BY <2>0, <2>17, <3>1, <3>2, <3>3, <3>4, RowOfOne DEF BuildFails,
               DesktopDataTypeOK
  <2>18. CASE RestoreFails(h)
    <3> QED BY <1>a, <1>b, <1>c, <1>d, <1>e, <2>0, <2>18, RowOfOne DEF RestoreFails,
               DesktopDataTypeOK, Step, Opened, Restoring, Undoing, Quiet, AfterFailure
  <2>19. CASE Kill(h)
    <3>1. "down" \in Step /\ "down" \notin Opened /\ step' = [step EXCEPT ![h] = "down"]
      BY <2>19 DEF Kill, Step, Opened
    <3>2. /\ copied'[h] = Nothing /\ aside'[h] = Nothing
          /\ copied' \in [Host -> Directory] /\ aside' \in [Host -> Directory]
          /\ \A g \in Host \ {h} : copied'[g] = copied[g] /\ aside'[g] = aside[g]
      BY <1>a, <1>d, <2>19 DEF Kill, DesktopDataTypeOK
    <3>3. lock' \in Host \cup {Nobody} /\ leftover' \in BOOLEAN /\ faults' \in 0 .. MaxFaults
      BY <1>e, <2>19 DEF Kill, DesktopDataTypeOK
    <3> QED BY <2>0, <2>19, <3>1, <3>2, <3>3, RowOfOne DEF Kill, DesktopDataTypeOK
  <2> QED BY <1>2, <2>1, <2>2, <2>3, <2>4, <2>5, <2>6, <2>7, <2>8, <2>9, <2>10, <2>11,
             <2>12, <2>13, <2>14, <2>15, <2>16, <2>17, <2>18, <2>19
          DEF StartStep, UseStep, Recover, Failure, Launch
<1>3. step[h] = "down" => Launch(h)
  BY DEF StartStep, UseStep, Recover, Failure, Opened, Restoring, Undoing, CopyMain,
     CopyLog, OpenDatabase, Ready, Commit, Checkpoint, Drain, Unlock, RemoveNew, Stage,
     MoveAside, Install, Discard, Undo, CopyFails, OpenFails, BuildFails, RestoreFails,
     Kill, RestoreStep
<1> QED BY <1>1, <1>2, <1>3
-----------------------------------------------------------------------------
(* The data.                                                                *)

(* A directory that holds at least what a full one holds is full.           *)
LEMMA FullWithin ==
  ASSUME NEW d, NEW e, NEW a, NEW l, Fits(e), Holds(d) \subseteq Holds(e), Full(d, a, l)
  PROVE  Full(e, a, l)
BY DEF Full

(* Commits stay saved when the database keeps what it holds and no backup    *)
(* goes away.                                                               *)
LEMMA SavedWithin ==
  ASSUME NEW a, NEW d, NEW e, NEW D, NEW E, D \subseteq E, Fits(d) => Fits(e),
         Holds(d) \subseteq Holds(e), Saved(a, {d} \cup D)
  PROVE  Saved(a, {e} \cup E)
BY DEF Saved

(* Commits saved in some directories are saved in more of them.             *)
LEMMA SavedMore ==
  ASSUME NEW a, NEW D, NEW E, D \subseteq E, Saved(a, D)
  PROVE  Saved(a, E)
BY DEF Saved

(* Only the row of the process at work changes. *)
LEMMA DataOfOne ==
  ASSUME DesktopDataTypeOK, NEW h \in Host,
         \A g \in Host \ {h} : step[g] = "down",
         NEW s \in Step, step' = [step EXCEPT ![h] = s],
         Fits(db'),
         Good(db)' \/ aside'[h].main.there \/ aside'[h].log.there,
         Row(h, s)',
         Saved(acknowledged', {db'} \cup backups')
  PROVE  Data'
<1>1. step'[h] = s /\ \A g \in Host \ {h} : step'[g] = "down"
  BY DEF DesktopDataTypeOK
<1>2. ASSUME NEW g \in Host \ {h}
      PROVE  Row(g, step[g])'
  BY <1>1 DEF Row
<1>3. Row(h, step[h])'
  BY <1>1
<1>4. \A g \in Host : Row(g, step[g])'
  BY <1>2, <1>3
<1> QED BY <1>4 DEF Data

(* Every step that can remove what it has to remove keeps the table.        *)
LEMMA DataKept ==
  ASSUME DesktopDataTypeOK, Resting, Data, NEW h \in Host,
         StartStep(h) \/ UseStep(h) \/ Recover(h) \/ Failure(h), ~stuck'
  PROVE  Data'
<1> USE DEF Go, SpendFault, past
<1>a. /\ db \in Directory /\ db.main \in MainFile /\ db.log \in LogFile
      /\ copied[h] \in Directory /\ copied[h].main \in MainFile /\ copied[h].log \in LogFile
      /\ aside[h] \in Directory /\ aside[h].main \in MainFile /\ aside[h].log \in LogFile
  BY FileTypes DEF DesktopDataTypeOK
<1>b. /\ ~db.main.there => db.main = NoMain
      /\ ~copied[h].main.there => copied[h].main = NoMain
      /\ ~copied[h].log.there => copied[h].log = NoLog
      /\ ~aside[h].log.there => aside[h].log = NoLog
  BY <1>a, AbsentMain, AbsentLog
<1>c. /\ NoMain.there = FALSE /\ NoMain.holds = {} /\ NoLog.there = FALSE
      /\ NoLog.on = {} /\ NoLog.adds = {} /\ Nothing.main = NoMain /\ Nothing.log = NoLog
  BY DEF NoMain, NoLog, Nothing
<1>d. step[h] # "down" => \A g \in Host \ {h} : step[g] = "down" /\ aside[g] = Nothing
  BY Alone DEF Resting, Quiet
<1>e. step[h] # "down" => Good(db) \/ aside[h].main.there \/ aside[h].log.there
  BY <1>c, <1>d DEF Data
<1>f. step[h] \in Quiet \ {"down"} => aside[h] = Nothing /\ Good(db)
  BY <1>c, <1>e DEF Resting
<1>g. Fits(db) /\ Saved(acknowledged, {db} \cup backups) /\ Row(h, step[h])
  BY DEF Data
<1>s. /\ {"down", "copying main", "copying log", "opening", "building", "running", "closing",
           "staging", "moving main", "moving log", "installing main", "installing log",
           "discarding", "removing main", "removing log", "dropping main", "dropping log",
           "returning main", "returning log"} \subseteq Step
      /\ step \in [Host -> Step]
  BY DEF Step, Opened, Restoring, Undoing, DesktopDataTypeOK
<1>1. CASE Launch(h)
  <2>1. \A g \in Host : step[g] = "down" /\ aside[g] = Nothing
    BY <1>1, NobodyIsNoHost DEF Launch, DesktopDataTypeOK, Resting, Quiet
  <2>2. Good(db)
    BY <1>c, <2>1 DEF Data
  <2>3. Good(db)'
    BY <1>1, <2>2 DEF Launch, Good
  <2>4. Row(h, "copying main")'
    BY <1>1 DEF Launch, Row, DesktopDataTypeOK
  <2> QED BY <1>1, <1>g, <1>s, <2>1, <2>3, <2>4, DataOfOne DEF Launch
<1>2. CASE CopyMain(h)
  <2>1. /\ step[h] = "copying main" /\ Holds(db) = before[h] /\ Good(db)
        /\ copied'[h].main = db.main /\ copied'[h].log = NoLog
    BY <1>2, <1>c, <1>f, <1>g DEF CopyMain, Row, Quiet, DesktopDataTypeOK, Nothing
  <2>2. Good(db)'
    BY <1>2, <2>1 DEF CopyMain, Good
  <2>3. CASE db.main.there
    <3>1. step' = [step EXCEPT ![h] = "copying log"]
      BY <1>2, <2>3 DEF CopyMain
    <3>2. Row(h, "copying log")'
      BY <1>2, <2>1, <2>3 DEF CopyMain, Row
    <3> QED BY <1>2, <1>d, <1>g, <1>s, <2>1, <2>2, <3>1, <3>2, DataOfOne DEF CopyMain
  <2>4. CASE ~db.main.there
    <3>1. step' = [step EXCEPT ![h] = "opening"]
      BY <1>2, <2>4 DEF CopyMain
    <3>2. /\ Holds(db) = {} /\ Holds(copied'[h]) = {} /\ Fits(copied'[h])
          /\ leftover \/ acknowledged \subseteq {}
      BY <2>1, <2>4 DEF Holds, Fits, Good, Full
    <3>3. Saved(acknowledged, backups)
      BY <1>g, <3>2 DEF Saved
    <3>4. CopyGood(h)'
      BY <1>2, <2>1, <3>2, <3>3 DEF CopyMain, CopyGood, Good, Full
    <3>5. Row(h, "opening")'
      BY <1>2, <2>1, <3>4 DEF CopyMain, Row
    <3> QED BY <1>2, <1>d, <1>g, <1>s, <2>1, <2>2, <3>1, <3>5, DataOfOne DEF CopyMain
  <2> QED BY <2>3, <2>4
<1>3. CASE CopyLog(h)
  <2>1. /\ step[h] = "copying log" /\ Good(db) /\ Holds(db) = before[h]
        /\ db.main.there /\ copied[h].main = db.main
    BY <1>3, <1>f, <1>g DEF CopyLog, Row, Quiet
  <2>2. copied'[h].main = db.main /\ copied'[h].log = db.log
    BY <1>3, <1>a, <2>1 DEF CopyLog, DesktopDataTypeOK, Directory
  <2>3. Fits(copied'[h]) /\ Holds(copied'[h]) = Holds(db)
    BY <1>g, <2>2 DEF Fits, Holds
  <2>4. Good(db)' /\ Good(copied[h])'
    BY <1>3, <2>1, <2>3 DEF CopyLog, Good, Full
  <2>5. Saved(acknowledged, backups')
    BY <1>3, <1>g, <2>3 DEF CopyLog, Saved
  <2>6. Row(h, "opening")'
    BY <1>3, <2>1, <2>2, <2>3, <2>4, <2>5 DEF CopyLog, Row, CopyGood
  <2>7. Saved(acknowledged', {db'} \cup backups')
    BY <1>3, <2>5 DEF CopyLog, Saved
  <2> QED BY <1>3, <1>d, <1>g, <1>s, <2>1, <2>4, <2>6, <2>7, DataOfOne DEF CopyLog
<1>4. CASE OpenDatabase(h)
  <2>1. step[h] = "opening" /\ Good(db) /\ CopyGood(h)
    BY <1>4, <1>f, <1>g DEF OpenDatabase, Row, Quiet
  <2>2. Fits(db') /\ Holds(db') = Holds(db)
    BY <1>4, <1>a, <1>g, Opening DEF OpenDatabase
  <2>3. Good(db)'
    BY <1>4, <2>1, <2>2 DEF OpenDatabase, Good, Full
  <2>4. Row(h, "building")'
    BY <1>4, <2>1 DEF OpenDatabase, Row, CopyGood, Good
  <2>5. Saved(acknowledged', {db'} \cup backups')
    BY <1>4, <1>g, <2>2, SavedWithin DEF OpenDatabase
  <2> QED BY <1>4, <1>d, <1>s, <2>1, <2>2, <2>3, <2>4, <2>5, DataOfOne DEF OpenDatabase
<1>5. CASE Ready(h)
  <2>1. step[h] = "building" /\ Good(db)
    BY <1>5, <1>f DEF Ready, Quiet
  <2>2. Good(db)' /\ Row(h, "running")'
    BY <1>5, <2>1 DEF Ready, Good, Row
  <2> QED BY <1>5, <1>d, <1>g, <1>s, <2>1, <2>2, DataOfOne DEF Ready
<1>6. CASE Commit(h)
  <2>1. /\ step[h] \in {"building", "running"} /\ Good(db) /\ db.main.there /\ db.log.there
        /\ step' = [step EXCEPT ![h] = step[h]]
    BY <1>6, <1>f, <1>s DEF Commit, Quiet, Opened, Resting
  <2>2. /\ db'.main = db.main /\ db'.log.there = db.log.there /\ db'.log.on = db.log.on
        /\ db'.log.adds = db.log.adds \cup {committed + 1}
    <3>1. db.log \in [there : {TRUE}, on : Commits, adds : Commits]
      BY <1>a, <2>1, AbsentLog
    <3> QED BY <1>6, <1>a, <3>1 DEF Commit, Directory
  <2>3. Fits(db') /\ Holds(db') = Holds(db) \cup {committed + 1}
    BY <1>g, <2>1, <2>2 DEF Fits, Holds
  <2>4. acknowledged' \subseteq acknowledged \cup {committed + 1}
    BY <1>6 DEF Commit
  <2>5. Good(db)'
    BY <1>6, <2>1, <2>3, <2>4 DEF Commit, Good, Full
  <2>6. Saved(acknowledged', {db'} \cup backups')
    BY <1>6, <1>g, <2>3, <2>4 DEF Commit, Saved
  <2>7. Row(h, step[h])'
    <3>1. CASE step[h] = "building"
      BY <1>6, <1>g, <3>1 DEF Commit, Row, CopyGood, Good
    <3>2. CASE step[h] = "running"
      BY <1>6, <3>2 DEF Commit, Row
    <3> QED BY <2>1, <3>1, <3>2
  <2>8. step' = step /\ \A g \in Host \ {h} : step[g] = "down"
    BY <1>6, <1>d, <2>1 DEF Commit
  <2> QED BY <1>s, <2>1, <2>3, <2>5, <2>6, <2>7, <2>8, DataOfOne
<1>7. CASE Checkpoint(h)
  <2>1. /\ step[h] \in {"building", "running"} /\ Good(db)
        /\ step' = [step EXCEPT ![h] = step[h]]
    BY <1>7, <1>f, <1>s DEF Checkpoint, Quiet, Opened
  <2>2. Fits(db') /\ Holds(db') = Holds(db)
    BY <1>7, <1>a, Opening, Closing DEF Checkpoint
  <2>3. Good(db)'
    BY <1>7, <2>1, <2>2 DEF Checkpoint, Good, Full
  <2>4. Saved(acknowledged', {db'} \cup backups')
    BY <1>7, <1>g, <2>2, SavedWithin DEF Checkpoint
  <2>5. Row(h, step[h])'
    <3>1. CASE step[h] = "building"
      BY <1>7, <1>g, <3>1 DEF Checkpoint, Row, CopyGood, Good
    <3>2. CASE step[h] = "running"
      BY <1>7, <3>2 DEF Checkpoint, Row
    <3> QED BY <2>1, <3>1, <3>2
  <2>6. step' = step /\ \A g \in Host \ {h} : step[g] = "down"
    BY <1>7, <1>d, <2>1 DEF Checkpoint
  <2> QED BY <1>s, <2>1, <2>2, <2>3, <2>4, <2>5, <2>6, DataOfOne
<1>8. CASE Drain(h)
  <2>1. step[h] = "running" /\ Good(db)
    BY <1>8, <1>f DEF Drain, Quiet
  <2>2. Fits(db') /\ Holds(db') = Holds(db)
    BY <1>8, <1>a, <1>g, Closing DEF Drain
  <2>3. Good(db)' /\ Row(h, "closing")'
    BY <1>8, <2>1, <2>2 DEF Drain, Good, Full, Row
  <2>4. Saved(acknowledged', {db'} \cup backups')
    BY <1>8, <1>g, <2>2, SavedWithin DEF Drain
  <2> QED BY <1>8, <1>d, <1>s, <2>1, <2>2, <2>3, <2>4, DataOfOne DEF Drain
<1>9. CASE Unlock(h)
  <2>1. step[h] = "closing"
    BY <1>9 DEF Unlock
  <2>2. leftover' \/ Good(db)
    BY <1>9, <1>c, <1>e, <2>1 DEF Unlock
  <2>3. Good(db)' /\ Row(h, "down")'
    BY <1>9, <1>g, <2>2 DEF Unlock, Good, Full, Row
  <2> QED BY <1>9, <1>d, <1>g, <1>s, <2>1, <2>3, DataOfOne DEF Unlock
<1>10. CASE RemoveNew(h)
  <2>1. /\ step[h] \in {"removing main", "removing log"} /\ CopyGood(h) /\ ~copied[h].main.there
        /\ Good(db)
    BY <1>10, <1>f, <1>g DEF RemoveNew, RestoreStep, Row, Quiet
  <2>2. leftover \/ acknowledged \subseteq {}
    BY <2>1 DEF CopyGood, Good, Full, Holds
  <2>3. Fits(db')
    BY <1>10, <1>a, <1>c, <1>g DEF RemoveNew, Fits, Directory
  <2>4. Good(db)'
    <3>1. leftover' = leftover /\ acknowledged' = acknowledged
      BY <1>10 DEF RemoveNew, RestoreStep
    <3>2. acknowledged \subseteq {} => acknowledged \subseteq Holds(db')
      OBVIOUS
    <3> QED BY <2>2, <2>3, <3>1, <3>2 DEF Good, Full
  <2>5. CopyGood(h)'
    BY <1>10, <2>1 DEF RemoveNew, RestoreStep, CopyGood, Good
  <2>6. Saved(acknowledged', {db'} \cup backups')
    BY <1>10, <2>1 DEF RemoveNew, RestoreStep, CopyGood, Saved
  <2>7. PICK s \in {"removing log", "closing"} : step' = [step EXCEPT ![h] = s]
    BY <1>10 DEF RemoveNew, RestoreStep
  <2>8. Row(h, s)'
    BY <1>10, <2>1, <2>5, <2>7 DEF RemoveNew, RestoreStep, Row
  <2> QED BY <1>d, <1>s, <2>1, <2>3, <2>4, <2>6, <2>7, <2>8, DataOfOne
<1>11. CASE Stage(h)
  <2>1. step[h] = "staging" /\ Good(db) /\ Row(h, "staging")
    BY <1>11, <1>f, <1>g DEF Stage, RestoreStep, Quiet
  <2>2. Good(db)' /\ Row(h, "moving main")'
    BY <1>11, <2>1 DEF Stage, RestoreStep, Row, CopyGood, Good
  <2> QED BY <1>11, <1>d, <1>g, <1>s, <2>1, <2>2, DataOfOne DEF Stage, RestoreStep
<1>r. ASSUME /\ UNCHANGED <<lock, copied, backups, leftover, faults, past>>
              \/ UNCHANGED <<lock, copied, backups, leftover, committed, acknowledged, before>>,
             CopyGood(h)
      PROVE  /\ CopyGood(h)' /\ Saved(acknowledged', {db'} \cup backups')
             /\ acknowledged' = acknowledged /\ leftover' = leftover /\ copied' = copied
  <2>1. /\ copied' = copied /\ backups' = backups /\ leftover' = leftover
        /\ acknowledged' = acknowledged /\ before' = before
    BY <1>r
  <2>2. CopyGood(h)'
    BY <1>r, <2>1 DEF CopyGood, Good
  <2>3. Saved(acknowledged', {db'} \cup backups')
    BY <2>1, <2>2 DEF CopyGood, Saved
  <2> QED BY <2>1, <2>2, <2>3
<1>12. CASE MoveAside(h)
  <2>1. CASE step[h] = "moving main"
    <3>1. /\ CopyGood(h) /\ copied[h].main.there /\ db.main.there
          /\ aside[h] = Nothing /\ Good(db)
      BY <1>f, <1>g, <2>1 DEF Row, Quiet
    <3>2. /\ step' = [step EXCEPT ![h] = "moving log"]
          /\ UNCHANGED <<lock, copied, backups, leftover, faults, past>>
          /\ aside'[h].main = db.main /\ aside'[h].log = NoLog
          /\ db'.main = NoMain /\ db'.log = db.log
      <4>1. /\ aside' = [aside EXCEPT ![h].main = db.main]
            /\ db' = [db EXCEPT !.main = NoMain]
            /\ step' = [step EXCEPT ![h] = "moving log"]
            /\ UNCHANGED <<lock, copied, backups, leftover, faults, past>>
        BY <1>12, <2>1 DEF MoveAside, RestoreStep
      <4>2. aside'[h].main = db.main /\ aside'[h].log = aside[h].log
        BY <1>a, <4>1 DEF DesktopDataTypeOK, Directory
      <4>3. db'.main = NoMain /\ db'.log = db.log
        BY <1>a, <4>1 DEF Directory
      <4> QED BY <1>c, <3>1, <4>1, <4>2, <4>3
    <3>3. CopyGood(h)' /\ Saved(acknowledged', {db'} \cup backups')
      BY <1>r, <3>1, <3>2
    <3>4. Good(Pair(aside[h].main, db.log))'
      BY <3>1, <3>2 DEF Good, Full, Fits, Holds, Pair
    <3>5. Row(h, "moving log")' /\ Fits(db')
      BY <1>c, <3>1, <3>2, <3>3, <3>4 DEF Row, Fits
    <3> QED BY <1>d, <1>s, <2>1, <3>1, <3>2, <3>3, <3>5, DataOfOne
  <2>2. CASE step[h] = "moving log"
    <3>1. /\ CopyGood(h) /\ db.main = NoMain /\ aside[h].main.there
          /\ Good(Pair(aside[h].main, db.log))
      BY <1>g, <2>2 DEF Row
    <3>2. /\ step' = [step EXCEPT ![h] = "installing main"]
          /\ UNCHANGED <<lock, copied, backups, leftover, faults, past>>
          /\ aside'[h].main = aside[h].main /\ aside'[h].log = db.log
          /\ db'.main = NoMain /\ db'.log = NoLog
      <4>1. /\ aside' = [aside EXCEPT ![h].log = db.log]
            /\ db' = [db EXCEPT !.log = NoLog]
            /\ step' = [step EXCEPT ![h] = "installing main"]
            /\ UNCHANGED <<lock, copied, backups, leftover, faults, past>>
        BY <1>12, <2>2 DEF MoveAside, RestoreStep
      <4>2. aside'[h].main = aside[h].main /\ aside'[h].log = db.log
        BY <1>a, <4>1 DEF DesktopDataTypeOK, Directory
      <4>3. db'.main = db.main /\ db'.log = NoLog
        BY <1>a, <4>1 DEF Directory
      <4> QED BY <3>1, <4>1, <4>2, <4>3
    <3>3. CopyGood(h)' /\ Saved(acknowledged', {db'} \cup backups')
      BY <1>r, <3>1, <3>2
    <3>4. AsideGood(h)'
      BY <3>1, <3>2 DEF AsideGood, Good
    <3>5. Row(h, "installing main")' /\ Fits(db')
      BY <1>c, <3>2, <3>3, <3>4 DEF Row, Fits
    <3> QED BY <1>d, <1>s, <2>2, <3>1, <3>2, <3>3, <3>5, DataOfOne
  <2> QED BY <1>12, <2>1, <2>2 DEF MoveAside, RestoreStep
<1>13. CASE Install(h)
  <2>0. CopyGood(h) /\ AsideGood(h) /\ db.log = NoLog
    BY <1>13, <1>g DEF Install, RestoreStep, Row
  <2>1. /\ UNCHANGED <<lock, copied, backups, leftover, faults, past>>
        /\ aside' = aside
    BY <1>13 DEF Install, RestoreStep
  <2>2. CopyGood(h)' /\ AsideGood(h)' /\ Saved(acknowledged', {db'} \cup backups')
    BY <1>r, <2>0, <2>1 DEF AsideGood, Good
  <2>3. CASE step[h] = "installing main"
    <3>1. /\ step' = [step EXCEPT ![h] = "installing log"]
          /\ db'.main = copied[h].main /\ db'.log = NoLog
      BY <1>13, <1>a, <2>0, <2>3 DEF Install, RestoreStep, Directory
    <3>2. Row(h, "installing log")' /\ Fits(db')
      BY <1>c, <2>1, <2>2, <3>1 DEF Row, Fits
    <3> QED BY <1>d, <1>s, <2>1, <2>2, <2>3, <3>1, <3>2, DataOfOne DEF AsideGood
  <2>4. CASE step[h] = "installing log"
    <3>1. db.main = copied[h].main
      BY <1>g, <2>4 DEF Row
    <3>2. /\ step' = [step EXCEPT ![h] = "discarding"]
          /\ db'.main = copied[h].main /\ db'.log = copied[h].log
      BY <1>13, <1>a, <1>b, <2>0, <2>4, <3>1 DEF Install, RestoreStep, Directory
    <3>3. Row(h, "discarding")' /\ Fits(db')
      BY <2>0, <2>1, <2>2, <3>2 DEF Row, Fits, CopyGood, Good, Full
    <3> QED BY <1>d, <1>s, <2>1, <2>2, <2>4, <3>2, <3>3, DataOfOne DEF AsideGood
  <2> QED BY <1>13, <2>3, <2>4 DEF Install, RestoreStep
<1>14. CASE Discard(h)
  <2>1. /\ step[h] = "discarding" /\ CopyGood(h)
        /\ db.main = copied[h].main /\ db.log = copied[h].log
    BY <1>14, <1>g DEF Discard, RestoreStep, Row
  <2>2. Good(db)' /\ Row(h, "closing")'
    BY <1>14, <2>1 DEF Discard, RestoreStep, CopyGood, Good, Full, Fits, Holds, Row
  <2> QED BY <1>14, <1>d, <1>g, <1>s, <2>1, <2>2, DataOfOne DEF Discard, RestoreStep
<1>15. CASE Undo(h)
  <2>0. CopyGood(h) /\ step[h] # "down"
    BY <1>15, <1>g DEF Undo, RestoreStep, Row
  <2>1. UNCHANGED <<lock, copied, backups, leftover, faults, past>>
    BY <1>15 DEF Undo, RestoreStep
  <2>2. CopyGood(h)' /\ Saved(acknowledged', {db'} \cup backups')
    BY <1>r, <2>0, <2>1
  <2>3. CASE step[h] = "dropping main"
    <3>1. /\ AsideGood(h) /\ step' = [step EXCEPT ![h] = "dropping log"]
          /\ db'.main = NoMain /\ aside' = aside
      BY <1>15, <1>a, <1>g, <2>3 DEF Undo, RestoreStep, Row, Directory
    <3>2. AsideGood(h)'
      BY <2>1, <3>1 DEF AsideGood, Good
    <3>3. Row(h, "dropping log")' /\ Fits(db')
      BY <1>c, <2>2, <3>1, <3>2 DEF Row, Fits
    <3> QED BY <1>d, <1>s, <2>0, <2>2, <3>1, <3>2, <3>3, DataOfOne DEF AsideGood
  <2>4. CASE step[h] = "dropping log"
    <3>1. /\ AsideGood(h) /\ step' = [step EXCEPT ![h] = "returning main"]
          /\ db'.main = NoMain /\ db'.log = NoLog /\ aside' = aside
      BY <1>15, <1>a, <1>g, <2>4 DEF Undo, RestoreStep, Row, Directory
    <3>2. OldMain(h)' = aside[h].main /\ OldLog(h)' = aside[h].log
      BY <1>b, <3>1 DEF OldMain, OldLog, AsideGood
    <3>3. Good(Pair(OldMain(h), OldLog(h)))' /\ Fits(Pair(OldMain(h)', db'.log))
      BY <1>c, <2>1, <3>1, <3>2 DEF AsideGood, Good, Fits, Pair
    <3>4. Row(h, "returning main")' /\ Fits(db')
      BY <1>c, <2>2, <3>1, <3>3 DEF Row, Fits
    <3> QED BY <1>d, <1>s, <2>0, <2>2, <3>1, <3>4, DataOfOne DEF AsideGood
  <2>5. CASE step[h] = "returning main"
    <3>1. /\ step' = [step EXCEPT ![h] = "returning log"]
          /\ db'.main = OldMain(h) /\ db'.log = db.log
          /\ aside'[h].main = NoMain /\ aside'[h].log = aside[h].log
      <4>1. /\ aside' = [aside EXCEPT ![h].main = NoMain]
            /\ db' = [db EXCEPT !.main = OldMain(h)]
            /\ step' = [step EXCEPT ![h] = "returning log"]
        BY <1>15, <2>5 DEF Undo, RestoreStep, OldMain
      <4>2. aside'[h].main = NoMain /\ aside'[h].log = aside[h].log
        BY <1>a, <4>1 DEF DesktopDataTypeOK, Directory
      <4>3. db'.main = OldMain(h) /\ db'.log = db.log
        BY <1>a, <4>1 DEF Directory
      <4> QED BY <4>1, <4>2, <4>3
    <3>2. Good(Pair(OldMain(h), OldLog(h))) /\ Fits(Pair(OldMain(h), db.log))
      BY <1>g, <2>5 DEF Row
    <3>3. OldLog(h)' = OldLog(h)
      BY <3>1 DEF OldLog
    <3>4. Good(Pair(db.main, OldLog(h)))'
      BY <2>1, <3>1, <3>2, <3>3 DEF Good
    <3>5. Row(h, "returning log")' /\ Fits(db')
      BY <1>c, <2>2, <3>1, <3>2, <3>4 DEF Row, Fits, Pair
    <3>6. ~aside[h].log.there => Good(db)'
      BY <2>1, <3>1, <3>2 DEF OldLog, Good, Full, Fits, Holds, Pair
    <3>7. Good(db)' \/ aside'[h].log.there
      BY <3>1, <3>6
    <3> QED BY <1>d, <1>s, <2>0, <2>2, <3>1, <3>5, <3>7, DataOfOne
  <2>6. CASE step[h] = "returning log"
    <3>1. /\ step' = [step EXCEPT ![h] = "closing"]
          /\ db'.main = db.main /\ db'.log = OldLog(h)
      BY <1>15, <1>a, <2>6 DEF Undo, RestoreStep, OldLog, Directory
    <3>2. Good(Pair(db.main, OldLog(h)))
      BY <1>g, <2>6 DEF Row
    <3>3. Good(db)' /\ Row(h, "closing")'
      BY <2>1, <3>1, <3>2 DEF Good, Full, Fits, Holds, Pair, Row
    <3> QED BY <1>d, <1>s, <2>0, <2>2, <3>1, <3>3, DataOfOne DEF Good, Full
  <2> QED BY <1>15, <2>3, <2>4, <2>5, <2>6 DEF Undo, RestoreStep
<1>16. CASE CopyFails(h)
  <2>1. step[h] \in {"copying main", "copying log"} /\ Good(db)
    BY <1>16, <1>f DEF CopyFails, Quiet
  <2>2. backups \subseteq backups'
    BY <1>16 DEF CopyFails
  <2>3. Good(db)' /\ Row(h, "closing")'
    BY <1>16, <2>1 DEF CopyFails, Good, Row
  <2>4. Saved(acknowledged', {db'} \cup backups')
    BY <1>16, <1>g, <2>2 DEF CopyFails, Saved
  <2> QED BY <1>16, <1>d, <1>g, <1>s, <2>1, <2>3, <2>4, DataOfOne DEF CopyFails
<1>17. CASE OpenFails(h)
  <2>1. step[h] = "opening" /\ Good(db) /\ CopyGood(h) /\ copied[h].main.there = db.main.there
    BY <1>17, <1>f, <1>g DEF OpenFails, Row, Quiet
  <2>2. /\ Fits(db') /\ Holds(db') = Holds(db)
        /\ db.main.there => db'.main.there
    BY <1>17, <1>a, <1>g, Opening, Closing DEF OpenFails
  <2>3. Good(db)' /\ CopyGood(h)'
    BY <1>17, <2>1, <2>2 DEF OpenFails, CopyGood, Good, Full
  <2>4. Saved(acknowledged', {db'} \cup backups')
    BY <1>17, <1>g, <2>2, SavedWithin DEF OpenFails
  <2>5. PICK s \in {"staging", "removing main"} :
          s = RestoreFrom(h) /\ step' = [step EXCEPT ![h] = s]
    BY <1>17 DEF OpenFails, RestoreFrom
  <2>6. Row(h, s)'
    <3>1. copied' = copied
      BY <1>17 DEF OpenFails
    <3>2. CASE copied[h].main.there
      <4>1. s = "staging"
        BY <2>5, <3>2 DEF RestoreFrom
      <4> QED BY <2>1, <2>2, <2>3, <3>1, <3>2, <4>1 DEF Row
    <3>3. CASE ~copied[h].main.there
      <4>1. s = "removing main"
        BY <2>5, <3>3 DEF RestoreFrom
      <4> QED BY <2>3, <3>1, <3>3, <4>1 DEF Row
    <3> QED BY <3>2, <3>3
  <2> QED BY <1>d, <1>s, <2>1, <2>2, <2>3, <2>4, <2>5, <2>6, DataOfOne
<1>18. CASE BuildFails(h)
  <2>1. step[h] = "building" /\ Good(db) /\ CopyGood(h) /\ db.main.there
    BY <1>18, <1>f, <1>g DEF BuildFails, Row, Quiet, Resting, Opened
  <2>2. Fits(db') /\ Holds(db') = Holds(db) /\ db'.main.there
    BY <1>18, <1>a, <1>g, <2>1, Closing DEF BuildFails
  <2>3. Good(db)' /\ CopyGood(h)'
    BY <1>18, <2>1, <2>2 DEF BuildFails, CopyGood, Good, Full
  <2>4. Saved(acknowledged', {db'} \cup backups')
    BY <1>18, <1>g, <2>2, SavedWithin DEF BuildFails
  <2>5. PICK s \in {RestoreFrom(h), "closing"} : step' = [step EXCEPT ![h] = s]
    BY <1>18 DEF BuildFails
  <2>6. Row(h, s)' /\ s \in {"staging", "removing main", "closing"}
    <3>1. CASE copied[h].main.there /\ s = RestoreFrom(h)
      BY <1>18, <2>2, <2>3, <3>1 DEF BuildFails, RestoreFrom, Row
    <3>2. CASE ~copied[h].main.there /\ s = RestoreFrom(h)
      BY <1>18, <2>3, <3>2 DEF BuildFails, RestoreFrom, Row
    <3>3. CASE s = "closing"
      BY <3>3 DEF Row
    <3> QED BY <2>5, <3>1, <3>2, <3>3
  <2> QED BY <1>d, <1>s, <2>1, <2>2, <2>3, <2>4, <2>5, <2>6, DataOfOne
<1>19. CASE RestoreFails(h)
  <2>0. CopyGood(h) /\ step[h] \in Restoring /\ step[h] # "down"
    BY <1>19, <1>g DEF RestoreFails, Row, Restoring, Undoing
  <2>1. /\ UNCHANGED <<lock, copied, backups, leftover, committed, acknowledged, before>>
        /\ db' = db /\ aside' = aside
    BY <1>19 DEF RestoreFails
  <2>2. CopyGood(h)' /\ Saved(acknowledged', {db'} \cup backups')
    BY <1>r, <2>0, <2>1
  <2>3. Fits(db') /\ (Good(db)' \/ aside'[h].main.there \/ aside'[h].log.there)
    BY <1>e, <1>g, <2>0, <2>1 DEF Good
  <2>4. PICK s : s \in AfterFailure(step[h]) /\ step' = [step EXCEPT ![h] = s]
    BY <1>19 DEF RestoreFails
  <2>5. step[h] \notin {"dropping main", "dropping log"}
    BY <1>19 DEF RestoreFails
  <2>6. CASE step[h] = "moving main"
    <3>1. s = "returning main" /\ aside[h] = Nothing /\ Good(db)
      BY <1>f, <2>4, <2>6 DEF AfterFailure, Quiet
    <3>2. OldMain(h)' = db.main /\ OldLog(h)' = db.log
      BY <1>c, <2>1, <3>1 DEF OldMain, OldLog
    <3>3. Good(Pair(OldMain(h), OldLog(h)))' /\ Fits(Pair(OldMain(h)', db'.log))
      BY <1>g, <2>1, <3>1, <3>2 DEF Good, Full, Fits, Holds, Pair
    <3>4. Row(h, "returning main")'
      BY <2>2, <3>3 DEF Row
    <3> QED BY <1>d, <1>s, <2>0, <2>2, <2>3, <2>4, <3>1, <3>4, DataOfOne
  <2>7. CASE step[h] = "moving log"
    <3>1. /\ s = "returning main" /\ aside[h].main.there /\ ~aside[h].log.there
          /\ Good(Pair(aside[h].main, db.log))
      BY <1>g, <2>4, <2>7 DEF AfterFailure, Row
    <3>2. OldMain(h)' = aside[h].main /\ OldLog(h)' = db.log
      BY <2>1, <3>1 DEF OldMain, OldLog
    <3>3. Good(Pair(OldMain(h), OldLog(h)))' /\ Fits(Pair(OldMain(h)', db'.log))
      BY <2>1, <3>1, <3>2 DEF Good, Full
    <3>4. Row(h, "returning main")'
      BY <2>2, <3>3 DEF Row
    <3> QED BY <1>d, <1>s, <2>0, <2>2, <2>3, <2>4, <3>1, <3>4, DataOfOne
  <2>8. CASE step[h] \in {"installing main", "installing log", "discarding"}
    <3>1. s \in {"dropping main", "closing"} /\ AsideGood(h)
      BY <1>g, <2>4, <2>8 DEF AfterFailure, Row
    <3>2. AsideGood(h)'
      BY <2>1, <3>1 DEF AsideGood, Good
    <3>3. Row(h, s)'
      BY <2>2, <3>1, <3>2 DEF Row
    <3> QED BY <1>d, <1>s, <2>0, <2>2, <2>3, <2>4, <3>1, <3>3, DataOfOne
  <2>9. CASE step[h] \in {"staging", "removing main", "removing log", "returning main",
                          "returning log"}
    <3>1. s = "closing" /\ Row(h, "closing")'
      BY <2>4, <2>9 DEF AfterFailure, Row
    <3> QED BY <1>d, <1>s, <2>0, <2>2, <2>3, <2>4, <3>1, DataOfOne
  <2> QED BY <2>0, <2>5, <2>6, <2>7, <2>8, <2>9 DEF Restoring, Undoing
<1>20. CASE Kill(h)
  <2>1. step[h] # "down"
    BY <1>20 DEF Kill
  <2>2. leftover' \/ Good(db)
    BY <1>20, <1>c, <1>e, <2>1 DEF Kill
  <2>3. Good(db)' /\ Row(h, "down")'
    BY <1>20, <1>g, <2>2 DEF Kill, Good, Full, Row
  <2> QED BY <1>20, <1>d, <1>g, <1>s, <2>1, <2>3, DataOfOne DEF Kill
<1> QED BY <1>1, <1>2, <1>3, <1>4, <1>5, <1>6, <1>7, <1>8, <1>9, <1>10, <1>11,
           <1>12, <1>13, <1>14, <1>15, <1>16, <1>17, <1>18, <1>19, <1>20
        DEF StartStep, UseStep, Recover, Failure

-----------------------------------------------------------------------------
(* The invariant holds, and what follows from it. *)

(* Nothing is there before the first start, and nothing is missing.         *)
LEMMA DataFirst ==
  ASSUME Init
  PROVE  DesktopDataTypeOK /\ Resting /\ Data
<1>1. /\ Nothing.main = NoMain /\ Nothing.log = NoLog
      /\ NoMain.there = FALSE /\ NoLog.there = FALSE
  BY DEF Nothing, NoMain, NoLog
<1>2. {} \in Commits
  BY DEF Commits
<1>3. DesktopDataTypeOK
  <2>1. "down" \in Step /\ Nothing \in Directory
    BY FileTypes DEF Step
  <2>2. 0 \in 0 .. MaxCommits /\ 0 \in 0 .. MaxFaults
    BY BoundsAreNaturals
  <2>3. /\ step \in [Host -> Step] /\ copied \in [Host -> Directory]
        /\ aside \in [Host -> Directory] /\ before \in [Host -> Commits]
        /\ \A h \in Host : step[h] = "down"
    BY <1>2, <2>1 DEF Init
  <2> QED BY <2>1, <2>2, <2>3 DEF Init, DesktopDataTypeOK
<1>4. Resting
  BY DEF Init, Resting, Quiet, Opened
<1>5. Good(db)
  BY <1>1 DEF Init, Good, Full, Fits
<1>6. \A h \in Host : Row(h, step[h])
  BY DEF Init, Row
<1>7. Data
  BY <1>5, <1>6 DEF Init, Data, Good, Full, Saved
<1> QED BY <1>3, <1>4, <1>7

(* What could not be removed is remembered.                                 *)
LEMMA StuckStays ==
  ASSUME stuck, [Next]_vars
  PROVE  stuck'
<1>1. CASE UNCHANGED vars
  BY <1>1 DEF vars
<1>2. CASE Next
  <2> SUFFICES ASSUME NEW h \in Host,
                      StartStep(h) \/ UseStep(h) \/ Recover(h) \/ Failure(h)
               PROVE  stuck'
    BY <1>2 DEF Next
  <2>1. CASE StartStep(h)
    BY <2>1 DEF StartStep, Launch, CopyMain, CopyLog, OpenDatabase, Ready, past
  <2>2. CASE UseStep(h)
    BY <2>2 DEF UseStep, Commit, Checkpoint, Drain, Unlock, past
  <2>3. CASE Recover(h)
    BY <2>3 DEF Recover, RemoveNew, Stage, MoveAside, Install, Discard, Undo, RestoreStep,
       past
  <2>4. CASE Failure(h)
    BY <2>4 DEF Failure, CopyFails, OpenFails, BuildFails, RestoreFails, Kill, past
  <2> QED BY <2>1, <2>2, <2>3, <2>4
<1> QED BY <1>1, <1>2

(* A step that changes nothing keeps the table.                             *)
LEMMA DataUnchanged ==
  ASSUME Data, UNCHANGED vars
  PROVE  Data'
<1>0. Good(db)' = Good(db)
  BY DEF vars, Good
<1>1. \A g \in Host : Good(db)' = Good(db) /\ CopyGood(g)' = CopyGood(g)
  BY DEF vars, Good, CopyGood
<1>2. \A g \in Host : AsideGood(g)' = AsideGood(g)
  BY DEF vars, AsideGood, Good
<1>3. \A g \in Host : OldMain(g)' = OldMain(g) /\ OldLog(g)' = OldLog(g)
  BY DEF vars, OldMain, OldLog
<1>4. ASSUME NEW g \in Host
      PROVE  Row(g, step[g])'
  <2>1. Row(g, step[g])
    BY DEF Data
  <2>2. step' = step /\ db' = db /\ copied' = copied /\ aside' = aside /\ before' = before
        /\ acknowledged' = acknowledged /\ leftover' = leftover
    BY DEF vars
  <2>3. PICK s : s = step[g]
    OBVIOUS
  <2>4. Good(Pair(aside[g].main, db.log))' = Good(Pair(aside[g].main, db.log))
    BY <2>2 DEF Good
  <2>5. Good(Pair(OldMain(g), OldLog(g)))' = Good(Pair(OldMain(g), OldLog(g)))
    BY <1>3, <2>2 DEF Good
  <2>6. Good(Pair(db.main, OldLog(g)))' = Good(Pair(db.main, OldLog(g)))
    BY <1>3, <2>2 DEF Good
  <2>7. Row(g, s)
    BY <2>1, <2>3
  <2>8. Row(g, s)'
    BY <1>1, <1>2, <1>3, <2>2, <2>4, <2>5, <2>6, <2>7 DEF Row
  <2>9. step'[g] = s
    BY <2>2, <2>3
  <2> QED BY <2>8, <2>9
<1>5. Fits(db') /\ Saved(acknowledged', {db'} \cup backups')
  BY DEF vars, Data
<1>6. Good(db)' \/ \E h \in Host : aside'[h].main.there \/ aside'[h].log.there
  BY <1>0 DEF vars, Data
<1>7. \A g \in Host : Row(g, step[g])'
  BY <1>4
<1> QED BY <1>5, <1>6, <1>7 DEF Data

(* The invariant holds in every reachable state.                            *)
LEMMA Invariance == Spec => []Inv
<1>1. Init => Inv
  BY DataFirst DEF Inv
<1>2. Inv /\ [Next]_vars => Inv'
  <2> SUFFICES ASSUME Inv, [Next]_vars
               PROVE  Inv'
    OBVIOUS
  <2>1. DesktopDataTypeOK' /\ Resting'
    BY RestingKept DEF Inv
  <2>2. CASE stuck'
    BY <2>1, <2>2 DEF Inv
  <2>3. CASE ~stuck'
    <3>1. Data
      BY <2>3, StuckStays DEF Inv
    <3>2. CASE UNCHANGED vars
      BY <2>1, <3>1, <3>2, DataUnchanged DEF Inv
    <3>3. CASE Next
      <4>1. PICK h \in Host : StartStep(h) \/ UseStep(h) \/ Recover(h) \/ Failure(h)
        BY <3>3 DEF Next
      <4>2. Data'
        BY <2>3, <3>1, <4>1, DataKept DEF Inv
      <4> QED BY <2>1, <4>2 DEF Inv
    <3> QED BY <3>2, <3>3
  <2> QED BY <2>2, <2>3
<1> QED BY <1>1, <1>2, PTL DEF Spec

(* Every variable has its type in every reachable state, and a process      *)
(* works on the files only while it holds the instance lock.                *)
THEOREM DesktopTyping == Spec => []DesktopDataTypeOK
<1>1. Inv => DesktopDataTypeOK
  BY DEF Inv
<1> QED BY <1>1, Invariance, PTL

(* Every acknowledged commit is in the database or in a backup that can be  *)
(* read, wherever BackupDatabase, a migration or Restore was interrupted.   *)
THEOREM NothingIsLost == Spec => []NothingLost
<1>1. Inv => NothingLost
  BY DEF Inv, Data, Saved, NothingLost
<1> QED BY <1>1, Invariance, PTL

(* At no point of Restore is a main file beside a log of another one, so a  *)
(* start that follows a kill never reads such a pair.                       *)
THEOREM FilesNeverMixed == Spec => []NeverMixed
<1>1. Inv => NeverMixed
  BY DEF Inv, Data, NeverMixed
<1> QED BY <1>1, Invariance, PTL

(* When Restore has installed the copy and may discard what it moved aside, *)
(* the database holds what it held before the failed start.                 *)
THEOREM FailedStartsAreUndone == Spec => []StartIsUndone
<1>1. ASSUME Inv
      PROVE  StartIsUndone
  <2> SUFFICES ASSUME NEW h \in Host, step[h] = "discarding", ~stuck
               PROVE  Holds(db) = before[h]
    BY DEF StartIsUndone
  <2>1. Row(h, "discarding")
    BY <1>1 DEF Inv, Data
  <2>2. /\ Holds(copied[h]) = before[h]
        /\ db.main = copied[h].main /\ db.log = copied[h].log
    BY <2>1 DEF Row, CopyGood
  <2> QED BY <2>2 DEF Holds
<1> QED BY <1>1, Invariance, PTL

(* A running program lacks something acknowledged only when an interrupted  *)
(* recovery left the directory behind to which it had moved the files.      *)
THEOREM MissingDataIsMarked == Spec => []MissingIsMarked
<1>1. ASSUME Inv
      PROVE  MissingIsMarked
  <2> SUFFICES ASSUME NEW h \in Host, step[h] = "running", ~stuck, ~leftover
               PROVE  acknowledged \subseteq Holds(db)
    BY DEF MissingIsMarked
  <2>1. \A g \in Host : aside[g] = Nothing
    BY <1>1, Alone DEF Inv, Resting, Quiet
  <2>2. Nothing.main.there = FALSE /\ Nothing.log.there = FALSE
    BY DEF Nothing, NoMain, NoLog
  <2>3. Good(db)
    BY <1>1, <2>1, <2>2 DEF Inv, Data
  <2> QED BY <2>3 DEF Good, Full
<1> QED BY <1>1, Invariance, PTL
=============================================================================
