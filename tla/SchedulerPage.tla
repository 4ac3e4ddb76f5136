--------------------------- MODULE SchedulerPage ---------------------------
(***************************************************************************)
(* The controller behind the scheduler page                                *)
(* (frontend/packages/web-domains/scheduler/src/scheduler-controller.ts).  *)
(*                                                                         *)
(* Three projections are loaded and hidden separately: the task types, the *)
(* definitions and the executions; the last two are lists (ListController).*)
(* Each has a sequence of its own, which a failed command advances for all *)
(* three.  A load keeps whether it is the newest of its list (`newest`)    *)
(* and whether it still has the controller's sequence (`held`); the task   *)
(* types are no list: for them the two are one.                            *)
(*                                                                         *)
(* One command runs at a time.  After its write it refreshes the           *)
(* definitions; until a refresh has returned the repair stays owed and no  *)
(* other command starts.  The page selects no rows.                        *)
(***************************************************************************)
EXTENDS ListController

CONSTANTS MaxLoads,      \* bound: loads users start
          MaxFailures    \* bound: answers that fail, rights taken away

VARIABLES lists,     \* the two lists, and the task types as a list of one query
          loads,     \* loads under way
          shown,     \* `taskTypesVisible`, `definitionsVisible`, `executionsVisible`
          job,       \* the command or repair under way
          pending,   \* `pendingRepairs`: at most one, since it keeps commands away
          can,       \* `capabilities`; empty when the scope is not `all`
          granted,   \* server: the rights of the account
          written,   \* server: definitions written so far, plus one
          loadsLeft, failuresLeft,
          settled    \* history: the newest write that was acknowledged (acked);
                     \* per projection, whether its rows were asked for after
                     \* the last failure that hid it (fresh) and the query of
                     \* the newest load unless it failed (asked)

schedulerPageVars == <<lists, loads, shown, job, pending, can, granted, written,
                       loadsLeft, failuresLeft, settled>>
serverVars == <<granted, written>>
boundVars  == <<loadsLeft, failuresLeft>>

Projection == {"taskTypes", "definitions", "executions"}
Intent  == {"write", "delete"}
Right   == {"definitions", "executions"} \cup Intent
ReadRight(x) == IF x = "executions" THEN "executions" ELSE "definitions"
Status  == {"sent", "ok", "denied", "unavailable", "conflict"}
Hiding  == {"denied", "unavailable"}

Load == [of : Projection, query : Query, clears : BOOLEAN, owner : {"user", "job"},
         newest : BOOLEAN, held : BOOLEAN, fresh : BOOLEAN,
         status : Status, version : 0 .. MaxWrites + 1]
Job  == [kind : Intent \cup {"none", "repair"},
         step : {"none", "confirm", "write", "refresh"},
         status : Status, version : 0 .. MaxWrites + 1]
NoJob == [kind |-> "none", step |-> "none", status |-> "sent", version |-> 0]
Busy  == job # NoJob

Init ==
  /\ lists = [x \in Projection |-> EmptyList]
  /\ loads = {}
  /\ shown = [x \in Projection |-> FALSE]
  /\ job = NoJob
  /\ pending = FALSE
  /\ can \in {Right, {"definitions", "executions"}}
  /\ granted = can
  /\ written = 1
  /\ loadsLeft = MaxLoads
  /\ failuresLeft = MaxFailures
  /\ settled = [acked |-> 0, fresh |-> [x \in Projection |-> TRUE],
                asked |-> [x \in Projection |-> {}]]

-----------------------------------------------------------------------------
NewLoad(x, query, clears, owner) ==
  [of |-> x, query |-> query, clears |-> clears, owner |-> owner, newest |-> TRUE,
   held |-> TRUE, fresh |-> TRUE, status |-> "sent", version |-> 0]

Superseded(x, ls) ==
  {IF l.of = x THEN [l EXCEPT !.newest = FALSE, !.held = FALSE] ELSE l : l \in ls}
OutdatedOf(x, ls) == {IF l.of = x THEN [l EXCEPT !.fresh = FALSE] ELSE l : l \in ls}

(* `canManage` refuses: what the right lets see is hidden, and everything   *)
(* when the account has no scope, which here is an account without rights.  *)
Hidden(right) == [x \in Projection |-> shown[x] /\ can # {} /\ ReadRight(x) # right]

(* A load of projection x up to its request. *)
Loading(x, query, clears, owner) ==
  IF ReadRight(x) \in can
  THEN /\ loads' = Superseded(x, loads) \cup {NewLoad(x, query, clears, owner)}
       /\ lists' = [lists EXCEPT ![x] = Begun(@)]
       /\ shown' = shown
  ELSE /\ loads' = OutdatedOf(x, Superseded(x, loads))
       /\ lists' = [lists EXCEPT ![x] = Refused(@)]
       /\ shown' = Hidden(ReadRight(x))

Noting(x, query, acked) ==
  settled' = [acked |-> acked,
              fresh |-> [settled.fresh EXCEPT ![x] = @ /\ ReadRight(x) \in can],
              asked |-> [settled.asked EXCEPT
                           ![x] = IF ReadRight(x) \in can THEN {query} ELSE {}]]

(* A command failed and the page is hidden: all three sequences advance. *)
HiddenOnly(ls) == {[l EXCEPT !.fresh = FALSE] : l \in ls}   \* mutant: sequences stay
FailedOver(ls) ==
  {[l EXCEPT !.fresh = FALSE, !.held = FALSE, !.newest = @ /\ l.of # "taskTypes"] : l \in ls}

FailCommand(status) ==
  IF status \in Hiding
  THEN /\ loads' = FailedOver(loads)
       /\ shown' = [x \in Projection |-> FALSE]
       /\ settled' = [settled EXCEPT !.fresh = [x \in Projection |-> FALSE],
                                     !.asked["taskTypes"] = {}]
  ELSE UNCHANGED <<loads, shown, settled>>

-----------------------------------------------------------------------------
(* The user opens a view, searches, turns pages, resets or refreshes; task  *)
(* types are only refreshed.                                                *)
Ask(x, query, clears) ==
  /\ loadsLeft > 0
  /\ x = "taskTypes" => query = FirstQuery /\ ~clears
  /\ Loading(x, query, clears, "user")
  /\ Noting(x, query, settled.acked)
  /\ loadsLeft' = loadsLeft - 1
  /\ UNCHANGED <<job, pending, can, serverVars, failuresLeft>>

AskSomething(x) ==
  \/ Ask(x, Refreshed(lists[x]), FALSE)
  \/ \E f \in Filter : Ask(x, Searched(f), FALSE)
  \/ \E p \in Page : Ask(x, Turned(lists[x], p), FALSE)
  \/ Ask(x, FirstQuery, TRUE)

(* A search of definitions that `validate` refuses. *)
AskInvalid ==
  /\ loadsLeft > 0
  /\ loads' = Superseded("definitions", loads)
  /\ lists' = [lists EXCEPT !["definitions"] = Refused(@)]
  /\ settled' = [settled EXCEPT !.asked["definitions"] = {}]
  /\ loadsLeft' = loadsLeft - 1
  /\ UNCHANGED <<shown, job, pending, can, serverVars, failuresLeft>>

ServeLoad(l) ==
  /\ l \in loads
  /\ l.status = "sent"
  /\ \/ /\ loads' = (loads \ {l}) \cup
             {IF ReadRight(l.of) \in granted
              THEN [l EXCEPT !.status = "ok", !.version = written]
              ELSE [l EXCEPT !.status = "denied"]}
        /\ failuresLeft' = failuresLeft
     \/ /\ failuresLeft > 0
        /\ loads' = (loads \ {l}) \cup {[l EXCEPT !.status = "unavailable"]}
        /\ failuresLeft' = failuresLeft - 1
  /\ UNCHANGED <<lists, shown, job, pending, can, serverVars, loadsLeft, settled>>

(* The answer of a load, and what follows when a command or a repair waited *)
(* for it: `refresh` of a list returns in good order also when a newer load *)
(* has replaced it, and then the repair is no longer owed.                  *)
AnswerLoad(l) ==
  LET x    == l.of
      good == l.status = "ok"
      rows == [query |-> l.query, version |-> l.version]
  IN
  /\ l \in loads
  /\ l.status # "sent"
  /\ shown' = IF l.held THEN [shown EXCEPT ![x] = good] ELSE shown
  /\ loads' = IF l.held /\ ~good THEN OutdatedOf(x, loads \ {l}) ELSE loads \ {l}
  /\ lists' = [lists EXCEPT ![x] = IF good THEN Shown(@, l, rows) ELSE Dropped(@, l)]
  /\ settled' = [settled EXCEPT
       !.fresh[x] = IF l.held /\ ~good THEN FALSE ELSE IF good /\ l.newest THEN l.fresh ELSE @,
       !.asked[x] = IF l.newest /\ ~good THEN {} ELSE @]
  /\ pending' = (pending /\ ~(l.owner = "job" /\ (good \/ ~l.newest)))
  /\ job' = IF l.owner = "job" THEN NoJob ELSE job
  /\ UNCHANGED <<can, serverVars, boundVars>>

-----------------------------------------------------------------------------
(* `command` up to its first await: create, update, run, enable and stop    *)
(* need `write`, deletion asks first.                                       *)
Start(kind) ==
  /\ ~Busy /\ ~pending
  /\ written <= MaxWrites
  /\ IF kind \in can
     THEN /\ job' = [NoJob EXCEPT !.kind = kind,
                                  !.step = IF kind = "delete" THEN "confirm" ELSE "write"]
          /\ shown' = shown
     ELSE /\ job' = job
          /\ shown' = Hidden(kind)
  /\ UNCHANGED <<lists, loads, pending, can, serverVars, boundVars, settled>>

(* The user has answered whether to delete; the right is looked at again. *)
Confirm ==
  /\ job.step = "confirm"
  /\ \/ /\ job' = NoJob
        /\ shown' = shown
     \/ IF job.kind \in can
        THEN /\ job' = [job EXCEPT !.step = "write"]
             /\ shown' = shown
        ELSE /\ job' = NoJob
             /\ shown' = Hidden(job.kind)
  /\ UNCHANGED <<lists, loads, pending, can, serverVars, boundVars, settled>>

ServeJob ==
  /\ job.step = "write" /\ job.status = "sent"
  /\ \/ /\ job.kind \in granted
        /\ written' = written + 1
        /\ \/ job' = [job EXCEPT !.status = "ok", !.version = written + 1] /\ failuresLeft' = failuresLeft
           \/ /\ failuresLeft > 0
              /\ failuresLeft' = failuresLeft - 1
              /\ job' = [job EXCEPT !.status = "unavailable"]
     \/ /\ job.kind \notin granted
        /\ job' = [job EXCEPT !.status = "denied"]
        /\ UNCHANGED <<written, failuresLeft>>
     \/ /\ failuresLeft > 0
        /\ failuresLeft' = failuresLeft - 1
        /\ job' = [job EXCEPT !.status = "conflict"]
        /\ written' = written
  /\ UNCHANGED <<lists, loads, shown, pending, can, granted, loadsLeft, settled>>

(* The answer of the write. *)
FailJob ==
  /\ job.step = "write" /\ job.status \in {"denied", "unavailable", "conflict"}
  /\ job' = NoJob
  /\ FailCommand(job.status)
  /\ UNCHANGED <<lists, pending, can, serverVars, boundVars>>

BeginRefresh(kind, acked) ==
  /\ Loading("definitions", Refreshed(lists["definitions"]), FALSE, "job")
  /\ Noting("definitions", Refreshed(lists["definitions"]), acked)
  /\ job' = IF "definitions" \in can
            THEN [NoJob EXCEPT !.kind = kind, !.step = "refresh"] ELSE NoJob

FinishJob ==
  /\ job.step = "write" /\ job.status = "ok"
  /\ pending' = TRUE
  /\ BeginRefresh(job.kind, job.version)
  /\ UNCHANGED <<can, serverVars, boundVars>>

(* `repairProjection` *)
Repair ==
  /\ ~Busy /\ pending
  /\ loadsLeft > 0
  /\ loadsLeft' = loadsLeft - 1
  /\ BeginRefresh("repair", settled.acked)
  /\ UNCHANGED <<pending, can, serverVars, failuresLeft>>

(* An administrator takes a right away, or the shell learns of it. *)
Withdraw(right) ==
  /\ right \in granted
  /\ failuresLeft > 0
  /\ failuresLeft' = failuresLeft - 1
  /\ granted' = granted \ {right}
  /\ UNCHANGED <<lists, loads, shown, job, pending, can, written, loadsLeft, settled>>

Learn ==
  /\ can # granted
  /\ can' = granted
  /\ UNCHANGED <<lists, loads, shown, job, pending, serverVars, boundVars, settled>>

Next ==
  \/ \E x \in Projection : AskSomething(x)
  \/ AskInvalid
  \/ \E l \in loads : ServeLoad(l)
  \/ \E l \in loads : AnswerLoad(l)
  \/ \E kind \in Intent : Start(kind)
  \/ Confirm
  \/ ServeJob
  \/ FailJob
  \/ FinishJob
  \/ Repair
  \/ \E right \in Right : Withdraw(right)
  \/ Learn

-----------------------------------------------------------------------------
(* Among the types: a refresh is under way exactly while a load answers to it. *)
TypeOK ==
  /\ lists \in [Projection -> List]
  /\ loads \subseteq Load
  /\ shown \in [Projection -> BOOLEAN]
  /\ job \in Job
  /\ job.step = "refresh" <=> \E l \in loads : l.owner = "job"
  /\ pending \in BOOLEAN
  /\ can \subseteq Right /\ granted \subseteq Right
  /\ written \in 1 .. MaxWrites + 1
  /\ loadsLeft \in 0 .. MaxLoads /\ failuresLeft \in 0 .. MaxFailures
  /\ settled \in [acked : 0 .. MaxWrites + 1, fresh : [Projection -> BOOLEAN],
                  asked : [Projection -> SUBSET Query]]

(* The controller fails closed in each of its three views: once a command   *)
(* or a load failed because the session, the right or the service is gone,  *)
(* only a load begun afterwards shows rows again, whatever older loads      *)
(* still answer.                                                            *)
FailsClosed == \A x \in Projection : shown[x] => settled.fresh[x]

(* Whatever order the answers come in, a view at rest shows what was asked  *)
(* for last.                                                                *)
NewestIsShown ==
  \A x \in Projection : ~lists[x].loading =>
    \A query \in settled.asked[x] : lists[x].query = query /\ lists[x].rows.query = query
=============================================================================
