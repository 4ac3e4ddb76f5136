----------------------------- MODULE FilesPage -----------------------------
(***************************************************************************)
(* The controller behind the files page                                    *)
(* (frontend/packages/web-domains/files/src/files-controller.ts).          *)
(*                                                                         *)
(* It wraps the list of files so that nothing is shown unless the newest   *)
(* load allowed it (`projectionVisible`), runs one upload, removal or      *)
(* download at a time, and after a write insists on a load that shows it   *)
(* (`pending`).  Its own `requestSequence` differs from the one of the     *)
(* list: a failed operation advances the former only.  A load keeps which  *)
(* of the two are still its own as `newest` (list) and `held` (controller).*)
(*                                                                         *)
(* Answers of the server come in any order: a request is sent, served and  *)
(* answered in three steps.  A failed answer has one of the categories the *)
(* controller tells apart: denied (relogin, forbidden), unavailable, or    *)
(* conflict, which stands for those that leave the rows shown (validation, *)
(* content, not-found, conflict, quota, capacity).                         *)
(***************************************************************************)
EXTENDS ListController

CONSTANTS MaxLoads,      \* bound: loads users start
          MaxFailures    \* bound: answers that fail, rights taken away

VARIABLES list,      \* the list (ListController)
          loads,     \* its loads under way
          shown,     \* `projectionVisible`
          job,       \* the upload, removal, download or repair under way
          pending,   \* `pending`
          can,       \* `capabilities`: the rights the shell knows of
          granted,   \* server: the rights the account has
          written,   \* server: writes so far, plus one
          loadsLeft, failuresLeft,
          settled    \* history: the newest write the controller knows of
                     \* (acked), whether the rows of the list were asked for
                     \* after the last failure that hid them (fresh), and the
                     \* query of the newest load, unless it failed (asked)

filesPageVars == <<list, loads, shown, job, pending, can, granted, written,
                   loadsLeft, failuresLeft, settled>>
serverVars == <<granted, written>>
boundVars  == <<loadsLeft, failuresLeft>>

Right   == {"read", "write", "delete"}
Intent  == {"upload", "remove"}
Status  == {"sent", "ok", "denied", "unavailable", "conflict"}
Hiding  == {"denied", "unavailable"}

Load == [query : Query, clears : BOOLEAN, owner : {"user", "job"},
         newest : BOOLEAN, held : BOOLEAN, fresh : BOOLEAN,
         status : Status, version : 0 .. MaxWrites + 1]
Job  == [kind : Intent \cup {"none", "download", "repair"},
         step : {"none", "policy", "confirm", "write", "refresh"},
         status : Status, version : 0 .. MaxWrites + 1,
         advanced : BOOLEAN]      \* `projectionGeneration` moved since `refresh` began
NoJob == [kind |-> "none", step |-> "none", status |-> "sent", version |-> 0,
          advanced |-> FALSE]

Init ==
  /\ list = EmptyList
  /\ loads = {}
  /\ shown = FALSE
  /\ job = NoJob
  /\ pending = "none"
  /\ can \in {Right, {"read"}}
  /\ granted = can
  /\ written = 1
  /\ loadsLeft = MaxLoads
  /\ failuresLeft = MaxFailures
  /\ settled = [acked |-> 0, fresh |-> TRUE, asked |-> {}]

-----------------------------------------------------------------------------
NewLoad(query, clears, owner) ==
  [query |-> query, clears |-> clears, owner |-> owner, newest |-> TRUE,
   held |-> TRUE, fresh |-> TRUE, status |-> "sent", version |-> 0]

(* `++requestSequence`: no load under way is the controller's any more. *)
Disowned(ls) == {[l EXCEPT !.held = FALSE] : l \in ls}
(* Whatever hides the rows makes the loads begun before it old news. *)
Outdated(ls) == {[l EXCEPT !.fresh = FALSE] : l \in ls}

(* A call of the list: `execute` and `load` up to the request. *)
Loading(query, clears, owner, ls) ==
  IF "read" \in can
  THEN /\ loads' = Disowned(Replaced(ls)) \cup {NewLoad(query, clears, owner)}
       /\ shown' = shown
  ELSE /\ loads' = Outdated(Disowned(Replaced(ls)))
       /\ shown' = FALSE

LoadingList(l) == IF "read" \in can THEN Begun(l) ELSE [Refused(l) EXCEPT !.selected = FALSE]
LoadingHistory(query) ==
  settled' = [settled EXCEPT !.fresh = @ /\ "read" \in can,
                             !.asked = IF "read" \in can THEN {query} ELSE {}]

(* `failOperation` *)
OutdatedOnly(ls) == Outdated(ls)    \* mutant: without `requestSequence += 1`
FailedOver(ls) == Outdated(Disowned(ls))

FailOperation(status) ==
  IF status \in Hiding
  THEN /\ loads' = FailedOver(loads)
       /\ shown' = FALSE
       /\ list' = [list EXCEPT !.selected = FALSE]
       /\ settled' = [settled EXCEPT !.fresh = FALSE]
  ELSE UNCHANGED <<loads, shown, list, settled>>

(* `refresh`: what a write or a repair does last. *)
BeginRefresh(kind, l, ls) ==
  /\ Loading(Refreshed(l), FALSE, "job", ls)
  /\ list' = LoadingList(l)
  /\ job' = IF "read" \in can
            THEN [NoJob EXCEPT !.kind = kind, !.step = "refresh"] ELSE NoJob

(* ... and after its await: `completed` only when the rows are shown and a *)
(* load has shown them since.                                              *)
MadeGoodEarly(visible, advanced) == visible   \* mutant: any rows will do
MadeGood(visible, advanced) == visible /\ advanced

-----------------------------------------------------------------------------
(* The user searches, sorts, turns or resizes pages, resets, refreshes. *)
Ask(query, clears) ==
  /\ loadsLeft > 0
  /\ Loading(query, clears, "user", loads)
  /\ list' = LoadingList(list)
  /\ LoadingHistory(query)
  /\ loadsLeft' = loadsLeft - 1
  /\ UNCHANGED <<job, pending, can, serverVars, failuresLeft>>

AskSomething ==
  \/ Ask(Refreshed(list), FALSE)
  \/ \E f \in Filter : Ask(Searched(f), FALSE)
  \/ \E p \in Page : Ask(Turned(list, p), FALSE)
  \/ Ask(FirstQuery, TRUE)

(* A search that `validate` refuses. *)
AskInvalid ==
  /\ loadsLeft > 0
  /\ loads' = Disowned(Replaced(loads))
  /\ list' = Refused(list)
  /\ loadsLeft' = loadsLeft - 1
  /\ settled' = [settled EXCEPT !.asked = {}]
  /\ UNCHANGED <<shown, job, pending, can, serverVars, failuresLeft>>

Select ==
  /\ shown /\ "read" \in can
  /\ list' = [list EXCEPT !.selected = TRUE]
  /\ UNCHANGED <<loads, shown, job, pending, can, serverVars, boundVars, settled>>

(* The server answers a load. *)
ServeLoad(l) ==
  /\ l \in loads
  /\ l.status = "sent"
  /\ \/ /\ loads' = (loads \ {l}) \cup
             {IF "read" \in granted THEN [l EXCEPT !.status = "ok", !.version = written]
              ELSE [l EXCEPT !.status = "denied"]}
        /\ failuresLeft' = failuresLeft
     \/ /\ failuresLeft > 0
        /\ loads' = (loads \ {l}) \cup {[l EXCEPT !.status = "unavailable"]}
        /\ failuresLeft' = failuresLeft - 1
  /\ UNCHANGED <<list, shown, job, pending, can, serverVars, loadsLeft, settled>>

(* The answer of a load: `load` and `execute` after their awaits, and      *)
(* `refresh` when it is the one that waited for it.                        *)
AnswerLoad(l) ==
  LET good    == l.status = "ok"
      visible == IF l.held THEN good ELSE shown
      ended   == l.owner = "job"
      moved   == [job EXCEPT !.advanced = @ \/ (good /\ l.held /\ job.step = "refresh")]
  IN
  /\ l \in loads
  /\ l.status # "sent"
  /\ shown' = visible
  /\ loads' = IF l.held /\ ~good THEN Outdated(loads \ {l}) ELSE loads \ {l}
  /\ LET after == IF good
                  THEN Shown(list, l, [query |-> l.query, version |-> l.version])
                  ELSE Dropped(list, l)
     IN list' = [after EXCEPT !.selected = @ /\ (good \/ ~l.held)]
  /\ settled' = [settled EXCEPT !.fresh = IF l.held /\ ~good THEN FALSE
                                          ELSE IF good /\ l.newest THEN l.fresh ELSE @,
                                !.asked = IF l.newest /\ ~good THEN {} ELSE @]
  /\ pending' = IF ended /\ (good \/ ~l.newest) /\ MadeGood(visible, moved.advanced)
                THEN "none" ELSE pending
  /\ job' = IF ended THEN NoJob ELSE moved
  /\ UNCHANGED <<can, serverVars, boundVars>>

-----------------------------------------------------------------------------
Busy == job # NoJob

(* `upload`, `remove` and `download` up to their first await. *)
Start(kind, right, step) ==
  /\ ~Busy
  /\ pending = "none"
  /\ kind = "remove" => list.selected
  /\ written <= MaxWrites
  /\ IF shown /\ right \in can
     THEN /\ job' = [NoJob EXCEPT !.kind = kind, !.step = step]
          /\ UNCHANGED <<loads, shown, list, settled>>
     ELSE /\ job' = job
          /\ FailOperation("denied")
  /\ UNCHANGED <<pending, can, serverVars, boundVars>>

StartSomething ==
  \/ Start("upload", "write", "policy")
  \/ Start("remove", "delete", "confirm")

StartedAlongside ==     \* mutant: does not look at `busy`
  /\ job' = [NoJob EXCEPT !.kind = "download", !.step = "write"]
  /\ UNCHANGED <<list, loads, shown, pending, can, serverVars, boundVars, settled>>

StartDownload ==
  /\ ~Busy
  /\ IF shown /\ "read" \in can
     THEN /\ job' = [NoJob EXCEPT !.kind = "download", !.step = "write"]
          /\ UNCHANGED <<loads, shown, list, settled>>
     ELSE /\ job' = job
          /\ FailOperation("denied")
  /\ UNCHANGED <<pending, can, serverVars, boundVars>>

(* The upload policy has come, or not, or refuses the file. *)
Policy ==
  /\ job.step = "policy"
  /\ \/ /\ job' = [job EXCEPT !.step = "write"]
        /\ UNCHANGED <<loads, shown, list, settled, failuresLeft>>
     \/ /\ job' = NoJob
        /\ UNCHANGED <<loads, shown, list, settled, failuresLeft>>
     \/ /\ failuresLeft > 0
        /\ failuresLeft' = failuresLeft - 1
        /\ job' = NoJob
        /\ FailOperation("unavailable")
  /\ UNCHANGED <<pending, can, serverVars, loadsLeft>>

(* The user has answered the question whether to remove; the right and the *)
(* rows may be gone meanwhile.                                             *)
Confirm ==
  /\ job.step = "confirm"
  /\ \/ /\ job' = NoJob
        /\ UNCHANGED <<loads, shown, list, settled>>
     \/ /\ shown /\ "delete" \in can
        /\ job' = [job EXCEPT !.step = "write"]
        /\ UNCHANGED <<loads, shown, list, settled>>
     \/ /\ ~(shown /\ "delete" \in can)
        /\ job' = NoJob
        /\ FailOperation("denied")
  /\ UNCHANGED <<pending, can, serverVars, boundVars>>

(* The server handles the request of the job: a write, or a download. *)
RightOf(kind) == CASE kind = "upload" -> "write" [] kind = "remove" -> "delete" [] OTHER -> "read"

ServeJob ==
  /\ job.step = "write" /\ job.status = "sent"
  /\ \/ /\ RightOf(job.kind) \in granted
        /\ written' = IF job.kind \in Intent THEN written + 1 ELSE written
        /\ \/ job' = [job EXCEPT !.status = "ok", !.version = written'] /\ failuresLeft' = failuresLeft
           \/ /\ failuresLeft > 0
              /\ failuresLeft' = failuresLeft - 1
              /\ job' = [job EXCEPT !.status = "unavailable"]
     \/ /\ RightOf(job.kind) \notin granted
        /\ job' = [job EXCEPT !.status = "denied"]
        /\ UNCHANGED <<written, failuresLeft>>
     \/ /\ failuresLeft > 0
        /\ failuresLeft' = failuresLeft - 1
        /\ job' = [job EXCEPT !.status = "conflict"]
        /\ written' = written
  /\ UNCHANGED <<list, loads, shown, pending, can, granted, loadsLeft, settled>>

(* The answer of the job's request. *)
AnswerJob ==
  /\ job.step = "write" /\ job.status # "sent"
  /\ CASE job.status # "ok" ->
            /\ job' = NoJob
            /\ pending' = pending
            /\ FailOperation(job.status)
       [] job.status = "ok" /\ job.kind = "download" ->
            /\ job' = NoJob
            /\ UNCHANGED <<pending, loads, shown, list, settled>>
       [] OTHER ->
            /\ pending' = job.kind
            /\ BeginRefresh(job.kind, [list EXCEPT !.selected = @ /\ job.kind = "upload"], loads)
            /\ settled' = [acked |-> job.version, fresh |-> settled.fresh /\ "read" \in can,
                           asked |-> IF "read" \in can THEN {list.query} ELSE {}]
  /\ UNCHANGED <<can, serverVars, boundVars>>

(* `repairProjection` *)
Repair ==
  /\ ~Busy
  /\ pending # "none"
  /\ loadsLeft > 0
  /\ loadsLeft' = loadsLeft - 1
  /\ BeginRefresh("repair", list, loads)
  /\ LoadingHistory(Refreshed(list))
  /\ UNCHANGED <<pending, can, serverVars, failuresLeft>>

(* An administrator takes a right away, or the shell learns of it. *)
Withdraw(right) ==
  /\ right \in granted
  /\ failuresLeft > 0
  /\ failuresLeft' = failuresLeft - 1
  /\ granted' = granted \ {right}
  /\ UNCHANGED <<list, loads, shown, job, pending, can, written, loadsLeft, settled>>

Learn ==
  /\ can # granted
  /\ can' = granted
  /\ UNCHANGED <<list, loads, shown, job, pending, serverVars, boundVars, settled>>

Next ==
  \/ AskSomething
  \/ AskInvalid
  \/ Select
  \/ \E l \in loads : ServeLoad(l)
  \/ \E l \in loads : AnswerLoad(l)
  \/ StartSomething
  \/ StartDownload
  \/ Policy
  \/ Confirm
  \/ ServeJob
  \/ AnswerJob
  \/ Repair
  \/ \E right \in Right : Withdraw(right)
  \/ Learn

-----------------------------------------------------------------------------
(* Among the types: a refresh is under way exactly while a load answers to it. *)
TypeOK ==
  /\ list \in List
  /\ loads \subseteq Load
  /\ shown \in BOOLEAN
  /\ job \in Job
  /\ job.step = "refresh" <=> \E l \in loads : l.owner = "job"
  /\ pending \in Intent \cup {"none"}
  /\ can \subseteq Right /\ granted \subseteq Right
  /\ written \in 1 .. MaxWrites + 1
  /\ loadsLeft \in 0 .. MaxLoads /\ failuresLeft \in 0 .. MaxFailures
  /\ settled \in [acked : 0 .. MaxWrites + 1, fresh : BOOLEAN, asked : SUBSET Query]

(* The controller fails closed: once an operation failed because the        *)
(* session, the right or the service is gone, no row and no selection of    *)
(* before is on the page again, whatever older loads still answer; only a   *)
(* load begun afterwards brings rows back.                                  *)
FailsClosed == (shown => settled.fresh) /\ (list.selected => shown)

(* A write the user was told of is on the page: when nothing is under way   *)
(* and no repair is asked for, the rows shown are at least as new as the    *)
(* last write that was acknowledged.                                        *)
WriteIsShown ==
  shown /\ ~list.loading /\ ~Busy /\ pending = "none"
    => list.rows.version >= settled.acked

(* What is on the page once the list has come to rest was asked for last:   *)
(* filter, page and rows are those of the newest load, not of one that      *)
(* happened to answer last.                                                 *)
NewestIsShown ==
  ~list.loading => \A query \in settled.asked : list.query = query /\ list.rows.query = query
=============================================================================
