------------------------- MODULE AdministrationPage -------------------------
(***************************************************************************)
(* The controller behind the pages of users, roles and menus               *)
(* (frontend/packages/web-domains/iam/src/administration/administration-   *)
(* controller.ts) and what AdministrationPage.vue lets a user start.       *)
(*                                                                         *)
(* The controller asks for the manifest itself and shows the users while   *)
(* the manifest in hand allows it and `userProjectionVisible`; roles,      *)
(* menus and permissions are read together after the manifest.  Only the   *)
(* list of users has a sequence: the controller has none, neither for the  *)
(* loads it watches nor for refreshAuthorizationData, so answers that were *)
(* overtaken still reveal rows, bring back rights and replace roles.       *)
(***************************************************************************)
EXTENDS ListController

CONSTANTS MaxLoads,      \* bound: loads and views users open
          MaxFailures    \* bound: answers that fail, rights taken away

VARIABLES list,      \* `rawUsers`
          loads,     \* its loads under way
          shown,     \* `userProjectionVisible`
          calls,     \* calls of refreshAuthorizationData under way
          can,       \* `capabilityCodes` and `capabilityScope`
          roles,     \* what the roles, menus and permissions shown had seen
          deletion,  \* `deletion`, as far as it can be cancelled or not
          job,       \* the command or repair under way
          pending,   \* `pendingRepairs`: at most one, since it keeps commands away
          granted,   \* server: the manifest of the account
          written,   \* server: writes so far, plus one
          loadsLeft, failuresLeft,
          settled    \* history: the newest write that was acknowledged (acked);
                     \* whether the rows were asked for after the last failure
                     \* that hid them (fresh), or something asked for before it
                     \* was answered since (late); whether the roles were asked
                     \* for before the last write was acknowledged (old); the
                     \* query of the newest load unless it failed (asked)

administrationPageVars ==
  <<list, loads, shown, calls, can, roles, deletion, job, pending, granted, written,
    loadsLeft, failuresLeft, settled>>
serverVars == <<granted, written>>
boundVars  == <<loadsLeft, failuresLeft>>

(* `iam.users.read`, and the rights that count only with the scope `all`.   *)
Right    == {"users", "manage"}
Manifest == [codes : SUBSET Right, all : BOOLEAN]
NoManifest == [codes |-> {}, all |-> FALSE]
Access(m, right) == right \in m.codes /\ (m.all \/ right = "users")

Version == 0 .. MaxWrites + 1
Status  == {"sent", "ok", "refused", "unavailable"}
Load == [query : Query, clears : BOOLEAN, owner : {"user", "job"}, newest : BOOLEAN,
         fresh : BOOLEAN, status : Status, version : Version]
Call == [owner : {"user", "job"}, step : {"manifest", "lists"},
         was : Manifest, fresh : BOOLEAN, old : BOOLEAN, status : Status, manifest : Manifest,
         version : Version]

(* What a command is about decides what is refreshed after it.              *)
Subject == {"users", "roles"}
Job  == [kind : {"none", "write", "cancel", "lookup", "repair"}, of : Subject,
         step : {"none", "request", "refresh"}, status : Status, version : Version]
NoJob == [kind |-> "none", of |-> "users", step |-> "none", status |-> "sent", version |-> 0]

Init ==
  /\ list = EmptyList
  /\ loads = {} /\ calls = {}
  /\ shown = FALSE
  /\ can = NoManifest
  /\ roles = 0
  /\ deletion = "none"
  /\ job = NoJob
  /\ pending = {}
  /\ granted \in {[codes |-> Right, all |-> TRUE], [codes |-> Right, all |-> FALSE]}
  /\ written = 1
  /\ loadsLeft = MaxLoads /\ failuresLeft = MaxFailures
  /\ settled = [acked |-> [users |-> 0, roles |-> 0], fresh |-> TRUE, late |-> FALSE,
                old |-> FALSE, asked |-> {}]

-----------------------------------------------------------------------------
Busy == job # NoJob
(* `mutationBlocked` of the page: nothing under way, no repair owed. *)
Blocked == calls # {} \/ loads # {} \/ Busy \/ pending # {}

Outdated(xs) == {[x EXCEPT !.fresh = FALSE] : x \in xs}

NewLoad(query, clears, owner) ==
  [query |-> query, clears |-> clears, owner |-> owner, newest |-> TRUE,
   fresh |-> TRUE, status |-> "sent", version |-> 0]

NewCall(owner) ==
  [owner |-> owner, step |-> "manifest", was |-> can, fresh |-> TRUE,
   old |-> FALSE, status |-> "sent", manifest |-> NoManifest, version |-> 0]

(* `clearAuthorizationProjection`, which makes all that is under way old news. *)
Clear(ls, cs) ==
  /\ can' = NoManifest
  /\ roles' = 0
  /\ shown' = FALSE
  /\ deletion' = "none"
  /\ loads' = Outdated(ls)
  /\ calls' = Outdated(cs)

(* `users.refresh` and its like up to the request.                          *)
Loading(query, clears, owner, ls) ==
  /\ loads' = Replaced(ls) \cup {NewLoad(query, clears, owner)}
  /\ list' = Begun(list)

-----------------------------------------------------------------------------
(* Searching and resetting are always possible while the users are shown,   *)
(* turning pages when nothing is under way.                                 *)
Ask(query, clears) ==
  /\ Access(can, "users")
  /\ loadsLeft > 0
  /\ loadsLeft' = loadsLeft - 1
  /\ Loading(query, clears, "user", loads)
  /\ settled' = [settled EXCEPT !.asked = {query}]
  /\ UNCHANGED <<shown, calls, can, roles, deletion, job, pending, serverVars, failuresLeft>>

AskSomething ==
  \/ \E f \in Filter : Ask(Searched(f), FALSE)
  \/ Ask(FirstQuery, TRUE)
  \/ ~Blocked /\ \E p \in Page : Ask(Turned(list, p), FALSE)

(* `loadView`: the page is opened, or the view changed. *)
OpenView ==
  /\ loadsLeft > 0
  /\ loadsLeft' = loadsLeft - 1
  /\ calls' = calls \cup {NewCall("user")}
  /\ deletion' = "none"
  /\ UNCHANGED <<list, loads, shown, can, roles, job, pending, serverVars, failuresLeft, settled>>

(* The server answers a load or a call with what it holds then. *)
ServeLoad(l) ==
  /\ l \in loads /\ l.status = "sent"
  /\ \/ /\ loads' = (loads \ {l}) \cup
             {IF Access(granted, "users")
              THEN [l EXCEPT !.status = "ok", !.version = written]
              ELSE [l EXCEPT !.status = "refused"]}
        /\ failuresLeft' = failuresLeft
     \/ /\ failuresLeft > 0
        /\ failuresLeft' = failuresLeft - 1
        /\ loads' = (loads \ {l}) \cup {[l EXCEPT !.status = "unavailable"]}
  /\ UNCHANGED <<list, shown, calls, can, roles, deletion, job, pending, serverVars,
                 loadsLeft, settled>>

ServeCall(c) ==
  /\ c \in calls /\ c.status = "sent"
  /\ \/ /\ calls' = (calls \ {c}) \cup
             {CASE c.step = "manifest" -> [c EXCEPT !.status = "ok", !.manifest = granted]
                [] c.step = "lists" /\ Access(granted, "manage") ->
                     [c EXCEPT !.status = "ok", !.version = written]
                [] OTHER -> [c EXCEPT !.status = "refused"]}
        /\ failuresLeft' = failuresLeft
     \/ /\ failuresLeft > 0
        /\ failuresLeft' = failuresLeft - 1
        /\ calls' = (calls \ {c}) \cup {[c EXCEPT !.status = "unavailable"]}
  /\ UNCHANGED <<list, loads, shown, can, roles, deletion, job, pending, serverVars,
                 loadsLeft, settled>>

-----------------------------------------------------------------------------
(* What a command or a repair waited for is done: nothing is owed any more. *)
Ended(owner) ==
  /\ job' = IF owner = "job" THEN NoJob ELSE job
  /\ pending' = IF owner = "job" THEN {} ELSE pending
Failed(owner) ==
  /\ job' = IF owner = "job" THEN NoJob ELSE job
  /\ pending' = pending

(* `observeUserList` after its await: a load that was replaced returns in   *)
(* good order whatever its answer, and the rows in hand are shown.          *)
AnswerLoad(l) ==
  LET good == l.status = "ok" IN
  /\ l \in loads /\ l.status # "sent"
  /\ list' = IF good THEN Shown(list, l, [query |-> l.query, version |-> l.version])
             ELSE Dropped(list, l)
  /\ \/ /\ good \/ ~l.newest
        /\ shown' = TRUE
        /\ loads' = loads \ {l}
        /\ Ended(l.owner)
        /\ settled' = [settled EXCEPT
             !.fresh = IF l.newest THEN l.fresh ELSE @,
             !.late = IF l.newest /\ l.fresh THEN FALSE ELSE @ \/ ~l.fresh]
        /\ UNCHANGED <<calls, can, roles, deletion>>
     \/ /\ ~good /\ l.newest
        /\ Clear(loads \ {l}, calls)
        /\ Failed(l.owner)
        /\ settled' = [settled EXCEPT !.fresh = FALSE, !.asked = {}]
  /\ UNCHANGED <<serverVars, boundVars>>

(* refreshAuthorizationData, and what comes after it: a command about users *)
(* and a view of users go on with the list.                                 *)
GoOn(c, m, ls, fresh, old) ==
  \/ /\ Access(m, "users")
     /\ c.owner = "job" => job.of = "users"
     /\ Loading(Refreshed(list), FALSE, c.owner, ls)
     /\ settled' = [settled EXCEPT !.fresh = fresh, !.late = @ \/ ~c.fresh, !.old = old,
                                   !.asked = {Refreshed(list)}]
     /\ UNCHANGED <<job, pending>>
  \/ /\ c.owner = "job" /\ Access(m, "users") => job.of = "roles"
     /\ loads' = ls
     /\ settled' = [settled EXCEPT !.fresh = fresh, !.late = @ \/ ~c.fresh, !.old = old]
     /\ Ended(c.owner)
     /\ list' = list

(* The manifest has come.  Unless the users may be seen as before, they are *)
(* hidden.                                                                  *)
AnswerManifest(c) ==
  LET m     == c.manifest
      same  == Access(m, "users") /\ Access(c.was, "users") /\ c.was.all = m.all
      ls    == IF same THEN loads ELSE Outdated(loads)
      cs    == IF same THEN calls \ {c} ELSE Outdated(calls \ {c})
      fresh == settled.fresh /\ same
  IN
  /\ c \in calls /\ c.step = "manifest" /\ c.status = "ok"
  /\ can' = m
  /\ shown' = (shown /\ same)
  /\ IF Access(m, "manage")
     THEN /\ calls' = cs \cup {[c EXCEPT !.step = "lists", !.status = "sent"]}
          /\ settled' = [settled EXCEPT !.fresh = fresh, !.late = @ \/ ~c.fresh]
          /\ loads' = ls
          /\ UNCHANGED <<list, roles, job, pending>>
     ELSE /\ calls' = cs
          /\ roles' = 0
          /\ GoOn(c, m, ls, fresh, settled.old)
  /\ UNCHANGED <<deletion, serverVars, boundVars>>

AnswerLists(c) ==
  /\ c \in calls /\ c.step = "lists" /\ c.status = "ok"
  /\ roles' = c.version
  /\ calls' = calls \ {c}
  /\ GoOn(c, can, loads, settled.fresh, c.old)
  /\ UNCHANGED <<shown, can, deletion, serverVars, boundVars>>

FailCall(c) ==
  /\ c \in calls /\ c.status \in {"refused", "unavailable"}
  /\ Clear(loads, calls \ {c})
  /\ Failed(c.owner)
  /\ settled' = [settled EXCEPT !.fresh = FALSE]
  /\ UNCHANGED <<list, serverVars, boundVars>>

-----------------------------------------------------------------------------
(* A command or a form, up to its request; the page offers it only when     *)
(* nothing else is under way.                                               *)
Start(kind, of) ==
  /\ ~Blocked
  /\ Access(can, "manage")
  /\ kind = "cancel" => deletion = "queued"
  /\ kind # "lookup" => written <= MaxWrites
  /\ job' = [NoJob EXCEPT !.kind = kind, !.of = of, !.step = "request"]
  /\ UNCHANGED <<list, loads, shown, calls, can, roles, deletion, pending, serverVars,
                 boundVars, settled>>

StartSomething ==
  \/ \E of \in Subject : Start("write", of)
  \/ \E kind \in {"cancel", "lookup"} : Start(kind, "users")

(* The user declines, or the form is refused before it is sent. *)
Decline ==
  /\ job.step = "request" /\ job.status = "sent" /\ job.kind = "write"
  /\ job' = NoJob
  /\ UNCHANGED <<list, loads, shown, calls, can, roles, deletion, pending, serverVars,
                 boundVars, settled>>

ServeJob ==
  /\ job.step = "request" /\ job.status = "sent"
  /\ \/ /\ Access(granted, "manage")
        /\ written' = IF job.kind = "lookup" THEN written ELSE written + 1
        /\ \/ job' = [job EXCEPT !.status = "ok", !.version = written'] /\ failuresLeft' = failuresLeft
           \/ /\ failuresLeft > 0
              /\ failuresLeft' = failuresLeft - 1
              /\ job' = [job EXCEPT !.status = "unavailable"]
     \/ /\ ~Access(granted, "manage")
        /\ job' = [job EXCEPT !.status = "refused"]
        /\ UNCHANGED <<written, failuresLeft>>
     \/ /\ failuresLeft > 0
        /\ failuresLeft' = failuresLeft - 1
        /\ job' = [job EXCEPT !.status = "refused"]
        /\ written' = written
  /\ UNCHANGED <<list, loads, shown, calls, can, roles, deletion, pending, granted,
                 loadsLeft, settled>>

(* `recordFailure`: without a session everything is cleared, without the    *)
(* right only the deletion is.                                              *)
FailJob ==
  /\ job.step = "request" /\ job.status \in {"refused", "unavailable"}
  /\ job' = NoJob
  /\ \/ UNCHANGED <<loads, shown, calls, can, roles, deletion, settled>>
     \/ /\ job.status = "refused"
        /\ deletion' = "none"
        /\ UNCHANGED <<loads, shown, calls, can, roles, settled>>
     \/ /\ job.status = "refused"
        /\ Clear(loads, calls)
        /\ settled' = [settled EXCEPT !.fresh = FALSE]
  /\ UNCHANGED <<list, pending, serverVars, boundVars>>

LookUp ==
  /\ job.kind = "lookup" /\ job.status = "ok"
  /\ job' = NoJob
  /\ deletion' \in {"queued", "claimed"}
  /\ UNCHANGED <<list, loads, shown, calls, can, roles, pending, serverVars, boundVars, settled>>

(* The dialog about the deletion is closed, or opened for another user.     *)
CloseDeletion ==
  /\ deletion # "none"
  /\ deletion' = "none"
  /\ UNCHANGED <<list, loads, shown, calls, can, roles, job, pending, serverVars, boundVars,
                 settled>>

(* The write is done: a deletion was started or cancelled, or neither, and  *)
(* what the page shows of it has to be read again.                          *)
FinishJob ==
  /\ job.step = "request" /\ job.status = "ok" /\ job.kind # "lookup"
  /\ deletion' \in IF job.kind = "cancel" THEN {"none"}
                   ELSE IF job.of = "users" THEN {deletion, "queued"}
                   ELSE {deletion}
  /\ pending' = {job.of}
  /\ calls' = {[c EXCEPT !.old = TRUE] : c \in calls} \cup {NewCall("job")}
  /\ job' = [job EXCEPT !.step = "refresh", !.status = "sent"]
  /\ settled' = [settled EXCEPT !.acked[job.of] = job.version]
  /\ UNCHANGED <<list, loads, shown, can, roles, serverVars, boundVars>>

(* `repairProjection` *)
Repair ==
  /\ ~Busy
  /\ loadsLeft > 0
  /\ loadsLeft' = loadsLeft - 1
  /\ \E of \in pending : job' = [NoJob EXCEPT !.kind = "repair", !.of = of, !.step = "refresh"]
  /\ calls' = calls \cup {NewCall("job")}
  /\ UNCHANGED <<list, loads, shown, can, roles, deletion, pending, serverVars,
                 failuresLeft, settled>>

(* An administrator takes a right or the scope away. *)
Withdraw ==
  /\ failuresLeft > 0
  /\ failuresLeft' = failuresLeft - 1
  /\ \/ granted.all /\ granted' = [granted EXCEPT !.all = FALSE]
     \/ \E right \in granted.codes : granted' = [granted EXCEPT !.codes = @ \ {right}]
  /\ UNCHANGED <<list, loads, shown, calls, can, roles, deletion, job, pending, written,
                 loadsLeft, settled>>

Next ==
  \/ AskSomething
  \/ OpenView
  \/ \E l \in loads : ServeLoad(l)
  \/ \E l \in loads : AnswerLoad(l)
  \/ \E c \in calls : ServeCall(c)
  \/ \E c \in calls : AnswerManifest(c)
  \/ \E c \in calls : AnswerLists(c)
  \/ \E c \in calls : FailCall(c)
  \/ StartSomething
  \/ Decline
  \/ ServeJob
  \/ FailJob
  \/ LookUp
  \/ CloseDeletion
  \/ FinishJob
  \/ Repair
  \/ Withdraw

-----------------------------------------------------------------------------
(* Among the types: a refresh is under way exactly while a load or a call   *)
(* answers to it.                                                           *)
TypeOK ==
  /\ list \in List
  /\ loads \subseteq Load
  /\ calls \subseteq Call
  /\ shown \in BOOLEAN
  /\ can \in Manifest /\ granted \in Manifest
  /\ roles \in Version
  /\ deletion \in {"none", "queued", "claimed"}
  /\ job \in Job
  /\ job.step = "refresh" <=> \E x \in loads \cup calls : x.owner = "job"
  /\ pending \subseteq Subject
  /\ written \in 1 .. MaxWrites + 1
  /\ loadsLeft \in 0 .. MaxLoads /\ failuresLeft \in 0 .. MaxFailures
  /\ settled \in [acked : [Subject -> Version], fresh : BOOLEAN, late : BOOLEAN,
                  old : BOOLEAN, asked : SUBSET Query]

Visible == shown /\ Access(can, "users")

(* Users that were hidden by a failure or by the manifest are on a page at  *)
(* rest again only when they were asked for afterwards, or when something   *)
(* asked for before was answered afterwards.                                *)
FailsClosed == Visible /\ ~list.loading => settled.fresh \/ settled.late

(* The users, and the roles and menus, on a page at rest are at least as    *)
(* new as the last command about them, unless an answer came too late: one  *)
(* to what was asked for before the users were hidden, or one with the      *)
(* roles of a call begun before the command was acknowledged.               *)
WriteIsShown ==
  ~Blocked =>
    /\ Visible => list.rows.version >= settled.acked["users"] \/ settled.late
    /\ roles # 0 => roles >= settled.acked["roles"] \/ settled.old

(* The users at rest are those of the newest load.                          *)
NewestIsShown ==
  ~list.loading => \A query \in settled.asked : list.query = query /\ list.rows.query = query
=============================================================================
