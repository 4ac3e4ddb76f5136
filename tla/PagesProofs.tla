---------------------------- MODULE PagesProofs ----------------------------
(***************************************************************************)
(* Proofs about the work pages, for any filters, page numbers, writes,     *)
(* loads and failures.                                                     *)
(*                                                                         *)
(* Each page has its own invariant.  On the files and the scheduler page a *)
(* load that may still change what is visible is the newest one and was    *)
(* begun after the last failure; one that was overtaken finds the rows     *)
(* hidden or leaves them alone.  The administration controller has no      *)
(* sequence, so what holds there is weaker, and the invariant has to say   *)
(* what an answer that came too late was about.                            *)
(***************************************************************************)
EXTENDS Pages, TLAPS

OneNewest(ls) == \A l, m \in ls : l.newest /\ m.newest => l = m
OneJob(ls) == \A l, m \in ls : l.owner = "job" /\ m.owner = "job" => l = m
SomeJob(ls) == \E l \in ls : l.owner = "job"
OneNewestOfEach(ls) == \A l, m \in ls : l.of = m.of /\ l.newest /\ m.newest => l = m

-----------------------------------------------------------------------------
(* The files page. *)

\* Only the newest load is the controller's, and one load at most answers to a job.
FilesLoads ==
  /\ OneNewest(loads)
  /\ OneJob(loads)
  /\ \A l \in loads : l.held => l.newest /\ l.fresh
  /\ \A l \in loads : l.newest /\ ~l.held => ~shown

\* What the newest load asks for and brings is what the user last asked and saw done.
FilesNewest ==
  \A l \in loads : l.newest =>
    /\ settled.asked \subseteq {l.query}
    /\ l.status = "ok" => l.version >= settled.acked

FilesJob ==
  /\ job.step \in {"policy", "confirm", "write"} => job.kind \in Files!Intent \cup {"download"}
  /\ job.kind \in Files!Intent /\ job.step # "refresh" /\ job.status = "sent" =>
       written <= MaxWrites

FilesWrites ==
  /\ settled.acked <= written
  /\ job.status = "ok" => job.version <= written
  /\ pending = "none" \/ job.advanced => list.rows.version >= settled.acked

FilesInv ==
  /\ Files!TypeOK
  /\ FilesLoads
  /\ FilesNewest
  /\ FilesJob
  /\ FilesWrites
  /\ Files!FailsClosed
  /\ Files!NewestIsShown

-----------------------------------------------------------------------------
(* The scheduler page. *)

SchedulerLoads ==
  /\ OneNewestOfEach(loads)
  /\ OneJob(loads)
  /\ \A l \in loads : l.held => l.newest /\ l.fresh
  /\ \A l \in loads : l.newest /\ ~l.held => ~shown[l.of]
  /\ \A l \in loads : l.newest => settled.asked[l.of] \subseteq {l.query}

SchedulerJob ==
  /\ job.step \in {"confirm", "write"} => job.kind \in Scheduler!Intent
  /\ job.step \in {"confirm", "write"} /\ job.status = "sent" => written <= MaxWrites

SchedulerInv ==
  /\ Scheduler!TypeOK
  /\ SchedulerLoads
  /\ SchedulerJob
  /\ Scheduler!FailsClosed
  /\ Scheduler!NewestIsShown

-----------------------------------------------------------------------------
(* The administration pages. *)

AdministrationLoads ==
  /\ OneNewest(loads)
  /\ OneJob(loads) /\ OneJob(calls) /\ ~(SomeJob(loads) /\ SomeJob(calls))
  /\ \A l \in loads : l.newest => list.loading /\ settled.asked \subseteq {l.query}

AdministrationJob ==
  /\ pending \in {{}, {"users"}, {"roles"}}
  /\ job.step = "request" => pending = {} /\ job.kind \in {"write", "cancel", "lookup"}
  /\ job.step = "request" /\ job.kind # "lookup" /\ job.status = "sent" => written <= MaxWrites
  /\ job.step = "refresh" => pending = {job.of}
  /\ job.step # "request" => job.status = "sent"
  /\ job.status = "ok" => job.version <= written
  /\ \A l \in loads : l.owner = "job" => job.of = "users"

\* Users that were hidden come back only with something asked for afterwards.
AdministrationHides ==
  /\ shown /\ ~list.loading => settled.fresh \/ settled.late
  /\ \A l \in loads : l.fresh =>
       settled.fresh \/ settled.late \/ \E m \in loads : m.newest /\ m.fresh
  /\ ~Administration!Access(can, "users") =>
       (\A l \in loads : ~l.fresh) /\ (shown => settled.late)

\* The users are as new as the last command about them: unless that is still to
\* be shown, they were asked for afterwards, or are being asked for, or are hidden.
UsersAreDue == "users" \notin pending \/ \E l \in loads : l.owner = "job"
Dark == ~shown /\ \A l \in loads : ~l.fresh
AdministrationUsers ==
  UsersAreDue =>
    /\ \A l \in loads : l.newest /\ l.fresh /\ l.status = "ok" =>
         l.version >= settled.acked["users"]
    /\ \/ list.rows.version >= settled.acked["users"]
       \/ settled.late
       \/ \E l \in loads : l.newest
       \/ Dark

AdministrationRoles ==
  /\ \A c \in calls : c.step = "lists" /\ c.status = "ok" /\ ~c.old =>
       c.version >= settled.acked["roles"]
  /\ "roles" \notin pending =>
       roles = 0 \/ roles >= settled.acked["roles"] \/ settled.old
  /\ \A of \in Administration!Subject : settled.acked[of] <= written

AdministrationInv ==
  /\ Administration!TypeOK
  /\ AdministrationLoads
  /\ AdministrationJob
  /\ AdministrationHides
  /\ AdministrationUsers
  /\ AdministrationRoles
  /\ Administration!NewestIsShown

PagesInv ==
  /\ page \in {"files", "scheduler", "administration"}
  /\ page = "files" => FilesInv
  /\ page = "scheduler" => SchedulerInv
  /\ page = "administration" => AdministrationInv

-----------------------------------------------------------------------------
(* What loads on the files page become when another one begins or when an   *)
(* operation fails: the same loads, with less to say.                       *)
USE DEF Files!Load, Files!Status

FilesAged(ls, rs) ==
  /\ rs \in SUBSET Files!Load
  /\ \A r \in rs : \E l \in ls :
       /\ r.query = l.query /\ r.status = l.status /\ r.version = l.version
       /\ r.newest => l.newest
       /\ r.held => l.held
       /\ r.fresh => l.fresh
  /\ OneNewest(ls) => OneNewest(rs)
  /\ OneJob(ls) => OneJob(rs)
  /\ SomeJob(rs) <=> SomeJob(ls)

(* Any change of the loads, one by one, that only takes marks away. *)
LEMMA FilesAging ==
  ASSUME NEW ls \in SUBSET Files!Load, NEW g \in [ls -> Files!Load],
         \A l \in ls :
           /\ g[l].query = l.query /\ g[l].owner = l.owner
           /\ g[l].status = l.status /\ g[l].version = l.version
           /\ g[l].newest => l.newest
           /\ g[l].held => l.held
           /\ g[l].fresh => l.fresh
  PROVE  FilesAged(ls, {g[l] : l \in ls})
  <1> DEFINE rs == {g[l] : l \in ls}
  <1>1. \A r \in rs : \E l \in ls : r = g[l]
    OBVIOUS
  <1>2. \A l \in ls : g[l] \in rs
    OBVIOUS
  <1> HIDE DEF rs
  <1>3. ASSUME OneNewest(ls), NEW r \in rs, NEW s \in rs, r.newest, s.newest PROVE r = s
    <2>1. PICK l \in ls : r = g[l]
      BY <1>1
    <2>2. PICK m \in ls : s = g[m]
      BY <1>1
    <2> QED
      BY <1>3, <2>1, <2>2 DEF OneNewest
  <1>4. ASSUME OneJob(ls), NEW r \in rs, NEW s \in rs, r.owner = "job", s.owner = "job"
        PROVE  r = s
    <2>1. PICK l \in ls : r = g[l]
      BY <1>1
    <2>2. PICK m \in ls : s = g[m]
      BY <1>1
    <2> QED
      BY <1>4, <2>1, <2>2 DEF OneJob
  <1>5. SomeJob(rs) <=> SomeJob(ls)
    BY <1>1, <1>2 DEF SomeJob
  <1>6. \A r \in rs : /\ r \in Files!Load
                      /\ \E l \in ls :
                           /\ r.query = l.query /\ r.status = l.status /\ r.version = l.version
                           /\ r.newest => l.newest
                           /\ r.held => l.held
                           /\ r.fresh => l.fresh
    BY <1>1
  <1> QED
    BY <1>3, <1>4, <1>5, <1>6 DEF FilesAged, OneNewest, OneJob, rs

LEMMA FilesAgedTwice ==
  ASSUME NEW ls, NEW rs, NEW qs, FilesAged(ls, rs), FilesAged(rs, qs)
  PROVE  FilesAged(ls, qs)
  <1>1. ASSUME NEW q \in qs
        PROVE  \E l \in ls :
                 /\ q.query = l.query /\ q.status = l.status /\ q.version = l.version
                 /\ q.newest => l.newest
                 /\ q.held => l.held
                 /\ q.fresh => l.fresh
    <2>1. PICK r \in rs :
            /\ q.query = r.query /\ q.status = r.status /\ q.version = r.version
            /\ q.newest => r.newest
            /\ q.held => r.held
            /\ q.fresh => r.fresh
      BY DEF FilesAged
    <2> QED
      BY <2>1 DEF FilesAged
  <1> QED
    BY <1>1 DEF FilesAged

LEMMA FilesReplaced ==
  ASSUME NEW ls \in SUBSET Files!Load
  PROVE  /\ FilesAged(ls, Files!Replaced(ls))
         /\ \A r \in Files!Replaced(ls) : ~r.newest
  <1> DEFINE g == [l \in ls |-> [l EXCEPT !.newest = FALSE]]
  <1>1. FilesAged(ls, {g[l] : l \in ls})
    <2>1. \A l \in ls : /\ g[l] \in Files!Load /\ ~g[l].newest
                        /\ g[l].query = l.query /\ g[l].owner = l.owner
                        /\ g[l].status = l.status /\ g[l].version = l.version
                        /\ g[l].held = l.held /\ g[l].fresh = l.fresh
      OBVIOUS
    <2> HIDE DEF g
    <2>2. g \in [ls -> Files!Load]
      BY <2>1 DEF g
    <2> QED
      BY <2>1, <2>2, FilesAging
  <1>2. Files!Replaced(ls) = {g[l] : l \in ls}
    BY DEF Files!Replaced
  <1>3. \A r \in Files!Replaced(ls) : ~r.newest
    BY DEF Files!Replaced
  <1> QED
    BY <1>1, <1>2, <1>3

LEMMA FilesOutdated ==
  ASSUME NEW ls \in SUBSET Files!Load
  PROVE  FilesAged(ls, Files!Outdated(ls))
  <1> DEFINE g == [l \in ls |-> [l EXCEPT !.fresh = FALSE]]
  <1>1. FilesAged(ls, {g[l] : l \in ls})
    <2>1. \A l \in ls : /\ g[l] \in Files!Load /\ ~g[l].fresh
                        /\ g[l].query = l.query /\ g[l].owner = l.owner
                        /\ g[l].status = l.status /\ g[l].version = l.version
                        /\ g[l].held = l.held /\ g[l].newest = l.newest
      OBVIOUS
    <2> HIDE DEF g
    <2>2. g \in [ls -> Files!Load]
      BY <2>1 DEF g
    <2> QED
      BY <2>1, <2>2, FilesAging
  <1>2. Files!Outdated(ls) = {g[l] : l \in ls}
    BY DEF Files!Outdated
  <1> QED
    BY <1>1, <1>2

LEMMA FilesDisowned ==
  ASSUME NEW ls \in SUBSET Files!Load
  PROVE  /\ FilesAged(ls, Files!Disowned(ls))
         /\ \A r \in Files!Disowned(ls) : ~r.held
  <1> DEFINE g == [l \in ls |-> [l EXCEPT !.held = FALSE]]
  <1>1. FilesAged(ls, {g[l] : l \in ls})
    <2>1. \A l \in ls : /\ g[l] \in Files!Load /\ ~g[l].held
                        /\ g[l].query = l.query /\ g[l].owner = l.owner
                        /\ g[l].status = l.status /\ g[l].version = l.version
                        /\ g[l].fresh = l.fresh /\ g[l].newest = l.newest
      OBVIOUS
    <2> HIDE DEF g
    <2>2. g \in [ls -> Files!Load]
      BY <2>1 DEF g
    <2> QED
      BY <2>1, <2>2, FilesAging
  <1>2. Files!Disowned(ls) = {g[l] : l \in ls}
    BY DEF Files!Disowned
  <1>3. \A r \in Files!Disowned(ls) : ~r.held
    BY DEF Files!Disowned
  <1> QED
    BY <1>1, <1>2, <1>3

(* No load under way decides any more once another begins. *)
LEMMA FilesOvertaken ==
  ASSUME NEW ls \in SUBSET Files!Load
  PROVE  /\ FilesAged(ls, Files!Disowned(Files!Replaced(ls)))
         /\ \A r \in Files!Disowned(Files!Replaced(ls)) : ~r.newest /\ ~r.held
  <1>1. /\ FilesAged(ls, Files!Replaced(ls))
        /\ Files!Replaced(ls) \in SUBSET Files!Load
        /\ \A r \in Files!Replaced(ls) : ~r.newest
    BY FilesReplaced DEF FilesAged
  <1>2. /\ FilesAged(Files!Replaced(ls), Files!Disowned(Files!Replaced(ls)))
        /\ \A r \in Files!Disowned(Files!Replaced(ls)) : ~r.held
    BY <1>1, FilesDisowned
  <1>3. \A r \in Files!Disowned(Files!Replaced(ls)) : ~r.newest
    BY <1>1, <1>2 DEF FilesAged
  <1> QED
    BY <1>1, <1>2, <1>3, FilesAgedTwice

LEMMA FilesState ==
  ASSUME FilesInv
  PROVE  /\ loads \in SUBSET Files!Load /\ shown \in BOOLEAN /\ list \in Files!List
         /\ settled \in [acked : 0 .. MaxWrites + 1, fresh : BOOLEAN, asked : SUBSET Files!Query]
         /\ OneNewest(loads) /\ OneJob(loads)
         /\ job.step = "refresh" <=> SomeJob(loads)
  BY DEF FilesInv, Files!TypeOK, FilesLoads, SomeJob

(* A load that begins, or is refused, leaves none behind that matters.      *)
LEMMA FilesLoading ==
  ASSUME FilesInv, NEW query \in Files!Query, NEW clears \in BOOLEAN,
         NEW owner \in {"user", "job"}, owner = "job" => ~SomeJob(loads),
         Files!Loading(query, clears, owner, loads)
  PROVE  /\ loads' \in SUBSET Files!Load
         /\ FilesLoads'
         /\ \A l \in loads' : l.newest => "read" \in can /\ l.query = query /\ l.status = "sent"
         /\ SomeJob(loads)' <=> SomeJob(loads) \/ (owner = "job" /\ "read" \in can)
         /\ shown' = (shown /\ "read" \in can) /\ shown' \in BOOLEAN
PROOF
  <1> DEFINE rs == Files!Disowned(Files!Replaced(loads))
  <1>1. loads \in SUBSET Files!Load /\ shown \in BOOLEAN /\ OneJob(loads)
    BY FilesState
  <1>2. /\ FilesAged(loads, rs)
        /\ \A r \in rs : ~r.newest /\ ~r.held
    BY <1>1, FilesOvertaken
  <1>3. rs \in SUBSET Files!Load /\ OneJob(rs) /\ (SomeJob(rs) <=> SomeJob(loads))
    BY <1>1, <1>2 DEF FilesAged
  <1>4. CASE "read" \in can
    <2> DEFINE n == Files!NewLoad(query, clears, owner)
    <2>1. /\ n \in Files!Load /\ n.newest /\ n.held /\ n.fresh /\ n.owner = owner
          /\ n.query = query /\ n.status = "sent"
      BY WritesAreBounded DEF Files!NewLoad
    <2>2. loads' = rs \cup {n} /\ shown' = shown
      BY <1>4 DEF Files!Loading
    <2> HIDE DEF n, rs
    <2>3. OneJob(loads')
      BY <1>3, <2>1, <2>2 DEF OneJob, SomeJob
    <2>4. OneNewest(loads')
      BY <1>2, <2>2 DEF OneNewest
    <2>5. FilesLoads'
      BY <1>2, <2>1, <2>2, <2>3, <2>4 DEF FilesLoads, OneJob, OneNewest
    <2>6. SomeJob(loads)' <=> SomeJob(loads) \/ owner = "job"
      BY <1>3, <2>1, <2>2 DEF SomeJob
    <2> QED
      BY <1>1, <1>2, <1>3, <1>4, <2>1, <2>2, <2>5, <2>6
  <1>5. CASE "read" \notin can
    <2>1. loads' = Files!Outdated(rs) /\ shown' = FALSE
      BY <1>5 DEF Files!Loading
    <2> HIDE DEF rs
    <2>2. FilesAged(rs, loads')
      BY <1>3, <2>1, FilesOutdated
    <2>3. \A r \in loads' : ~r.newest /\ ~r.held
      BY <1>2, <2>2 DEF FilesAged
    <2>4. loads' \in SUBSET Files!Load /\ OneJob(loads') /\ (SomeJob(loads') <=> SomeJob(rs))
      BY <1>3, <2>2 DEF FilesAged
    <2>5. FilesLoads'
      BY <2>1, <2>3, <2>4 DEF FilesLoads, OneJob, OneNewest
    <2>6. SomeJob(loads)' <=> SomeJob(loads)
      BY <1>3, <2>4 DEF SomeJob
    <2> QED
      BY <1>5, <2>1, <2>3, <2>4, <2>5, <2>6
  <1> QED
    BY <1>4, <1>5

(* An operation that fails may hide the rows, and with them what older      *)
(* loads could still show.                                                  *)
LEMMA FilesFailing ==
  ASSUME FilesInv, NEW status, Files!FailOperation(status)
  PROVE  /\ FilesAged(loads, loads') /\ FilesLoads'
         /\ shown' \in BOOLEAN /\ list' \in Files!List
         /\ list'.query = list.query /\ list'.rows = list.rows
         /\ list'.loading = list.loading
         /\ settled' \in [acked : 0 .. MaxWrites + 1, fresh : BOOLEAN, asked : SUBSET Files!Query]
         /\ settled'.acked = settled.acked /\ settled'.asked = settled.asked
         /\ Files!FailsClosed'
PROOF
  <1>1. /\ loads \in SUBSET Files!Load /\ shown \in BOOLEAN /\ list \in Files!List
        /\ settled \in [acked : 0 .. MaxWrites + 1, fresh : BOOLEAN, asked : SUBSET Files!Query]
        /\ FilesLoads /\ Files!FailsClosed
    BY FilesState DEF FilesInv
  <1>2. CASE status \in Files!Hiding
    <2> DEFINE rs == Files!Disowned(loads)
    <2>1. FilesAged(loads, rs) /\ \A r \in rs : ~r.held
      BY <1>1, FilesDisowned
    <2>2. /\ loads' = Files!Outdated(rs) /\ shown' = FALSE
          /\ list' = [list EXCEPT !.selected = FALSE]
          /\ settled' = [settled EXCEPT !.fresh = FALSE]
      BY <1>2 DEF Files!FailOperation, Files!FailedOver
    <2> HIDE DEF rs
    <2>3. FilesAged(rs, loads')
      BY <2>1, <2>2, FilesOutdated DEF FilesAged
    <2>4. FilesAged(loads, loads') /\ \A r \in loads' : ~r.held
      BY <2>1, <2>3, FilesAgedTwice DEF FilesAged
    <2>5. FilesLoads'
      BY <1>1, <2>2, <2>4 DEF FilesLoads, FilesAged, OneNewest, OneJob
    <2>6. /\ list' \in Files!List /\ ~list'.selected
          /\ list'.query = list.query /\ list'.rows = list.rows
          /\ list'.loading = list.loading
      BY <1>1, <2>2 DEF Files!List
    <2>7. Files!FailsClosed'
      BY <2>2, <2>6 DEF Files!FailsClosed
    <2> QED
      BY <1>1, <2>2, <2>4, <2>5, <2>6, <2>7
  <1>3. CASE status \notin Files!Hiding
    <2>1. UNCHANGED <<loads, shown, list, settled>>
      BY <1>3 DEF Files!FailOperation
    <2>2. FilesAged(loads, loads)
      BY <1>1 DEF FilesAged
    <2> QED
      BY <1>1, <2>1, <2>2 DEF FilesLoads, Files!FailsClosed, OneNewest, OneJob
  <1> QED
    BY <1>2, <1>3

-----------------------------------------------------------------------------
(* Every action of the files page preserves its invariant. *)

(* The queries a list asks for. *)
LEMMA FilesQueries ==
  ASSUME NEW l \in Files!List
  PROVE  /\ Files!Refreshed(l) \in Files!Query
         /\ \A f \in Filter : Files!Searched(f) \in Files!Query
         /\ \A p \in Page : Files!Turned(l, p) \in Files!Query
         /\ Files!FirstQuery \in Files!Query
         /\ Files!Begun(l) \in Files!List /\ Files!Refused(l) \in Files!List
         /\ Files!LoadingList(l) \in Files!List
  BY QueriesAreNamed
  DEF Files!List, Files!Query, Files!Refreshed, Files!Searched, Files!Turned, Files!FirstQuery,
      Files!Begun, Files!Refused, Files!LoadingList

LEMMA FilesAskInv ==
  ASSUME FilesInv, NEW query \in Files!Query, NEW clears \in BOOLEAN, Files!Ask(query, clears)
  PROVE  FilesInv'
PROOF
  <1>1. /\ Files!Loading(query, clears, "user", loads)
        /\ list' = Files!LoadingList(list)
        /\ settled' = [settled EXCEPT !.fresh = @ /\ "read" \in can,
                                      !.asked = IF "read" \in can THEN {query} ELSE {}]
        /\ loadsLeft > 0 /\ loadsLeft' = loadsLeft - 1
        /\ UNCHANGED <<job, pending, can, granted, written, failuresLeft>>
    BY DEF Files!Ask, Files!LoadingHistory, Files!serverVars
  <1>2. /\ loads \in SUBSET Files!Load /\ shown \in BOOLEAN /\ list \in Files!List
        /\ settled \in [acked : 0 .. MaxWrites + 1, fresh : BOOLEAN, asked : SUBSET Files!Query]
        /\ job.step = "refresh" <=> SomeJob(loads)
    BY FilesState
  <1>3. /\ loads' \in SUBSET Files!Load
        /\ FilesLoads'
        /\ \A l \in loads' : l.newest => "read" \in can /\ l.query = query /\ l.status = "sent"
        /\ SomeJob(loads)' <=> SomeJob(loads)
        /\ shown' = (shown /\ "read" \in can) /\ shown' \in BOOLEAN
    BY <1>1, FilesLoading
  <1>4. /\ settled' \in [acked : 0 .. MaxWrites + 1, fresh : BOOLEAN, asked : SUBSET Files!Query]
        /\ settled'.acked = settled.acked
        /\ settled'.fresh = (settled.fresh /\ "read" \in can)
        /\ settled'.asked = IF "read" \in can THEN {query} ELSE {}
    BY <1>1, <1>2
  <1>5. /\ list' \in Files!List /\ list'.query = list.query /\ list'.rows = list.rows
        /\ "read" \in can => list'.loading /\ list'.selected = list.selected
        /\ "read" \notin can => ~list'.selected
    BY <1>1, <1>2, FilesQueries DEF Files!LoadingList, Files!Begun, Files!Refused, Files!List
  <1>6. Files!TypeOK'
    <2>1. loadsLeft' \in 0 .. MaxLoads
      BY <1>1, BoundsArePositive DEF FilesInv, Files!TypeOK
    <2> QED
      BY <1>1, <1>2, <1>3, <1>4, <1>5, <2>1 DEF FilesInv, Files!TypeOK, SomeJob
  <1>7. FilesNewest'
    BY <1>3, <1>4 DEF FilesNewest
  <1>8. FilesJob'
    BY <1>1 DEF FilesInv, FilesJob
  <1>9. FilesWrites'
    BY <1>1, <1>4, <1>5 DEF FilesInv, FilesWrites
  <1>10. Files!FailsClosed'
    BY <1>3, <1>4, <1>5 DEF FilesInv, Files!FailsClosed
  <1>11. Files!NewestIsShown'
    BY <1>4, <1>5 DEF Files!NewestIsShown
  <1> QED
    BY <1>3, <1>6, <1>7, <1>8, <1>9, <1>10, <1>11 DEF FilesInv

LEMMA FilesAskSomethingInv == ASSUME FilesInv, Files!AskSomething PROVE FilesInv'
PROOF
  <1>1. list \in Files!List
    BY FilesState
  <1>2. /\ Files!Refreshed(list) \in Files!Query /\ Files!FirstQuery \in Files!Query
        /\ \A f \in Filter : Files!Searched(f) \in Files!Query
        /\ \A p \in Page : Files!Turned(list, p) \in Files!Query
    BY <1>1, FilesQueries
  <1>3. \E query \in Files!Query, clears \in BOOLEAN : Files!Ask(query, clears)
    BY <1>2 DEF Files!AskSomething
  <1> QED
    BY <1>3, FilesAskInv

LEMMA FilesAskInvalidInv == ASSUME FilesInv, Files!AskInvalid PROVE FilesInv'
PROOF
  <1>1. /\ loads' = Files!Disowned(Files!Replaced(loads))
        /\ list' = Files!Refused(list)
        /\ settled' = [settled EXCEPT !.asked = {}]
        /\ loadsLeft > 0 /\ loadsLeft' = loadsLeft - 1
        /\ UNCHANGED <<shown, job, pending, can, granted, written, failuresLeft>>
    BY DEF Files!AskInvalid, Files!serverVars
  <1>2. /\ loads \in SUBSET Files!Load /\ shown \in BOOLEAN /\ list \in Files!List
        /\ settled \in [acked : 0 .. MaxWrites + 1, fresh : BOOLEAN, asked : SUBSET Files!Query]
        /\ OneJob(loads)
        /\ job.step = "refresh" <=> SomeJob(loads)
    BY FilesState
  <1>3. FilesAged(loads, loads') /\ \A l \in loads' : ~l.newest /\ ~l.held
    BY <1>1, <1>2, FilesOvertaken
  <1>4. FilesLoads' /\ loads' \in SUBSET Files!Load /\ (SomeJob(loads') <=> SomeJob(loads))
    BY <1>2, <1>3 DEF FilesLoads, FilesAged, OneNewest, OneJob
  <1>5. /\ settled' \in [acked : 0 .. MaxWrites + 1, fresh : BOOLEAN, asked : SUBSET Files!Query]
        /\ settled'.acked = settled.acked /\ settled'.fresh = settled.fresh
        /\ settled'.asked = {}
    BY <1>1, <1>2
  <1>6. /\ list' \in Files!List /\ list'.query = list.query /\ list'.rows = list.rows
        /\ list'.selected = list.selected
    BY <1>1, <1>2 DEF Files!Refused, Files!List
  <1>7. Files!TypeOK'
    <2>1. loadsLeft' \in 0 .. MaxLoads
      BY <1>1, BoundsArePositive DEF FilesInv, Files!TypeOK
    <2> QED
      BY <1>1, <1>2, <1>4, <1>5, <1>6, <2>1 DEF FilesInv, Files!TypeOK, SomeJob
  <1>8. FilesNewest'
    BY <1>3 DEF FilesNewest
  <1>9. FilesJob' /\ FilesWrites'
    BY <1>1, <1>5, <1>6 DEF FilesInv, FilesJob, FilesWrites
  <1>10. Files!FailsClosed' /\ Files!NewestIsShown'
    BY <1>1, <1>5, <1>6 DEF FilesInv, Files!FailsClosed, Files!NewestIsShown
  <1> QED
    BY <1>4, <1>7, <1>8, <1>9, <1>10 DEF FilesInv

LEMMA FilesSelectInv == ASSUME FilesInv, Files!Select PROVE FilesInv'
PROOF
  <1>1. /\ shown /\ list' = [list EXCEPT !.selected = TRUE]
        /\ UNCHANGED <<loads, shown, job, pending, can, granted, written, loadsLeft,
                       failuresLeft, settled>>
    BY DEF Files!Select, Files!serverVars, Files!boundVars
  <1>2. /\ list' \in Files!List /\ list'.query = list.query /\ list'.rows = list.rows
        /\ list'.loading = list.loading
    BY <1>1, FilesState DEF Files!List
  <1>3. Files!TypeOK'
    BY <1>1, <1>2 DEF FilesInv, Files!TypeOK
  <1> QED
    BY <1>1, <1>2, <1>3
    DEF FilesInv, FilesLoads, OneNewest, OneJob, FilesNewest, FilesJob, FilesWrites,
        Files!FailsClosed, Files!NewestIsShown

(* A load is answered by the server: what it brings is as new as the server. *)
LEMMA FilesServeLoadInv == ASSUME FilesInv, NEW l \in loads, Files!ServeLoad(l) PROVE FilesInv'
PROOF
  <1>1. /\ loads \in SUBSET Files!Load /\ l \in Files!Load
        /\ OneNewest(loads) /\ OneJob(loads)
        /\ written \in 1 .. MaxWrites + 1 /\ failuresLeft \in 0 .. MaxFailures
        /\ settled.acked <= written
    BY FilesState DEF FilesInv, Files!TypeOK, FilesWrites
  <1>2. PICK q : /\ loads' = (loads \ {l}) \cup {q}
                 /\ \/ q = [l EXCEPT !.status = "ok", !.version = written]
                    \/ q = [l EXCEPT !.status = "denied"]
                    \/ q = [l EXCEPT !.status = "unavailable"]
    BY DEF Files!ServeLoad
  <1>3. /\ q \in Files!Load /\ q.newest = l.newest /\ q.held = l.held /\ q.fresh = l.fresh
        /\ q.owner = l.owner /\ q.query = l.query
        /\ q.status = "ok" => q.version = written
    <2>1. CASE q = [l EXCEPT !.status = "ok", !.version = written]
      <3>1. written \in 0 .. MaxWrites + 1
        BY <1>1, WritesAreBounded
      <3> QED
        BY <1>1, <2>1, <3>1
    <2>2. CASE q = [l EXCEPT !.status = "denied"]
      BY <1>1, <2>2
    <2>3. CASE q = [l EXCEPT !.status = "unavailable"]
      BY <1>1, <2>3
    <2> QED
      BY <1>2, <2>1, <2>2, <2>3
  <1>4. UNCHANGED <<list, shown, job, pending, can, granted, written, loadsLeft, settled>>
    BY DEF Files!ServeLoad, Files!serverVars
  <1>5. failuresLeft' \in 0 .. MaxFailures
    BY <1>1, BoundsArePositive DEF Files!ServeLoad
  <1>6. OneNewest(loads') /\ OneJob(loads')
    BY <1>1, <1>2, <1>3 DEF OneNewest, OneJob
  <1>7. SomeJob(loads') <=> SomeJob(loads)
    BY <1>2, <1>3 DEF SomeJob
  <1>8. FilesLoads'
    BY <1>2, <1>3, <1>4, <1>6 DEF FilesInv, FilesLoads, OneNewest, OneJob
  <1>9. FilesNewest'
    BY <1>1, <1>2, <1>3, <1>4 DEF FilesInv, FilesNewest
  <1>10. Files!TypeOK'
    BY <1>1, <1>2, <1>3, <1>4, <1>5, <1>7 DEF FilesInv, Files!TypeOK, SomeJob
  <1> QED
    BY <1>4, <1>8, <1>9, <1>10
    DEF FilesInv, FilesJob, FilesWrites, Files!FailsClosed, Files!NewestIsShown

(* A load is answered to the page. *)
LEMMA FilesAnswerLoadInv == ASSUME FilesInv, NEW l \in loads, Files!AnswerLoad(l) PROVE FilesInv'
PROOF
  <1> DEFINE good    == l.status = "ok"
             visible == IF l.held THEN good ELSE shown
             moved   == [job EXCEPT !.advanced = @ \/ (good /\ l.held /\ job.step = "refresh")]
             after   == IF good THEN Files!Shown(list, l, [query |-> l.query, version |-> l.version])
                        ELSE Files!Dropped(list, l)
             ended   == l.owner = "job"
  <1>1. /\ l.status # "sent"
        /\ shown' = visible
        /\ loads' = IF l.held /\ ~good THEN Files!Outdated(loads \ {l}) ELSE loads \ {l}
        /\ list' = [after EXCEPT !.selected = @ /\ (good \/ ~l.held)]
        /\ settled' = [settled EXCEPT !.fresh = IF l.held /\ ~good THEN FALSE
                                                ELSE IF good /\ l.newest THEN l.fresh ELSE @,
                                      !.asked = IF l.newest /\ ~good THEN {} ELSE @]
        /\ pending' = IF ended /\ (good \/ ~l.newest) /\ visible /\ moved.advanced
                      THEN "none" ELSE pending
        /\ job' = IF ended THEN Files!NoJob ELSE moved
        /\ UNCHANGED <<can, granted, written, loadsLeft, failuresLeft>>
    BY DEF Files!AnswerLoad, Files!serverVars, Files!boundVars, Files!MadeGood
  <1>2. /\ loads \in SUBSET Files!Load /\ shown \in BOOLEAN /\ list \in Files!List
        /\ settled \in [acked : 0 .. MaxWrites + 1, fresh : BOOLEAN, asked : SUBSET Files!Query]
        /\ OneNewest(loads) /\ OneJob(loads) /\ FilesLoads
        /\ job.step = "refresh" <=> SomeJob(loads)
        /\ job \in Files!Job /\ l \in Files!Load
    BY FilesState DEF FilesInv, Files!TypeOK
  <1>3. FilesAged(loads \ {l}, loads')
    <2>1. loads \ {l} \in SUBSET Files!Load
      BY <1>2
    <2>2. FilesAged(loads \ {l}, loads \ {l})
      BY <2>1 DEF FilesAged
    <2>3. FilesAged(loads \ {l}, Files!Outdated(loads \ {l}))
      BY <2>1, FilesOutdated
    <2> QED
      BY <1>1, <2>2, <2>3
  <1>4. /\ loads' \in SUBSET Files!Load /\ OneNewest(loads') /\ OneJob(loads')
        /\ SomeJob(loads') <=> SomeJob(loads) /\ ~ended
    BY <1>2, <1>3 DEF FilesAged, OneNewest, OneJob, SomeJob
  <1>5. l.newest => \A r \in loads' : ~r.newest
    BY <1>2, <1>3 DEF FilesAged, OneNewest
  <1>6. /\ list' \in Files!List
        /\ good /\ l.newest => /\ list'.query = l.query /\ list'.rows.query = l.query
                               /\ list'.rows.version = l.version
        /\ ~(good /\ l.newest) => /\ list'.query = list.query /\ list'.rows = list.rows
        /\ ~l.newest => list'.loading = list.loading
        /\ list'.selected => list.selected /\ (good \/ ~l.held)
    <2>1. [query |-> l.query, version |-> l.version] \in Files!Rows
      BY <1>2 DEF Files!Rows
    <2>2. /\ after \in Files!List
          /\ good /\ l.newest => /\ after.query = l.query
                                 /\ after.rows = [query |-> l.query, version |-> l.version]
          /\ ~(good /\ l.newest) => /\ after.query = list.query /\ after.rows = list.rows
          /\ ~l.newest => after.loading = list.loading
          /\ after.selected => list.selected
      <3>1. CASE l.newest /\ good
        <4> DEFINE rows     == [query |-> l.query, version |-> l.version]
                   selected == list.selected /\ ~l.clears
        <4>1. after = [list EXCEPT !.query = l.query, !.rows = rows, !.loading = FALSE,
                                   !.selected = selected]
          BY <3>1 DEF Files!Shown
        <4>2. selected \in BOOLEAN /\ (selected => list.selected) /\ l.query \in Files!Query
          BY <1>2
        <4> HIDE DEF rows, selected, after
        <4>3. rows \in Files!Rows
          BY <2>1 DEF rows
        <4>4. /\ after \in Files!List /\ after.query = l.query /\ after.rows = rows
              /\ after.selected = selected
          BY <1>2, <4>1, <4>2, <4>3 DEF Files!List
        <4> QED
          BY <3>1, <4>2, <4>4 DEF rows
      <3>2. CASE l.newest /\ ~good
        BY <1>2, <3>2 DEF Files!Dropped, Files!List
      <3>3. CASE ~l.newest
        BY <1>2, <3>3 DEF Files!Shown, Files!Dropped
      <3> QED
        BY <3>1, <3>2, <3>3
    <2> HIDE DEF after
    <2> DEFINE selected == after.selected /\ (good \/ ~l.held)
    <2>3. list' = [after EXCEPT !.selected = selected]
      BY <1>1
    <2>4. /\ selected \in BOOLEAN
          /\ selected => list.selected /\ (good \/ ~l.held)
      BY <2>2 DEF Files!List
    <2> HIDE DEF selected
    <2>5. /\ list' \in Files!List /\ list'.selected = selected
          /\ list'.query = after.query /\ list'.rows = after.rows
          /\ list'.loading = after.loading
      BY <2>2, <2>3, <2>4 DEF Files!List
    <2> HIDE DEF good
    <2> QED
      BY <2>2, <2>4, <2>5
  <1>7. /\ settled' \in [acked : 0 .. MaxWrites + 1, fresh : BOOLEAN, asked : SUBSET Files!Query]
        /\ settled'.acked = settled.acked
        /\ settled'.fresh = IF l.held /\ ~good THEN FALSE
                            ELSE IF good /\ l.newest THEN l.fresh ELSE settled.fresh
        /\ settled'.asked = IF l.newest /\ ~good THEN {} ELSE settled.asked
    BY <1>1, <1>2
  <1>8. /\ moved \in Files!Job /\ moved.kind = job.kind /\ moved.step = job.step
        /\ moved.status = job.status /\ moved.version = job.version
        /\ moved.advanced = (job.advanced \/ (good /\ l.held /\ job.step = "refresh"))
    BY <1>2 DEF Files!Job
  <1> HIDE DEF after, moved
  <1>9. Files!TypeOK'
    <2>1. job' \in Files!Job
      BY <1>1, <1>8, WritesAreBounded DEF Files!NoJob, Files!Job
    <2>2. job'.step = "refresh" <=> SomeJob(loads')
      BY <1>1, <1>2, <1>4, <1>8 DEF Files!NoJob, SomeJob
    <2>3. shown' \in BOOLEAN
      BY <1>1, <1>2
    <2> QED
      BY <1>1, <1>4, <1>6, <1>7, <2>1, <2>2, <2>3 DEF FilesInv, Files!TypeOK, SomeJob
  <1>10. FilesLoads'
    <2>1. \A r \in loads' : \E m \in loads \ {l} :
            (r.newest => m.newest) /\ (r.held => m.held)
      BY <1>3 DEF FilesAged
    <2>2. \A r \in loads' : r.held => r.newest /\ r.fresh
      <3>1. CASE l.held
        BY <1>5, <2>1, <3>1, <1>2 DEF FilesLoads, OneNewest
      <3>2. CASE ~l.held
        BY <1>1, <1>2, <3>2 DEF FilesLoads
      <3> QED
        BY <3>1, <3>2
    <2>3. \A r \in loads' : r.newest /\ ~r.held => ~shown'
      <3>1. CASE l.held
        BY <1>2, <1>5, <3>1 DEF FilesLoads
      <3>2. CASE ~l.held
        BY <1>1, <1>2, <3>2 DEF FilesLoads
      <3> QED
        BY <3>1, <3>2
    <2> QED
      BY <1>4, <2>2, <2>3 DEF FilesLoads, OneNewest, OneJob
  <1>11. FilesNewest'
    <2> SUFFICES ASSUME NEW r \in loads', r.newest
                 PROVE  /\ settled'.asked \subseteq {r.query}
                        /\ r.status = "ok" => r.version >= settled'.acked
      BY DEF FilesNewest
    <2>1. PICK m \in loads : /\ m.newest /\ r.query = m.query
                             /\ r.status = m.status /\ r.version = m.version
      BY <1>3 DEF FilesAged
    <2> QED
      BY <1>5, <1>7, <2>1 DEF FilesInv, FilesNewest
  <1>12. FilesJob'
    BY <1>1, <1>8 DEF FilesInv, FilesJob, Files!NoJob, Files!Intent
  <1>13. FilesWrites'
    <2>1. good /\ l.newest => l.version >= settled.acked
      BY DEF FilesInv, FilesNewest
    <2>2. l.held => l.newest
      BY <1>2 DEF FilesLoads
    <2>3. pending = "none" \/ job.advanced => list.rows.version >= settled.acked
      BY DEF FilesInv, FilesWrites
    <2>4. pending = "none" \/ moved.advanced => list'.rows.version >= settled.acked
      BY <1>6, <1>8, <2>1, <2>2, <2>3
    <2>5. (pending' = "none" => pending = "none" \/ moved.advanced)
          /\ (job'.advanced => moved.advanced)
      BY <1>1 DEF Files!NoJob
    <2>6. job'.status = "ok" => job'.version <= written
      BY <1>1, <1>8 DEF FilesInv, FilesWrites, Files!NoJob
    <2> QED
      BY <1>1, <1>7, <2>4, <2>5, <2>6 DEF FilesInv, FilesWrites
  <1>14. Files!FailsClosed'
    <2>1. l.held => l.newest /\ l.fresh
      BY <1>2 DEF FilesLoads
    <2>2. l.newest /\ ~l.held => ~shown
      BY <1>2 DEF FilesLoads
    <2>3. (shown => settled.fresh) /\ (list.selected => shown)
      BY DEF FilesInv, Files!FailsClosed
    <2>4. shown' => settled'.fresh
      BY <1>1, <1>7, <2>1, <2>2, <2>3
    <2>5. list'.selected => shown'
      BY <1>1, <1>6, <2>3
    <2> QED
      BY <2>4, <2>5 DEF Files!FailsClosed
  <1>15. Files!NewestIsShown'
    <2> SUFFICES ASSUME ~list'.loading, NEW query \in settled'.asked
                 PROVE  list'.query = query /\ list'.rows.query = query
      BY DEF Files!NewestIsShown
    <2>1. CASE l.newest
      <3>1. good /\ query = l.query
        BY <1>7, <2>1 DEF FilesInv, FilesNewest
      <3> QED
        BY <1>6, <2>1, <3>1
    <2>2. CASE ~l.newest
      BY <1>6, <1>7, <2>2 DEF FilesInv, Files!NewestIsShown
    <2> QED
      BY <2>1, <2>2
  <1> QED
    BY <1>9, <1>10, <1>11, <1>12, <1>13, <1>14, <1>15 DEF FilesInv

(* What a job does between its refreshes: it may fail, and nothing else     *)
(* touches the list.                                                        *)
LEMMA FilesJobSteps ==
  ASSUME FilesInv, NEW status, Files!FailOperation(status),
         job' \in Files!Job, job'.step = "refresh" <=> job.step = "refresh",
         job'.advanced => job.advanced,
         FilesJob', job'.status = "ok" => job'.version <= written',
         pending' = pending,
         can' \subseteq Files!Right, granted' \subseteq Files!Right,
         written' \in written .. MaxWrites + 1,
         loadsLeft' = loadsLeft, failuresLeft' \in 0 .. MaxFailures
  PROVE  FilesInv'
PROOF
  <1>1. /\ FilesAged(loads, loads') /\ FilesLoads'
        /\ shown' \in BOOLEAN /\ list' \in Files!List
        /\ list'.query = list.query /\ list'.rows = list.rows
        /\ list'.loading = list.loading
        /\ settled' \in [acked : 0 .. MaxWrites + 1, fresh : BOOLEAN, asked : SUBSET Files!Query]
        /\ settled'.acked = settled.acked /\ settled'.asked = settled.asked
        /\ Files!FailsClosed'
    BY FilesFailing
  <1>2. /\ written \in 1 .. MaxWrites + 1 /\ settled.acked \in 0 .. MaxWrites + 1
        /\ settled.acked <= written /\ (job.step = "refresh" <=> SomeJob(loads))
    BY FilesState DEF FilesInv, Files!TypeOK, FilesWrites
  <1>3. Files!TypeOK'
    <2>1. /\ loads' \in SUBSET Files!Load /\ (SomeJob(loads') <=> SomeJob(loads))
      BY <1>1 DEF FilesAged
    <2>2. written' \in 1 .. MaxWrites + 1
      BY <1>2, WritesAreBounded
    <2> QED
      BY <1>1, <1>2, <2>1, <2>2 DEF FilesInv, Files!TypeOK, SomeJob
  <1>4. FilesNewest'
    BY <1>1 DEF FilesInv, FilesNewest, FilesAged
  <1>5. FilesWrites'
    <2>1. settled'.acked <= written'
      BY <1>1, <1>2, WritesAreBounded
    <2> QED
      BY <1>1, <2>1 DEF FilesInv, FilesWrites
  <1>6. Files!NewestIsShown'
    BY <1>1 DEF FilesInv, Files!NewestIsShown
  <1> QED
    BY <1>1, <1>3, <1>4, <1>5, <1>6 DEF FilesInv

LEMMA FilesNothingFails ==
  UNCHANGED <<loads, shown, list, settled>> => Files!FailOperation("conflict")
  BY DEF Files!FailOperation, Files!Hiding

LEMMA FilesJobState ==
  ASSUME FilesInv
  PROVE  /\ job \in Files!Job /\ Files!NoJob \in Files!Job
         /\ FilesJob
         /\ job.status = "ok" => job.version <= written
         /\ can \subseteq Files!Right /\ granted \subseteq Files!Right
         /\ written \in written .. MaxWrites + 1 /\ written \in 1 .. MaxWrites + 1
         /\ failuresLeft \in 0 .. MaxFailures
         /\ failuresLeft > 0 => failuresLeft - 1 \in 0 .. MaxFailures
  BY WritesAreBounded, BoundsArePositive
  DEF FilesInv, Files!TypeOK, FilesWrites, Files!NoJob, Files!Job, Files!Intent

(* A job that is over, or was never begun, leaves nothing behind. *)
LEMMA FilesJobOver ==
  ASSUME FilesInv, NEW status, Files!FailOperation(status),
         job.step # "refresh", job' = Files!NoJob \/ job' = job,
         failuresLeft' \in 0 .. MaxFailures,
         UNCHANGED <<pending, can, granted, written, loadsLeft>>
  PROVE  FilesInv'
  <1>1. /\ job' \in Files!Job /\ job'.step # "refresh" /\ FilesJob'
        /\ job'.advanced => job.advanced
        /\ job'.status = "ok" => job'.version <= written'
    <2>1. CASE job' = Files!NoJob
      BY <2>1, FilesJobState DEF FilesJob, Files!NoJob, Files!Intent
    <2>2. CASE job' = job
      BY <2>2, FilesJobState DEF FilesJob
    <2> QED
      BY <2>1, <2>2
  <1>2. /\ can' \subseteq Files!Right /\ granted' \subseteq Files!Right
        /\ written' \in written .. MaxWrites + 1
    BY FilesJobState
  <1> QED
    BY <1>1, <1>2, FilesJobSteps

LEMMA FilesStartSomethingInv == ASSUME FilesInv, Files!StartSomething PROVE FilesInv'
PROOF
  <1>1. PICK kind \in Files!Intent, right \in {"write", "delete"}, step \in {"policy", "confirm"} :
          Files!Start(kind, right, step)
    BY DEF Files!StartSomething, Files!Intent
  <1>2. /\ job = Files!NoJob /\ written <= MaxWrites
        /\ UNCHANGED <<pending, can, granted, written, loadsLeft, failuresLeft>>
    BY <1>1 DEF Files!Start, Files!Busy, Files!serverVars, Files!boundVars
  <1>3. /\ job \in Files!Job /\ can \subseteq Files!Right /\ granted \subseteq Files!Right
        /\ written \in written .. MaxWrites + 1 /\ failuresLeft \in 0 .. MaxFailures
    BY FilesJobState
  <1>4. CASE /\ job' = [Files!NoJob EXCEPT !.kind = kind, !.step = step]
             /\ UNCHANGED <<loads, shown, list, settled>>
    <2>1. Files!FailOperation("conflict")
      BY <1>4, FilesNothingFails
    <2>2. /\ job' \in Files!Job /\ job'.step = step /\ job'.kind = kind
          /\ ~job'.advanced /\ job'.status = "sent"
      BY <1>2, <1>3, <1>4 DEF Files!NoJob, Files!Job
    <2>3. FilesJob'
      BY <1>2, <2>2 DEF FilesJob
    <2> QED
      BY <1>2, <1>3, <2>1, <2>2, <2>3, FilesJobSteps DEF Files!NoJob
  <1>5. CASE job' = job /\ Files!FailOperation("denied")
    BY <1>2, <1>3, <1>5, FilesJobOver DEF Files!NoJob
  <1> QED
    BY <1>1, <1>4, <1>5 DEF Files!Start

LEMMA FilesStartDownloadInv == ASSUME FilesInv, Files!StartDownload PROVE FilesInv'
PROOF
  <1>1. /\ job = Files!NoJob
        /\ UNCHANGED <<pending, can, granted, written, loadsLeft, failuresLeft>>
    BY DEF Files!StartDownload, Files!Busy, Files!serverVars, Files!boundVars
  <1>2. /\ job \in Files!Job /\ can \subseteq Files!Right /\ granted \subseteq Files!Right
        /\ written \in written .. MaxWrites + 1 /\ failuresLeft \in 0 .. MaxFailures
    BY FilesJobState
  <1>3. CASE /\ job' = [Files!NoJob EXCEPT !.kind = "download", !.step = "write"]
             /\ UNCHANGED <<loads, shown, list, settled>>
    <2>1. Files!FailOperation("conflict")
      BY <1>3, FilesNothingFails
    <2>2. /\ job' \in Files!Job /\ job'.step = "write" /\ job'.kind = "download"
          /\ ~job'.advanced /\ job'.status = "sent"
      BY <1>1, <1>2, <1>3 DEF Files!NoJob, Files!Job
    <2>3. FilesJob'
      BY <2>2 DEF FilesJob, Files!Intent
    <2> QED
      BY <1>1, <1>2, <2>1, <2>2, <2>3, FilesJobSteps DEF Files!NoJob
  <1>4. CASE job' = job /\ Files!FailOperation("denied")
    BY <1>1, <1>2, <1>4, FilesJobOver DEF Files!NoJob
  <1> QED
    BY <1>3, <1>4 DEF Files!StartDownload

LEMMA FilesPolicyInv == ASSUME FilesInv, Files!Policy PROVE FilesInv'
PROOF
  <1>1. /\ job.step = "policy"
        /\ UNCHANGED <<pending, can, granted, written, loadsLeft>>
    BY DEF Files!Policy, Files!serverVars
  <1>2. /\ job \in Files!Job /\ FilesJob
        /\ job.status = "ok" => job.version <= written
        /\ can \subseteq Files!Right /\ granted \subseteq Files!Right
        /\ written \in written .. MaxWrites + 1 /\ failuresLeft \in 0 .. MaxFailures
        /\ failuresLeft > 0 => failuresLeft - 1 \in 0 .. MaxFailures
    BY FilesJobState
  <1>3. CASE /\ job' = [job EXCEPT !.step = "write"]
             /\ UNCHANGED <<loads, shown, list, settled, failuresLeft>>
    <2>1. Files!FailOperation("conflict")
      BY <1>3, FilesNothingFails
    <2>2. /\ job' \in Files!Job /\ job'.step = "write" /\ job'.kind = job.kind
          /\ job'.advanced = job.advanced /\ job'.status = job.status /\ job'.version = job.version
      BY <1>2, <1>3 DEF Files!Job
    <2>3. FilesJob'
      BY <1>1, <1>2, <2>2 DEF FilesJob
    <2> QED
      BY <1>1, <1>2, <1>3, <2>1, <2>2, <2>3, FilesJobSteps
  <1>4. CASE job' = Files!NoJob /\ UNCHANGED <<loads, shown, list, settled, failuresLeft>>
    BY <1>1, <1>2, <1>4, FilesNothingFails, FilesJobOver
  <1>5. CASE /\ failuresLeft > 0 /\ failuresLeft' = failuresLeft - 1
             /\ job' = Files!NoJob /\ Files!FailOperation("unavailable")
    BY <1>1, <1>2, <1>5, FilesJobOver
  <1> QED
    BY <1>3, <1>4, <1>5 DEF Files!Policy

LEMMA FilesConfirmInv == ASSUME FilesInv, Files!Confirm PROVE FilesInv'
PROOF
  <1>1. /\ job.step = "confirm"
        /\ UNCHANGED <<pending, can, granted, written, loadsLeft, failuresLeft>>
    BY DEF Files!Confirm, Files!serverVars, Files!boundVars
  <1>2. /\ job \in Files!Job /\ FilesJob
        /\ job.status = "ok" => job.version <= written
        /\ can \subseteq Files!Right /\ granted \subseteq Files!Right
        /\ written \in written .. MaxWrites + 1 /\ failuresLeft \in 0 .. MaxFailures
    BY FilesJobState
  <1>3. CASE job' = Files!NoJob /\ UNCHANGED <<loads, shown, list, settled>>
    BY <1>1, <1>2, <1>3, FilesNothingFails, FilesJobOver
  <1>4. CASE /\ job' = [job EXCEPT !.step = "write"]
             /\ UNCHANGED <<loads, shown, list, settled>>
    <2>1. Files!FailOperation("conflict")
      BY <1>4, FilesNothingFails
    <2>2. /\ job' \in Files!Job /\ job'.step = "write" /\ job'.kind = job.kind
          /\ job'.advanced = job.advanced /\ job'.status = job.status /\ job'.version = job.version
      BY <1>2, <1>4 DEF Files!Job
    <2>3. FilesJob'
      BY <1>1, <1>2, <2>2 DEF FilesJob
    <2> QED
      BY <1>1, <1>2, <2>1, <2>2, <2>3, FilesJobSteps
  <1>5. CASE job' = Files!NoJob /\ Files!FailOperation("denied")
    BY <1>1, <1>2, <1>5, FilesJobOver
  <1> QED
    BY <1>3, <1>4, <1>5 DEF Files!Confirm

LEMMA FilesServeJobInv == ASSUME FilesInv, Files!ServeJob PROVE FilesInv'
PROOF
  <1>1. /\ job.step = "write" /\ job.status = "sent"
        /\ UNCHANGED <<list, loads, shown, pending, can, granted, loadsLeft, settled>>
    BY DEF Files!ServeJob
  <1>2. /\ job \in Files!Job /\ FilesJob
        /\ can \subseteq Files!Right /\ granted \subseteq Files!Right
        /\ written \in 1 .. MaxWrites + 1 /\ failuresLeft \in 0 .. MaxFailures
        /\ failuresLeft > 0 => failuresLeft - 1 \in 0 .. MaxFailures
    BY FilesJobState
  <1>3. Files!FailOperation("conflict")
    BY <1>1, FilesNothingFails
  <1>4. PICK status \in {"ok", "unavailable", "denied", "conflict"} :
          \/ job' = [job EXCEPT !.status = status] /\ status # "ok"
          \/ job' = [job EXCEPT !.status = status, !.version = written']
    BY DEF Files!ServeJob
  <1>5. \/ written' = IF job.kind \in Files!Intent THEN written + 1 ELSE written
        \/ written' = written
    BY DEF Files!ServeJob
  <1>6. written' \in written .. MaxWrites + 1 /\ written' \in 0 .. MaxWrites + 1
    BY <1>1, <1>2, <1>5, WritesAreBounded DEF FilesJob
  <1>7. failuresLeft' \in 0 .. MaxFailures
    BY <1>2 DEF Files!ServeJob
  <1>8. /\ job' \in Files!Job /\ job'.kind = job.kind /\ job'.step = job.step
        /\ job'.advanced = job.advanced /\ job'.status = status
        /\ status = "ok" => job'.version = written'
    BY <1>2, <1>4, <1>6 DEF Files!Job
  <1>9. FilesJob'
    BY <1>1, <1>2, <1>8 DEF FilesJob
  <1> QED
    BY <1>1, <1>2, <1>3, <1>6, <1>7, <1>8, <1>9, FilesJobSteps

(* A refresh begins: all that is under way is overtaken, and until a newer  *)
(* load has shown the rows the repair stays owed.                           *)
LEMMA FilesRefreshing ==
  ASSUME FilesInv, job.step # "refresh",
         NEW kind \in Files!Intent \cup {"repair"},
         NEW l \in Files!List, l.query = list.query, l.rows = list.rows,
         l.selected => list.selected,
         Files!BeginRefresh(kind, l, loads),
         NEW acked \in 0 .. MaxWrites + 1, acked <= written,
         settled' = [acked |-> acked, fresh |-> settled.fresh /\ "read" \in can,
                     asked |-> IF "read" \in can THEN {list.query} ELSE {}],
         pending' \in Files!Intent,
         loadsLeft' \in 0 .. MaxLoads,
         UNCHANGED <<can, granted, written, failuresLeft>>
  PROVE  FilesInv'
PROOF
  <1>1. /\ ~SomeJob(loads) /\ list \in Files!List /\ shown \in BOOLEAN
        /\ settled.fresh \in BOOLEAN /\ l.query \in Files!Query
    BY FilesState DEF Files!List
  <1>2. /\ Files!Loading(l.query, FALSE, "job", loads)
        /\ list' = Files!LoadingList(l)
        /\ job' = IF "read" \in can THEN [Files!NoJob EXCEPT !.kind = kind, !.step = "refresh"]
                  ELSE Files!NoJob
    BY DEF Files!BeginRefresh, Files!Refreshed
  <1>3. /\ loads' \in SUBSET Files!Load
        /\ FilesLoads'
        /\ \A r \in loads' : r.newest => "read" \in can /\ r.query = l.query /\ r.status = "sent"
        /\ SomeJob(loads)' <=> SomeJob(loads) \/ "read" \in can
        /\ shown' = (shown /\ "read" \in can) /\ shown' \in BOOLEAN
    BY <1>1, <1>2, FilesLoading
  <1>4. /\ list' \in Files!List /\ list'.rows = list.rows
        /\ "read" \in can => list'.loading /\ list'.selected = l.selected
        /\ "read" \notin can => ~list'.selected
    BY <1>2, FilesQueries DEF Files!LoadingList, Files!Begun, Files!Refused, Files!List
  <1>5. /\ job' \in Files!Job
        /\ job'.step = "refresh" <=> "read" \in can
        /\ job'.step = "none" \/ job'.step = "refresh"
        /\ ~job'.advanced /\ job'.status = "sent"
        /\ job'.step = "none" => job'.kind = "none"
    <2> DEFINE refreshing == [kind |-> kind, step |-> "refresh", status |-> "sent",
                              version |-> 0, advanced |-> FALSE]
    <2>1. CASE "read" \in can
      <3>1. job' = refreshing
        BY <1>2, <2>1 DEF Files!NoJob
      <3>2. kind \in Files!Intent \cup {"none", "download", "repair"}
        OBVIOUS
      <3>3. job' \in Files!Job
        BY <3>1, <3>2, WritesAreBounded DEF Files!Job
      <3> QED
        BY <2>1, <3>1, <3>3
    <2>2. CASE "read" \notin can
      BY <1>2, <2>2, WritesAreBounded DEF Files!NoJob, Files!Job
    <2> QED
      BY <2>1, <2>2
  <1>6. /\ settled' \in [acked : 0 .. MaxWrites + 1, fresh : BOOLEAN, asked : SUBSET Files!Query]
        /\ settled'.acked = acked
        /\ settled'.fresh = (settled.fresh /\ "read" \in can)
        /\ settled'.asked = IF "read" \in can THEN {list.query} ELSE {}
    <2> DEFINE fresh == settled.fresh /\ "read" \in can
               asked == IF "read" \in can THEN {list.query} ELSE {}
    <2>1. fresh \in BOOLEAN /\ asked \in SUBSET Files!Query
      BY <1>1
    <2>2. settled' = [acked |-> acked, fresh |-> fresh, asked |-> asked]
      OBVIOUS
    <2> HIDE DEF fresh, asked
    <2>3. /\ settled' \in [acked : 0 .. MaxWrites + 1, fresh : BOOLEAN, asked : SUBSET Files!Query]
          /\ settled'.acked = acked /\ settled'.fresh = fresh /\ settled'.asked = asked
      BY <2>1, <2>2
    <2> QED
      BY <2>3 DEF fresh, asked
  <1>7. Files!TypeOK'
    BY <1>1, <1>3, <1>4, <1>5, <1>6 DEF FilesInv, Files!TypeOK, SomeJob
  <1>8. FilesNewest'
    BY <1>3, <1>6 DEF FilesNewest
  <1>9. FilesJob'
    BY <1>5 DEF FilesJob, Files!Intent
  <1>10. FilesWrites'
    BY <1>5, <1>6 DEF FilesWrites, Files!Intent
  <1>11. Files!FailsClosed'
    BY <1>3, <1>4, <1>6 DEF FilesInv, Files!FailsClosed
  <1>12. Files!NewestIsShown'
    BY <1>4, <1>6 DEF Files!NewestIsShown
  <1> QED
    BY <1>3, <1>7, <1>8, <1>9, <1>10, <1>11, <1>12 DEF FilesInv

LEMMA FilesAnswerJobInv == ASSUME FilesInv, Files!AnswerJob PROVE FilesInv'
PROOF
  <1>1. /\ job.step = "write" /\ job.status # "sent"
        /\ UNCHANGED <<can, granted, written, loadsLeft, failuresLeft>>
    BY DEF Files!AnswerJob, Files!serverVars, Files!boundVars
  <1>2. /\ job \in Files!Job /\ FilesJob
        /\ job.status = "ok" => job.version <= written
        /\ failuresLeft \in 0 .. MaxFailures
    BY FilesJobState
  <1>3. CASE job.status # "ok"
    BY <1>1, <1>2, <1>3, FilesJobOver DEF Files!AnswerJob
  <1>4. CASE job.status = "ok" /\ job.kind = "download"
    BY <1>1, <1>2, <1>4, FilesNothingFails, FilesJobOver DEF Files!AnswerJob
  <1>5. CASE job.status = "ok" /\ job.kind # "download"
    <2> DEFINE selected == list.selected /\ job.kind = "upload"
               l == [list EXCEPT !.selected = selected]
    <2>1. /\ pending' = job.kind
          /\ Files!BeginRefresh(job.kind, l, loads)
          /\ settled' = [acked |-> job.version, fresh |-> settled.fresh /\ "read" \in can,
                         asked |-> IF "read" \in can THEN {list.query} ELSE {}]
      BY <1>5 DEF Files!AnswerJob
    <2>2. selected \in BOOLEAN /\ (selected => list.selected) /\ list \in Files!List
      BY FilesState DEF Files!List
    <2> HIDE DEF selected
    <2>3. /\ l \in Files!List /\ l.query = list.query /\ l.rows = list.rows
          /\ l.selected = selected
      BY <2>2 DEF Files!List
    <2> HIDE DEF l
    <2>4. job.kind \in Files!Intent /\ job.version \in 0 .. MaxWrites + 1
      BY <1>1, <1>2, <1>5 DEF FilesJob, Files!Job
    <2>5. loadsLeft' \in 0 .. MaxLoads
      BY <1>1 DEF FilesInv, Files!TypeOK
    <2> QED
      BY <1>1, <1>2, <1>5, <2>1, <2>2, <2>3, <2>4, <2>5, FilesRefreshing
  <1> QED
    BY <1>3, <1>4, <1>5

LEMMA FilesRepairInv == ASSUME FilesInv, Files!Repair PROVE FilesInv'
PROOF
  <1>1. /\ job = Files!NoJob /\ pending # "none"
        /\ Files!BeginRefresh("repair", list, loads)
        /\ settled' = [settled EXCEPT !.fresh = @ /\ "read" \in can,
                                      !.asked = IF "read" \in can THEN {list.query} ELSE {}]
        /\ loadsLeft > 0 /\ loadsLeft' = loadsLeft - 1
        /\ UNCHANGED <<pending, can, granted, written, failuresLeft>>
    BY DEF Files!Repair, Files!Busy, Files!LoadingHistory, Files!Refreshed, Files!serverVars
  <1>2. /\ pending' \in Files!Intent /\ loadsLeft' \in 0 .. MaxLoads
        /\ settled.acked <= written
    BY <1>1, BoundsArePositive DEF FilesInv, Files!TypeOK, FilesWrites
  <1>3. /\ list \in Files!List /\ settled.acked \in 0 .. MaxWrites + 1
        /\ settled' = [acked |-> settled.acked, fresh |-> settled.fresh /\ "read" \in can,
                       asked |-> IF "read" \in can THEN {list.query} ELSE {}]
    BY <1>1, FilesState
  <1>4. job.step # "refresh"
    BY <1>1 DEF Files!NoJob
  <1> QED
    BY <1>1, <1>2, <1>3, <1>4, FilesRefreshing

LEMMA FilesWithdrawInv ==
  ASSUME FilesInv, NEW right \in Files!Right, Files!Withdraw(right) PROVE FilesInv'
PROOF
  <1>1. /\ granted' = granted \ {right} /\ failuresLeft > 0 /\ failuresLeft' = failuresLeft - 1
        /\ UNCHANGED <<list, loads, shown, job, pending, can, written, loadsLeft, settled>>
    BY DEF Files!Withdraw
  <1>2. FilesJob'
    BY <1>1, FilesJobState DEF FilesJob
  <1> QED
    BY <1>1, <1>2, FilesNothingFails, FilesJobState, FilesJobSteps

LEMMA FilesLearnInv == ASSUME FilesInv, Files!Learn PROVE FilesInv'
PROOF
  <1>1. /\ can' = granted
        /\ UNCHANGED <<list, loads, shown, job, pending, granted, written, loadsLeft,
                       failuresLeft, settled>>
    BY DEF Files!Learn, Files!serverVars, Files!boundVars
  <1>2. FilesJob'
    BY <1>1, FilesJobState DEF FilesJob
  <1> QED
    BY <1>1, <1>2, FilesNothingFails, FilesJobState, FilesJobSteps

LEMMA FilesInitInv == Files!Init => FilesInv
PROOF
  <1> SUFFICES ASSUME Files!Init PROVE FilesInv
    OBVIOUS
  <1>1. Files!EmptyList \in Files!List
    BY QueriesAreNamed, WritesAreBounded
    DEF Files!EmptyList, Files!List, Files!Rows, Files!NoRows, Files!FirstQuery, Files!Query
  <1>2. Files!NoJob \in Files!Job
    BY WritesAreBounded DEF Files!NoJob, Files!Job
  <1>3. settled \in [acked : 0 .. MaxWrites + 1, fresh : BOOLEAN, asked : SUBSET Files!Query]
    BY WritesAreBounded DEF Files!Init
  <1>4. Files!TypeOK
    <2>1. /\ list \in Files!List /\ job \in Files!Job /\ loads = {} /\ shown \in BOOLEAN
          /\ job.step # "refresh" /\ pending = "none" /\ can \subseteq Files!Right
          /\ granted \subseteq Files!Right
      BY <1>1, <1>2 DEF Files!Init, Files!NoJob, Files!Right
    <2>2. /\ written \in 1 .. MaxWrites + 1
          /\ loadsLeft \in 0 .. MaxLoads /\ failuresLeft \in 0 .. MaxFailures
      BY WritesAreBounded, BoundsArePositive DEF Files!Init
    <2> QED
      BY <1>3, <2>1, <2>2 DEF Files!TypeOK
  <1>5. FilesLoads /\ FilesNewest /\ FilesJob
    BY DEF Files!Init, FilesLoads, FilesNewest, FilesJob, Files!NoJob, Files!Intent,
           OneNewest, OneJob
  <1>6. FilesWrites /\ Files!FailsClosed /\ Files!NewestIsShown
    BY DEF Files!Init, FilesWrites, Files!FailsClosed, Files!NewestIsShown, Files!NoJob,
           Files!EmptyList, Files!NoRows
  <1> QED
    BY <1>4, <1>5, <1>6 DEF FilesInv

LEMMA FilesNextInv == ASSUME FilesInv, Files!Next PROVE FilesInv'
  BY FilesAskSomethingInv, FilesAskInvalidInv, FilesSelectInv, FilesServeLoadInv,
     FilesAnswerLoadInv, FilesStartSomethingInv, FilesStartDownloadInv, FilesPolicyInv,
     FilesConfirmInv, FilesServeJobInv, FilesAnswerJobInv, FilesRepairInv, FilesWithdrawInv,
     FilesLearnInv
  DEF Files!Next

HIDE DEF Files!Load, Files!Status

-----------------------------------------------------------------------------
(* What loads on the scheduler page become, projection by projection. *)
USE DEF Scheduler!Load, Scheduler!Status

SchedulerAged(ls, rs) ==
  /\ rs \in SUBSET Scheduler!Load
  /\ \A r \in rs : \E l \in ls :
       /\ r.of = l.of /\ r.query = l.query
       /\ r.newest => l.newest
       /\ r.held => l.held
       /\ r.fresh => l.fresh
  /\ OneNewestOfEach(ls) => OneNewestOfEach(rs)
  /\ OneJob(ls) => OneJob(rs)
  /\ SomeJob(rs) <=> SomeJob(ls)

(* Any change of the loads, one by one, that only takes marks away. *)
LEMMA SchedulerAging ==
  ASSUME NEW ls \in SUBSET Scheduler!Load, NEW g \in [ls -> Scheduler!Load],
         \A l \in ls :
           /\ g[l].of = l.of /\ g[l].query = l.query /\ g[l].owner = l.owner
           /\ g[l].newest => l.newest
           /\ g[l].held => l.held
           /\ g[l].fresh => l.fresh
  PROVE  SchedulerAged(ls, {g[l] : l \in ls})
  <1> DEFINE rs == {g[l] : l \in ls}
  <1>1. \A r \in rs : \E l \in ls : r = g[l]
    OBVIOUS
  <1>2. \A l \in ls : g[l] \in rs
    OBVIOUS
  <1> HIDE DEF rs
  <1>3. ASSUME OneNewestOfEach(ls), NEW r \in rs, NEW s \in rs,
               r.of = s.of, r.newest, s.newest
        PROVE  r = s
    <2>1. PICK l \in ls : r = g[l]
      BY <1>1
    <2>2. PICK m \in ls : s = g[m]
      BY <1>1
    <2> QED
      BY <1>3, <2>1, <2>2 DEF OneNewestOfEach
  <1>4. ASSUME OneJob(ls), NEW r \in rs, NEW s \in rs, r.owner = "job", s.owner = "job"
        PROVE  r = s
    <2>1. PICK l \in ls : r = g[l]
      BY <1>1
    <2>2. PICK m \in ls : s = g[m]
      BY <1>1
    <2> QED
      BY <1>4, <2>1, <2>2 DEF OneJob
  <1>5. SomeJob(rs) <=> SomeJob(ls)
    BY <1>1, <1>2 DEF SomeJob
  <1>6. \A r \in rs : /\ r \in Scheduler!Load
                      /\ \E l \in ls :
                           /\ r.of = l.of /\ r.query = l.query
                           /\ r.newest => l.newest
                           /\ r.held => l.held
                           /\ r.fresh => l.fresh
    BY <1>1
  <1> QED
    BY <1>3, <1>4, <1>5, <1>6 DEF SchedulerAged, OneNewestOfEach, OneJob, rs

LEMMA SchedulerAgedTwice ==
  ASSUME NEW ls, NEW rs, NEW qs, SchedulerAged(ls, rs), SchedulerAged(rs, qs)
  PROVE  SchedulerAged(ls, qs)
  <1>1. ASSUME NEW q \in qs
        PROVE  \E l \in ls : /\ q.of = l.of /\ q.query = l.query
                             /\ q.newest => l.newest
                             /\ q.held => l.held
                             /\ q.fresh => l.fresh
    <2>1. PICK r \in rs : /\ q.of = r.of /\ q.query = r.query
                          /\ q.newest => r.newest
                          /\ q.held => r.held
                          /\ q.fresh => r.fresh
      BY DEF SchedulerAged
    <2> QED
      BY <2>1 DEF SchedulerAged
  <1> QED
    BY <1>1 DEF SchedulerAged

LEMMA SchedulerSuperseded ==
  ASSUME NEW ls \in SUBSET Scheduler!Load, NEW x
  PROVE  /\ SchedulerAged(ls, Scheduler!Superseded(x, ls))
         /\ \A r \in Scheduler!Superseded(x, ls) :
              \/ r.of # x /\ r \in ls
              \/ r.of = x /\ ~r.newest /\ ~r.held
  <1> DEFINE g == [l \in ls |-> IF l.of = x THEN [l EXCEPT !.newest = FALSE, !.held = FALSE]
                                ELSE l]
  <1>1. \A l \in ls : /\ g[l] \in Scheduler!Load
                      /\ g[l].of = l.of /\ g[l].query = l.query /\ g[l].owner = l.owner
                      /\ g[l].newest => l.newest
                      /\ g[l].held => l.held
                      /\ g[l].fresh => l.fresh
                      /\ \/ l.of # x /\ g[l] = l
                         \/ l.of = x /\ ~g[l].newest /\ ~g[l].held
    <2> SUFFICES ASSUME NEW l \in ls
                 PROVE  /\ g[l] \in Scheduler!Load
                        /\ g[l].of = l.of /\ g[l].query = l.query /\ g[l].owner = l.owner
                        /\ g[l].newest => l.newest
                        /\ g[l].held => l.held
                        /\ g[l].fresh => l.fresh
                        /\ \/ l.of # x /\ g[l] = l
                           \/ l.of = x /\ ~g[l].newest /\ ~g[l].held
      OBVIOUS
    <2>1. CASE l.of = x
      <3>1. g[l] = [l EXCEPT !.newest = FALSE, !.held = FALSE]
        BY <2>1
      <3> QED
        BY <2>1, <3>1
    <2>2. CASE l.of # x
      BY <2>2
    <2> QED
      BY <2>1, <2>2
  <1>2. {g[l] : l \in ls} = Scheduler!Superseded(x, ls)
    BY DEF Scheduler!Superseded
  <1> HIDE DEF g
  <1>3. g \in [ls -> Scheduler!Load]
    BY <1>1 DEF g
  <1>4. SchedulerAged(ls, {g[l] : l \in ls})
    BY <1>1, <1>3, SchedulerAging
  <1>5. \A r \in {g[l] : l \in ls} : \/ r.of # x /\ r \in ls
                                     \/ r.of = x /\ ~r.newest /\ ~r.held
    BY <1>1
  <1> QED
    BY <1>2, <1>4, <1>5

LEMMA SchedulerOutdated ==
  ASSUME NEW ls \in SUBSET Scheduler!Load, NEW x
  PROVE  /\ SchedulerAged(ls, Scheduler!OutdatedOf(x, ls))
         /\ \A r \in Scheduler!OutdatedOf(x, ls) :
              \/ r.of # x /\ r \in ls
              \/ r.of = x /\ \E l \in ls : l.of = x /\ r.newest = l.newest /\ r.held = l.held
  <1> DEFINE g == [l \in ls |-> IF l.of = x THEN [l EXCEPT !.fresh = FALSE] ELSE l]
  <1>1. \A l \in ls : /\ g[l] \in Scheduler!Load
                      /\ g[l].of = l.of /\ g[l].query = l.query /\ g[l].owner = l.owner
                      /\ g[l].newest = l.newest
                      /\ g[l].held = l.held
                      /\ g[l].fresh => l.fresh
                      /\ l.of # x => g[l] = l
    <2> SUFFICES ASSUME NEW l \in ls
                 PROVE  /\ g[l] \in Scheduler!Load
                        /\ g[l].of = l.of /\ g[l].query = l.query /\ g[l].owner = l.owner
                        /\ g[l].newest = l.newest
                        /\ g[l].held = l.held
                        /\ g[l].fresh => l.fresh
                        /\ l.of # x => g[l] = l
      OBVIOUS
    <2>1. CASE l.of = x
      <3>1. l \in Scheduler!Load /\ g[l] = [l EXCEPT !.fresh = FALSE]
        BY <2>1
      <3> HIDE DEF g
      <3>2. /\ g[l] \in Scheduler!Load
            /\ g[l].of = l.of /\ g[l].query = l.query /\ g[l].owner = l.owner
            /\ g[l].newest = l.newest /\ g[l].held = l.held /\ ~g[l].fresh
        BY <3>1
      <3> QED
        BY <2>1, <3>2
    <2>2. CASE l.of # x
      BY <2>2
    <2> QED
      BY <2>1, <2>2
  <1>2. {g[l] : l \in ls} = Scheduler!OutdatedOf(x, ls)
    BY DEF Scheduler!OutdatedOf
  <1> HIDE DEF g
  <1>3. g \in [ls -> Scheduler!Load]
    BY <1>1 DEF g
  <1>4. SchedulerAged(ls, {g[l] : l \in ls})
    BY <1>1, <1>3, SchedulerAging
  <1>5. \A r \in {g[l] : l \in ls} :
          \/ r.of # x /\ r \in ls
          \/ r.of = x /\ \E l \in ls : l.of = x /\ r.newest = l.newest /\ r.held = l.held
    BY <1>1
  <1> QED
    BY <1>2, <1>4, <1>5

LEMMA SchedulerFailedOver ==
  ASSUME NEW ls \in SUBSET Scheduler!Load
  PROVE  /\ SchedulerAged(ls, Scheduler!FailedOver(ls))
         /\ \A r \in Scheduler!FailedOver(ls) : ~r.held /\ (r.newest => r.of # "taskTypes")
  <1> DEFINE newest == [l \in ls |-> l.newest /\ l.of # "taskTypes"]
             g == [l \in ls |-> [l EXCEPT !.fresh = FALSE, !.held = FALSE, !.newest = newest[l]]]
  <1>1. {g[l] : l \in ls} = Scheduler!FailedOver(ls)
    BY DEF Scheduler!FailedOver
  <1>2. \A l \in ls : newest[l] \in BOOLEAN /\ (newest[l] <=> l.newest /\ l.of # "taskTypes")
    OBVIOUS
  <1> HIDE DEF newest
  <1>3. \A l \in ls : /\ g[l] \in Scheduler!Load
                      /\ g[l].of = l.of /\ g[l].query = l.query /\ g[l].owner = l.owner
                      /\ g[l].newest = newest[l] /\ ~g[l].held /\ ~g[l].fresh
    <2> SUFFICES ASSUME NEW l \in ls
                 PROVE  /\ g[l] \in Scheduler!Load
                        /\ g[l].of = l.of /\ g[l].query = l.query /\ g[l].owner = l.owner
                        /\ g[l].newest = newest[l] /\ ~g[l].held /\ ~g[l].fresh
      OBVIOUS
    <2> DEFINE v == newest[l]
    <2>1. /\ v \in BOOLEAN /\ l \in Scheduler!Load
          /\ g[l] = [l EXCEPT !.fresh = FALSE, !.held = FALSE, !.newest = v]
      BY <1>2
    <2> HIDE DEF g, v
    <2>2. /\ g[l] \in Scheduler!Load
          /\ g[l].of = l.of /\ g[l].query = l.query /\ g[l].owner = l.owner
          /\ g[l].newest = v /\ ~g[l].held /\ ~g[l].fresh
      BY <2>1
    <2> QED
      BY <2>2 DEF v
  <1> HIDE DEF g
  <1>4. g \in [ls -> Scheduler!Load]
    BY <1>3 DEF g
  <1>5. SchedulerAged(ls, {g[l] : l \in ls})
    BY <1>2, <1>3, <1>4, SchedulerAging
  <1>6. \A r \in {g[l] : l \in ls} : ~r.held /\ (r.newest => r.of # "taskTypes")
    BY <1>2, <1>3
  <1> QED
    BY <1>1, <1>5, <1>6

SchedulerHistory == [acked : 0 .. MaxWrites + 1, fresh : [Scheduler!Projection -> BOOLEAN],
                     asked : [Scheduler!Projection -> SUBSET Scheduler!Query]]

LEMMA SchedulerState ==
  ASSUME SchedulerInv
  PROVE  /\ loads \in SUBSET Scheduler!Load
         /\ lists \in [Scheduler!Projection -> Scheduler!List]
         /\ shown \in [Scheduler!Projection -> BOOLEAN]
         /\ settled \in SchedulerHistory
         /\ SchedulerLoads
         /\ OneNewestOfEach(loads) /\ OneJob(loads)
         /\ job.step = "refresh" <=> SomeJob(loads)
  BY DEF SchedulerInv, Scheduler!TypeOK, SchedulerLoads, SomeJob, SchedulerHistory

LEMMA SchedulerHidden ==
  ASSUME shown \in [Scheduler!Projection -> BOOLEAN], NEW right
  PROVE  /\ Scheduler!Hidden(right) \in [Scheduler!Projection -> BOOLEAN]
         /\ \A y \in Scheduler!Projection :
              Scheduler!Hidden(right)[y] => shown[y] /\ Scheduler!ReadRight(y) # right
  BY DEF Scheduler!Hidden

(* A load that begins, or is refused, leaves none of its projection behind  *)
(* that matters, and the other projections alone.                           *)
LEMMA SchedulerLoading ==
  ASSUME SchedulerInv, NEW x \in Scheduler!Projection, NEW query \in Scheduler!Query,
         NEW clears \in BOOLEAN, NEW owner \in {"user", "job"},
         owner = "job" => ~SomeJob(loads), NEW acked \in 0 .. MaxWrites + 1,
         Scheduler!Loading(x, query, clears, owner), Scheduler!Noting(x, query, acked)
  PROVE  /\ loads' \in SUBSET Scheduler!Load
         /\ lists' \in [Scheduler!Projection -> Scheduler!List]
         /\ shown' \in [Scheduler!Projection -> BOOLEAN]
         /\ settled' \in SchedulerHistory
         /\ SchedulerLoads' /\ Scheduler!FailsClosed' /\ Scheduler!NewestIsShown'
         /\ SomeJob(loads)' <=>
              SomeJob(loads) \/ (owner = "job" /\ Scheduler!ReadRight(x) \in can)
PROOF
  <1> DEFINE allowed == Scheduler!ReadRight(x) \in can
             rs      == Scheduler!Superseded(x, loads)
  <1>1. /\ loads \in SUBSET Scheduler!Load
        /\ lists \in [Scheduler!Projection -> Scheduler!List]
        /\ shown \in [Scheduler!Projection -> BOOLEAN]
        /\ settled \in SchedulerHistory
        /\ SchedulerLoads /\ OneNewestOfEach(loads) /\ OneJob(loads)
        /\ Scheduler!FailsClosed /\ Scheduler!NewestIsShown
    BY SchedulerState DEF SchedulerInv
  <1>2. /\ SchedulerAged(loads, rs)
        /\ \A r \in rs : \/ r.of # x /\ r \in loads
                         \/ r.of = x /\ ~r.newest /\ ~r.held
    BY <1>1, SchedulerSuperseded
  <1>3. /\ rs \in SUBSET Scheduler!Load /\ OneNewestOfEach(rs) /\ OneJob(rs)
        /\ SomeJob(rs) <=> SomeJob(loads)
    BY <1>1, <1>2 DEF SchedulerAged
  <1>4. /\ settled' \in SchedulerHistory
        /\ \A y \in Scheduler!Projection \ {x} :
             settled'.fresh[y] = settled.fresh[y] /\ settled'.asked[y] = settled.asked[y]
        /\ allowed => settled'.fresh[x] = settled.fresh[x] /\ settled'.asked[x] = {query}
        /\ ~allowed => settled'.asked[x] = {}
    <2> DEFINE asked == IF allowed THEN {query} ELSE {}
               fresh == settled.fresh[x] /\ allowed
    <2>1. /\ asked \in SUBSET Scheduler!Query /\ fresh \in BOOLEAN
          /\ allowed => fresh = settled.fresh[x] /\ asked = {query}
          /\ ~allowed => asked = {}
      BY <1>1 DEF SchedulerHistory
    <2>2. settled' = [acked |-> acked,
                      fresh |-> [settled.fresh EXCEPT ![x] = fresh],
                      asked |-> [settled.asked EXCEPT ![x] = asked]]
      BY DEF Scheduler!Noting
    <2> HIDE DEF asked, fresh, allowed
    <2> QED
      BY <1>1, <2>1, <2>2 DEF SchedulerHistory
  <1>5. CASE allowed
    <2> DEFINE n == Scheduler!NewLoad(x, query, clears, owner)
    <2>1. /\ n \in Scheduler!Load /\ n.of = x /\ n.newest /\ n.held /\ n.fresh
          /\ n.owner = owner /\ n.query = query
      BY WritesAreBounded DEF Scheduler!NewLoad
    <2>2. /\ loads' = rs \cup {n} /\ shown' = shown
          /\ lists' = [lists EXCEPT ![x] = Scheduler!Begun(lists[x])]
      BY <1>5 DEF Scheduler!Loading
    <2> HIDE DEF n, rs
    <2>3. /\ lists' \in [Scheduler!Projection -> Scheduler!List] /\ lists'[x].loading
          /\ \A y \in Scheduler!Projection \ {x} : lists'[y] = lists[y]
      <3>1. /\ Scheduler!Begun(lists[x]) \in Scheduler!List
            /\ Scheduler!Begun(lists[x]).loading
        BY <1>1 DEF Scheduler!Begun, Scheduler!List
      <3> QED
        BY <1>1, <2>2, <3>1
    <2>4. OneJob(loads')
      BY <1>3, <2>1, <2>2 DEF OneJob, SomeJob
    <2>5. OneNewestOfEach(loads')
      BY <1>2, <1>3, <2>1, <2>2 DEF OneNewestOfEach
    <2>6. SchedulerLoads'
      BY <1>1, <1>2, <1>3, <1>4, <1>5, <2>1, <2>2, <2>4, <2>5
      DEF SchedulerLoads, OneJob, OneNewestOfEach
    <2>7. SomeJob(loads)' <=> SomeJob(loads) \/ owner = "job"
      BY <1>3, <2>1, <2>2 DEF SomeJob
    <2>8. Scheduler!FailsClosed'
      BY <1>1, <1>4, <1>5, <2>2 DEF Scheduler!FailsClosed
    <2>9. Scheduler!NewestIsShown'
      BY <1>1, <1>4, <2>3 DEF Scheduler!NewestIsShown
    <2> QED
      BY <1>1, <1>3, <1>4, <1>5, <2>1, <2>2, <2>3, <2>6, <2>7, <2>8, <2>9
  <1>6. CASE ~allowed
    <2>1. /\ loads' = Scheduler!OutdatedOf(x, rs)
          /\ shown' = Scheduler!Hidden(Scheduler!ReadRight(x))
          /\ lists' = [lists EXCEPT ![x] = Scheduler!Refused(lists[x])]
      BY <1>6 DEF Scheduler!Loading
    <2> HIDE DEF rs
    <2>2. /\ SchedulerAged(rs, loads')
          /\ \A r \in loads' : \/ r.of # x /\ r \in rs
                               \/ r.of = x /\ \E l \in rs : /\ l.of = x
                                                            /\ r.newest = l.newest
                                                            /\ r.held = l.held
      BY <1>3, <2>1, SchedulerOutdated
    <2>3. \A r \in loads' : \/ r.of # x /\ r \in loads
                            \/ r.of = x /\ ~r.newest /\ ~r.held
      BY <1>2, <2>2
    <2>4. /\ loads' \in SUBSET Scheduler!Load /\ OneNewestOfEach(loads') /\ OneJob(loads')
          /\ SomeJob(loads') <=> SomeJob(rs)
      BY <1>3, <2>2 DEF SchedulerAged
    <2>5. /\ shown' \in [Scheduler!Projection -> BOOLEAN] /\ ~shown'[x]
          /\ \A y \in Scheduler!Projection : shown'[y] => shown[y]
      BY <1>1, <2>1, SchedulerHidden
    <2>6. /\ lists' \in [Scheduler!Projection -> Scheduler!List]
          /\ \A y \in Scheduler!Projection \ {x} : lists'[y] = lists[y]
      <3>1. Scheduler!Refused(lists[x]) \in Scheduler!List
        BY <1>1 DEF Scheduler!Refused, Scheduler!List
      <3> QED
        BY <1>1, <2>1, <3>1
    <2>7. SchedulerLoads'
      BY <1>1, <1>4, <2>3, <2>4, <2>5 DEF SchedulerLoads, OneJob, OneNewestOfEach
    <2>8. SomeJob(loads)' <=> SomeJob(loads)
      BY <1>3, <2>4 DEF SomeJob
    <2>9. Scheduler!FailsClosed'
      BY <1>1, <1>4, <2>5 DEF Scheduler!FailsClosed
    <2>10. Scheduler!NewestIsShown'
      BY <1>1, <1>4, <1>6, <2>6 DEF Scheduler!NewestIsShown
    <2> QED
      BY <1>4, <1>6, <2>4, <2>5, <2>6, <2>7, <2>8, <2>9, <2>10
  <1> QED
    BY <1>5, <1>6

-----------------------------------------------------------------------------
(* Every action of the scheduler page preserves its invariant. *)

LEMMA SchedulerAskInv ==
  ASSUME SchedulerInv, NEW x \in Scheduler!Projection, NEW query \in Scheduler!Query,
         NEW clears \in BOOLEAN, Scheduler!Ask(x, query, clears)
  PROVE  SchedulerInv'
PROOF
  <1>1. /\ Scheduler!Loading(x, query, clears, "user")
        /\ Scheduler!Noting(x, query, settled.acked)
        /\ loadsLeft > 0 /\ loadsLeft' = loadsLeft - 1
        /\ UNCHANGED <<job, pending, can, granted, written, failuresLeft>>
    BY DEF Scheduler!Ask, Scheduler!serverVars
  <1>2. settled.acked \in 0 .. MaxWrites + 1 /\ (job.step = "refresh" <=> SomeJob(loads))
    BY SchedulerState DEF SchedulerHistory
  <1>3. /\ loads' \in SUBSET Scheduler!Load
        /\ lists' \in [Scheduler!Projection -> Scheduler!List]
        /\ shown' \in [Scheduler!Projection -> BOOLEAN]
        /\ settled' \in SchedulerHistory
        /\ SchedulerLoads' /\ Scheduler!FailsClosed' /\ Scheduler!NewestIsShown'
        /\ SomeJob(loads)' <=> SomeJob(loads)
    BY <1>1, <1>2, SchedulerLoading
  <1>4. loadsLeft' \in 0 .. MaxLoads - 1
    BY <1>1, BoundsArePositive DEF SchedulerInv, Scheduler!TypeOK
  <1>5. Scheduler!TypeOK'
    BY <1>1, <1>2, <1>3, <1>4 DEF SchedulerInv, Scheduler!TypeOK, SomeJob, SchedulerHistory
  <1> QED
    BY <1>1, <1>3, <1>5 DEF SchedulerInv, SchedulerJob

LEMMA SchedulerAskSomethingInv ==
  ASSUME SchedulerInv, NEW x \in Scheduler!Projection, Scheduler!AskSomething(x)
  PROVE  SchedulerInv'
PROOF
  <1>1. lists[x] \in Scheduler!List
    BY SchedulerState
  <1>2. /\ Scheduler!Refreshed(lists[x]) \in Scheduler!Query
        /\ Scheduler!FirstQuery \in Scheduler!Query
        /\ \A f \in {NoFilter} : Scheduler!Searched(f) \in Scheduler!Query
        /\ \A p \in Page : Scheduler!Turned(lists[x], p) \in Scheduler!Query
    BY <1>1, QueriesAreNamed
    DEF Scheduler!Refreshed, Scheduler!FirstQuery, Scheduler!Searched, Scheduler!Turned,
        Scheduler!List, Scheduler!Query
  <1>3. \E query \in Scheduler!Query, clears \in BOOLEAN : Scheduler!Ask(x, query, clears)
    BY <1>2 DEF Scheduler!AskSomething
  <1> QED
    BY <1>3, SchedulerAskInv

LEMMA SchedulerAskInvalidInv == ASSUME SchedulerInv, Scheduler!AskInvalid PROVE SchedulerInv'
PROOF
  <1> DEFINE x == "definitions"
  <1>1. /\ loads' = Scheduler!Superseded(x, loads)
        /\ lists' = [lists EXCEPT ![x] = Scheduler!Refused(lists[x])]
        /\ settled' = [settled EXCEPT !.asked = [settled.asked EXCEPT ![x] = {}]]
        /\ loadsLeft > 0 /\ loadsLeft' = loadsLeft - 1
        /\ UNCHANGED <<shown, job, pending, can, granted, written, failuresLeft>>
    BY DEF Scheduler!AskInvalid, Scheduler!serverVars
  <1>2. /\ loads \in SUBSET Scheduler!Load
        /\ lists \in [Scheduler!Projection -> Scheduler!List]
        /\ shown \in [Scheduler!Projection -> BOOLEAN]
        /\ settled \in SchedulerHistory
        /\ SchedulerLoads /\ OneNewestOfEach(loads) /\ OneJob(loads)
        /\ Scheduler!FailsClosed /\ Scheduler!NewestIsShown
        /\ job.step = "refresh" <=> SomeJob(loads)
    BY SchedulerState DEF SchedulerInv
  <1>3. x \in Scheduler!Projection
    BY DEF Scheduler!Projection
  <1> HIDE DEF x
  <1>4. /\ SchedulerAged(loads, loads')
        /\ \A r \in loads' : \/ r.of # x /\ r \in loads
                             \/ r.of = x /\ ~r.newest /\ ~r.held
    BY <1>1, <1>2, SchedulerSuperseded
  <1>5. /\ settled' \in SchedulerHistory /\ settled'.fresh = settled.fresh
        /\ settled'.asked[x] = {}
        /\ \A y \in Scheduler!Projection \ {x} : settled'.asked[y] = settled.asked[y]
    BY <1>1, <1>2, <1>3 DEF SchedulerHistory
  <1>6. /\ lists' \in [Scheduler!Projection -> Scheduler!List]
        /\ \A y \in Scheduler!Projection \ {x} : lists'[y] = lists[y]
    <2>1. Scheduler!Refused(lists[x]) \in Scheduler!List
      BY <1>2, <1>3 DEF Scheduler!Refused, Scheduler!List
    <2> QED
      BY <1>1, <1>2, <2>1
  <1>7. SchedulerLoads'
    BY <1>1, <1>2, <1>4, <1>5 DEF SchedulerLoads, SchedulerAged
  <1>8. loadsLeft' \in 0 .. MaxLoads - 1
    BY <1>1, BoundsArePositive DEF SchedulerInv, Scheduler!TypeOK
  <1>9. Scheduler!TypeOK'
    <2>1. loads' \in SUBSET Scheduler!Load /\ (job'.step = "refresh" <=> SomeJob(loads'))
      BY <1>1, <1>2, <1>4 DEF SchedulerAged
    <2> QED
      BY <1>1, <1>5, <1>6, <1>8, <2>1
      DEF SchedulerInv, Scheduler!TypeOK, SomeJob, SchedulerHistory
  <1>10. Scheduler!FailsClosed'
    BY <1>1, <1>2, <1>5 DEF Scheduler!FailsClosed
  <1>11. Scheduler!NewestIsShown'
    BY <1>2, <1>5, <1>6 DEF Scheduler!NewestIsShown
  <1>12. SchedulerJob'
    BY <1>1 DEF SchedulerInv, SchedulerJob
  <1> QED
    BY <1>7, <1>9, <1>10, <1>11, <1>12 DEF SchedulerInv

LEMMA SchedulerServeLoadInv ==
  ASSUME SchedulerInv, NEW l \in loads, Scheduler!ServeLoad(l) PROVE SchedulerInv'
PROOF
  <1>1. /\ loads \in SUBSET Scheduler!Load /\ l \in Scheduler!Load
        /\ OneNewestOfEach(loads) /\ OneJob(loads) /\ SchedulerLoads
        /\ written \in 1 .. MaxWrites + 1 /\ failuresLeft \in 0 .. MaxFailures
        /\ job.step = "refresh" <=> SomeJob(loads)
    BY SchedulerState DEF SchedulerInv, Scheduler!TypeOK
  <1>2. PICK q : /\ loads' = (loads \ {l}) \cup {q}
                 /\ \/ q = [l EXCEPT !.status = "ok", !.version = written]
                    \/ q = [l EXCEPT !.status = "denied"]
                    \/ q = [l EXCEPT !.status = "unavailable"]
    BY DEF Scheduler!ServeLoad
  <1>3. /\ q \in Scheduler!Load /\ q.of = l.of /\ q.newest = l.newest /\ q.held = l.held
        /\ q.fresh = l.fresh /\ q.owner = l.owner /\ q.query = l.query
    <2>1. CASE q = [l EXCEPT !.status = "ok", !.version = written]
      <3>1. written \in 0 .. MaxWrites + 1
        BY <1>1, WritesAreBounded
      <3> QED
        BY <1>1, <2>1, <3>1
    <2>2. CASE q = [l EXCEPT !.status = "denied"]
      BY <1>1, <2>2
    <2>3. CASE q = [l EXCEPT !.status = "unavailable"]
      BY <1>1, <2>3
    <2> QED
      BY <1>2, <2>1, <2>2, <2>3
  <1>4. UNCHANGED <<lists, shown, job, pending, can, granted, written, loadsLeft, settled>>
    BY DEF Scheduler!ServeLoad, Scheduler!serverVars
  <1>5. failuresLeft' \in 0 .. MaxFailures
    BY <1>1, BoundsArePositive DEF Scheduler!ServeLoad
  <1>6. OneNewestOfEach(loads') /\ OneJob(loads')
    BY <1>1, <1>2, <1>3 DEF OneNewestOfEach, OneJob
  <1>7. SomeJob(loads') <=> SomeJob(loads)
    BY <1>2, <1>3 DEF SomeJob
  <1>8. SchedulerLoads'
    BY <1>1, <1>2, <1>3, <1>4, <1>6 DEF SchedulerLoads, OneNewestOfEach, OneJob
  <1>9. Scheduler!TypeOK'
    BY <1>1, <1>2, <1>3, <1>4, <1>5, <1>7 DEF SchedulerInv, Scheduler!TypeOK, SomeJob
  <1> QED
    BY <1>4, <1>8, <1>9
    DEF SchedulerInv, SchedulerJob, Scheduler!FailsClosed, Scheduler!NewestIsShown

(* A load is answered to the page. *)
LEMMA SchedulerAnswerLoadInv ==
  ASSUME SchedulerInv, NEW l \in loads, Scheduler!AnswerLoad(l) PROVE SchedulerInv'
PROOF
  <1> DEFINE x     == l.of
             good  == l.status = "ok"
             ended == l.owner = "job"
             rows  == [query |-> l.query, version |-> l.version]
             after == IF good THEN Scheduler!Shown(lists[x], l, rows)
                      ELSE Scheduler!Dropped(lists[x], l)
             fresh == IF l.held /\ ~good THEN FALSE
                      ELSE IF good /\ l.newest THEN l.fresh ELSE settled.fresh[x]
             asked == IF l.newest /\ ~good THEN {} ELSE settled.asked[x]
  <1>1. /\ shown' = IF l.held THEN [shown EXCEPT ![x] = good] ELSE shown
        /\ loads' = IF l.held /\ ~good THEN Scheduler!OutdatedOf(x, loads \ {l})
                    ELSE loads \ {l}
        /\ lists' = [lists EXCEPT ![x] = after]
        /\ settled' = [settled EXCEPT !.fresh = [settled.fresh EXCEPT ![x] = fresh],
                                      !.asked = [settled.asked EXCEPT ![x] = asked]]
        /\ pending' = (pending /\ ~(ended /\ (good \/ ~l.newest)))
        /\ job' = IF ended THEN Scheduler!NoJob ELSE job
        /\ UNCHANGED <<can, granted, written, loadsLeft, failuresLeft>>
    BY DEF Scheduler!AnswerLoad, Scheduler!serverVars, Scheduler!boundVars
  <1>2. /\ loads \in SUBSET Scheduler!Load /\ l \in Scheduler!Load
        /\ lists \in [Scheduler!Projection -> Scheduler!List]
        /\ shown \in [Scheduler!Projection -> BOOLEAN]
        /\ settled \in SchedulerHistory
        /\ SchedulerLoads /\ OneNewestOfEach(loads) /\ OneJob(loads)
        /\ Scheduler!FailsClosed /\ Scheduler!NewestIsShown
        /\ job.step = "refresh" <=> SomeJob(loads)
        /\ job \in Scheduler!Job /\ pending \in BOOLEAN
    BY SchedulerState DEF SchedulerInv, Scheduler!TypeOK
  <1>3. /\ x \in Scheduler!Projection /\ lists[x] \in Scheduler!List /\ l.query \in Scheduler!Query
        /\ l.held \in BOOLEAN /\ l.newest \in BOOLEAN /\ l.fresh \in BOOLEAN
        /\ l.held => l.newest /\ l.fresh
        /\ l.newest /\ ~l.held => ~shown[x]
        /\ shown[x] => settled.fresh[x]
    BY <1>2 DEF SchedulerLoads, Scheduler!FailsClosed
  <1>4. /\ SchedulerAged(loads \ {l}, loads')
        /\ \A r \in loads' :
             \/ r \in loads \ {l}
             \/ r.of = x /\ l.held /\ \E m \in loads \ {l} :
                  m.of = x /\ r.newest = m.newest /\ r.held = m.held
    <2>1. loads \ {l} \in SUBSET Scheduler!Load
      BY <1>2
    <2>2. CASE l.held /\ ~good
      BY <1>1, <2>1, <2>2, SchedulerOutdated
    <2>3. CASE ~(l.held /\ ~good)
      BY <1>1, <2>1, <2>3 DEF SchedulerAged
    <2> QED
      BY <2>2, <2>3
  <1>5. /\ loads' \in SUBSET Scheduler!Load /\ OneNewestOfEach(loads') /\ OneJob(loads')
        /\ SomeJob(loads') <=> SomeJob(loads) /\ ~ended
    BY <1>2, <1>4 DEF SchedulerAged, OneNewestOfEach, OneJob, SomeJob
  <1>6. l.newest => \A r \in loads' : r.of = x => ~r.newest
    BY <1>2, <1>4 DEF SchedulerAged, OneNewestOfEach
  <1>7. /\ after \in Scheduler!List
        /\ good /\ l.newest => after.query = l.query /\ after.rows.query = l.query
        /\ ~l.newest => after = lists[x]
    <2>1. rows \in Scheduler!Rows
      BY <1>2 DEF Scheduler!Rows
    <2>2. CASE l.newest /\ good
      <3> DEFINE selected == lists[x].selected /\ ~l.clears
      <3>1. after = [lists[x] EXCEPT !.query = l.query, !.rows = rows, !.loading = FALSE,
                                     !.selected = selected]
        BY <2>2 DEF Scheduler!Shown
      <3>2. selected \in BOOLEAN /\ rows.query = l.query
        BY <1>2
      <3> HIDE DEF rows, selected, after
      <3>3. after \in Scheduler!List /\ after.query = l.query /\ after.rows = rows
        BY <1>3, <2>1, <3>1, <3>2 DEF Scheduler!List
      <3> QED
        BY <2>2, <3>2, <3>3
    <2>3. CASE l.newest /\ ~good
      BY <1>3, <2>3 DEF Scheduler!Dropped, Scheduler!List
    <2>4. CASE ~l.newest
      BY <1>3, <2>4 DEF Scheduler!Shown, Scheduler!Dropped
    <2> QED
      BY <2>2, <2>3, <2>4
  <1>8. /\ fresh \in BOOLEAN /\ asked \in SUBSET Scheduler!Query
        /\ good /\ l.held => fresh
        /\ ~l.held => (shown[x] => fresh)
        /\ l.newest => (good /\ asked = settled.asked[x]) \/ asked = {}
        /\ ~l.newest => asked = settled.asked[x]
        /\ asked \subseteq settled.asked[x]
    <2>1. settled.fresh[x] \in BOOLEAN /\ settled.asked[x] \in SUBSET Scheduler!Query
      BY <1>2, <1>3 DEF SchedulerHistory
    <2> QED
      BY <1>3, <2>1
  <1> HIDE DEF after, fresh, asked
  <1>9. /\ lists' \in [Scheduler!Projection -> Scheduler!List] /\ lists'[x] = after
        /\ \A y \in Scheduler!Projection \ {x} : lists'[y] = lists[y]
    BY <1>1, <1>2, <1>3, <1>7
  <1>10. /\ settled' \in SchedulerHistory
         /\ settled'.fresh[x] = fresh /\ settled'.asked[x] = asked
         /\ \A y \in Scheduler!Projection \ {x} :
              settled'.fresh[y] = settled.fresh[y] /\ settled'.asked[y] = settled.asked[y]
    BY <1>1, <1>2, <1>3, <1>8 DEF SchedulerHistory
  <1> HIDE DEF good
  <1>11. /\ shown' \in [Scheduler!Projection -> BOOLEAN]
         /\ \A y \in Scheduler!Projection \ {x} : shown'[y] = shown[y]
         /\ l.held => (shown'[x] => good)
         /\ ~l.held => shown'[x] = shown[x]
    <2>1. good \in BOOLEAN
      BY DEF good
    <2> QED
      BY <1>1, <1>2, <1>3, <2>1
  <1> HIDE DEF x
  <1>12. SchedulerLoads'
    <2>1. \A r \in loads' : r.held => r.newest /\ r.fresh
      <3>1. CASE l.held
        <4> SUFFICES ASSUME NEW r \in loads', r.held PROVE r.newest /\ r.fresh
          OBVIOUS
        <4>1. r \in loads \ {l}
          <5>1. SUFFICES ASSUME r.of = x, NEW m \in loads \ {l}, m.of = x, r.newest = m.newest,
                                r.held = m.held
                         PROVE  FALSE
            BY <1>4
          <5>2. m.newest
            BY <1>2, <5>1 DEF SchedulerLoads
          <5> QED
            BY <1>3, <1>6, <3>1, <5>1, <5>2
        <4> QED
          BY <1>2, <4>1 DEF SchedulerLoads
      <3>2. CASE ~l.held
        BY <1>2, <1>4, <3>2 DEF SchedulerLoads
      <3> QED
        BY <3>1, <3>2
    <2>2. \A r \in loads' : r.newest /\ ~r.held => ~shown'[r.of]
      <3> SUFFICES ASSUME NEW r \in loads', r.newest, ~r.held PROVE ~shown'[r.of]
        OBVIOUS
      <3>1. r.of \in Scheduler!Projection
        BY <1>5
      <3>2. CASE r.of = x
        <4>1. ~l.newest /\ ~l.held
          BY <1>3, <1>6, <3>2
        <4> QED
          BY <1>2, <1>4, <1>11, <3>2, <4>1 DEF SchedulerLoads
      <3>3. CASE r.of # x
        BY <1>2, <1>4, <1>11, <3>1, <3>3 DEF SchedulerLoads
      <3> QED
        BY <3>2, <3>3
    <2>3. \A r \in loads' : r.newest => settled'.asked[r.of] \subseteq {r.query}
      <3> SUFFICES ASSUME NEW r \in loads', r.newest
                   PROVE  settled'.asked[r.of] \subseteq {r.query}
        OBVIOUS
      <3>1. PICK m \in loads : m.of = r.of /\ m.query = r.query /\ m.newest
        BY <1>4 DEF SchedulerAged
      <3>2. settled'.asked[r.of] \subseteq settled.asked[r.of]
        BY <1>5, <1>8, <1>10
      <3> QED
        BY <1>2, <3>1, <3>2 DEF SchedulerLoads
    <2> QED
      BY <1>5, <2>1, <2>2, <2>3 DEF SchedulerLoads, OneNewestOfEach, OneJob
  <1>13. Scheduler!FailsClosed'
    <2> SUFFICES ASSUME NEW y \in Scheduler!Projection, shown'[y] PROVE settled'.fresh[y]
      BY DEF Scheduler!FailsClosed
    <2>1. CASE y = x
      BY <1>8, <1>10, <1>11, <2>1
    <2>2. CASE y # x
      BY <1>2, <1>10, <1>11, <2>2 DEF Scheduler!FailsClosed
    <2> QED
      BY <2>1, <2>2
  <1>14. Scheduler!NewestIsShown'
    <2> SUFFICES ASSUME NEW y \in Scheduler!Projection, ~lists'[y].loading,
                        NEW query \in settled'.asked[y]
                 PROVE  lists'[y].query = query /\ lists'[y].rows.query = query
      BY DEF Scheduler!NewestIsShown
    <2>1. CASE y = x /\ l.newest
      <3>1. good /\ query \in settled.asked[x]
        BY <1>8, <1>10, <2>1
      <3>2. query = l.query
        BY <1>2, <2>1, <3>1 DEF SchedulerLoads, x
      <3> QED
        BY <1>7, <1>9, <2>1, <3>1, <3>2
    <2>2. CASE y = x /\ ~l.newest
      BY <1>2, <1>3, <1>7, <1>8, <1>9, <1>10, <2>2 DEF Scheduler!NewestIsShown
    <2>3. CASE y # x
      BY <1>2, <1>9, <1>10, <2>3 DEF Scheduler!NewestIsShown
    <2> QED
      BY <2>1, <2>2, <2>3
  <1>15. Scheduler!TypeOK'
    <2>1. job' \in Scheduler!Job /\ (job'.step = "refresh" <=> SomeJob(loads'))
      <3>1. CASE ended
        <4>1. job' = Scheduler!NoJob
          BY <1>1, <3>1
        <4>2. job' \in Scheduler!Job /\ job'.step # "refresh"
          BY <4>1, WritesAreBounded DEF Scheduler!NoJob, Scheduler!Job
        <4> QED
          BY <1>5, <3>1, <4>2
      <3>2. CASE ~ended
        BY <1>1, <1>2, <1>5, <3>2
      <3> QED
        BY <3>1, <3>2
    <2>2. pending' \in BOOLEAN
      BY <1>1, <1>2
    <2> QED
      BY <1>1, <1>5, <1>9, <1>10, <1>11, <2>1, <2>2
      DEF SchedulerInv, Scheduler!TypeOK, SomeJob, SchedulerHistory
  <1>16. SchedulerJob'
    BY <1>1 DEF SchedulerInv, SchedulerJob, Scheduler!NoJob
  <1> QED
    BY <1>12, <1>13, <1>14, <1>15, <1>16 DEF SchedulerInv

(* What a job does between its refreshes touches neither lists nor loads;   *)
(* rows may be hidden.                                                      *)
LEMMA SchedulerJobSteps ==
  ASSUME SchedulerInv, UNCHANGED <<lists, loads, settled, pending, loadsLeft>>,
         shown' \in [Scheduler!Projection -> BOOLEAN],
         \A y \in Scheduler!Projection : shown'[y] => shown[y],
         job' \in Scheduler!Job, job'.step = "refresh" <=> job.step = "refresh",
         SchedulerJob',
         can' \subseteq Scheduler!Right, granted' \subseteq Scheduler!Right,
         written' \in 1 .. MaxWrites + 1, failuresLeft' \in 0 .. MaxFailures
  PROVE  SchedulerInv'
PROOF
  <1>1. SchedulerLoads'
    BY DEF SchedulerInv, SchedulerLoads, Scheduler!TypeOK, OneNewestOfEach, OneJob
  <1>2. Scheduler!TypeOK'
    BY DEF SchedulerInv, Scheduler!TypeOK
  <1>3. Scheduler!FailsClosed' /\ Scheduler!NewestIsShown'
    BY DEF SchedulerInv, Scheduler!FailsClosed, Scheduler!NewestIsShown
  <1> QED
    BY <1>1, <1>2, <1>3 DEF SchedulerInv

LEMMA SchedulerJobState ==
  ASSUME SchedulerInv
  PROVE  /\ job \in Scheduler!Job /\ Scheduler!NoJob \in Scheduler!Job
         /\ SchedulerJob
         /\ shown \in [Scheduler!Projection -> BOOLEAN]
         /\ can \subseteq Scheduler!Right /\ granted \subseteq Scheduler!Right
         /\ written \in 1 .. MaxWrites + 1
         /\ failuresLeft \in 0 .. MaxFailures
         /\ failuresLeft > 0 => failuresLeft - 1 \in 0 .. MaxFailures
  BY WritesAreBounded, BoundsArePositive
  DEF SchedulerInv, Scheduler!TypeOK, Scheduler!NoJob, Scheduler!Job

LEMMA SchedulerStartInv ==
  ASSUME SchedulerInv, NEW kind \in Scheduler!Intent, Scheduler!Start(kind) PROVE SchedulerInv'
PROOF
  <1>1. /\ job = Scheduler!NoJob /\ written <= MaxWrites
        /\ UNCHANGED <<lists, loads, pending, can, granted, written, loadsLeft, failuresLeft,
                       settled>>
    BY DEF Scheduler!Start, Scheduler!Busy, Scheduler!serverVars, Scheduler!boundVars
  <1>2. CASE kind \in can
    <2> DEFINE step == IF kind = "delete" THEN "confirm" ELSE "write"
    <2>1. /\ job' = [Scheduler!NoJob EXCEPT !.kind = kind, !.step = step] /\ shown' = shown
          /\ step \in {"confirm", "write"}
      BY <1>2 DEF Scheduler!Start
    <2> HIDE DEF step
    <2>2. /\ job' \in Scheduler!Job /\ job'.kind = kind /\ job'.step = step
      <3>1. job' = [kind |-> kind, step |-> step, status |-> "sent", version |-> 0]
        BY <2>1 DEF Scheduler!NoJob
      <3>2. /\ kind \in Scheduler!Intent \cup {"none", "repair"}
            /\ step \in {"none", "confirm", "write", "refresh"}
        BY <2>1
      <3> QED
        BY <3>1, <3>2, WritesAreBounded DEF Scheduler!Job
    <2>3. SchedulerJob'
      BY <1>1, <2>2 DEF SchedulerJob
    <2> QED
      BY <1>1, <2>1, <2>2, <2>3, SchedulerJobState, SchedulerJobSteps DEF Scheduler!NoJob
  <1>3. CASE kind \notin can
    <2>1. job' = job /\ shown' = Scheduler!Hidden(kind)
      BY <1>3 DEF Scheduler!Start
    <2>2. SchedulerJob'
      BY <1>1, <2>1, SchedulerJobState DEF SchedulerJob
    <2> QED
      BY <1>1, <2>1, <2>2, SchedulerHidden, SchedulerJobState, SchedulerJobSteps
  <1> QED
    BY <1>2, <1>3

LEMMA SchedulerConfirmInv == ASSUME SchedulerInv, Scheduler!Confirm PROVE SchedulerInv'
PROOF
  <1>1. /\ job.step = "confirm"
        /\ UNCHANGED <<lists, loads, pending, can, granted, written, loadsLeft, failuresLeft,
                       settled>>
    BY DEF Scheduler!Confirm, Scheduler!serverVars, Scheduler!boundVars
  <1>2. /\ shown' \in [Scheduler!Projection -> BOOLEAN]
        /\ \A y \in Scheduler!Projection : shown'[y] => shown[y]
    BY SchedulerHidden, SchedulerJobState DEF Scheduler!Confirm
  <1>3. CASE job' = Scheduler!NoJob
    <2>1. SchedulerJob'
      BY <1>3 DEF SchedulerJob, Scheduler!NoJob
    <2> QED
      BY <1>1, <1>2, <1>3, <2>1, SchedulerJobState, SchedulerJobSteps DEF Scheduler!NoJob
  <1>4. CASE job' = [job EXCEPT !.step = "write"]
    <2>1. /\ job' \in Scheduler!Job /\ job'.step = "write"
          /\ job'.kind = job.kind /\ job'.status = job.status
      BY <1>4, SchedulerJobState DEF Scheduler!Job
    <2>2. SchedulerJob'
      BY <1>1, <2>1, SchedulerJobState DEF SchedulerJob
    <2> QED
      BY <1>1, <1>2, <2>1, <2>2, SchedulerJobState, SchedulerJobSteps
  <1> QED
    BY <1>3, <1>4 DEF Scheduler!Confirm

LEMMA SchedulerServeJobInv == ASSUME SchedulerInv, Scheduler!ServeJob PROVE SchedulerInv'
PROOF
  <1>1. /\ job.step = "write" /\ job.status = "sent"
        /\ UNCHANGED <<lists, loads, shown, pending, can, granted, loadsLeft, settled>>
    BY DEF Scheduler!ServeJob
  <1>2. /\ job \in Scheduler!Job /\ SchedulerJob
        /\ written \in 1 .. MaxWrites + 1
        /\ failuresLeft \in 0 .. MaxFailures
        /\ failuresLeft > 0 => failuresLeft - 1 \in 0 .. MaxFailures
    BY SchedulerJobState
  <1>3. PICK status \in {"ok", "unavailable", "denied", "conflict"} :
          \/ job' = [job EXCEPT !.status = status]
          \/ job' = [job EXCEPT !.status = status, !.version = written + 1]
    BY DEF Scheduler!ServeJob
  <1>4. written + 1 \in 1 .. MaxWrites + 1
    BY <1>1, <1>2, WritesAreBounded DEF SchedulerJob
  <1>5. written' \in 1 .. MaxWrites + 1 /\ failuresLeft' \in 0 .. MaxFailures
    BY <1>2, <1>4 DEF Scheduler!ServeJob
  <1>6. /\ job' \in Scheduler!Job /\ job'.kind = job.kind /\ job'.step = job.step
        /\ job'.status = status
    <2>1. CASE job' = [job EXCEPT !.status = status]
      BY <1>2, <2>1 DEF Scheduler!Job
    <2>2. CASE job' = [job EXCEPT !.status = status, !.version = written + 1]
      <3>1. written + 1 \in 0 .. MaxWrites + 1
        BY <1>4
      <3> QED
        BY <1>2, <2>2, <3>1 DEF Scheduler!Job
    <2> QED
      BY <1>3, <2>1, <2>2
  <1>7. SchedulerJob'
    BY <1>2, <1>6 DEF SchedulerJob
  <1> QED
    BY <1>1, <1>5, <1>6, <1>7, SchedulerJobState, SchedulerJobSteps

(* A command failed: everything is hidden, or nothing changes. *)
LEMMA SchedulerFailJobInv == ASSUME SchedulerInv, Scheduler!FailJob PROVE SchedulerInv'
PROOF
  <1>1. /\ job.step = "write" /\ job' = Scheduler!NoJob
        /\ Scheduler!FailCommand(job.status)
        /\ UNCHANGED <<lists, pending, can, granted, written, loadsLeft, failuresLeft>>
    BY DEF Scheduler!FailJob, Scheduler!serverVars, Scheduler!boundVars
  <1>2. SchedulerJob' /\ job' \in Scheduler!Job /\ job'.step # "refresh"
    BY <1>1, SchedulerJobState DEF SchedulerJob, Scheduler!NoJob
  <1>3. CASE job.status \in Scheduler!Hiding
    <2> DEFINE fresh == [x \in Scheduler!Projection |-> FALSE]
               asked == [settled.asked EXCEPT !["taskTypes"] = {}]
    <2>1. /\ loads' = Scheduler!FailedOver(loads)
          /\ shown' = fresh
          /\ settled' = [settled EXCEPT !.fresh = fresh, !.asked = asked]
      BY <1>1, <1>3 DEF Scheduler!FailCommand
    <2>2. /\ loads \in SUBSET Scheduler!Load /\ SchedulerLoads /\ settled \in SchedulerHistory
          /\ job.step = "refresh" <=> SomeJob(loads)
      BY SchedulerState
    <2>3. /\ SchedulerAged(loads, loads')
          /\ \A r \in loads' : ~r.held /\ (r.newest => r.of # "taskTypes")
      BY <2>1, <2>2, SchedulerFailedOver
    <2>4. /\ fresh \in [Scheduler!Projection -> BOOLEAN]
          /\ asked \in [Scheduler!Projection -> SUBSET Scheduler!Query]
          /\ \A y \in Scheduler!Projection : ~fresh[y] /\ asked[y] \subseteq settled.asked[y]
      BY <2>2 DEF SchedulerHistory
    <2> HIDE DEF fresh, asked
    <2>5. settled' \in SchedulerHistory /\ settled'.fresh = fresh /\ settled'.asked = asked
      BY <2>1, <2>2, <2>4 DEF SchedulerHistory
    <2>6. SchedulerLoads'
      <3> SUFFICES ASSUME NEW r \in loads', r.newest
                   PROVE  ~shown'[r.of] /\ settled'.asked[r.of] \subseteq {r.query}
        BY <2>2, <2>3 DEF SchedulerLoads, SchedulerAged, OneNewestOfEach, OneJob
      <3>1. PICK m \in loads : m.of = r.of /\ m.query = r.query /\ m.newest
        BY <2>3 DEF SchedulerAged
      <3>2. r.of \in Scheduler!Projection
        BY <2>3 DEF SchedulerAged
      <3> QED
        BY <2>1, <2>2, <2>4, <2>5, <3>1, <3>2 DEF SchedulerLoads
    <2>7. Scheduler!TypeOK'
      <3>1. loads' \in SUBSET Scheduler!Load /\ (SomeJob(loads') <=> SomeJob(loads))
        BY <2>3 DEF SchedulerAged
      <3> QED
        BY <1>1, <1>2, <2>1, <2>2, <2>4, <2>5, <3>1
        DEF SchedulerInv, Scheduler!TypeOK, SomeJob, SchedulerHistory
    <2>8. Scheduler!FailsClosed'
      BY <2>1, <2>4 DEF Scheduler!FailsClosed
    <2>9. Scheduler!NewestIsShown'
      BY <1>1, <2>4, <2>5 DEF SchedulerInv, Scheduler!NewestIsShown
    <2> QED
      BY <1>2, <2>6, <2>7, <2>8, <2>9 DEF SchedulerInv
  <1>4. CASE job.status \notin Scheduler!Hiding
    <2>1. UNCHANGED <<loads, shown, settled>>
      BY <1>1, <1>4 DEF Scheduler!FailCommand
    <2> QED
      BY <1>1, <1>2, <2>1, SchedulerJobState, SchedulerJobSteps
  <1> QED
    BY <1>3, <1>4

LEMMA SchedulerRefreshing ==
  ASSUME SchedulerInv, job.step # "refresh",
         NEW kind \in Scheduler!Intent \cup {"repair"},
         NEW acked \in 0 .. MaxWrites + 1,
         Scheduler!BeginRefresh(kind, acked),
         pending' \in BOOLEAN, loadsLeft' \in 0 .. MaxLoads - 1,
         UNCHANGED <<can, granted, written, failuresLeft>>
  PROVE  SchedulerInv'
PROOF
  <1> DEFINE x == "definitions"
  <1>1. /\ Scheduler!Loading(x, Scheduler!Refreshed(lists[x]), FALSE, "job")
        /\ Scheduler!Noting(x, Scheduler!Refreshed(lists[x]), acked)
        /\ job' = IF x \in can THEN [Scheduler!NoJob EXCEPT !.kind = kind, !.step = "refresh"]
                  ELSE Scheduler!NoJob
    BY DEF Scheduler!BeginRefresh
  <1>2. /\ x \in Scheduler!Projection /\ Scheduler!ReadRight(x) = x
        /\ Scheduler!Refreshed(lists[x]) \in Scheduler!Query
        /\ ~SomeJob(loads)
    BY SchedulerState
    DEF Scheduler!Projection, Scheduler!ReadRight, Scheduler!Refreshed, Scheduler!List
  <1> HIDE DEF x
  <1>3. /\ loads' \in SUBSET Scheduler!Load
        /\ lists' \in [Scheduler!Projection -> Scheduler!List]
        /\ shown' \in [Scheduler!Projection -> BOOLEAN]
        /\ settled' \in SchedulerHistory
        /\ SchedulerLoads' /\ Scheduler!FailsClosed' /\ Scheduler!NewestIsShown'
        /\ SomeJob(loads)' <=> x \in can
    BY <1>1, <1>2, SchedulerLoading
  <1>4. /\ job' \in Scheduler!Job
        /\ job'.step = "refresh" <=> x \in can
        /\ job'.step \in {"none", "refresh"}
    <2> DEFINE refreshing == [kind |-> kind, step |-> "refresh", status |-> "sent",
                              version |-> 0]
    <2>1. CASE x \in can
      <3>1. job' = refreshing
        BY <1>1, <2>1 DEF Scheduler!NoJob
      <3>2. kind \in Scheduler!Intent \cup {"none", "repair"}
        OBVIOUS
      <3>3. job' \in Scheduler!Job
        BY <3>1, <3>2, WritesAreBounded DEF Scheduler!Job
      <3> QED
        BY <2>1, <3>1, <3>3
    <2>2. CASE x \notin can
      BY <1>1, <2>2, WritesAreBounded DEF Scheduler!NoJob, Scheduler!Job
    <2> QED
      BY <2>1, <2>2
  <1>5. Scheduler!TypeOK'
    BY <1>3, <1>4 DEF SchedulerInv, Scheduler!TypeOK, SomeJob, SchedulerHistory
  <1>6. SchedulerJob'
    BY <1>4 DEF SchedulerJob
  <1> QED
    BY <1>3, <1>5, <1>6 DEF SchedulerInv

LEMMA SchedulerFinishJobInv == ASSUME SchedulerInv, Scheduler!FinishJob PROVE SchedulerInv'
PROOF
  <1>1. /\ job.step = "write" /\ pending' = TRUE
        /\ Scheduler!BeginRefresh(job.kind, job.version)
        /\ UNCHANGED <<can, granted, written, loadsLeft, failuresLeft>>
    BY DEF Scheduler!FinishJob, Scheduler!serverVars, Scheduler!boundVars
  <1>2. /\ job.kind \in Scheduler!Intent \cup {"repair"} /\ job.version \in 0 .. MaxWrites + 1
        /\ loadsLeft \in 0 .. MaxLoads - 1
    BY <1>1 DEF SchedulerInv, Scheduler!TypeOK, SchedulerJob, Scheduler!Job
  <1> QED
    BY <1>1, <1>2, SchedulerRefreshing

LEMMA SchedulerRepairInv == ASSUME SchedulerInv, Scheduler!Repair PROVE SchedulerInv'
PROOF
  <1>1. /\ job = Scheduler!NoJob /\ loadsLeft > 0 /\ loadsLeft' = loadsLeft - 1
        /\ Scheduler!BeginRefresh("repair", settled.acked)
        /\ UNCHANGED <<pending, can, granted, written, failuresLeft>>
    BY DEF Scheduler!Repair, Scheduler!Busy, Scheduler!serverVars
  <1>2. /\ settled.acked \in 0 .. MaxWrites + 1 /\ pending \in BOOLEAN
        /\ loadsLeft' \in 0 .. MaxLoads - 1
    BY <1>1, BoundsArePositive DEF SchedulerInv, Scheduler!TypeOK
  <1>3. job.step # "refresh"
    BY <1>1 DEF Scheduler!NoJob
  <1> QED
    BY <1>1, <1>2, <1>3, SchedulerRefreshing

LEMMA SchedulerWithdrawInv ==
  ASSUME SchedulerInv, NEW right \in Scheduler!Right, Scheduler!Withdraw(right)
  PROVE  SchedulerInv'
PROOF
  <1>1. /\ granted' = granted \ {right} /\ failuresLeft > 0 /\ failuresLeft' = failuresLeft - 1
        /\ UNCHANGED <<lists, loads, shown, job, pending, can, written, loadsLeft, settled>>
    BY DEF Scheduler!Withdraw
  <1>2. SchedulerJob'
    BY <1>1, SchedulerJobState DEF SchedulerJob
  <1> QED
    BY <1>1, <1>2, SchedulerJobState, SchedulerJobSteps

LEMMA SchedulerLearnInv == ASSUME SchedulerInv, Scheduler!Learn PROVE SchedulerInv'
PROOF
  <1>1. /\ can' = granted
        /\ UNCHANGED <<lists, loads, shown, job, pending, granted, written, loadsLeft,
                       failuresLeft, settled>>
    BY DEF Scheduler!Learn, Scheduler!serverVars, Scheduler!boundVars
  <1>2. SchedulerJob'
    BY <1>1, SchedulerJobState DEF SchedulerJob
  <1> QED
    BY <1>1, <1>2, SchedulerJobState, SchedulerJobSteps

LEMMA SchedulerInitInv == Scheduler!Init => SchedulerInv
PROOF
  <1> SUFFICES ASSUME Scheduler!Init PROVE SchedulerInv
    OBVIOUS
  <1>1. Scheduler!EmptyList \in Scheduler!List
    BY QueriesAreNamed, WritesAreBounded
    DEF Scheduler!EmptyList, Scheduler!List, Scheduler!Rows, Scheduler!NoRows,
        Scheduler!FirstQuery, Scheduler!Query
  <1>2. Scheduler!NoJob \in Scheduler!Job
    BY WritesAreBounded DEF Scheduler!NoJob, Scheduler!Job
  <1>3. /\ settled \in SchedulerHistory
        /\ \A x \in Scheduler!Projection : settled.fresh[x] /\ settled.asked[x] = {}
    BY WritesAreBounded DEF Scheduler!Init, SchedulerHistory
  <1>4. Scheduler!TypeOK
    <2>1. /\ lists \in [Scheduler!Projection -> Scheduler!List]
          /\ shown \in [Scheduler!Projection -> BOOLEAN]
      BY <1>1 DEF Scheduler!Init
    <2>2. /\ job \in Scheduler!Job /\ job.step # "refresh" /\ loads = {} /\ pending \in BOOLEAN
          /\ can \subseteq Scheduler!Right /\ granted \subseteq Scheduler!Right
      BY <1>2 DEF Scheduler!Init, Scheduler!NoJob, Scheduler!Right
    <2>3. /\ written \in 1 .. MaxWrites + 1
          /\ loadsLeft \in 0 .. MaxLoads - 1 /\ failuresLeft \in 0 .. MaxFailures
      BY WritesAreBounded, BoundsArePositive DEF Scheduler!Init
    <2> QED
      BY <1>3, <2>1, <2>2, <2>3 DEF Scheduler!TypeOK, SchedulerHistory
  <1>5. SchedulerLoads /\ SchedulerJob
    BY DEF Scheduler!Init, SchedulerLoads, SchedulerJob, Scheduler!NoJob, OneNewestOfEach, OneJob
  <1>6. Scheduler!FailsClosed /\ Scheduler!NewestIsShown
    BY <1>3 DEF Scheduler!FailsClosed, Scheduler!NewestIsShown
  <1> QED
    BY <1>4, <1>5, <1>6 DEF SchedulerInv

LEMMA SchedulerNextInv == ASSUME SchedulerInv, Scheduler!Next PROVE SchedulerInv'
  BY SchedulerAskSomethingInv, SchedulerAskInvalidInv, SchedulerServeLoadInv,
     SchedulerAnswerLoadInv, SchedulerStartInv, SchedulerConfirmInv, SchedulerServeJobInv,
     SchedulerFailJobInv, SchedulerFinishJobInv, SchedulerRepairInv, SchedulerWithdrawInv,
     SchedulerLearnInv
  DEF Scheduler!Next

HIDE DEF Scheduler!Load, Scheduler!Status

-----------------------------------------------------------------------------
(* What loads and calls of the administration pages become. *)
USE DEF Administration!Load, Administration!Call, Administration!Status, Administration!Version

AdministrationAged(ls, rs) ==
  /\ rs \in SUBSET Administration!Load
  /\ \A r \in rs : \E l \in ls :
       /\ r.query = l.query /\ r.status = l.status /\ r.version = l.version
       /\ r.newest => l.newest
       /\ r.fresh => l.fresh
  /\ OneNewest(ls) => OneNewest(rs)
  /\ OneJob(ls) => OneJob(rs)
  /\ SomeJob(rs) <=> SomeJob(ls)

(* Any change of the loads, one by one, that only takes marks away. *)
LEMMA AdministrationAging ==
  ASSUME NEW ls \in SUBSET Administration!Load, NEW g \in [ls -> Administration!Load],
         \A l \in ls :
           /\ g[l].query = l.query /\ g[l].owner = l.owner
           /\ g[l].status = l.status /\ g[l].version = l.version
           /\ g[l].newest => l.newest
           /\ g[l].fresh => l.fresh
  PROVE  AdministrationAged(ls, {g[l] : l \in ls})
  <1> DEFINE rs == {g[l] : l \in ls}
  <1>1. \A r \in rs : \E l \in ls : r = g[l]
    OBVIOUS
  <1>2. \A l \in ls : g[l] \in rs
    OBVIOUS
  <1> HIDE DEF rs
  <1>3. ASSUME OneNewest(ls), NEW r \in rs, NEW s \in rs, r.newest, s.newest PROVE r = s
    <2>1. PICK l \in ls : r = g[l]
      BY <1>1
    <2>2. PICK m \in ls : s = g[m]
      BY <1>1
    <2> QED
      BY <1>3, <2>1, <2>2 DEF OneNewest
  <1>4. ASSUME OneJob(ls), NEW r \in rs, NEW s \in rs, r.owner = "job", s.owner = "job"
        PROVE  r = s
    <2>1. PICK l \in ls : r = g[l]
      BY <1>1
    <2>2. PICK m \in ls : s = g[m]
      BY <1>1
    <2> QED
      BY <1>4, <2>1, <2>2 DEF OneJob
  <1>5. SomeJob(rs) <=> SomeJob(ls)
    BY <1>1, <1>2 DEF SomeJob
  <1>6. \A r \in rs : /\ r \in Administration!Load
                      /\ \E l \in ls :
                           /\ r.query = l.query /\ r.status = l.status /\ r.version = l.version
                           /\ r.newest => l.newest
                           /\ r.fresh => l.fresh
    BY <1>1
  <1> QED
    BY <1>3, <1>4, <1>5, <1>6 DEF AdministrationAged, OneNewest, OneJob, rs

LEMMA AdministrationOutdated ==
  ASSUME NEW ls \in SUBSET Administration!Load
  PROVE  /\ AdministrationAged(ls, Administration!Outdated(ls))
         /\ \A r \in Administration!Outdated(ls) : ~r.fresh
  <1> DEFINE g == [l \in ls |-> [l EXCEPT !.fresh = FALSE]]
  <1>1. \A l \in ls : /\ g[l] \in Administration!Load /\ ~g[l].fresh
                      /\ g[l].query = l.query /\ g[l].owner = l.owner
                      /\ g[l].status = l.status /\ g[l].version = l.version
                      /\ g[l].newest = l.newest
    OBVIOUS
  <1>2. Administration!Outdated(ls) = {g[l] : l \in ls}
    BY DEF Administration!Outdated
  <1> HIDE DEF g
  <1>3. g \in [ls -> Administration!Load]
    BY <1>1 DEF g
  <1>4. AdministrationAged(ls, {g[l] : l \in ls})
    BY <1>1, <1>3, AdministrationAging
  <1> QED
    BY <1>1, <1>2, <1>4

LEMMA AdministrationReplaced ==
  ASSUME NEW ls \in SUBSET Administration!Load
  PROVE  /\ AdministrationAged(ls, Administration!Replaced(ls))
         /\ \A r \in Administration!Replaced(ls) : ~r.newest
  <1> DEFINE g == [l \in ls |-> [l EXCEPT !.newest = FALSE]]
  <1>1. \A l \in ls : /\ g[l] \in Administration!Load /\ ~g[l].newest
                      /\ g[l].query = l.query /\ g[l].owner = l.owner
                      /\ g[l].status = l.status /\ g[l].version = l.version
                      /\ g[l].fresh = l.fresh
    OBVIOUS
  <1>2. Administration!Replaced(ls) = {g[l] : l \in ls}
    BY DEF Administration!Replaced
  <1> HIDE DEF g
  <1>3. g \in [ls -> Administration!Load]
    BY <1>1 DEF g
  <1>4. AdministrationAged(ls, {g[l] : l \in ls})
    BY <1>1, <1>3, AdministrationAging
  <1> QED
    BY <1>1, <1>2, <1>4

CallsAged(cs, ds) ==
  /\ ds \in SUBSET Administration!Call
  /\ \A d \in ds : \E c \in cs :
       /\ d.step = c.step /\ d.status = c.status /\ d.version = c.version
       /\ c.old => d.old
  /\ OneJob(cs) => OneJob(ds)
  /\ SomeJob(ds) <=> SomeJob(cs)

LEMMA CallsAging ==
  ASSUME NEW cs \in SUBSET Administration!Call, NEW g \in [cs -> Administration!Call],
         \A c \in cs :
           /\ g[c].owner = c.owner /\ g[c].step = c.step
           /\ g[c].status = c.status /\ g[c].version = c.version
           /\ c.old => g[c].old
  PROVE  CallsAged(cs, {g[c] : c \in cs})
  <1> DEFINE ds == {g[c] : c \in cs}
  <1>1. \A d \in ds : \E c \in cs : d = g[c]
    OBVIOUS
  <1>2. \A c \in cs : g[c] \in ds
    OBVIOUS
  <1> HIDE DEF ds
  <1>3. ASSUME OneJob(cs), NEW d \in ds, NEW e \in ds, d.owner = "job", e.owner = "job"
        PROVE  d = e
    <2>1. PICK b \in cs : d = g[b]
      BY <1>1
    <2>2. PICK c \in cs : e = g[c]
      BY <1>1
    <2> QED
      BY <1>3, <2>1, <2>2 DEF OneJob
  <1>4. SomeJob(ds) <=> SomeJob(cs)
    BY <1>1, <1>2 DEF SomeJob
  <1>5. \A d \in ds : /\ d \in Administration!Call
                      /\ \E c \in cs :
                           /\ d.step = c.step /\ d.status = c.status /\ d.version = c.version
                           /\ c.old => d.old
    BY <1>1
  <1> QED
    BY <1>3, <1>4, <1>5 DEF CallsAged, OneJob, ds

LEMMA CallsOutdated ==
  ASSUME NEW cs \in SUBSET Administration!Call
  PROVE  CallsAged(cs, Administration!Outdated(cs))
  <1> DEFINE g == [c \in cs |-> [c EXCEPT !.fresh = FALSE]]
  <1>1. \A c \in cs : /\ g[c] \in Administration!Call
                      /\ g[c].owner = c.owner /\ g[c].step = c.step
                      /\ g[c].status = c.status /\ g[c].version = c.version
                      /\ g[c].old = c.old
    <2> TAKE c \in cs
    <2>1. g[c] = [owner |-> c.owner, step |-> c.step, was |-> c.was,
                  fresh |-> FALSE, old |-> c.old, status |-> c.status,
                  manifest |-> c.manifest, version |-> c.version]
      OBVIOUS
    <2> QED
      BY <2>1
  <1>2. Administration!Outdated(cs) = {g[c] : c \in cs}
    BY DEF Administration!Outdated
  <1> HIDE DEF g
  <1>3. g \in [cs -> Administration!Call]
    BY <1>1 DEF g
  <1> QED
    BY <1>1, <1>2, <1>3, CallsAging

(* Once a command is acknowledged, the calls begun before it are old. *)
LEMMA CallsOld ==
  ASSUME NEW cs \in SUBSET Administration!Call
  PROVE  /\ CallsAged(cs, {[c EXCEPT !.old = TRUE] : c \in cs})
         /\ \A d \in {[c EXCEPT !.old = TRUE] : c \in cs} : d.old
  <1> DEFINE g == [c \in cs |-> [c EXCEPT !.old = TRUE]]
  <1>1. \A c \in cs : /\ g[c] \in Administration!Call
                      /\ g[c].owner = c.owner /\ g[c].step = c.step
                      /\ g[c].status = c.status /\ g[c].version = c.version
                      /\ g[c].old
    <2> TAKE c \in cs
    <2>1. g[c] = [owner |-> c.owner, step |-> c.step, was |-> c.was,
                  fresh |-> c.fresh, old |-> TRUE, status |-> c.status,
                  manifest |-> c.manifest, version |-> c.version]
      OBVIOUS
    <2> QED
      BY <2>1
  <1>2. {[c EXCEPT !.old = TRUE] : c \in cs} = {g[c] : c \in cs}
    OBVIOUS
  <1> HIDE DEF g
  <1>3. g \in [cs -> Administration!Call]
    BY <1>1 DEF g
  <1>4. CallsAged(cs, {g[c] : c \in cs})
    BY <1>1, <1>3, CallsAging
  <1>5. \A d \in {g[c] : c \in cs} : d.old
    BY <1>1
  <1> QED
    BY <1>2, <1>4, <1>5

-----------------------------------------------------------------------------
AdministrationHistory ==
  [acked : [Administration!Subject -> Administration!Version], fresh : BOOLEAN,
   late : BOOLEAN, old : BOOLEAN, asked : SUBSET Administration!Query]

LEMMA AdministrationState ==
  ASSUME AdministrationInv
  PROVE  /\ list \in Administration!List
         /\ loads \in SUBSET Administration!Load /\ calls \in SUBSET Administration!Call
         /\ shown \in BOOLEAN /\ can \in Administration!Manifest
         /\ roles \in Administration!Version
         /\ deletion \in {"none", "queued", "claimed"}
         /\ settled \in AdministrationHistory
         /\ job \in Administration!Job /\ Administration!NoJob \in Administration!Job
         /\ Administration!NoManifest \in Administration!Manifest
         /\ granted \in Administration!Manifest /\ written \in 1 .. MaxWrites + 1
         /\ failuresLeft \in 0 .. MaxFailures /\ loadsLeft \in 0 .. MaxLoads
         /\ failuresLeft > 0 => failuresLeft - 1 \in 0 .. MaxFailures
         /\ loadsLeft > 0 => loadsLeft - 1 \in 0 .. MaxLoads
         /\ job.step = "refresh" <=> SomeJob(loads) \/ SomeJob(calls)
         /\ OneNewest(loads) /\ OneJob(loads) /\ OneJob(calls)
         /\ ~(SomeJob(loads) /\ SomeJob(calls))
  <1>1. /\ Administration!NoJob \in Administration!Job
        /\ Administration!NoManifest \in Administration!Manifest
    BY WritesAreBounded
    DEF Administration!NoJob, Administration!Job, Administration!Subject,
        Administration!NoManifest, Administration!Manifest
  <1>2. job.step = "refresh" <=> SomeJob(loads) \/ SomeJob(calls)
    BY DEF AdministrationInv, Administration!TypeOK, SomeJob
  <1>3. /\ failuresLeft > 0 => failuresLeft - 1 \in 0 .. MaxFailures
        /\ loadsLeft > 0 => loadsLeft - 1 \in 0 .. MaxLoads
    BY BoundsArePositive DEF AdministrationInv, Administration!TypeOK
  <1> QED
    BY <1>1, <1>2, <1>3
    DEF AdministrationInv, Administration!TypeOK, AdministrationLoads, AdministrationHistory

(* What a job does that touches neither the users nor the roles. *)
LEMMA AdministrationJobSteps ==
  ASSUME AdministrationInv,
         UNCHANGED <<list, loads, shown, calls, can, roles, settled, pending, loadsLeft>>,
         job' \in Administration!Job, AdministrationJob',
         job'.step = "refresh" <=> job.step = "refresh",
         deletion' \in {"none", "queued", "claimed"},
         granted' \in Administration!Manifest,
         written' \in written .. MaxWrites + 1, failuresLeft' \in 0 .. MaxFailures
  PROVE  AdministrationInv'
PROOF
  <1>1. written' \in 1 .. MaxWrites + 1
    BY AdministrationState, WritesAreBounded
  <1>2. Administration!TypeOK'
    BY <1>1 DEF AdministrationInv, Administration!TypeOK
  <1>3. AdministrationLoads'
    BY DEF AdministrationInv, AdministrationLoads
  <1>4. AdministrationHides'
    BY DEF AdministrationInv, AdministrationHides
  <1>5. AdministrationUsers'
    BY DEF AdministrationInv, AdministrationUsers, UsersAreDue, Dark
  <1>6. AdministrationRoles'
    <2> SUFFICES ASSUME NEW of \in Administration!Subject PROVE settled'.acked[of] <= written'
      BY DEF AdministrationInv, AdministrationRoles
    <2>1. settled.acked[of] \in 0 .. MaxWrites + 1 /\ settled.acked[of] <= written
      BY AdministrationState DEF AdministrationHistory, AdministrationInv, AdministrationRoles
    <2> QED
      BY <2>1, AdministrationState, WritesAreBounded
  <1>7. Administration!NewestIsShown'
    BY DEF AdministrationInv, Administration!NewestIsShown
  <1> QED
    BY <1>2, <1>3, <1>4, <1>5, <1>6, <1>7 DEF AdministrationInv

LEMMA AdministrationJobOver ==
  ASSUME AdministrationInv, AdministrationJob, job.step # "refresh",
         job' = Administration!NoJob \/ job' = job,
         UNCHANGED <<list, loads, shown, calls, can, roles, settled, pending, loadsLeft, written>>,
         deletion' \in {"none", "queued", "claimed"},
         granted' \in Administration!Manifest, failuresLeft' \in 0 .. MaxFailures
  PROVE  AdministrationInv'
PROOF
  <1>1. written \in 1 .. MaxWrites + 1 /\ written' \in written .. MaxWrites + 1
    BY AdministrationState, WritesAreBounded
  <1>2. ~SomeJob(loads) /\ ~SomeJob(calls)
    BY AdministrationState
  <1>3. AdministrationJob'
    <2>1. CASE job' = Administration!NoJob
      BY <1>2, <2>1 DEF AdministrationJob, Administration!NoJob, SomeJob
    <2>2. CASE job' = job
      BY <2>2 DEF AdministrationJob
    <2> QED
      BY <2>1, <2>2
  <1>4. job' \in Administration!Job /\ job'.step # "refresh"
    BY AdministrationState DEF Administration!NoJob
  <1> QED
    BY <1>1, <1>3, <1>4, AdministrationJobSteps

-----------------------------------------------------------------------------
(* Every action of the administration pages preserves their invariant. *)

(* Whatever clears the page leaves the users dark and the roles empty. *)
LEMMA AdministrationClearing ==
  ASSUME AdministrationInv,
         NEW ls \in SUBSET loads, NEW cs \in SUBSET calls, Administration!Clear(ls, cs),
         list' \in Administration!List,
         list'.query = list.query, list'.rows = list.rows,
         (\E l \in ls : l.newest) => list' = list,
         NEW asked \in SUBSET settled.asked, list' = list \/ asked = {},
         settled' = [settled EXCEPT !.fresh = FALSE, !.asked = asked],
         job' = job \/ job' = Administration!NoJob,
         job'.step = "refresh" <=> SomeJob(ls) \/ SomeJob(cs),
         UNCHANGED <<pending, granted, written, loadsLeft, failuresLeft>>
  PROVE  AdministrationInv'
PROOF
  <1>1. /\ loads \in SUBSET Administration!Load /\ calls \in SUBSET Administration!Call
        /\ settled \in AdministrationHistory
        /\ job \in Administration!Job /\ Administration!NoJob \in Administration!Job
        /\ Administration!NoManifest \in Administration!Manifest
        /\ OneNewest(loads) /\ OneJob(loads) /\ OneJob(calls)
        /\ ~(SomeJob(loads) /\ SomeJob(calls))
    BY AdministrationState
  <1>2. /\ can' = Administration!NoManifest /\ roles' = 0 /\ shown' = FALSE /\ deletion' = "none"
        /\ loads' = Administration!Outdated(ls) /\ calls' = Administration!Outdated(cs)
    BY DEF Administration!Clear
  <1>3. /\ AdministrationAged(ls, loads') /\ \A r \in loads' : ~r.fresh
        /\ CallsAged(cs, calls')
    BY <1>1, <1>2, AdministrationOutdated, CallsOutdated
  <1>4. /\ OneNewest(ls) /\ OneJob(ls) /\ OneJob(cs) /\ ~(SomeJob(ls) /\ SomeJob(cs))
        /\ SomeJob(ls) => SomeJob(loads)
    BY <1>1 DEF OneNewest, OneJob, SomeJob
  <1>5. /\ settled' \in AdministrationHistory /\ settled'.acked = settled.acked
        /\ settled'.asked = asked
    BY <1>1 DEF AdministrationHistory
  <1>6. Administration!TypeOK'
    <2>1. /\ loads' \in SUBSET Administration!Load /\ calls' \in SUBSET Administration!Call
          /\ job'.step = "refresh" <=> SomeJob(loads') \/ SomeJob(calls')
      BY <1>3 DEF AdministrationAged, CallsAged
    <2>2. roles' \in Administration!Version /\ can' \in Administration!Manifest
      BY <1>1, <1>2, WritesAreBounded
    <2> QED
      BY <1>1, <1>2, <1>5, <2>1, <2>2
      DEF AdministrationInv, Administration!TypeOK, SomeJob, AdministrationHistory
  <1>7. AdministrationLoads'
    <2>1. \A l \in loads : l.newest => list.loading /\ settled.asked \subseteq {l.query}
      BY DEF AdministrationInv, AdministrationLoads
    <2>2. \A r \in loads' : r.newest => list'.loading /\ settled'.asked \subseteq {r.query}
      <3> SUFFICES ASSUME NEW r \in loads', r.newest
                   PROVE  list'.loading /\ settled'.asked \subseteq {r.query}
        OBVIOUS
      <3>1. PICK l \in ls : l.newest /\ r.query = l.query
        BY <1>3 DEF AdministrationAged
      <3> QED
        BY <1>5, <2>1, <3>1
    <2> QED
      BY <1>3, <1>4, <2>2 DEF AdministrationLoads, AdministrationAged, CallsAged
  <1>8. AdministrationJob'
    <2>1. SomeJob(loads') => SomeJob(loads)
      BY <1>3, <1>4 DEF AdministrationAged
    <2>2. SomeJob(loads) => job.of = "users"
      BY DEF SomeJob, AdministrationInv, AdministrationJob
    <2>3. CASE job' = job
      BY <2>1, <2>2, <2>3 DEF AdministrationInv, AdministrationJob, SomeJob
    <2>4. CASE job' = Administration!NoJob
      BY <2>4 DEF AdministrationInv, AdministrationJob, Administration!NoJob
    <2> QED
      BY <2>3, <2>4
  <1>9. AdministrationHides'
    BY <1>2, <1>3 DEF AdministrationHides
  <1>10. AdministrationUsers'
    BY <1>2, <1>3 DEF AdministrationUsers, Dark
  <1>11. AdministrationRoles'
    BY <1>2, <1>3, <1>5 DEF AdministrationInv, AdministrationRoles, CallsAged
  <1>12. Administration!NewestIsShown'
    BY <1>5 DEF AdministrationInv, Administration!NewestIsShown
  <1> QED
    BY <1>6, <1>7, <1>8, <1>9, <1>10, <1>11, <1>12 DEF AdministrationInv

LEMMA AdministrationStartInv ==
  ASSUME AdministrationInv, Administration!StartSomething PROVE AdministrationInv'
PROOF
  <1>1. PICK kind \in {"write", "cancel", "lookup"}, of \in Administration!Subject :
          Administration!Start(kind, of)
    BY DEF Administration!StartSomething, Administration!Subject
  <1>2. /\ job = Administration!NoJob /\ pending = {}
        /\ kind # "lookup" => written <= MaxWrites
        /\ job' = [Administration!NoJob EXCEPT !.kind = kind, !.of = of, !.step = "request"]
        /\ UNCHANGED <<list, loads, shown, calls, can, roles, deletion, pending, granted, written,
                       loadsLeft, failuresLeft, settled>>
    BY <1>1 DEF Administration!Start, Administration!Blocked, Administration!Busy,
                Administration!serverVars, Administration!boundVars
  <1>3. /\ job' \in Administration!Job /\ job'.kind = kind /\ job'.step = "request"
        /\ job'.status = "sent"
    <2>1. job' = [kind |-> kind, of |-> of, step |-> "request", status |-> "sent", version |-> 0]
      BY <1>2 DEF Administration!NoJob
    <2>2. /\ kind \in {"none", "write", "cancel", "lookup", "repair"}
          /\ of \in Administration!Subject
      BY <1>1
    <2>3. "request" \in {"none", "request", "refresh"} /\ 0 \in Administration!Version
      BY WritesAreBounded
    <2>4. job' \in Administration!Job
      BY <2>1, <2>2, <2>3 DEF Administration!Job
    <2> QED
      BY <2>1, <2>4
  <1>4. job.step # "refresh" /\ ~SomeJob(loads)
    BY <1>2, AdministrationState DEF Administration!NoJob
  <1>5. written' \in written .. MaxWrites + 1
    BY <1>2, AdministrationState
  <1>6. AdministrationJob'
    BY <1>2, <1>3, <1>4 DEF AdministrationJob, SomeJob
  <1> QED
    BY <1>2, <1>3, <1>4, <1>5, <1>6, AdministrationState, AdministrationJobSteps

LEMMA AdministrationDeclineInv ==
  ASSUME AdministrationInv, Administration!Decline PROVE AdministrationInv'
PROOF
  <1>1. /\ job.step = "request" /\ job' = Administration!NoJob
        /\ UNCHANGED <<list, loads, shown, calls, can, roles, deletion, pending, granted, written,
                       loadsLeft, failuresLeft, settled>>
    BY DEF Administration!Decline, Administration!serverVars, Administration!boundVars
  <1>2. AdministrationJob
    BY DEF AdministrationInv
  <1> QED
    BY <1>1, <1>2, AdministrationState, AdministrationJobOver

LEMMA AdministrationServeJobInv ==
  ASSUME AdministrationInv, Administration!ServeJob PROVE AdministrationInv'
PROOF
  <1>1. /\ job.step = "request" /\ job.status = "sent"
        /\ UNCHANGED <<list, loads, shown, calls, can, roles, deletion, pending, granted,
                       loadsLeft, settled>>
    BY DEF Administration!ServeJob
  <1>2. /\ job \in Administration!Job /\ written \in 1 .. MaxWrites + 1
        /\ failuresLeft \in 0 .. MaxFailures
        /\ failuresLeft > 0 => failuresLeft - 1 \in 0 .. MaxFailures
    BY AdministrationState
  <1>3. AdministrationJob
    BY DEF AdministrationInv
  <1>4. PICK status \in {"ok", "unavailable", "refused"} :
          \/ job' = [job EXCEPT !.status = status] /\ status # "ok"
          \/ job' = [job EXCEPT !.status = status, !.version = written']
    BY DEF Administration!ServeJob
  <1>5. \/ written' = IF job.kind = "lookup" THEN written ELSE written + 1
        \/ written' = written
    BY DEF Administration!ServeJob
  <1>6. written' \in written .. MaxWrites + 1 /\ written' \in Administration!Version
    <2>1. written' = written \/ (written' = written + 1 /\ written <= MaxWrites)
      BY <1>1, <1>3, <1>5 DEF AdministrationJob
    <2> QED
      BY <1>2, <2>1, WritesAreBounded
  <1>7. failuresLeft' \in 0 .. MaxFailures
    BY <1>2 DEF Administration!ServeJob
  <1>8. /\ job' \in Administration!Job /\ job'.kind = job.kind /\ job'.step = job.step
        /\ job'.of = job.of /\ job'.status = status
        /\ status = "ok" => job'.version = written'
    <2>1. CASE job' = [job EXCEPT !.status = status] /\ status # "ok"
      BY <1>2, <2>1 DEF Administration!Job
    <2>2. CASE job' = [job EXCEPT !.status = status, !.version = written']
      BY <1>2, <1>6, <2>2 DEF Administration!Job
    <2> QED
      BY <1>4, <2>1, <2>2
  <1>9. AdministrationJob'
    <2>1. job'.status = "ok" => job'.version <= written'
      BY <1>2, <1>6, <1>8
    <2> QED
      BY <1>1, <1>3, <1>8, <2>1 DEF AdministrationJob
  <1> QED
    BY <1>1, <1>6, <1>7, <1>8, <1>9, AdministrationState, AdministrationJobSteps

LEMMA AdministrationFailJobInv ==
  ASSUME AdministrationInv, Administration!FailJob PROVE AdministrationInv'
PROOF
  <1>1. /\ job.step = "request" /\ job' = Administration!NoJob
        /\ UNCHANGED <<list, pending, granted, written, loadsLeft, failuresLeft>>
    BY DEF Administration!FailJob, Administration!serverVars, Administration!boundVars
  <1>2. AdministrationJob /\ ~SomeJob(loads) /\ ~SomeJob(calls)
    BY <1>1, AdministrationState DEF AdministrationInv
  <1>3. CASE /\ UNCHANGED <<loads, shown, calls, can, roles, settled>>
             /\ deletion' \in {deletion, "none"}
    BY <1>1, <1>2, <1>3, AdministrationState, AdministrationJobOver
  <1>4. CASE /\ Administration!Clear(loads, calls)
             /\ settled' = [settled EXCEPT !.fresh = FALSE]
    <2>1. settled' = [settled EXCEPT !.fresh = FALSE, !.asked = settled.asked]
      BY <1>4, AdministrationState DEF AdministrationHistory
    <2>2. job'.step # "refresh"
      BY <1>1 DEF Administration!NoJob
    <2> QED
      BY <1>1, <1>2, <1>4, <2>1, <2>2, AdministrationState, AdministrationClearing
  <1> QED
    BY <1>3, <1>4 DEF Administration!FailJob

LEMMA AdministrationLookUpInv ==
  ASSUME AdministrationInv, Administration!LookUp PROVE AdministrationInv'
PROOF
  <1>1. /\ job.status = "ok" /\ job' = Administration!NoJob /\ deletion' \in {"queued", "claimed"}
        /\ UNCHANGED <<list, loads, shown, calls, can, roles, pending, granted, written,
                       loadsLeft, failuresLeft, settled>>
    BY DEF Administration!LookUp, Administration!serverVars, Administration!boundVars
  <1>2. AdministrationJob /\ job.step = "request"
    BY <1>1 DEF AdministrationInv, AdministrationJob
  <1> QED
    BY <1>1, <1>2, AdministrationState, AdministrationJobOver

LEMMA AdministrationCloseDeletionInv ==
  ASSUME AdministrationInv, Administration!CloseDeletion PROVE AdministrationInv'
PROOF
  <1>1. /\ deletion' = "none"
        /\ UNCHANGED <<list, loads, shown, calls, can, roles, job, pending, granted, written,
                       loadsLeft, failuresLeft, settled>>
    BY DEF Administration!CloseDeletion, Administration!serverVars, Administration!boundVars
  <1>2. AdministrationJob'
    BY <1>1 DEF AdministrationInv, AdministrationJob
  <1>3. written' \in written .. MaxWrites + 1
    BY <1>1, AdministrationState
  <1> QED
    BY <1>1, <1>2, <1>3, AdministrationState, AdministrationJobSteps

LEMMA AdministrationWithdrawInv ==
  ASSUME AdministrationInv, Administration!Withdraw PROVE AdministrationInv'
PROOF
  <1>1. /\ failuresLeft > 0 /\ failuresLeft' = failuresLeft - 1
        /\ UNCHANGED <<list, loads, shown, calls, can, roles, deletion, job, pending, written,
                       loadsLeft, settled>>
    BY DEF Administration!Withdraw
  <1>2. granted' \in Administration!Manifest
    BY AdministrationState DEF Administration!Withdraw, Administration!Manifest
  <1>3. AdministrationJob'
    BY <1>1 DEF AdministrationInv, AdministrationJob
  <1>4. written' \in written .. MaxWrites + 1
    BY <1>1, AdministrationState
  <1> QED
    BY <1>1, <1>2, <1>3, <1>4, AdministrationState, AdministrationJobSteps

(* A command or a repair asks for the manifest again before anything else. *)
LEMMA AdministrationNewCall ==
  ASSUME AdministrationInv, NEW owner \in {"user", "job"}
  PROVE  LET c == Administration!NewCall(owner) IN
         /\ c \in Administration!Call /\ c.owner = owner
         /\ c.step = "manifest" /\ c.status = "sent"
  BY AdministrationState, WritesAreBounded DEF Administration!NewCall

LEMMA AdministrationOpenViewInv ==
  ASSUME AdministrationInv, Administration!OpenView PROVE AdministrationInv'
PROOF
  <1> DEFINE c == Administration!NewCall("user")
  <1>1. /\ loadsLeft > 0 /\ loadsLeft' = loadsLeft - 1
        /\ calls' = calls \cup {c} /\ deletion' = "none"
        /\ UNCHANGED <<list, loads, shown, can, roles, job, pending, granted, written,
                       failuresLeft, settled>>
    BY DEF Administration!OpenView, Administration!serverVars
  <1>2. c \in Administration!Call /\ c.owner = "user" /\ c.step = "manifest"
    BY AdministrationNewCall
  <1> HIDE DEF c
  <1>3. /\ calls' \in SUBSET Administration!Call
        /\ SomeJob(calls') <=> SomeJob(calls)
        /\ OneJob(calls')
    BY <1>1, <1>2, AdministrationState DEF SomeJob, OneJob
  <1>4. Administration!TypeOK'
    BY <1>1, <1>3, AdministrationState DEF AdministrationInv, Administration!TypeOK, SomeJob
  <1>5. AdministrationLoads'
    BY <1>1, <1>3 DEF AdministrationInv, AdministrationLoads
  <1>6. AdministrationJob' /\ AdministrationHides' /\ Administration!NewestIsShown'
    BY <1>1 DEF AdministrationInv, AdministrationJob, AdministrationHides,
                Administration!NewestIsShown
  <1>7. AdministrationUsers'
    BY <1>1 DEF AdministrationInv, AdministrationUsers, UsersAreDue, Dark
  <1>8. AdministrationRoles'
    BY <1>1, <1>2 DEF AdministrationInv, AdministrationRoles
  <1> QED
    BY <1>4, <1>5, <1>6, <1>7, <1>8 DEF AdministrationInv

LEMMA AdministrationRepairInv ==
  ASSUME AdministrationInv, Administration!Repair PROVE AdministrationInv'
PROOF
  <1> DEFINE c == Administration!NewCall("job")
  <1>1. /\ job = Administration!NoJob
        /\ loadsLeft > 0 /\ loadsLeft' = loadsLeft - 1
        /\ calls' = calls \cup {c}
        /\ UNCHANGED <<list, loads, shown, can, roles, deletion, pending, granted, written,
                       failuresLeft, settled>>
    BY DEF Administration!Repair, Administration!Busy, Administration!serverVars
  <1>2. PICK of \in pending :
          job' = [Administration!NoJob EXCEPT !.kind = "repair", !.of = of, !.step = "refresh"]
    BY DEF Administration!Repair
  <1>3. /\ c \in Administration!Call /\ c.owner = "job" /\ c.step = "manifest"
    BY AdministrationNewCall
  <1> HIDE DEF c
  <1>4. ~SomeJob(loads) /\ ~SomeJob(calls)
    BY <1>1, AdministrationState DEF Administration!NoJob
  <1>5. /\ calls' \in SUBSET Administration!Call
        /\ SomeJob(calls') /\ OneJob(calls')
    BY <1>1, <1>3, <1>4, AdministrationState DEF SomeJob, OneJob
  <1>6. pending \in {{}, {"users"}, {"roles"}}
    BY DEF AdministrationInv, AdministrationJob
  <1>7. /\ job' \in Administration!Job /\ job'.of = of /\ job'.step = "refresh"
        /\ job'.status = "sent" /\ pending = {of}
    <2>1. of \in Administration!Subject /\ pending = {of}
      BY <1>6 DEF Administration!Subject
    <2>2. job' = [kind |-> "repair", of |-> of, step |-> "refresh", status |-> "sent",
                  version |-> 0]
      BY <1>2 DEF Administration!NoJob
    <2> QED
      BY <2>1, <2>2, WritesAreBounded DEF Administration!Job
  <1>8. Administration!TypeOK'
    BY <1>1, <1>5, <1>7, AdministrationState DEF AdministrationInv, Administration!TypeOK, SomeJob
  <1>9. AdministrationLoads'
    BY <1>1, <1>4, <1>5 DEF AdministrationInv, AdministrationLoads
  <1>10. AdministrationJob'
    BY <1>1, <1>4, <1>6, <1>7 DEF AdministrationJob, SomeJob
  <1>11. AdministrationHides' /\ Administration!NewestIsShown'
    BY <1>1 DEF AdministrationInv, AdministrationHides, Administration!NewestIsShown
  <1>12. AdministrationUsers'
    BY <1>1 DEF AdministrationInv, AdministrationUsers, UsersAreDue, Dark
  <1>13. AdministrationRoles'
    BY <1>1, <1>3 DEF AdministrationInv, AdministrationRoles
  <1> QED
    BY <1>8, <1>9, <1>10, <1>11, <1>12, <1>13 DEF AdministrationInv

(* A command is acknowledged: what it is about is owed, and whatever call   *)
(* began before is old.                                                     *)
LEMMA AdministrationFinishJobInv ==
  ASSUME AdministrationInv, Administration!FinishJob PROVE AdministrationInv'
PROOF
  <1> DEFINE c == Administration!NewCall("job")
             cs == {[d EXCEPT !.old = TRUE] : d \in calls}
             of == job.of
  <1>1. /\ job.step = "request" /\ job.status = "ok"
        /\ pending' = {of}
        /\ calls' = cs \cup {c}
        /\ job' = [job EXCEPT !.step = "refresh", !.status = "sent"]
        /\ settled' = [settled EXCEPT !.acked = [settled.acked EXCEPT ![of] = job.version]]
        /\ UNCHANGED <<list, loads, shown, can, roles, granted, written, loadsLeft, failuresLeft>>
    BY DEF Administration!FinishJob, Administration!serverVars, Administration!boundVars
  <1>2. deletion' \in {"none", "queued", "claimed"}
    BY AdministrationState DEF Administration!FinishJob
  <1>3. /\ job \in Administration!Job /\ of \in Administration!Subject
        /\ job.version \in Administration!Version
        /\ settled \in AdministrationHistory
        /\ calls \in SUBSET Administration!Call
        /\ OneJob(calls) /\ ~SomeJob(loads) /\ ~SomeJob(calls)
        /\ job.version <= written /\ pending = {}
    BY <1>1, AdministrationState DEF AdministrationInv, AdministrationJob, Administration!Job
  <1>4. c \in Administration!Call /\ c.owner = "job" /\ c.step = "manifest"
    BY AdministrationNewCall
  <1>5. CallsAged(calls, cs) /\ \A d \in cs : d.old
    BY <1>3, CallsOld
  <1> HIDE DEF c, cs
  <1>6. /\ calls' \in SUBSET Administration!Call
        /\ SomeJob(calls') /\ OneJob(calls')
    BY <1>1, <1>3, <1>4, <1>5 DEF CallsAged, SomeJob, OneJob
  <1>7. /\ job' \in Administration!Job /\ job'.step = "refresh" /\ job'.status = "sent"
        /\ job'.of = of
    BY <1>1, <1>3 DEF Administration!Job
  <1>8. /\ settled' \in AdministrationHistory
        /\ settled'.fresh = settled.fresh /\ settled'.late = settled.late
        /\ settled'.old = settled.old /\ settled'.asked = settled.asked
        /\ settled'.acked[of] = job.version
        /\ \A x \in Administration!Subject \ {of} : settled'.acked[x] = settled.acked[x]
    BY <1>1, <1>3 DEF AdministrationHistory
  <1> HIDE DEF of
  <1>9. Administration!TypeOK'
    <2>1. pending' \subseteq Administration!Subject
      BY <1>1, <1>3
    <2> QED
      BY <1>1, <1>2, <1>6, <1>7, <1>8, <2>1
      DEF AdministrationInv, Administration!TypeOK, SomeJob, AdministrationHistory
  <1>10. AdministrationLoads'
    BY <1>1, <1>3, <1>6, <1>8 DEF AdministrationInv, AdministrationLoads
  <1>11. AdministrationJob'
    BY <1>1, <1>3, <1>7 DEF AdministrationJob, SomeJob, Administration!Subject
  <1>12. AdministrationHides' /\ Administration!NewestIsShown'
    BY <1>1, <1>8 DEF AdministrationInv, AdministrationHides, Administration!NewestIsShown
  <1>13. AdministrationUsers'
    <2>1. CASE of = "users"
      <3>1. ~UsersAreDue'
        BY <1>1, <1>3, <2>1 DEF UsersAreDue, SomeJob
      <3> QED
        BY <3>1 DEF AdministrationUsers
    <2>2. CASE of # "users"
      <3>1. UsersAreDue /\ settled'.acked["users"] = settled.acked["users"]
        BY <1>3, <1>8, <2>2 DEF UsersAreDue, Administration!Subject
      <3> QED
        BY <1>1, <1>8, <3>1 DEF AdministrationInv, AdministrationUsers, Dark
    <2> QED
      BY <2>1, <2>2
  <1>14. AdministrationRoles'
    <2>1. \A d \in calls' : d.step = "lists" => d.old
      BY <1>1, <1>4, <1>5
    <2>2. "roles" \notin pending' =>
            roles' = 0 \/ roles' >= settled'.acked["roles"] \/ settled'.old
      <3>1. SUFFICES ASSUME of # "roles"
                     PROVE  roles = 0 \/ roles >= settled.acked["roles"] \/ settled.old
        BY <1>1, <1>8 DEF Administration!Subject
      <3> QED
        BY <1>3 DEF AdministrationInv, AdministrationRoles
    <2>3. \A x \in Administration!Subject : settled'.acked[x] <= written'
      BY <1>1, <1>3, <1>8 DEF AdministrationInv, AdministrationRoles
    <2> QED
      BY <2>1, <2>2, <2>3 DEF AdministrationRoles
  <1> QED
    BY <1>9, <1>10, <1>11, <1>12, <1>13, <1>14 DEF AdministrationInv

(* A load that begins: what is under way matters no more to the list. *)
LEMMA AdministrationLoading ==
  ASSUME list \in Administration!List, NEW ls \in SUBSET Administration!Load,
         OneJob(ls), NEW query \in Administration!Query, NEW clears \in BOOLEAN,
         NEW owner \in {"user", "job"}, owner = "job" => ~SomeJob(ls),
         Administration!Loading(query, clears, owner, ls)
  PROVE  /\ loads' \in SUBSET Administration!Load /\ OneNewest(loads') /\ OneJob(loads')
         /\ SomeJob(loads') <=> SomeJob(ls) \/ owner = "job"
         /\ \E n \in loads' : n.newest /\ n.fresh
         /\ \A l \in loads' : l.newest => l.query = query /\ l.status = "sent"
         /\ list' \in Administration!List /\ list'.loading /\ list'.rows = list.rows
PROOF
  <1> DEFINE rs == Administration!Replaced(ls)
             n  == Administration!NewLoad(query, clears, owner)
  <1>1. loads' = rs \cup {n} /\ list' = Administration!Begun(list)
    BY DEF Administration!Loading
  <1>2. AdministrationAged(ls, rs) /\ \A r \in rs : ~r.newest
    BY AdministrationReplaced
  <1>3. /\ n \in Administration!Load /\ n.owner = owner /\ n.query = query
        /\ n.newest /\ n.fresh /\ n.status = "sent"
    BY WritesAreBounded DEF Administration!NewLoad
  <1>4. /\ rs \in SUBSET Administration!Load /\ OneJob(rs) /\ (SomeJob(rs) <=> SomeJob(ls))
    BY <1>2 DEF AdministrationAged
  <1> HIDE DEF rs, n
  <1>5. OneNewest(loads')
    BY <1>1, <1>2 DEF OneNewest
  <1>6. OneJob(loads') /\ (SomeJob(loads') <=> SomeJob(ls) \/ owner = "job")
    BY <1>1, <1>3, <1>4 DEF OneJob, SomeJob
  <1>7. /\ list' \in Administration!List /\ list'.loading /\ list'.rows = list.rows
    BY <1>1 DEF Administration!Begun, Administration!List
  <1> QED
    BY <1>1, <1>2, <1>3, <1>4, <1>5, <1>6, <1>7

LEMMA AdministrationQueries ==
  ASSUME NEW l \in Administration!List
  PROVE  /\ Administration!Refreshed(l) \in Administration!Query
         /\ Administration!FirstQuery \in Administration!Query
         /\ \A f \in {NoFilter} : Administration!Searched(f) \in Administration!Query
         /\ \A p \in Page : Administration!Turned(l, p) \in Administration!Query
  BY QueriesAreNamed
  DEF Administration!Refreshed, Administration!FirstQuery, Administration!Searched,
      Administration!Turned, Administration!List, Administration!Query

LEMMA AdministrationAskInv ==
  ASSUME AdministrationInv, NEW query \in Administration!Query, NEW clears \in BOOLEAN,
         Administration!Ask(query, clears)
  PROVE  AdministrationInv'
PROOF
  <1>1. /\ Administration!Access(can, "users")
        /\ loadsLeft > 0 /\ loadsLeft' = loadsLeft - 1
        /\ Administration!Loading(query, clears, "user", loads)
        /\ settled' = [settled EXCEPT !.asked = {query}]
        /\ UNCHANGED <<shown, calls, can, roles, deletion, job, pending, granted, written,
                       failuresLeft>>
    BY DEF Administration!Ask, Administration!serverVars
  <1>2. /\ loads' \in SUBSET Administration!Load /\ OneNewest(loads') /\ OneJob(loads')
        /\ SomeJob(loads') <=> SomeJob(loads)
        /\ \E n \in loads' : n.newest /\ n.fresh
        /\ \A l \in loads' : l.newest => l.query = query /\ l.status = "sent"
        /\ list' \in Administration!List /\ list'.loading
    BY <1>1, AdministrationState, AdministrationLoading
  <1>3. /\ settled' \in AdministrationHistory /\ settled'.acked = settled.acked
        /\ settled'.old = settled.old /\ settled'.asked = {query}
    BY <1>1, AdministrationState DEF AdministrationHistory
  <1>4. Administration!TypeOK'
    BY <1>1, <1>2, <1>3, AdministrationState
    DEF AdministrationInv, Administration!TypeOK, SomeJob, AdministrationHistory
  <1>5. AdministrationLoads'
    BY <1>1, <1>2, <1>3 DEF AdministrationInv, AdministrationLoads
  <1>6. AdministrationJob'
    BY <1>1, <1>2 DEF AdministrationInv, AdministrationJob, SomeJob
  <1>7. AdministrationHides'
    BY <1>1, <1>2 DEF AdministrationHides
  <1>8. AdministrationUsers'
    BY <1>2 DEF AdministrationUsers
  <1>9. AdministrationRoles'
    BY <1>1, <1>3 DEF AdministrationInv, AdministrationRoles
  <1>10. Administration!NewestIsShown'
    BY <1>2 DEF Administration!NewestIsShown
  <1> QED
    BY <1>4, <1>5, <1>6, <1>7, <1>8, <1>9, <1>10 DEF AdministrationInv

LEMMA AdministrationAskSomethingInv ==
  ASSUME AdministrationInv, Administration!AskSomething PROVE AdministrationInv'
PROOF
  <1>1. list \in Administration!List
    BY AdministrationState
  <1>2. \E query \in Administration!Query, clears \in BOOLEAN : Administration!Ask(query, clears)
    BY <1>1, AdministrationQueries DEF Administration!AskSomething
  <1> QED
    BY <1>2, AdministrationAskInv

LEMMA AdministrationServeLoadInv ==
  ASSUME AdministrationInv, NEW l \in loads, Administration!ServeLoad(l)
  PROVE  AdministrationInv'
PROOF
  <1>1. PICK q : /\ loads' = (loads \ {l}) \cup {q}
                 /\ \/ q = [l EXCEPT !.status = "ok", !.version = written]
                    \/ q = [l EXCEPT !.status = "refused"]
                    \/ q = [l EXCEPT !.status = "unavailable"]
    BY DEF Administration!ServeLoad
  <1>2. UNCHANGED <<list, shown, calls, can, roles, deletion, job, pending, granted, written,
                    loadsLeft, settled>>
    BY DEF Administration!ServeLoad, Administration!serverVars
  <1>3. failuresLeft' \in 0 .. MaxFailures
    BY AdministrationState DEF Administration!ServeLoad
  <1>4. /\ q \in Administration!Load /\ q.newest = l.newest /\ q.fresh = l.fresh
        /\ q.owner = l.owner /\ q.query = l.query
        /\ q.status = "ok" => q.version = written
    <2>1. l \in Administration!Load /\ written \in Administration!Version
      BY AdministrationState, WritesAreBounded
    <2>2. CASE q = [l EXCEPT !.status = "ok", !.version = written]
      BY <2>1, <2>2
    <2>3. CASE q = [l EXCEPT !.status = "refused"]
      BY <2>1, <2>3
    <2>4. CASE q = [l EXCEPT !.status = "unavailable"]
      BY <2>1, <2>4
    <2> QED
      BY <1>1, <2>2, <2>3, <2>4
  <1>5. /\ loads' \in SUBSET Administration!Load /\ OneNewest(loads') /\ OneJob(loads')
        /\ SomeJob(loads') <=> SomeJob(loads)
    BY <1>1, <1>4, AdministrationState DEF OneNewest, OneJob, SomeJob
  <1>6. Administration!TypeOK'
    BY <1>2, <1>3, <1>5, AdministrationState
    DEF AdministrationInv, Administration!TypeOK, SomeJob
  <1>7. AdministrationLoads'
    BY <1>1, <1>2, <1>4, <1>5 DEF AdministrationInv, AdministrationLoads
  <1>8. AdministrationJob'
    BY <1>2, <1>5 DEF AdministrationInv, AdministrationJob, SomeJob
  <1>9. AdministrationHides'
    BY <1>1, <1>2, <1>4 DEF AdministrationInv, AdministrationHides
  <1>10. AdministrationUsers'
    <2> SUFFICES ASSUME UsersAreDue'
                 PROVE  /\ \A r \in loads' : r.newest /\ r.fresh /\ r.status = "ok" =>
                             r.version >= settled'.acked["users"]
                        /\ \/ list'.rows.version >= settled'.acked["users"]
                           \/ settled'.late
                           \/ \E r \in loads' : r.newest
                           \/ Dark'
      BY DEF AdministrationUsers
    <2>1. UsersAreDue
      BY <1>2, <1>5 DEF UsersAreDue, SomeJob
    <2>2. /\ settled.acked["users"] \in 0 .. MaxWrites + 1 /\ settled.acked["users"] <= written
          /\ written \in 1 .. MaxWrites + 1
      BY AdministrationState
      DEF AdministrationHistory, Administration!Subject, AdministrationInv, AdministrationRoles
    <2>3. q.status = "ok" => q.version >= settled.acked["users"]
      BY <1>4, <2>2, WritesAreBounded
    <2>4. \A r \in loads' : r.newest /\ r.fresh /\ r.status = "ok" =>
            r.version >= settled'.acked["users"]
      BY <1>1, <1>2, <2>1, <2>3 DEF AdministrationInv, AdministrationUsers
    <2> QED
      BY <1>1, <1>2, <1>4, <2>1, <2>4 DEF AdministrationInv, AdministrationUsers, Dark
  <1>11. AdministrationRoles' /\ Administration!NewestIsShown'
    BY <1>2 DEF AdministrationInv, AdministrationRoles, Administration!NewestIsShown
  <1> QED
    BY <1>6, <1>7, <1>8, <1>9, <1>10, <1>11 DEF AdministrationInv

LEMMA AdministrationServeCallInv ==
  ASSUME AdministrationInv, NEW c \in calls, Administration!ServeCall(c)
  PROVE  AdministrationInv'
PROOF
  <1>1. PICK d : /\ calls' = (calls \ {c}) \cup {d}
                 /\ \/ c.step = "manifest" /\ d = [c EXCEPT !.status = "ok", !.manifest = granted]
                    \/ d = [c EXCEPT !.status = "ok", !.version = written]
                    \/ d = [c EXCEPT !.status = "refused"]
                    \/ d = [c EXCEPT !.status = "unavailable"]
    BY DEF Administration!ServeCall
  <1>2. UNCHANGED <<list, loads, shown, can, roles, deletion, job, pending, granted, written,
                    loadsLeft, settled>>
    BY DEF Administration!ServeCall, Administration!serverVars
  <1>3. failuresLeft' \in 0 .. MaxFailures
    BY AdministrationState DEF Administration!ServeCall
  <1>4. /\ d \in Administration!Call /\ d.owner = c.owner /\ d.step = c.step
        /\ d.step = "lists" /\ d.status = "ok" => d.version = written
    <2>1. /\ c \in Administration!Call /\ written \in Administration!Version
          /\ granted \in Administration!Manifest
      BY AdministrationState, WritesAreBounded
    <2>2. CASE c.step = "manifest" /\ d = [c EXCEPT !.status = "ok", !.manifest = granted]
      BY <2>1, <2>2
    <2>3. CASE d = [c EXCEPT !.status = "ok", !.version = written]
      BY <2>1, <2>3
    <2>4. CASE d = [c EXCEPT !.status = "refused"]
      BY <2>1, <2>4
    <2>5. CASE d = [c EXCEPT !.status = "unavailable"]
      BY <2>1, <2>5
    <2> QED
      BY <1>1, <2>2, <2>3, <2>4, <2>5
  <1>5. /\ calls' \in SUBSET Administration!Call /\ OneJob(calls')
        /\ SomeJob(calls') <=> SomeJob(calls)
    BY <1>1, <1>4, AdministrationState DEF OneJob, SomeJob
  <1>6. Administration!TypeOK'
    BY <1>2, <1>3, <1>5, AdministrationState
    DEF AdministrationInv, Administration!TypeOK, SomeJob
  <1>7. AdministrationLoads'
    BY <1>2, <1>5 DEF AdministrationInv, AdministrationLoads
  <1>8. AdministrationJob' /\ AdministrationHides' /\ Administration!NewestIsShown'
    BY <1>2 DEF AdministrationInv, AdministrationJob, AdministrationHides,
                Administration!NewestIsShown
  <1>9. AdministrationUsers'
    BY <1>2 DEF AdministrationInv, AdministrationUsers, UsersAreDue, Dark
  <1>10. AdministrationRoles'
    <2>1. /\ settled.acked["roles"] \in 0 .. MaxWrites + 1 /\ settled.acked["roles"] <= written
          /\ written \in 1 .. MaxWrites + 1
      BY AdministrationState
      DEF AdministrationHistory, Administration!Subject, AdministrationInv, AdministrationRoles
    <2>2. d.step = "lists" /\ d.status = "ok" => d.version >= settled.acked["roles"]
      BY <1>4, <2>1, WritesAreBounded
    <2> QED
      BY <1>1, <1>2, <2>2 DEF AdministrationInv, AdministrationRoles
  <1> QED
    BY <1>6, <1>7, <1>8, <1>9, <1>10 DEF AdministrationInv

(* A load is answered to the page: it brings rows, or it was replaced and   *)
(* the rows in hand are shown again, or it fails and the page is cleared.   *)
LEMMA AdministrationRowsAnswered ==
  ASSUME AdministrationInv, NEW l \in loads,
         l.status = "ok" \/ ~l.newest,
         list' = IF l.status = "ok"
                 THEN Administration!Shown(list, l, [query |-> l.query, version |-> l.version])
                 ELSE Administration!Dropped(list, l)
  PROVE  /\ list' \in Administration!List
         /\ l.newest => /\ list'.query = l.query /\ list'.rows.query = l.query
                        /\ list'.rows.version = l.version
         /\ ~l.newest => list' = list
PROOF
  <1> DEFINE rows     == [query |-> l.query, version |-> l.version]
             selected == list.selected /\ ~l.clears
  <1>1. l \in Administration!Load /\ list \in Administration!List
    BY AdministrationState
  <1>2. CASE l.newest
    <2>1. list' = [list EXCEPT !.query = l.query, !.rows = rows, !.loading = FALSE,
                               !.selected = selected]
      BY <1>2 DEF Administration!Shown
    <2>2. /\ selected \in BOOLEAN /\ rows \in Administration!Rows
          /\ rows.query = l.query /\ rows.version = l.version
      BY <1>1 DEF Administration!Rows, Administration!List
    <2> HIDE DEF rows, selected
    <2>3. list' \in Administration!List /\ list'.query = l.query /\ list'.rows = rows
      BY <1>1, <2>1, <2>2 DEF Administration!List
    <2> QED
      BY <1>2, <2>2, <2>3
  <1>3. CASE ~l.newest
    BY <1>1, <1>3 DEF Administration!Shown, Administration!Dropped
  <1> QED
    BY <1>2, <1>3

LEMMA AdministrationShownAgain ==
  ASSUME AdministrationInv, NEW l \in loads,
         l.status = "ok" \/ ~l.newest,
         list' = IF l.status = "ok"
                 THEN Administration!Shown(list, l, [query |-> l.query, version |-> l.version])
                 ELSE Administration!Dropped(list, l),
         shown' = TRUE, loads' = loads \ {l}, Administration!Ended(l.owner),
         settled' = [settled EXCEPT
                       !.fresh = IF l.newest THEN l.fresh ELSE @,
                       !.late = IF l.newest /\ l.fresh THEN FALSE ELSE @ \/ ~l.fresh],
         UNCHANGED <<calls, can, roles, deletion, granted, written, loadsLeft, failuresLeft>>
  PROVE  AdministrationInv'
PROOF
  <1> DEFINE fresh == IF l.newest THEN l.fresh ELSE settled.fresh
             late  == IF l.newest /\ l.fresh THEN FALSE ELSE settled.late \/ ~l.fresh
             ended == l.owner = "job"
  <1>1. /\ loads \in SUBSET Administration!Load /\ l \in Administration!Load
        /\ settled \in AdministrationHistory
        /\ OneNewest(loads) /\ OneJob(loads) /\ OneJob(calls)
        /\ ~(SomeJob(loads) /\ SomeJob(calls))
        /\ job.step = "refresh" <=> SomeJob(loads) \/ SomeJob(calls)
        /\ job \in Administration!Job /\ Administration!NoJob \in Administration!Job
    BY AdministrationState
  <1>2. /\ list' \in Administration!List
        /\ l.newest => /\ list'.query = l.query /\ list'.rows.query = l.query
                       /\ list'.rows.version = l.version
        /\ ~l.newest => list' = list
    BY AdministrationRowsAnswered
  <1>3. /\ job' = IF ended THEN Administration!NoJob ELSE job
        /\ pending' = IF ended THEN {} ELSE pending
    BY DEF Administration!Ended
  <1>4. /\ settled' \in AdministrationHistory /\ settled'.acked = settled.acked
        /\ settled'.fresh = fresh /\ settled'.late = late
        /\ settled'.old = settled.old /\ settled'.asked = settled.asked
    <2>1. fresh \in BOOLEAN /\ late \in BOOLEAN
      BY <1>1 DEF AdministrationHistory
    <2>2. settled' = [settled EXCEPT !.fresh = fresh, !.late = late]
      OBVIOUS
    <2> HIDE DEF fresh, late
    <2> QED
      BY <1>1, <2>1, <2>2 DEF AdministrationHistory
  <1>5. /\ loads' \in SUBSET loads /\ OneNewest(loads') /\ OneJob(loads')
        /\ SomeJob(loads') <=> SomeJob(loads) /\ ~ended
        /\ l.newest => \A r \in loads' : ~r.newest
        /\ ended => SomeJob(loads)
    BY <1>1 DEF OneNewest, OneJob, SomeJob
  <1>6. ended => pending = {"users"}
    BY <1>1, <1>5 DEF AdministrationInv, AdministrationJob
  <1>7. Administration!TypeOK'
    <2>1. job' \in Administration!Job
      BY <1>1, <1>3
    <2>2. job'.step = "refresh" <=> SomeJob(loads') \/ SomeJob(calls')
      BY <1>1, <1>3, <1>5 DEF Administration!NoJob
    <2>3. pending' \subseteq Administration!Subject
      BY <1>3 DEF AdministrationInv, Administration!TypeOK
    <2> QED
      BY <1>1, <1>2, <1>4, <1>5, <2>1, <2>2, <2>3
      DEF AdministrationInv, Administration!TypeOK, SomeJob, AdministrationHistory
  <1>8. AdministrationLoads'
    <2>1. \A r \in loads' : r.newest => list'.loading /\ settled'.asked \subseteq {r.query}
      BY <1>2, <1>4, <1>5 DEF AdministrationInv, AdministrationLoads
    <2> QED
      BY <1>1, <1>5, <2>1 DEF AdministrationLoads
  <1>9. AdministrationJob'
    <2>1. CASE ended
      BY <1>3, <1>5, <1>1, <2>1 DEF AdministrationJob, Administration!NoJob, SomeJob
    <2>2. CASE ~ended
      BY <1>3, <1>5, <2>2 DEF AdministrationInv, AdministrationJob
    <2> QED
      BY <2>1, <2>2
  <1>10. /\ l.fresh => settled.fresh \/ settled.late \/ \E m \in loads : m.newest /\ m.fresh
         /\ ~Administration!Access(can, "users") => ~l.fresh
    BY DEF AdministrationInv, AdministrationHides
  <1>11. AdministrationHides'
    <2>1. shown' /\ ~list'.loading => settled'.fresh \/ settled'.late
      <3>1. CASE l.newest
        BY <1>1, <1>4, <3>1
      <3>2. CASE ~l.newest
        <4>1. (\E m \in loads : m.newest) => list.loading
          BY DEF AdministrationInv, AdministrationLoads
        <4> QED
          BY <1>2, <1>4, <1>10, <3>2, <4>1
      <3> QED
        BY <3>1, <3>2
    <2>2. \A r \in loads' : r.fresh =>
            settled'.fresh \/ settled'.late \/ \E m \in loads' : m.newest /\ m.fresh
      <3>1. CASE l.newest
        BY <1>4, <3>1
      <3>2. CASE ~l.newest
        BY <1>4, <3>2 DEF AdministrationInv, AdministrationHides
      <3> QED
        BY <3>1, <3>2
    <2>3. ~Administration!Access(can, "users") => (\A r \in loads' : ~r.fresh) /\ settled'.late
      BY <1>4, <1>10 DEF AdministrationInv, AdministrationHides
    <2> QED
      BY <2>1, <2>2, <2>3 DEF AdministrationHides
  <1>12. AdministrationUsers'
    <2> SUFFICES ASSUME UsersAreDue'
                 PROVE  /\ \A r \in loads' : r.newest /\ r.fresh /\ r.status = "ok" =>
                             r.version >= settled'.acked["users"]
                        /\ \/ list'.rows.version >= settled'.acked["users"]
                           \/ settled'.late
                           \/ \E r \in loads' : r.newest
                           \/ Dark'
      BY DEF AdministrationUsers
    <2>1. UsersAreDue
      BY <1>3, <1>5 DEF UsersAreDue
    <2>2. /\ \A r \in loads : r.newest /\ r.fresh /\ r.status = "ok" =>
               r.version >= settled.acked["users"]
          /\ \/ list.rows.version >= settled.acked["users"]
             \/ settled.late
             \/ \E r \in loads : r.newest
             \/ Dark
      BY <2>1 DEF AdministrationInv, AdministrationUsers
    <2>3. CASE l.newest
      BY <1>2, <1>4, <1>5, <2>2, <2>3
    <2>4. CASE ~l.newest
      BY <1>2, <1>4, <1>5, <2>2, <2>4 DEF Dark
    <2> QED
      BY <2>3, <2>4
  <1>13. AdministrationRoles'
    <2>1. "roles" \notin pending' => "roles" \notin pending
      BY <1>3, <1>6
    <2> QED
      BY <1>4, <2>1 DEF AdministrationInv, AdministrationRoles
  <1>14. Administration!NewestIsShown'
    <2> SUFFICES ASSUME ~list'.loading, NEW query \in settled.asked
                 PROVE  list'.query = query /\ list'.rows.query = query
      BY <1>4 DEF Administration!NewestIsShown
    <2>1. CASE l.newest
      BY <1>2, <2>1 DEF AdministrationInv, AdministrationLoads
    <2>2. CASE ~l.newest
      BY <1>2, <2>2 DEF AdministrationInv, Administration!NewestIsShown
    <2> QED
      BY <2>1, <2>2
  <1> QED
    BY <1>7, <1>8, <1>9, <1>11, <1>12, <1>13, <1>14 DEF AdministrationInv

LEMMA AdministrationAnswerLoadInv ==
  ASSUME AdministrationInv, NEW l \in loads, Administration!AnswerLoad(l)
  PROVE  AdministrationInv'
PROOF
  <1>1. UNCHANGED <<granted, written, loadsLeft, failuresLeft>>
    BY DEF Administration!AnswerLoad, Administration!serverVars, Administration!boundVars
  <1>2. CASE l.status = "ok" \/ ~l.newest
    BY <1>1, <1>2, AdministrationShownAgain DEF Administration!AnswerLoad
  <1>3. CASE l.status # "ok" /\ l.newest
    <2>1. /\ list' = Administration!Dropped(list, l)
          /\ Administration!Clear(loads \ {l}, calls)
          /\ settled' = [settled EXCEPT !.fresh = FALSE, !.asked = {}]
          /\ job' = IF l.owner = "job" THEN Administration!NoJob ELSE job
          /\ pending' = pending
      BY <1>3 DEF Administration!AnswerLoad, Administration!Failed
    <2>2. /\ list' \in Administration!List
          /\ list'.query = list.query /\ list'.rows = list.rows
      BY <2>1, AdministrationState DEF Administration!Dropped, Administration!List
    <2>3. /\ \A m \in loads \ {l} : ~m.newest
          /\ SomeJob(loads \ {l}) <=> SomeJob(loads) /\ l.owner # "job"
          /\ l.owner = "job" => SomeJob(loads)
      BY <1>3, AdministrationState DEF OneNewest, OneJob, SomeJob
    <2>4. job'.step = "refresh" <=> SomeJob(loads \ {l}) \/ SomeJob(calls)
      BY <2>1, <2>3, AdministrationState DEF Administration!NoJob
    <2> QED
      BY <1>1, <2>1, <2>2, <2>3, <2>4, AdministrationClearing
  <1> QED
    BY <1>2, <1>3

LEMMA AdministrationFailCallInv ==
  ASSUME AdministrationInv, NEW c \in calls, Administration!FailCall(c)
  PROVE  AdministrationInv'
PROOF
  <1>1. /\ Administration!Clear(loads, calls \ {c})
        /\ settled' = [settled EXCEPT !.fresh = FALSE]
        /\ job' = IF c.owner = "job" THEN Administration!NoJob ELSE job
        /\ UNCHANGED <<list, pending, granted, written, loadsLeft, failuresLeft>>
    BY DEF Administration!FailCall, Administration!Failed, Administration!serverVars,
           Administration!boundVars
  <1>2. /\ SomeJob(calls \ {c}) <=> SomeJob(calls) /\ c.owner # "job"
        /\ c.owner = "job" => SomeJob(calls)
    BY AdministrationState DEF OneJob, SomeJob
  <1>3. job'.step = "refresh" <=> SomeJob(loads) \/ SomeJob(calls \ {c})
    BY <1>1, <1>2, AdministrationState DEF Administration!NoJob
  <1>4. settled' = [settled EXCEPT !.fresh = FALSE, !.asked = settled.asked]
    BY <1>1, AdministrationState DEF AdministrationHistory
  <1> QED
    BY <1>1, <1>3, <1>4, AdministrationState, AdministrationClearing

(* What follows a call: the users are asked for again, or what a command    *)
(* waited for is done.  Users that may not be seen as before are hidden, and *)
(* what was asked for about them is old news.                               *)
LEMMA AdministrationGoingOn ==
  ASSUME AdministrationInv, NEW c \in calls, NEW m \in Administration!Manifest,
         NEW same \in BOOLEAN, NEW old \in BOOLEAN,
         NEW ls, ls = IF same THEN loads ELSE Administration!Outdated(loads),
         CallsAged(calls \ {c}, calls'),
         can' = m, shown' = (shown /\ same),
         same /\ ~Administration!Access(m, "users") => ~Administration!Access(can, "users"),
         roles' \in Administration!Version,
         roles' = 0 \/ roles' >= settled.acked["roles"] \/ old,
         Administration!GoOn(c, m, ls, settled.fresh /\ same, old),
         UNCHANGED <<deletion, granted, written, loadsLeft, failuresLeft>>
  PROVE  AdministrationInv'
PROOF
  <1> DEFINE fresh == settled.fresh /\ same
             late  == settled.late \/ ~c.fresh
             ended == c.owner = "job"
  <1>1. /\ loads \in SUBSET Administration!Load /\ calls \in SUBSET Administration!Call
        /\ c \in Administration!Call /\ list \in Administration!List /\ shown \in BOOLEAN
        /\ settled \in AdministrationHistory
        /\ OneNewest(loads) /\ OneJob(loads) /\ OneJob(calls)
        /\ ~(SomeJob(loads) /\ SomeJob(calls))
        /\ job.step = "refresh" <=> SomeJob(loads) \/ SomeJob(calls)
        /\ job \in Administration!Job /\ Administration!NoJob \in Administration!Job
    BY AdministrationState
  <1>2. /\ calls' \in SUBSET Administration!Call /\ OneJob(calls')
        /\ SomeJob(calls') <=> SomeJob(calls) /\ ~ended
        /\ ended => SomeJob(calls)
        /\ \A d \in calls' : d.step = "lists" /\ d.status = "ok" /\ ~d.old =>
             d.version >= settled.acked["roles"]
    <2>1. \A d \in calls' : d.step = "lists" /\ d.status = "ok" /\ ~d.old =>
             d.version >= settled.acked["roles"]
      BY DEF CallsAged, AdministrationInv, AdministrationRoles
    <2> QED
      BY <1>1, <2>1 DEF CallsAged, OneJob, SomeJob
  <1>3. AdministrationAged(loads, ls) /\ (~same => \A l \in ls : ~l.fresh)
    <2>1. CASE same
      BY <1>1, <2>1 DEF AdministrationAged
    <2>2. CASE ~same
      BY <1>1, <2>2, AdministrationOutdated
    <2> QED
      BY <2>1, <2>2
  <1>4. /\ ls \in SUBSET Administration!Load /\ OneNewest(ls) /\ OneJob(ls)
        /\ SomeJob(ls) <=> SomeJob(loads)
        /\ \A l \in ls : l.newest => list.loading /\ settled.asked \subseteq {l.query}
    BY <1>1, <1>3 DEF AdministrationAged, AdministrationInv, AdministrationLoads
  <1>5. /\ same => ls = loads
        /\ ~Administration!Access(m, "users") =>
             (\A l \in ls : ~l.fresh) /\ (shown' => settled.late)
    BY <1>3 DEF AdministrationInv, AdministrationHides
  <1>6. fresh \in BOOLEAN /\ late \in BOOLEAN /\ (settled.late => late)
    BY <1>1 DEF AdministrationHistory
  <1>7. settled'.acked = settled.acked /\ settled'.old = old => AdministrationRoles'
    BY <1>2 DEF AdministrationInv, AdministrationRoles
  <1>8. CASE /\ Administration!Access(m, "users")
             /\ ended => job.of = "users"
             /\ Administration!Loading(Administration!Refreshed(list), FALSE, c.owner, ls)
             /\ settled' = [settled EXCEPT !.fresh = fresh, !.late = late, !.old = old,
                                           !.asked = {Administration!Refreshed(list)}]
             /\ UNCHANGED <<job, pending>>
    <2> DEFINE query == Administration!Refreshed(list)
    <2>1. query \in Administration!Query
      BY <1>1, AdministrationQueries
    <2> HIDE DEF query, fresh, late
    <2>2. /\ settled' \in AdministrationHistory /\ settled'.acked = settled.acked
          /\ settled'.old = old /\ settled'.asked = {query}
      BY <1>1, <1>6, <1>8, <2>1 DEF AdministrationHistory, query
    <2>3. /\ loads' \in SUBSET Administration!Load /\ OneNewest(loads') /\ OneJob(loads')
          /\ SomeJob(loads') <=> SomeJob(loads) \/ ended
          /\ \E n \in loads' : n.newest /\ n.fresh
          /\ \A l \in loads' : l.newest => l.query = query /\ l.status = "sent"
          /\ list' \in Administration!List /\ list'.loading
      <3>1. c.owner \in {"user", "job"} /\ (c.owner = "job" => ~SomeJob(ls))
        BY <1>1, <1>2, <1>4
      <3>2. Administration!Loading(query, FALSE, c.owner, ls)
        BY <1>8 DEF query
      <3>3. /\ loads' \in SUBSET Administration!Load /\ OneNewest(loads') /\ OneJob(loads')
            /\ SomeJob(loads') <=> SomeJob(ls) \/ c.owner = "job"
            /\ \E n \in loads' : n.newest /\ n.fresh
            /\ \A l \in loads' : l.newest => l.query = query /\ l.status = "sent"
            /\ list' \in Administration!List /\ list'.loading
        <4> DEFINE owner  == c.owner
                   clears == FALSE
        <4>1. /\ Administration!Loading(query, clears, owner, ls)
              /\ owner \in {"user", "job"} /\ (owner = "job" => ~SomeJob(ls))
              /\ clears \in BOOLEAN /\ list \in Administration!List
              /\ ls \in SUBSET Administration!Load /\ OneJob(ls)
          BY <1>1, <1>4, <3>1, <3>2
        <4> HIDE DEF owner, clears, ended
        <4>2. /\ loads' \in SUBSET Administration!Load /\ OneNewest(loads') /\ OneJob(loads')
              /\ SomeJob(loads') <=> SomeJob(ls) \/ owner = "job"
              /\ \E n \in loads' : n.newest /\ n.fresh
              /\ \A l \in loads' : l.newest => l.query = query /\ l.status = "sent"
              /\ list' \in Administration!List /\ list'.loading
          BY <2>1, <4>1, AdministrationLoading
        <4> QED
          BY <4>2 DEF owner
      <3> QED
        BY <1>4, <3>3
    <2>4. Administration!TypeOK'
      <3>1. job'.step = "refresh" <=> SomeJob(loads') \/ SomeJob(calls')
        <4>1. job'.step = job.step
          BY <1>8
        <4>2. /\ SomeJob(loads') <=> SomeJob(loads) \/ ended
              /\ SomeJob(calls') <=> SomeJob(calls) /\ ~ended
              /\ ended => SomeJob(calls)
          BY <1>2, <2>3
        <4> HIDE DEF ended
        <4> QED
          BY <1>1, <4>1, <4>2
      <3>2. shown' \in BOOLEAN
        BY <1>1
      <3> QED
        BY <1>2, <1>8, <2>2, <2>3, <3>1, <3>2
        DEF AdministrationInv, Administration!TypeOK, SomeJob, AdministrationHistory
    <2>5. AdministrationLoads'
      BY <1>1, <1>2, <2>2, <2>3 DEF AdministrationLoads
    <2>6. AdministrationJob'
      <3>1. SomeJob(loads') => job.of = "users"
        BY <1>8, <2>3 DEF AdministrationInv, AdministrationJob, SomeJob
      <3> QED
        BY <1>8, <3>1 DEF AdministrationInv, AdministrationJob, SomeJob
    <2>7. AdministrationHides'
      BY <1>8, <2>3 DEF AdministrationHides
    <2>8. AdministrationUsers'
      BY <2>3 DEF AdministrationUsers
    <2>9. AdministrationRoles'
      BY <1>7, <2>2
    <2>10. Administration!NewestIsShown'
      BY <2>3 DEF Administration!NewestIsShown
    <2> QED
      BY <2>4, <2>5, <2>6, <2>7, <2>8, <2>9, <2>10 DEF AdministrationInv
  <1>9. CASE /\ ended /\ Administration!Access(m, "users") => job.of = "roles"
             /\ loads' = ls
             /\ settled' = [settled EXCEPT !.fresh = fresh, !.late = late, !.old = old]
             /\ Administration!Ended(c.owner)
             /\ list' = list
    <2>1. /\ settled' \in AdministrationHistory /\ settled'.acked = settled.acked
          /\ settled'.fresh = fresh /\ settled'.late = late
          /\ settled'.old = old /\ settled'.asked = settled.asked
      <3> HIDE DEF fresh, late
      <3> QED
        BY <1>1, <1>6, <1>9 DEF AdministrationHistory
    <2>2. /\ job' = IF ended THEN Administration!NoJob ELSE job
          /\ pending' = IF ended THEN {} ELSE pending
      BY <1>9 DEF Administration!Ended
    <2>3. Administration!TypeOK'
      <3>1. job'.step = "refresh" <=> SomeJob(loads') \/ SomeJob(calls')
        BY <1>1, <1>2, <1>4, <1>9, <2>2 DEF Administration!NoJob
      <3>2. pending' \subseteq Administration!Subject /\ job' \in Administration!Job
        BY <1>1, <2>2 DEF AdministrationInv, Administration!TypeOK
      <3>3. shown' \in BOOLEAN
        BY <1>1
      <3> QED
        BY <1>1, <1>2, <1>4, <1>9, <2>1, <3>1, <3>2, <3>3
        DEF AdministrationInv, Administration!TypeOK, SomeJob, AdministrationHistory
    <2>4. AdministrationLoads'
      BY <1>1, <1>2, <1>4, <1>9, <2>1 DEF AdministrationLoads
    <2>5. AdministrationJob'
      <3>1. SomeJob(loads') => SomeJob(loads) /\ ~ended
        BY <1>1, <1>2, <1>4, <1>9
      <3>2. CASE ended
        BY <2>2, <3>1, <3>2 DEF AdministrationJob, Administration!NoJob, SomeJob
      <3>3. CASE ~ended
        BY <1>9, <2>2, <3>1, <3>3 DEF AdministrationInv, AdministrationJob, SomeJob
      <3> QED
        BY <3>2, <3>3
    <2>6. AdministrationHides'
      <3>1. CASE same
        BY <1>5, <1>6, <1>9, <2>1, <3>1 DEF AdministrationInv, AdministrationHides
      <3>2. CASE ~same
        BY <1>3, <1>9, <3>2 DEF AdministrationHides
      <3> QED
        BY <3>1, <3>2
    <2>7. AdministrationUsers'
      <3>1. CASE ~same
        BY <1>3, <1>9, <3>1 DEF AdministrationUsers, Dark
      <3>2. CASE same /\ ~Administration!Access(m, "users")
        BY <1>5, <1>6, <1>9, <2>1, <3>2 DEF AdministrationUsers, Dark
      <3>3. CASE same /\ Administration!Access(m, "users")
        <4>1. UsersAreDue' => UsersAreDue
          <5>1. CASE ended
            <6>1. pending = {"roles"}
              BY <1>1, <1>2, <1>9, <3>3, <5>1 DEF AdministrationInv, AdministrationJob
            <6> QED
              BY <6>1 DEF UsersAreDue
          <5>2. CASE ~ended
            BY <1>5, <1>9, <2>2, <3>3, <5>2 DEF UsersAreDue
          <5> QED
            BY <5>1, <5>2
        <4> QED
          BY <1>5, <1>6, <1>9, <2>1, <3>3, <4>1
          DEF AdministrationInv, AdministrationUsers, Dark
      <3> QED
        BY <3>1, <3>2, <3>3
    <2>8. AdministrationRoles'
      BY <1>7, <2>1
    <2>9. Administration!NewestIsShown'
      BY <1>9, <2>1 DEF AdministrationInv, Administration!NewestIsShown
    <2> QED
      BY <2>3, <2>4, <2>5, <2>6, <2>7, <2>8, <2>9 DEF AdministrationInv
  <1> QED
    BY <1>8, <1>9 DEF Administration!GoOn

LEMMA AdministrationAnswerListsInv ==
  ASSUME AdministrationInv, NEW c \in calls, Administration!AnswerLists(c)
  PROVE  AdministrationInv'
PROOF
  <1>1. /\ c.step = "lists" /\ c.status = "ok"
        /\ roles' = c.version /\ calls' = calls \ {c}
        /\ Administration!GoOn(c, can, loads, settled.fresh, c.old)
        /\ UNCHANGED <<shown, can, deletion, granted, written, loadsLeft, failuresLeft>>
    BY DEF Administration!AnswerLists, Administration!serverVars, Administration!boundVars
  <1>2. /\ calls \in SUBSET Administration!Call /\ c \in Administration!Call
        /\ can \in Administration!Manifest /\ settled.fresh \in BOOLEAN /\ shown \in BOOLEAN
    BY AdministrationState DEF AdministrationHistory
  <1>3. CallsAged(calls \ {c}, calls')
    BY <1>1, <1>2 DEF CallsAged
  <1>4. roles' = 0 \/ roles' >= settled.acked["roles"] \/ c.old
    BY <1>1 DEF AdministrationInv, AdministrationRoles
  <1>5. Administration!GoOn(c, can, loads, settled.fresh /\ TRUE, c.old)
    <2>1. (settled.fresh /\ TRUE) = settled.fresh
      BY <1>2
    <2> QED
      BY <1>1, <2>1
  <1>6. c.old \in BOOLEAN /\ roles' \in Administration!Version /\ shown' = (shown /\ TRUE)
    BY <1>1, <1>2
  <1> QED
    BY <1>1, <1>2, <1>3, <1>4, <1>5, <1>6, AdministrationGoingOn

LEMMA AdministrationAnswerManifestInv ==
  ASSUME AdministrationInv, NEW c \in calls, Administration!AnswerManifest(c)
  PROVE  AdministrationInv'
PROOF
  <1> DEFINE m     == c.manifest
             same  == /\ Administration!Access(m, "users")
                      /\ Administration!Access(c.was, "users") /\ c.was.all = m.all
             ls    == IF same THEN loads ELSE Administration!Outdated(loads)
             cs    == IF same THEN calls \ {c} ELSE Administration!Outdated(calls \ {c})
             fresh == settled.fresh /\ same
  <1>1. /\ can' = m /\ shown' = (shown /\ same)
        /\ UNCHANGED <<deletion, granted, written, loadsLeft, failuresLeft>>
    BY DEF Administration!AnswerManifest, Administration!serverVars, Administration!boundVars
  <1>2. /\ loads \in SUBSET Administration!Load /\ calls \in SUBSET Administration!Call
        /\ c \in Administration!Call /\ m \in Administration!Manifest
        /\ settled \in AdministrationHistory /\ shown \in BOOLEAN
        /\ OneJob(calls) /\ same \in BOOLEAN
    BY AdministrationState
  <1>3. CallsAged(calls \ {c}, cs)
    <2>1. calls \ {c} \in SUBSET Administration!Call
      BY <1>2
    <2>2. CASE same
      BY <2>1, <2>2 DEF CallsAged
    <2>3. CASE ~same
      BY <2>1, <2>3, CallsOutdated
    <2> QED
      BY <2>2, <2>3
  <1>4. same => Administration!Access(m, "users")
    OBVIOUS
  <1>5. CASE Administration!Access(m, "manage")
    <2> DEFINE d    == [c EXCEPT !.step = "lists", !.status = "sent"]
               late == settled.late \/ ~c.fresh
    <2>1. /\ calls' = cs \cup {d} /\ loads' = ls
          /\ settled' = [settled EXCEPT !.fresh = fresh, !.late = late]
          /\ UNCHANGED <<list, roles, job, pending>>
      BY <1>5 DEF Administration!AnswerManifest
    <2>2. d \in Administration!Call /\ d.owner = c.owner /\ d.status = "sent"
      BY <1>2
    <2>3. fresh \in BOOLEAN /\ late \in BOOLEAN
      BY <1>2 DEF AdministrationHistory
    <2> HIDE DEF m, same, fresh, late, d, ls, cs
    <2>4. /\ settled' \in AdministrationHistory /\ settled'.acked = settled.acked
          /\ settled'.fresh = fresh /\ settled'.late = late
          /\ settled'.old = settled.old /\ settled'.asked = settled.asked
      BY <1>2, <2>1, <2>3 DEF AdministrationHistory
    <2>5. /\ calls' \in SUBSET Administration!Call /\ OneJob(calls')
          /\ SomeJob(calls') <=> SomeJob(calls)
      BY <1>2, <1>3, <2>1, <2>2 DEF CallsAged, OneJob, SomeJob
    <2>6. AdministrationAged(loads, loads') /\ (~same => \A l \in loads' : ~l.fresh)
      <3>1. CASE same
        BY <1>2, <2>1, <3>1 DEF AdministrationAged, ls
      <3>2. CASE ~same
        BY <1>2, <2>1, <3>2, AdministrationOutdated DEF ls
      <3> QED
        BY <3>1, <3>2
    <2>7. Administration!TypeOK'
      <3>1. loads' \in SUBSET Administration!Load /\ (SomeJob(loads') <=> SomeJob(loads))
        BY <2>6 DEF AdministrationAged
      <3>2. shown' \in BOOLEAN
        BY <1>1, <1>2
      <3> QED
        BY <1>1, <1>2, <2>1, <2>4, <2>5, <3>1, <3>2
        DEF AdministrationInv, Administration!TypeOK, SomeJob, AdministrationHistory
    <2>8. AdministrationLoads'
      BY <2>1, <2>4, <2>5, <2>6 DEF AdministrationInv, AdministrationLoads, AdministrationAged
    <2>9. AdministrationJob'
      <3>1. SomeJob(loads') => SomeJob(loads)
        BY <2>6 DEF AdministrationAged
      <3> QED
        BY <1>1, <2>1, <3>1 DEF AdministrationInv, AdministrationJob, SomeJob
    <2>10. AdministrationHides' /\ AdministrationUsers'
      <3>1. CASE same
        <4>1. /\ loads' = loads /\ shown' = shown
              /\ Administration!Access(can', "users")
              /\ settled'.fresh = settled.fresh /\ (settled.late => settled'.late)
          BY <1>1, <1>2, <1>4, <2>1, <2>4, <3>1 DEF ls, fresh, late, AdministrationHistory
        <4>2. AdministrationHides'
          BY <2>1, <4>1 DEF AdministrationInv, AdministrationHides
        <4>3. AdministrationUsers'
          BY <2>1, <2>4, <4>1 DEF AdministrationInv, AdministrationUsers, UsersAreDue, Dark
        <4> QED
          BY <4>2, <4>3
      <3>2. CASE ~same
        <4>1. ~shown' /\ \A l \in loads' : ~l.fresh
          BY <1>1, <1>2, <2>6, <3>2
        <4> QED
          BY <4>1 DEF AdministrationHides, AdministrationUsers, Dark
      <3> QED
        BY <3>1, <3>2
    <2>11. AdministrationRoles'
      BY <1>1, <1>3, <2>1, <2>2, <2>4 DEF AdministrationInv, AdministrationRoles, CallsAged
    <2>12. Administration!NewestIsShown'
      BY <2>1, <2>4 DEF AdministrationInv, Administration!NewestIsShown
    <2> QED
      BY <2>7, <2>8, <2>9, <2>10, <2>11, <2>12 DEF AdministrationInv
  <1>6. CASE ~Administration!Access(m, "manage")
    <2>1. /\ calls' = cs /\ roles' = 0
          /\ Administration!GoOn(c, m, ls, settled.fresh /\ same, settled.old)
      BY <1>6 DEF Administration!AnswerManifest
    <2>2. settled.old \in BOOLEAN /\ roles' \in Administration!Version
      BY <1>2, <2>1, WritesAreBounded DEF AdministrationHistory
    <2>3. CallsAged(calls \ {c}, calls')
      BY <1>3, <2>1
    <2> HIDE DEF m, same, cs
    <2> QED
      BY <1>1, <1>2, <1>4, <2>1, <2>2, <2>3, AdministrationGoingOn
  <1> QED
    BY <1>5, <1>6

LEMMA AdministrationInitInv == Administration!Init => AdministrationInv
PROOF
  <1> SUFFICES ASSUME Administration!Init PROVE AdministrationInv
    OBVIOUS
  <1>1. Administration!EmptyList \in Administration!List
    BY QueriesAreNamed, WritesAreBounded
    DEF Administration!EmptyList, Administration!List, Administration!Rows, Administration!NoRows,
        Administration!FirstQuery, Administration!Query
  <1>2. /\ Administration!NoJob \in Administration!Job
        /\ Administration!NoManifest \in Administration!Manifest
    BY WritesAreBounded
    DEF Administration!NoJob, Administration!Job, Administration!Subject,
        Administration!NoManifest, Administration!Manifest
  <1>3. /\ settled \in AdministrationHistory
        /\ settled.fresh /\ settled.asked = {}
        /\ \A of \in Administration!Subject : settled.acked[of] = 0
    BY WritesAreBounded DEF Administration!Init, AdministrationHistory, Administration!Subject
  <1>4. Administration!TypeOK
    <2>0. /\ list = Administration!EmptyList /\ can = Administration!NoManifest
          /\ job = Administration!NoJob /\ loads = {} /\ calls = {} /\ shown = FALSE
          /\ deletion = "none"
      BY DEF Administration!Init
    <2>1. /\ list \in Administration!List /\ shown \in BOOLEAN
          /\ can \in Administration!Manifest /\ job \in Administration!Job
      BY <1>1, <1>2, <2>0
    <2>4. job.step # "refresh" /\ pending = {}
      BY DEF Administration!Init, Administration!NoJob
    <2>2. granted \in Administration!Manifest
      <3>1. PICK all \in BOOLEAN : granted = [codes |-> Administration!Right, all |-> all]
        BY DEF Administration!Init
      <3> QED
        BY <3>1 DEF Administration!Manifest
    <2>3. /\ written \in 1 .. MaxWrites + 1 /\ roles \in Administration!Version
          /\ loadsLeft \in 0 .. MaxLoads /\ failuresLeft \in 0 .. MaxFailures
      BY WritesAreBounded, BoundsArePositive DEF Administration!Init
    <2> QED
      BY <1>3, <2>0, <2>1, <2>2, <2>3, <2>4 DEF Administration!TypeOK, AdministrationHistory
  <1>5. AdministrationLoads /\ AdministrationHides /\ AdministrationRoles
    BY <1>3 DEF Administration!Init, AdministrationLoads, AdministrationHides,
                AdministrationRoles, OneNewest, OneJob, SomeJob
  <1>6. AdministrationJob
    BY DEF Administration!Init, AdministrationJob, Administration!NoJob
  <1>7. AdministrationUsers /\ Administration!NewestIsShown
    BY <1>3 DEF Administration!Init, AdministrationUsers, Dark, Administration!NewestIsShown
  <1> QED
    BY <1>4, <1>5, <1>6, <1>7 DEF AdministrationInv

LEMMA AdministrationNextInv == ASSUME AdministrationInv, Administration!Next PROVE AdministrationInv'
  BY AdministrationAskSomethingInv, AdministrationOpenViewInv, AdministrationServeLoadInv,
     AdministrationAnswerLoadInv, AdministrationServeCallInv, AdministrationAnswerManifestInv,
     AdministrationAnswerListsInv, AdministrationFailCallInv, AdministrationStartInv,
     AdministrationDeclineInv, AdministrationServeJobInv, AdministrationFailJobInv,
     AdministrationLookUpInv, AdministrationCloseDeletionInv, AdministrationFinishJobInv,
     AdministrationRepairInv, AdministrationWithdrawInv
  DEF Administration!Next

HIDE DEF Administration!Load, Administration!Call, Administration!Status, Administration!Version

-----------------------------------------------------------------------------
(* A behaviour is of one page from its first state on. *)

LEMMA NothingHappensInv == ASSUME PagesInv, UNCHANGED vars PROVE PagesInv'
  <1>1. /\ page' = page /\ list' = list /\ lists' = lists /\ calls' = calls /\ roles' = roles
        /\ deletion' = deletion /\ loads' = loads /\ shown' = shown /\ job' = job
        /\ pending' = pending /\ can' = can /\ granted' = granted /\ written' = written
        /\ loadsLeft' = loadsLeft /\ failuresLeft' = failuresLeft /\ settled' = settled
    BY DEF vars
  <1>2. FilesInv => FilesInv'
    BY <1>1
    DEF FilesInv, FilesLoads, FilesNewest, FilesJob, FilesWrites, Files!TypeOK,
        Files!FailsClosed, Files!NewestIsShown, OneNewest, OneJob
  <1>3. SchedulerInv => SchedulerInv'
    BY <1>1
    DEF SchedulerInv, SchedulerLoads, SchedulerJob, Scheduler!TypeOK,
        Scheduler!FailsClosed, Scheduler!NewestIsShown, OneNewestOfEach, OneJob
  <1>4. AdministrationInv => AdministrationInv'
    BY <1>1
    DEF AdministrationInv, AdministrationLoads, AdministrationJob, AdministrationHides,
        AdministrationUsers, AdministrationRoles, UsersAreDue, Dark,
        Administration!TypeOK, Administration!NewestIsShown, OneNewest, OneJob, SomeJob
  <1> QED
    BY <1>1, <1>2, <1>3, <1>4 DEF PagesInv

LEMMA PagesInvStart == Init => PagesInv
  BY FilesInitInv, SchedulerInitInv, AdministrationInitInv DEF Init, PagesInv

LEMMA PagesInvStep == PagesInv /\ [Next]_vars => PagesInv'
  <1> SUFFICES ASSUME PagesInv, [Next]_vars PROVE PagesInv'
    OBVIOUS
  <1>1. CASE page = "files" /\ Files!Next /\ UNCHANGED <<page, lists, callVars>>
    BY <1>1, FilesNextInv DEF PagesInv
  <1>2. CASE page = "scheduler" /\ Scheduler!Next /\ UNCHANGED <<page, list, callVars>>
    BY <1>2, SchedulerNextInv DEF PagesInv
  <1>3. CASE page = "administration" /\ Administration!Next /\ UNCHANGED <<page, lists>>
    BY <1>3, AdministrationNextInv DEF PagesInv
  <1>4. CASE UNCHANGED vars
    BY <1>4, NothingHappensInv
  <1> QED
    BY <1>1, <1>2, <1>3, <1>4 DEF Next

(* The invariant of whichever page it is holds in every state of it: no     *)
(* order of answers, failures, repairs and commands leads out of it.        *)
THEOREM PagesInvariant == Spec => []PagesInv
  BY PagesInvStart, PagesInvStep, PTL DEF Spec

(* Every page keeps in its variables what it should, and a refresh after a  *)
(* write (files/controller.ts refresh, scheduler/controller.ts refresh) is  *)
(* under way exactly while one load answers to it.                          *)
THEOREM PagesTypeCorrect == Spec => []PagesTypeOK
  <1>1. PagesInv => PagesTypeOK
    BY DEF PagesInv, FilesInv, SchedulerInv, AdministrationInv, PagesTypeOK
  <1> QED
    BY <1>1, PagesInvariant, PTL

(* After an operation failed because the session, the right or the service  *)
(* is gone (failOperation of the controllers), no older answer brings rows  *)
(* back, for any number of loads under way.                                 *)
THEOREM PagesFailClosed == Spec => []FailsClosed
  <1>1. PagesInv => FailsClosed
    BY DEF PagesInv, FilesInv, SchedulerInv, AdministrationInv, AdministrationHides,
           Administration!FailsClosed, Administration!Visible, FailsClosed
  <1> QED
    BY <1>1, PagesInvariant, PTL

(* A list at rest shows the filter, the page and the rows of what was asked *)
(* for last, whatever order the answers came in (the sequence of            *)
(* list-controller.ts).                                                     *)
THEOREM TheNewestIsShown == Spec => []NewestIsShown
  <1>1. PagesInv => NewestIsShown
    BY DEF PagesInv, FilesInv, SchedulerInv, AdministrationInv, NewestIsShown
  <1> QED
    BY <1>1, PagesInvariant, PTL

(* A write the user was told of is in the rows on the page, or a repair is  *)
(* asked for; on the administration pages, unless an answer came too late.  *)
THEOREM TheWriteIsShown == Spec => []WriteIsShown
  <1>1. FilesInv => Files!WriteIsShown
    BY DEF FilesInv, FilesWrites, Files!WriteIsShown, Files!Busy
  <1>2. ASSUME AdministrationInv PROVE Administration!WriteIsShown
    <2> SUFFICES ASSUME ~Administration!Blocked
                 PROVE  /\ Administration!Visible =>
                             \/ list.rows.version >= settled.acked["users"]
                             \/ settled.late
                        /\ roles # 0 => roles >= settled.acked["roles"] \/ settled.old
      BY DEF Administration!WriteIsShown
    <2>1. loads = {} /\ pending = {}
      BY DEF Administration!Blocked
    <2>2. roles # 0 => roles >= settled.acked["roles"] \/ settled.old
      BY <1>2, <2>1 DEF AdministrationInv, AdministrationRoles
    <2>3. \/ list.rows.version >= settled.acked["users"]
          \/ settled.late
          \/ ~shown
      BY <1>2, <2>1 DEF AdministrationInv, AdministrationUsers, UsersAreDue, Dark
    <2> QED
      BY <2>2, <2>3 DEF Administration!Visible
  <1>3. PagesInv => WriteIsShown
    BY <1>1, <1>2 DEF PagesInv, WriteIsShown
  <1> QED
    BY <1>3, PagesInvariant, PTL
=============================================================================
