------------------------------- MODULE Files -------------------------------
(***************************************************************************)
(* The files module (modules/files): uploads, deletions and the recovery   *)
(* passes of all worker processes over two stores that share no            *)
(* transaction, the database (rows, reservations, capacity counters) and   *)
(* the object store (staged and published content, storage.go).            *)
(*                                                                         *)
(* An upload reserves capacity, stages its content, exchanges the          *)
(* reservation for a pending row, publishes the content (a link, then the  *)
(* removal of the stage) and marks the row ready.  A deletion marks the    *)
(* row, removes the object, then the row.  Whatever stops half way is      *)
(* finished or undone by a recovery pass, which claims the rows it repairs *)
(* for RecoveryLease and looks at the object store row by row.             *)
(*                                                                         *)
(* A claim token is the reservation's id or fresh for a pass.  Only        *)
(* equality of tokens matters, and a recoverer works at one pass at a time *)
(* on rows which that pass claimed, so a token is named by who holds it.   *)
(***************************************************************************)
EXTENDS Naturals, FiniteSets, FiniteSetsExt

CONSTANTS
  File,               \* uploads, numbered in the order of their ids
  Account,
  Uploader,           \* Uploader[f]: the account that uploads f
  Reserve,            \* Reserve[f]: the bytes it declares, or the maximum
  Size,               \* Size[f]: the bytes it turns out to have
  AccountLimit,       \* bytes and objects an account may use,
  TotalLimit,         \* and all accounts together
  Recoverer,          \* recovery loops, one per worker process
  Uploading, Nobody,  \* holders of a claim besides the recoverers
  UploadTimeout,      \* ten minutes
  ReservationTTL,     \* fifteen minutes
  RecoveryLease,      \* thirty seconds
  BatchSize,          \* ReconcileBatchSize
  MaxTime,            \* bound on the modelled time
  MaxFaults           \* bound on recoverers that die or fail

Usage == [bytes : Nat, objects : Nat]

ASSUME FilesAssumption ==
  /\ File \subseteq Nat
  /\ "global" \notin Account
  /\ Uploader \in [File -> Account]
  /\ Reserve \in [File -> Nat \ {0}]
  /\ Size \in [File -> Nat]
  /\ \A f \in File : Size[f] <= Reserve[f]
  /\ AccountLimit \in Usage
  /\ TotalLimit \in Usage
  /\ Uploading \notin Recoverer
  /\ Nobody \notin Recoverer
  /\ Nobody # Uploading
  /\ UploadTimeout \in Nat \ {0}
  /\ ReservationTTL \in Nat
  /\ UploadTimeout <= ReservationTTL
  /\ RecoveryLease \in Nat
  /\ BatchSize \in Nat \ {0}
  /\ MaxTime \in Nat
  /\ MaxFaults \in Nat

VARIABLES
  now,        \* the clock
  active,     \* accounts that are not disabled
  rows,       \* files_objects
  reserved,   \* reserved[f]: when the reservation of f expires, 0 without one
  used,       \* files_capacity_counters
  staged,     \* files whose stage exists in the object store
  object,     \* files whose published object exists
  upload,     \* upload[f]: what the upload of f does next
  deadline,   \* deadline[f]: when its context expires
  deletion,   \* deletion[f]: what the deletion of f does next
  at,         \* at[r]: what recoverer r does next
  since,      \* since[r]: the clock reading its pass began with
  expired,    \* expired[r]: expired reservations whose stages it has to remove
  batch,      \* batch[r]: the claimed records it has still to repair
  saw,        \* saw[r]: what it has seen of the first of them
  contested,  \* files claimed while somebody else was still at work on them
  faults

storeVars == <<staged, object>>
tableVars == <<rows, reserved, used>>
uploadVars == <<upload, deadline>>
passVars == <<at, since, expired, batch, saw>>
vars == <<now, active, tableVars, storeVars, uploadVars, deletion, passVars, contested, faults>>

Time == 0..MaxTime
Scope == Account \cup {"global"}

Row == [state : {"none", "pending", "ready", "deleting"}, owner : Account,
        claimedBy : Recoverer \cup {Uploading, Nobody}, until : Nat, updated : Time]

\* A record of a claimed batch, as the claim's transaction read it.
Record == [file : File, state : {"pending", "deleting"}, updated : Time]

UploadStage ==
  {"new", "reserved", "staged", "committed", "linked", "published",
   "aborting", "releasing", "yielding", "failed", "done"}

DeletionStage == {"none", "object", "row", "over"}

PassStage == {"idle", "stages", "repair", "looked", "publish", "unlink", "abort", "finish"}

Seen == [object : BOOLEAN, stage : BOOLEAN]
NothingSeen == [object |-> FALSE, stage |-> FALSE]
NoUsage == [bytes |-> 0, objects |-> 0]

NoRow(f) == [state |-> "none", owner |-> Uploader[f], claimedBy |-> Nobody, until |-> 0, updated |-> 0]

FilesInit ==
  /\ now = 0
  /\ active = Account
  /\ rows = [f \in File |-> NoRow(f)]
  /\ reserved = [f \in File |-> 0]
  /\ used = [s \in Scope |-> NoUsage]
  /\ staged = {}
  /\ object = {}
  /\ upload = [f \in File |-> "new"]
  /\ deadline = [f \in File |-> 0]
  /\ deletion = [f \in File |-> "none"]
  /\ at = [r \in Recoverer |-> "idle"]
  /\ since = [r \in Recoverer |-> 0]
  /\ expired = [r \in Recoverer |-> {}]
  /\ batch = [r \in Recoverer |-> {}]
  /\ saw = [r \in Recoverer |-> NothingSeen]
  /\ contested = {}
  /\ faults = 0

Tick ==
  /\ now < MaxTime
  /\ now' = now + 1
  /\ UNCHANGED <<active, tableVars, storeVars, uploadVars, deletion, passVars, contested, faults>>

\* IAM disables or enables an account; RequireInTx locks it against that.
SetActive(a) ==
  /\ active' = IF a \in active THEN active \ {a} ELSE active \cup {a}
  /\ UNCHANGED <<now, tableVars, storeVars, uploadVars, deletion, passVars, contested, faults>>

-----------------------------------------------------------------------------
(* Capacity: every change goes to the global counter and to the account's.   *)

Within(u, b, limit) == u.bytes + b <= limit.bytes /\ u.objects + 1 <= limit.objects

Room(f) ==
  /\ Within(used["global"], Reserve[f], TotalLimit)
  /\ Within(used[Uploader[f]], Reserve[f], AccountLimit)

Charge(a, b) ==
  used' = [s \in Scope |->
             IF s \in {"global", a}
               THEN [bytes |-> used[s].bytes + b, objects |-> used[s].objects + 1]
               ELSE used[s]]

Covers(u, v) == u.bytes >= v.bytes /\ u.objects >= v.objects
Less(u, v) == [bytes |-> u.bytes - v.bytes, objects |-> u.objects - v.objects]

\* Mutation: only the global counter is reduced.
RefundTotal(a, b, n) ==
  used' = [used EXCEPT !["global"] = Less(@, [bytes |-> b, objects |-> n])]

\* decrementCapacity fails, and with it the transaction, when a counter is too low.
Refundable(a, b, n) == \A s \in {"global", a} : Covers(used[s], [bytes |-> b, objects |-> n])

Refund(a, b, n) ==
  used' = [s \in Scope |->
             IF s \in {"global", a} THEN Less(used[s], [bytes |-> b, objects |-> n]) ELSE used[s]]

-----------------------------------------------------------------------------
(* Upload.  Statements run under a context that expires at the deadline.      *)

InTime(f) == now < deadline[f]

\* The clean-up of a failed request has five seconds of its own.
InCleanup(f) == now <= deadline[f]

Goes(f, stage) == upload' = [upload EXCEPT ![f] = stage]

\* The transaction before this one only asks whether the account may write, which
\* the commit asks again.
ReserveCapacity(f) ==
  /\ upload[f] = "new"
  /\ Uploader[f] \in active
  /\ Room(f)
  /\ Charge(Uploader[f], Reserve[f])
  /\ deadline' = [deadline EXCEPT ![f] = now + UploadTimeout]
  /\ reserved' = [reserved EXCEPT ![f] = now + ReservationTTL]
  /\ Goes(f, "reserved")
  /\ UNCHANGED <<now, active, rows, storeVars, deletion, passVars, contested, faults>>

StageContent(f) ==
  /\ upload[f] = "reserved"
  /\ InTime(f)
  /\ staged' = staged \cup {f}
  /\ Goes(f, "staged")
  /\ UNCHANGED <<now, active, tableVars, object, deadline, deletion, passVars, contested, faults>>

\* Mutation: the claim is written with the id of the file, not of the reservation.
CommitUnderFileId(f) ==
  /\ upload[f] = "staged"
  /\ rows' = [rows EXCEPT ![f] = [state |-> "pending", owner |-> Uploader[f], claimedBy |-> f,
                                  until |-> reserved[f], updated |-> reserved[f] - ReservationTTL]]
  /\ reserved' = [reserved EXCEPT ![f] = 0]
  /\ Goes(f, "committed")
  /\ UNCHANGED <<now, active, used, storeVars, deadline, deletion, passVars, contested, faults>>

\* The reservation becomes a pending row that the upload holds a claim on.
CommitUpload(f) ==
  /\ upload[f] = "staged"
  /\ InTime(f)
  /\ Uploader[f] \in active
  /\ reserved[f] # 0
  /\ Refundable(Uploader[f], Reserve[f] - Size[f], 0)
  /\ Refund(Uploader[f], Reserve[f] - Size[f], 0)
  /\ rows' = [rows EXCEPT ![f] = [state |-> "pending", owner |-> Uploader[f], claimedBy |-> Uploading,
                                  until |-> reserved[f], updated |-> reserved[f] - ReservationTTL]]
  /\ reserved' = [reserved EXCEPT ![f] = 0]
  /\ Goes(f, "committed")
  /\ UNCHANGED <<now, active, storeVars, deadline, deletion, passVars, contested, faults>>

\* Publish links the object, never replacing one, and then removes the stage.  It
\* looks at its context once, before the link, and takes as long as the disk does.
Linkable(f) == f \in staged /\ f \notin object

LinkObject(f) ==
  /\ upload[f] = "committed"
  /\ Linkable(f)
  /\ object' = object \cup {f}
  /\ Goes(f, "linked")
  /\ UNCHANGED <<now, active, tableVars, staged, deadline, deletion, passVars, contested, faults>>

UnlinkStage(f) ==
  /\ upload[f] = "linked"
  /\ f \in staged
  /\ staged' = staged \ {f}
  /\ Goes(f, "published")
  /\ UNCHANGED <<now, active, tableVars, object, deadline, deletion, passVars, contested, faults>>

\* Mutation: the row becomes ready before its content is published.
MarkReadyFirst(f) ==
  /\ upload[f] = "committed"
  /\ rows[f].state = "pending"
  /\ rows' = [rows EXCEPT ![f] = [@ EXCEPT !.state = "ready", !.claimedBy = Nobody, !.until = 0, !.updated = now]]
  /\ Goes(f, "done")
  /\ UNCHANGED <<now, active, reserved, used, storeVars, deadline, deletion, passVars, contested, faults>>

\* markReady looks at the state of the row, not at the claim.
MarkReady(f) ==
  /\ upload[f] = "published"
  /\ InTime(f)
  /\ rows[f].state = "pending"
  /\ rows' = [rows EXCEPT ![f] = [@ EXCEPT !.state = "ready", !.claimedBy = Nobody, !.until = 0, !.updated = now]]
  /\ Goes(f, "done")
  /\ UNCHANGED <<now, active, reserved, used, storeVars, deadline, deletion, passVars, contested, faults>>

\* The upload may fail at any step: the client goes away, the context expires, the
\* quota is used up, the content is refused, the account is disabled, the row is not
\* pending any more.  What it does then depends on how far it came, or, when the
\* answer of a commit is lost, on how far it believes it came.
UploadFails(f) ==
  /\ \/ upload[f] = "reserved" /\ Goes(f, "releasing")
     \/ upload[f] = "staged" /\ Goes(f, "aborting")
     \/ upload[f] = "committed" /\ Goes(f, "aborting")
     \/ upload[f] = "committed" /\ Goes(f, "yielding")
     \/ upload[f] = "linked" /\ Goes(f, "yielding")
     \/ upload[f] = "published" /\ Goes(f, "failed")
     \/ upload[f] = "published" /\ Goes(f, "yielding")
  /\ UNCHANGED <<now, active, tableVars, storeVars, deadline, deletion, passVars, contested, faults>>

\* The directory cannot be synced after the link: Publish takes the object back.
SyncFails(f) ==
  /\ upload[f] = "linked"
  /\ object' = object \ {f}
  /\ Goes(f, "yielding")
  /\ UNCHANGED <<now, active, tableVars, staged, deadline, deletion, passVars, contested, faults>>

\* The deferred clean-up of an upload that has not committed its row.
AbortUpload(f) ==
  /\ upload[f] = "aborting"
  /\ InCleanup(f)
  /\ staged' = staged \ {f}
  /\ Goes(f, "releasing")
  /\ UNCHANGED <<now, active, tableVars, object, deadline, deletion, passVars, contested, faults>>

ReleaseReservation(f) ==
  /\ upload[f] = "releasing"
  /\ InCleanup(f)
  /\ IF reserved[f] = 0 THEN UNCHANGED <<used, reserved>>
     ELSE /\ Refundable(Uploader[f], Reserve[f], 1)
          /\ Refund(Uploader[f], Reserve[f], 1)
          /\ reserved' = [reserved EXCEPT ![f] = 0]
  /\ Goes(f, "failed")
  /\ UNCHANGED <<now, active, rows, storeVars, deadline, deletion, passVars, contested, faults>>

\* An upload that could not publish gives its claim back at once.
YieldClaim(f) ==
  /\ upload[f] = "yielding"
  /\ InCleanup(f)
  /\ rows' = IF rows[f].state = "pending" /\ rows[f].claimedBy = Uploading
               THEN [rows EXCEPT ![f] = [@ EXCEPT !.claimedBy = Nobody, !.until = 0]] ELSE rows
  /\ Goes(f, "failed")
  /\ UNCHANGED <<now, active, reserved, used, storeVars, deadline, deletion, passVars, contested, faults>>

\* The process dies, or the clean-up fails: nothing is undone.
UploadDies(f) ==
  /\ upload[f] \notin {"new", "failed", "done"}
  /\ Goes(f, "failed")
  /\ UNCHANGED <<now, active, tableVars, storeVars, deadline, deletion, passVars, contested, faults>>

-----------------------------------------------------------------------------
(* Deletion.  Targets of one request are marked together and then deleted     *)
(* one after the other, each as if it were alone.                             *)

MarkDeleting(f) ==
  /\ deletion[f] = "none"
  /\ rows[f].state = "ready"
  /\ rows' = [rows EXCEPT ![f] = [@ EXCEPT !.state = "deleting", !.updated = now]]
  /\ deletion' = [deletion EXCEPT ![f] = "object"]
  /\ UNCHANGED <<now, active, reserved, used, storeVars, uploadVars, passVars, contested, faults>>

DeleteObject(f) ==
  /\ deletion[f] = "object"
  /\ object' = object \ {f}
  /\ deletion' = [deletion EXCEPT ![f] = "row"]
  /\ UNCHANGED <<now, active, tableVars, staged, uploadVars, passVars, contested, faults>>

\* The row leaves the table and its bytes leave the counters.
RemoveRow(f) ==
  /\ Refundable(rows[f].owner, Size[f], 1)
  /\ Refund(rows[f].owner, Size[f], 1)
  /\ rows' = [rows EXCEPT ![f] = NoRow(f)]

\* Mutation: the row is removed before the object is.
RemoveDeletingFirst(f) ==
  /\ deletion[f] = "object"
  /\ rows[f].state = "deleting"
  /\ RemoveRow(f)
  /\ deletion' = [deletion EXCEPT ![f] = "over"]
  /\ UNCHANGED <<now, active, reserved, storeVars, uploadVars, passVars, contested, faults>>

RemoveDeleting(f) ==
  /\ deletion[f] = "row"
  /\ rows[f].state = "deleting"
  /\ RemoveRow(f)
  /\ deletion' = [deletion EXCEPT ![f] = "over"]
  /\ UNCHANGED <<now, active, reserved, storeVars, uploadVars, passVars, contested, faults>>

\* The request fails or its process dies, or recovery was faster.
DeletionEnds(f) ==
  /\ deletion[f] \in {"object", "row"}
  /\ deletion' = [deletion EXCEPT ![f] = "over"]
  /\ UNCHANGED <<now, active, tableVars, storeVars, uploadVars, passVars, contested, faults>>

-----------------------------------------------------------------------------
(* A recovery pass.                                                           *)

\* ORDER BY first, id LIMIT BatchSize
Oldest(S, first) ==
  {f \in S : Cardinality({g \in S : first[g] < first[f] \/ (first[g] = first[f] /\ g < f)}) < BatchSize}

ExpiredReservations(t) == Oldest({f \in File : reserved[f] # 0 /\ reserved[f] <= t}, reserved)

\* Mutation: claims never run out.
NeverClaimed(f, t) == rows[f].claimedBy = Nobody

Unclaimed(f, t) == rows[f].claimedBy = Nobody \/ rows[f].until < t

ClaimableRows(t) ==
  LET updated == [f \in File |-> rows[f].updated] IN
  Oldest({f \in File : rows[f].state \in {"pending", "deleting"} /\ Unclaimed(f, t)}, updated)

FilesOf(r) == {c.file : c \in batch[r]}

\* The upload still has steps to take on the content of f.
PublishingFile(f) == upload[f] \in {"committed", "linked", "published"}

SomebodyElseAtWork(r, f) == PublishingFile(f) \/ \E q \in Recoverer \ {r} : f \in FilesOf(q)

EndPass(r) ==
  /\ at' = [at EXCEPT ![r] = "idle"]
  /\ since' = [since EXCEPT ![r] = 0]
  /\ expired' = [expired EXCEPT ![r] = {}]
  /\ batch' = [batch EXCEPT ![r] = {}]
  /\ saw' = [saw EXCEPT ![r] = NothingSeen]

\* Reconcile reads the clock, and cleanExpiredStages lists expired reservations.
BeginPass(r) ==
  /\ at[r] = "idle"
  /\ at' = [at EXCEPT ![r] = "stages"]
  /\ since' = [since EXCEPT ![r] = now]
  /\ expired' = [expired EXCEPT ![r] = ExpiredReservations(now)]
  /\ UNCHANGED <<now, active, tableVars, storeVars, uploadVars, deletion, batch, saw, contested, faults>>

AbortStage(r, f) ==
  /\ at[r] = "stages"
  /\ f \in expired[r]
  /\ staged' = staged \ {f}
  /\ expired' = [expired EXCEPT ![r] = @ \ {f}]
  /\ UNCHANGED <<now, active, tableVars, object, uploadVars, deletion, at, since, batch, saw, contested, faults>>

Freed(F, s) == {f \in F : s \in {"global", Uploader[f]}}
FreedUsage(F, s) ==
  [bytes |-> MapThenSumSet(LAMBDA f : Reserve[f], Freed(F, s)), objects |-> Cardinality(Freed(F, s))]

\* One transaction releases expired reservations, selected anew, and claims rows.
ClaimRecovery(r) ==
  LET freed == ExpiredReservations(since[r])
      claimed == ClaimableRows(since[r]) IN
  /\ at[r] = "stages"
  /\ expired[r] = {}
  /\ \A s \in Scope : Covers(used[s], FreedUsage(freed, s))
  /\ used' = [s \in Scope |-> Less(used[s], FreedUsage(freed, s))]
  /\ reserved' = [f \in File |-> IF f \in freed THEN 0 ELSE reserved[f]]
  /\ rows' = [f \in File |->
                IF f \in claimed
                  THEN [rows[f] EXCEPT !.claimedBy = r, !.until = since[r] + RecoveryLease]
                  ELSE rows[f]]
  /\ contested' = contested \cup {f \in claimed : SomebodyElseAtWork(r, f)}
  /\ IF claimed = {} THEN EndPass(r)
     ELSE /\ at' = [at EXCEPT ![r] = "repair"]
          /\ batch' = [batch EXCEPT ![r] =
                         {[file |-> f, state |-> rows[f].state, updated |-> rows[f].updated] : f \in claimed}]
          /\ UNCHANGED <<since, expired, saw>>
  /\ UNCHANGED <<now, active, storeVars, uploadVars, deletion, faults>>

\* c is the record that r repairs next, or is repairing.
First(r, c) ==
  /\ c \in batch[r]
  /\ \A d \in batch[r] \ {c} : c.updated < d.updated \/ (c.updated = d.updated /\ c.file < d.file)

Repairs(r, c, stage) == at[r] = stage /\ First(r, c)

NextRecord(r, c) ==
  IF batch[r] = {c} THEN EndPass(r)
  ELSE /\ batch' = [batch EXCEPT ![r] = @ \ {c}]
       /\ at' = [at EXCEPT ![r] = "repair"]
       /\ saw' = [saw EXCEPT ![r] = NothingSeen]
       /\ UNCHANGED <<since, expired>>

LookForObject(r, c) ==
  /\ Repairs(r, c, "repair")
  /\ c.state = "pending"
  /\ saw' = [saw EXCEPT ![r].object = c.file \in object]
  /\ at' = [at EXCEPT ![r] = "looked"]
  /\ UNCHANGED <<now, active, tableVars, storeVars, uploadVars, deletion, since, expired, batch, contested, faults>>

\* Mutation: a row whose object is there already is finished with its stage.
AfterLookKeepingStage(hasObject, hasStage) ==
  IF hasStage /\ ~hasObject THEN "publish" ELSE "finish"

\* What is left to do after both looks.
AfterLook(hasObject, hasStage) ==
  IF ~hasStage THEN "finish" ELSE IF hasObject THEN "abort" ELSE "publish"

LookForStage(r, c) ==
  /\ Repairs(r, c, "looked")
  /\ saw' = [saw EXCEPT ![r].stage = c.file \in staged]
  /\ at' = [at EXCEPT ![r] = AfterLook(saw[r].object, c.file \in staged)]
  /\ UNCHANGED <<now, active, tableVars, storeVars, uploadVars, deletion, since, expired, batch, contested, faults>>

RepairLink(r, c) ==
  /\ Repairs(r, c, "publish")
  /\ Linkable(c.file)
  /\ object' = object \cup {c.file}
  /\ at' = [at EXCEPT ![r] = "unlink"]
  /\ UNCHANGED <<now, active, tableVars, staged, uploadVars, deletion, since, expired, batch, saw, contested, faults>>

\* The stage is gone after Publish; reconcileRecord aborts it once more.
RepairUnlink(r, c) ==
  /\ Repairs(r, c, "unlink")
  /\ c.file \in staged
  /\ staged' = staged \ {c.file}
  /\ saw' = [saw EXCEPT ![r].object = TRUE]
  /\ at' = [at EXCEPT ![r] = "abort"]
  /\ UNCHANGED <<now, active, tableVars, object, uploadVars, deletion, since, expired, batch, contested, faults>>

RepairAbort(r, c) ==
  /\ Repairs(r, c, "abort")
  /\ staged' = staged \ {c.file}
  /\ at' = [at EXCEPT ![r] = "finish"]
  /\ UNCHANGED <<now, active, tableVars, object, uploadVars, deletion, since, expired, batch, saw, contested, faults>>

RepairDelete(r, c) ==
  /\ Repairs(r, c, "repair")
  /\ c.state = "deleting"
  /\ object' = object \ {c.file}
  /\ at' = [at EXCEPT ![r] = "finish"]
  /\ UNCHANGED <<now, active, tableVars, staged, uploadVars, deletion, since, expired, batch, saw, contested, faults>>

\* finishClaimedReady and removeClaimed look at the state and at the claim.
StillClaimed(r, c) == rows[c.file].state = c.state /\ rows[c.file].claimedBy = r

FinishReady(r, c) ==
  /\ Repairs(r, c, "finish")
  /\ saw[r].object
  /\ StillClaimed(r, c)
  /\ rows' = [rows EXCEPT ![c.file] = [@ EXCEPT !.state = "ready", !.claimedBy = Nobody, !.until = 0, !.updated = now]]
  /\ NextRecord(r, c)
  /\ UNCHANGED <<now, active, reserved, used, storeVars, uploadVars, deletion, contested, faults>>

RemoveClaimed(r, c) ==
  /\ Repairs(r, c, "finish")
  /\ ~saw[r].object
  /\ StillClaimed(r, c)
  /\ RemoveRow(c.file)
  /\ NextRecord(r, c)
  /\ UNCHANGED <<now, active, reserved, storeVars, uploadVars, deletion, contested, faults>>

\* Publish fails, or the claim is lost: the error ends the pass.
RepairFails(r, c) ==
  /\ \/ Repairs(r, c, "publish") /\ ~Linkable(c.file)
     \/ Repairs(r, c, "unlink") /\ c.file \notin staged
     \/ Repairs(r, c, "finish") /\ ~StillClaimed(r, c)
  /\ EndPass(r)
  /\ UNCHANGED <<now, active, tableVars, storeVars, uploadVars, deletion, contested, faults>>

\* The recoverer dies or an operation fails; what it has claimed stays claimed.
PassDies(r) ==
  /\ at[r] # "idle"
  /\ faults < MaxFaults
  /\ faults' = faults + 1
  /\ EndPass(r)
  /\ UNCHANGED <<now, active, tableVars, storeVars, uploadVars, deletion, contested>>

\* The directory cannot be synced after its link: the object is taken back.
RepairSyncFails(r, c) ==
  /\ Repairs(r, c, "unlink")
  /\ faults < MaxFaults
  /\ faults' = faults + 1
  /\ object' = object \ {c.file}
  /\ EndPass(r)
  /\ UNCHANGED <<now, active, tableVars, staged, uploadVars, deletion, contested>>

-----------------------------------------------------------------------------
UploadStep(f) ==
  \/ StageContent(f)
  \/ CommitUpload(f)
  \/ LinkObject(f)
  \/ UnlinkStage(f)
  \/ MarkReady(f)
  \/ UploadFails(f)
  \/ SyncFails(f)
  \/ AbortUpload(f)
  \/ ReleaseReservation(f)
  \/ YieldClaim(f)

DeletionStep(f) == DeleteObject(f) \/ RemoveDeleting(f) \/ DeletionEnds(f)

RepairStep(r, c) ==
  \/ LookForObject(r, c)
  \/ LookForStage(r, c)
  \/ RepairLink(r, c)
  \/ RepairUnlink(r, c)
  \/ RepairAbort(r, c)
  \/ RepairDelete(r, c)
  \/ FinishReady(r, c)
  \/ RemoveClaimed(r, c)
  \/ RepairFails(r, c)

PassStep(r) ==
  \/ BeginPass(r)
  \/ \E f \in expired[r] : AbortStage(r, f)
  \/ ClaimRecovery(r)
  \/ \E c \in batch[r] : RepairStep(r, c)

FilesNext ==
  \/ Tick
  \/ \E a \in Account : SetActive(a)
  \/ \E f \in File :
       \/ ReserveCapacity(f)
       \/ UploadStep(f)
       \/ UploadDies(f)
       \/ MarkDeleting(f)
       \/ DeletionStep(f)
  \/ \E r \in Recoverer :
       \/ PassStep(r)
       \/ PassDies(r)
       \/ \E c \in batch[r] : RepairSyncFails(r, c)

FilesSpec == FilesInit /\ [][FilesNext]_vars

\* Time passes, requests that have begun go on or fail, and recovery loops run.
FilesFairness ==
  /\ WF_vars(Tick)
  /\ \A f \in File : WF_vars(UploadStep(f)) /\ WF_vars(DeletionStep(f))
  /\ \A r \in Recoverer : WF_vars(PassStep(r))

FilesFairSpec == FilesSpec /\ FilesFairness

-----------------------------------------------------------------------------
FilesTypeOK ==
  /\ now \in Time
  /\ active \subseteq Account
  /\ rows \in [File -> Row]
  /\ reserved \in [File -> Nat]
  /\ used \in [Scope -> Usage]
  /\ staged \subseteq File
  /\ object \subseteq File
  /\ upload \in [File -> UploadStage]
  /\ deadline \in [File -> Nat]
  /\ deletion \in [File -> DeletionStage]
  /\ at \in [Recoverer -> PassStage]
  /\ since \in [Recoverer -> Time]
  /\ expired \in [Recoverer -> SUBSET File]
  /\ batch \in [Recoverer -> SUBSET Record]
  /\ saw \in [Recoverer -> Seen]
  /\ contested \subseteq File
  /\ faults \in Nat

\* The counters equal what they count, in every scope and whoever released, removed
\* or gave up what: the bytes of all rows and of all reservations.
RowsIn(s) == {f \in File : rows[f].state # "none" /\ s \in {"global", rows[f].owner}}
ReservationsIn(s) == {f \in File : reserved[f] # 0 /\ s \in {"global", Uploader[f]}}

CountersMatch ==
  \A s \in Scope :
    /\ used[s].bytes = MapThenSumSet(LAMBDA f : Size[f], RowsIn(s))
                         + MapThenSumSet(LAMBDA f : Reserve[f], ReservationsIn(s))
    /\ used[s].objects = Cardinality(RowsIn(s)) + Cardinality(ReservationsIn(s))

\* An upload that was acknowledged keeps its row and its object until somebody asks
\* to delete the file, whatever recovery passes do: the timeout of uploads, shorter
\* than the life of their reservations, is what keeps the two apart.
Acknowledged ==
  \A f \in File :
    (upload[f] = "done" /\ deletion[f] = "none") => rows[f].state = "ready" /\ f \in object

\* The two stores agree on a file nobody was interrupted in: an object has a row that
\* can delete it, and a ready row has its object.
StoresAgree ==
  \A f \in File \ contested :
    /\ f \in object => rows[f].state # "none"
    /\ rows[f].state = "ready" => f \in object

\* "With the id of its reservation, the database can find the stage again after a
\* crash" (storage.go:136): a stage belongs to a reservation or to a pending row.
StageFindable == \A f \in staged : reserved[f] # 0 \/ rows[f].state = "pending"

\* The modelled time is over before the claim or the reservation runs out.
HeldPastTheEnd(f) == rows[f].until >= MaxTime \/ reserved[f] > MaxTime

\* Nothing stays half done: every stage, pending row and deletion is settled.
Unsettled(f) == f \in staged \/ reserved[f] # 0 \/ rows[f].state \in {"pending", "deleting"}

Settled == \A f \in File : Unsettled(f) ~> (~Unsettled(f) \/ HeldPastTheEnd(f))
=============================================================================
