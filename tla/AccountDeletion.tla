-------------------------- MODULE AccountDeletion --------------------------
(***************************************************************************)
(* The deletion of an account together with its files: the deletion record *)
(* and the account (iam/administration/deletion.go), the event that goes   *)
(* through the outbox to the inbox of the files module, and the workers    *)
(* that take it from there (files/account_lifecycle.go), while the owner   *)
(* uploads.  Every process runs such a worker, without a common leader.    *)
(*                                                                         *)
(* One action is one transaction or one call of the storage.  A claim      *)
(* token is new with every claim, as is the number of attempts: the number *)
(* stands for the token.  Who may delete accounts, and that the last       *)
(* administrator stays, is Accounts; that the outbox delivers exactly once *)
(* is Dispatcher; the inside of a recovery pass and the quotas are Files.  *)
(***************************************************************************)
EXTENDS Naturals, FiniteSets

CONSTANTS Account,   \* accounts, without the administrator who gives the commands
          Deletion,  \* iam_account_deletions, each with its event
          File,      \* files_objects
          Worker,    \* the lifecycle workers, one for each process
          Nobody,    \* no account, no deletion, no file
          Tries,     \* attempts an event has (3)
          MaxFaults  \* bound: failed calls, crashes and stalls

ASSUME NobodyIsNothing == Nobody \notin Account \cup Deletion \cup File
ASSUME TriesArePositive == Tries \in Nat \ {0}
ASSUME FaultsAreBounded == MaxFaults \in Nat

VARIABLES life,      \* iam_accounts.lifecycle_state
          deletion,  \* iam_account_deletions
          event,     \* the outbox row, then files_account_lifecycle_events
          file,      \* files_objects, the storage, and the upload under way
          worker,    \* RunOnce of each process
          faults     \* bound: faults left

vars == <<life, deletion, event, file, worker, faults>>

Unfinished == {"queued", "claimed", "failed"}
Attempt == 0 .. Tries + MaxFaults    \* only a fault costs a further claim

DeletionState == [status : Unfinished \cup {"none", "completed", "canceled"},
                  account : Account \cup {Nobody},
                  target : Account \cup {Nobody}]   \* Nobody: purge
EventState == [state : Unfinished \cup {"none", "outbox", "completed", "canceled"},
               attempts : Attempt, expired : BOOLEAN]
FileState == [row : {"none", "pending", "ready"}, owner : Account \cup {Nobody},
              object : BOOLEAN, temporary : BOOLEAN,
              upload : {"new", "publish", "mark", "done"}]
WorkerState == [step : {"idle", "claim", "files", "delete", "abort", "remove", "complete",
                        "finish", "cancel", "fail", "failDeletion"},
                event : Deletion \cup {Nobody}, attempt : Attempt,
                file : File \cup {Nobody}]
Rested == [step |-> "idle", event |-> Nobody, attempt |-> 0, file |-> Nobody]

Init ==
  /\ life = [a \in Account |-> "active"]
  /\ deletion = [d \in Deletion |-> [status |-> "none", account |-> Nobody, target |-> Nobody]]
  /\ event = [d \in Deletion |-> [state |-> "none", attempts |-> 0, expired |-> FALSE]]
  /\ file = [f \in File |-> [row |-> "none", owner |-> Nobody, object |-> FALSE,
                             temporary |-> FALSE, upload |-> "new"]]
  /\ worker = [w \in Worker |-> Rested]
  /\ faults = MaxFaults

-----------------------------------------------------------------------------
(* The commands of an administrator. *)
Referenced(a) == \E d \in Deletion : deletion[d].target = a /\ deletion[d].status \in Unfinished
Here(a) == life[a] \in {"active", "disabled"}

AlsoReferenced(a, target) == Here(a) /\ (target # Nobody => Here(target))   \* mutant
MayBeDeleted(a, target) ==
  Here(a) /\ ~Referenced(a) /\ (target # Nobody => Here(target))

StartDeletion(d, a, target) ==
  /\ deletion[d].status = "none"
  /\ target # a
  /\ MayBeDeleted(a, target)
  /\ deletion' = [deletion EXCEPT ![d] =
       [status |-> "queued", account |-> a, target |-> target]]
  /\ life' = [life EXCEPT ![a] = "pending"]
  /\ event' = [event EXCEPT ![d].state = "outbox"]
  /\ UNCHANGED <<file, worker, faults>>

ClaimedToo(d) == deletion[d].status \in {"queued", "claimed"}               \* mutant
MayBeCanceled(d) == deletion[d].status = "queued"

CancelDeletion(d) ==
  /\ MayBeCanceled(d)
  /\ deletion' = [deletion EXCEPT ![d].status = "canceled"]
  /\ life' = [life EXCEPT ![deletion[d].account] = "disabled"]
  /\ UNCHANGED <<event, file, worker, faults>>

Enable(a) ==
  /\ life[a] = "disabled"
  /\ life' = [life EXCEPT ![a] = "active"]
  /\ UNCHANGED <<deletion, event, file, worker, faults>>

Deliver(d) ==
  /\ event[d].state = "outbox"
  /\ event' = [event EXCEPT ![d].state = "queued"]
  /\ UNCHANGED <<life, deletion, file, worker, faults>>

-----------------------------------------------------------------------------
(* An upload, from the transaction that makes its content a record.  The   *)
(* content was staged before; the object is published and the record made  *)
(* ready after, and a failure leaves them to the recovery.                 *)
CommitUpload(f, a) ==
  /\ file[f].upload = "new"
  /\ life[a] = "active"
  /\ file' = [file EXCEPT ![f] = [row |-> "pending", owner |-> a, object |-> FALSE,
                                  temporary |-> TRUE, upload |-> "publish"]]
  /\ UNCHANGED <<life, deletion, event, worker, faults>>

Publish(f) ==
  /\ file[f].upload = "publish"
  /\ file' = [file EXCEPT ![f] =
       IF @.temporary THEN [@ EXCEPT !.object = TRUE, !.temporary = FALSE, !.upload = "mark"]
                      ELSE [@ EXCEPT !.upload = "done"]]
  /\ UNCHANGED <<life, deletion, event, worker, faults>>

MarkReady(f) ==
  /\ file[f].upload = "mark"
  /\ file' = [file EXCEPT ![f].upload = "done",
                          ![f].row = IF @ = "pending" THEN "ready" ELSE @]
  /\ UNCHANGED <<life, deletion, event, worker, faults>>

UploadBreaks(f) ==
  /\ file[f].upload \in {"publish", "mark"}
  /\ faults > 0
  /\ faults' = faults - 1
  /\ file' = [file EXCEPT ![f].upload = "done"]
  /\ UNCHANGED <<life, deletion, event, worker>>

Reconcile(f) ==
  /\ file[f].row = "pending" /\ file[f].upload = "done"
  /\ file' = [file EXCEPT ![f] =
       IF @.object \/ @.temporary
         THEN [@ EXCEPT !.row = "ready", !.object = TRUE, !.temporary = FALSE]
         ELSE [@ EXCEPT !.row = "none"]]
  /\ UNCHANGED <<life, deletion, event, worker, faults>>

-----------------------------------------------------------------------------
(* `RunOnce`: the worker claims an event ... *)
QueuedOrDue(e) == e.state = "queued" \/ (e.state = "failed" /\ e.attempts < Tries)  \* mutant
Claimable(e) ==
  \/ e.state = "queued"
  \/ e.state = "failed" /\ e.attempts < Tries
  \/ e.state = "claimed" /\ e.expired

ClaimEvent(w, d) ==
  /\ worker[w].step = "idle"
  /\ Claimable(event[d])
  /\ event' = [event EXCEPT ![d] =
       [state |-> "claimed", attempts |-> @.attempts + 1, expired |-> FALSE]]
  /\ worker' = [worker EXCEPT ![w] =
       [step |-> IF event[d].attempts + 1 > Tries THEN "fail" ELSE "claim",
        event |-> d, attempt |-> event[d].attempts + 1, file |-> Nobody]]
  /\ UNCHANGED <<life, deletion, file, faults>>

Owns(w) == /\ worker[w].event # Nobody
           /\ event[worker[w].event].state = "claimed"
           /\ event[worker[w].event].attempts = worker[w].attempt

(* ... then the deletion, which is refused once it is over. *)
ClaimDeletion(w) ==
  LET d == worker[w].event IN
  /\ worker[w].step = "claim"
  /\ deletion' = [deletion EXCEPT ![d].status =
       IF @ \in {"queued", "failed"} THEN "claimed" ELSE @]
  /\ worker' = [worker EXCEPT ![w].step =
       IF deletion[d].status \in Unfinished THEN "files" ELSE "cancel"]
  /\ UNCHANGED <<life, event, file, faults>>

(* The files: handed over in one transaction if all are settled ... *)
Rows(a) == {f \in File : file[f].row # "none" /\ file[f].owner = a}
Settled(fs) == \A f \in fs : file[f].row = "ready"

Anyway(fs) == TRUE                                                         \* mutant
MayTransfer(fs) == Settled(fs)

Transfer(w) ==
  LET d == deletion[worker[w].event]
      owned == Rows(d.account)
  IN
  /\ worker[w].step = "files" /\ d.target # Nobody
  /\ file' = IF MayTransfer(owned)
               THEN [f \in File |-> IF f \in owned /\ file[f].row = "ready"
                                      THEN [file[f] EXCEPT !.owner = d.target] ELSE file[f]]
               ELSE file
  /\ worker' = [worker EXCEPT ![w].step = IF MayTransfer(owned) THEN "complete" ELSE "fail"]
  /\ UNCHANGED <<life, deletion, event, faults>>

(* ... or purged one by one: the object, the staged content, the record.   *)
PurgeNext(w) ==
  LET d == deletion[worker[w].event] IN
  /\ worker[w].step = "files" /\ d.target = Nobody
  /\ \/ /\ Rows(d.account) = {}
        /\ worker' = [worker EXCEPT ![w].step = "complete"]
     \/ \E f \in Rows(d.account) :
          worker' = [worker EXCEPT ![w].step = "delete", ![w].file = f]
  /\ UNCHANGED <<life, deletion, event, file, faults>>

PurgeDelete(w) ==
  /\ worker[w].step = "delete"
  /\ file' = [file EXCEPT ![worker[w].file].object = FALSE]
  /\ worker' = [worker EXCEPT ![w].step = "abort"]
  /\ UNCHANGED <<life, deletion, event, faults>>

PurgeAbort(w) ==
  /\ worker[w].step = "abort"
  /\ file' = [file EXCEPT ![worker[w].file].temporary = FALSE]
  /\ worker' = [worker EXCEPT ![w].step = "remove"]
  /\ UNCHANGED <<life, deletion, event, faults>>

PurgeRemove(w) ==
  /\ worker[w].step = "remove"
  /\ file' = [file EXCEPT ![worker[w].file].row = "none"]
  /\ worker' = [worker EXCEPT ![w].step = "files", ![w].file = Nobody]
  /\ UNCHANGED <<life, deletion, event, faults>>

(* The account becomes a tombstone, then the event is done. *)
CompleteDeletion(w) ==
  LET d == worker[w].event IN
  /\ worker[w].step = "complete"
  /\ IF deletion[d].status \in {"claimed", "failed"}
       THEN /\ life' = [life EXCEPT ![deletion[d].account] = "deleted"]
            /\ deletion' = [deletion EXCEPT ![d].status = "completed"]
       ELSE UNCHANGED <<life, deletion>>
  /\ worker' = [worker EXCEPT ![w].step =
       IF deletion[d].status \in {"claimed", "failed", "completed"} THEN "finish" ELSE "fail"]
  /\ UNCHANGED <<event, file, faults>>

FinishEvent(w) ==
  LET d == worker[w].event IN
  /\ worker[w].step \in {"finish", "cancel"}
  /\ event' = IF Owns(w)
                THEN [event EXCEPT ![d].state =
                        IF worker[w].step = "finish" THEN "completed" ELSE "canceled",
                                   ![d].expired = FALSE]
                ELSE event
  /\ worker' = [worker EXCEPT ![w] = Rested]
  /\ UNCHANGED <<life, deletion, file, faults>>

-----------------------------------------------------------------------------
(* `fail`: the event in one transaction, the deletion in another. *)
FailEvent(w) ==
  LET d == worker[w].event IN
  /\ worker[w].step = "fail"
  /\ event' = IF Owns(w)
                THEN [event EXCEPT ![d].state = "failed", ![d].expired = FALSE] ELSE event
  /\ worker' = [worker EXCEPT ![w] =
       IF Owns(w) THEN [@ EXCEPT !.step = "failDeletion", !.file = Nobody] ELSE Rested]
  /\ UNCHANGED <<life, deletion, file, faults>>

AnyStatus(s) == "failed"                                                   \* mutant
FailedFrom(s) == IF s = "claimed" THEN "failed" ELSE s

FailDeletion(w) ==
  LET d == worker[w].event IN
  /\ worker[w].step = "failDeletion"
  /\ deletion' = [deletion EXCEPT ![d].status = FailedFrom(@)]
  /\ worker' = [worker EXCEPT ![w] = Rested]
  /\ UNCHANGED <<life, event, file, faults>>

(* A call fails; the process dies; the lease runs out under a worker that  *)
(* stalls.  A claim nobody works for runs out by itself, and the renewal   *)
(* tells a worker that its claim is gone.                                  *)
StepFails(w) ==
  /\ worker[w].step \in {"claim", "files", "delete", "abort", "remove", "complete"}
  /\ faults > 0
  /\ faults' = faults - 1
  /\ worker' = [worker EXCEPT ![w].step = "fail"]
  /\ UNCHANGED <<life, deletion, event, file>>

Crash(w) ==
  /\ worker[w].step # "idle"
  /\ faults > 0
  /\ faults' = faults - 1
  /\ worker' = [worker EXCEPT ![w] = Rested]
  /\ UNCHANGED <<life, deletion, event, file>>

Attended(d) == \E w \in Worker : worker[w].event = d /\ Owns(w)

LeaseRunsOut(d) ==
  /\ event[d].state = "claimed" /\ ~event[d].expired
  /\ ~Attended(d)
  /\ event' = [event EXCEPT ![d].expired = TRUE]
  /\ UNCHANGED <<life, deletion, file, worker, faults>>

Stall(d) ==
  /\ event[d].state = "claimed" /\ ~event[d].expired
  /\ Attended(d)
  /\ faults > 0
  /\ faults' = faults - 1
  /\ event' = [event EXCEPT ![d].expired = TRUE]
  /\ UNCHANGED <<life, deletion, file, worker>>

RenewClaim(w) ==
  /\ worker[w].step # "idle"
  /\ \/ /\ Owns(w) /\ event[worker[w].event].expired
        /\ event' = [event EXCEPT ![worker[w].event].expired = FALSE]
        /\ UNCHANGED worker
     \/ /\ ~Owns(w)
        /\ worker' = [worker EXCEPT ![w] = Rested]
        /\ UNCHANGED event
  /\ UNCHANGED <<life, deletion, file, faults>>

Work(w) ==
  \/ \E d \in Deletion : ClaimEvent(w, d)
  \/ ClaimDeletion(w)
  \/ Transfer(w)
  \/ PurgeNext(w)
  \/ PurgeDelete(w)
  \/ PurgeAbort(w)
  \/ PurgeRemove(w)
  \/ CompleteDeletion(w)
  \/ FinishEvent(w)
  \/ FailEvent(w)
  \/ FailDeletion(w)

Next ==
  \/ \E d \in Deletion, a \in Account, t \in Account \cup {Nobody} : StartDeletion(d, a, t)
  \/ \E d \in Deletion : CancelDeletion(d)
  \/ \E a \in Account : Enable(a)
  \/ \E d \in Deletion : Deliver(d)
  \/ \E f \in File, a \in Account : CommitUpload(f, a)
  \/ \E f \in File : Publish(f)
  \/ \E f \in File : MarkReady(f)
  \/ \E f \in File : UploadBreaks(f)
  \/ \E f \in File : Reconcile(f)
  \/ \E w \in Worker : Work(w)
  \/ \E w \in Worker : StepFails(w)
  \/ \E w \in Worker : Crash(w)
  \/ \E d \in Deletion : LeaseRunsOut(d)
  \/ \E d \in Deletion : Stall(d)
  \/ \E w \in Worker : RenewClaim(w)

Spec == Init /\ [][Next]_vars

(* The loops of a process go on, the outbox delivers, time passes. *)
Fairness == /\ \A w \in Worker : WF_vars(Work(w))
            /\ \A d \in Deletion : WF_vars(Deliver(d)) /\ WF_vars(LeaseRunsOut(d))
FairSpec == Spec /\ Fairness

-----------------------------------------------------------------------------
AccountDeletionTypeOK ==
  /\ life \in [Account -> {"active", "disabled", "pending", "deleted"}]
  /\ deletion \in [Deletion -> DeletionState]
  /\ event \in [Deletion -> EventState]
  /\ file \in [File -> FileState]
  /\ worker \in [Worker -> WorkerState]
  /\ faults \in 0 .. MaxFaults

(* A deleted account owns no file, whatever was uploaded, handed over to it *)
(* or retried while it was being deleted.                                   *)
DeletedOwnNothing == \A a \in Account : life[a] = "deleted" => Rows(a) = {}

(* A deletion that is not over is not forgotten: its event is not settled.  *)
NothingForgotten ==
  \A d \in Deletion :
    deletion[d].status \in Unfinished => event[d].state \notin {"none", "completed", "canceled"}

(* An account has one deletion at a time, and waits for it: `pending` is    *)
(* the state of the accounts whose deletion is not over.                    *)
PendingHasDeletion ==
  \A a \in Account :
    LET ds == {d \in Deletion : deletion[d].account = a /\ deletion[d].status \in Unfinished} IN
    Cardinality(ds) = IF life[a] = "pending" THEN 1 ELSE 0

(* The deletion keeps what AccountRemoval promises (deletion.go, and         *)
(* docs/operations.md:32: a purge can be cancelled only before its claim):  *)
(* attempts and claims are not seen there, a deletion that failed has begun, *)
(* and a record counts until it is removed, with its object or without.      *)
Phase(status) == CASE status = "queued" -> "requested"
                   [] status \in {"claimed", "failed"} -> "begun"
                   [] OTHER -> status
Condition(f) == CASE f.row = "none" -> "none"
                  [] f.row = "pending" -> "arriving"
                  [] f.row = "ready" -> IF f.object THEN "kept" ELSE "hollow"

DeletionSeen == [d \in Deletion |-> [phase |-> Phase(deletion[d].status),
                                     account |-> deletion[d].account,
                                     heir |-> deletion[d].target]]
FileSeen == [f \in File |-> [condition |-> Condition(file[f]),
                             owner |-> IF file[f].row = "none" THEN Nobody ELSE file[f].owner]]

Promise == INSTANCE AccountRemoval WITH deletion <- DeletionSeen, file <- FileSeen
RemovedAsPromised == Promise!Spec

(* A purge survives failures while its event has tries left: with fewer     *)
(* faults than tries (MaxFaults < Tries) every purge ends, completed or     *)
(* cancelled.                                                               *)
PurgeEnds ==
  \A d \in Deletion :
    deletion[d].status = "queued" /\ deletion[d].target = Nobody
      ~> deletion[d].status \in {"completed", "canceled"}
=============================================================================
