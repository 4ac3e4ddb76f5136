----------------------- MODULE AccountDeletionProofs -----------------------
(***************************************************************************)
(* Proofs about the deletion of accounts, for any accounts, deletions,     *)
(* files, processes and faults.                                            *)
(*                                                                         *)
(* The argument has five parts.  A deletion and its account keep step      *)
(* (Paired): who is pending has one unfinished deletion, who is deleted    *)
(* has none, and the heir of an unfinished deletion stays alive.  A worker *)
(* that is past its claim works for a deletion that can no longer be       *)
(* cancelled (Claimed), so the account gains no more files; therefore it   *)
(* owns none when the worker completes, and none afterwards (Emptied).     *)
(* Each attempt beyond the tries was paid for with a fault (Paid).  And an *)
(* object that is missing was taken by a purge under way                   *)
(* (HollowArePurged), which is what the promise needs to know of objects.  *)
(***************************************************************************)
EXTENDS AccountDeletion, FiniteSetTheorems, TLAPS

Status(d) == deletion[d].status
Open(a) == {d \in Deletion : deletion[d].account = a /\ Status(d) \in Unfinished}
Begun == {"claimed", "failed", "completed"}
PastClaim == {"files", "delete", "abort", "remove", "complete"}

Paired ==
  /\ \A a \in Account : life[a] = "pending" => \E d \in Deletion : Open(a) = {d}
  /\ \A a \in Account : life[a] # "pending" => Open(a) = {}
  /\ \A d \in Deletion : Status(d) = "completed" => life[deletion[d].account] = "deleted"
  /\ \A d \in Deletion : Status(d) # "none" => /\ deletion[d].account \in Account
                                               /\ deletion[d].target # deletion[d].account
  /\ \A d \in Deletion : Status(d) \in Unfinished /\ deletion[d].target # Nobody =>
       Here(deletion[d].target)

Working(w) ==
  /\ worker[w].step # "idle" =>
       worker[w].event \in Deletion /\ Status(worker[w].event) # "none"
  /\ worker[w].step = "idle" => worker[w] = Rested
  /\ worker[w].step \in PastClaim => Status(worker[w].event) \in Begun
  /\ worker[w].step = "finish" => Status(worker[w].event) = "completed"
  /\ worker[w].step = "cancel" => Status(worker[w].event) \notin Unfinished
  /\ worker[w].step = "complete" => Rows(deletion[worker[w].event].account) = {}
  /\ worker[w].step \in {"delete", "abort", "remove"} =>
       LET f == worker[w].file
           d == worker[w].event
       IN /\ f \in File
          /\ deletion[d].target = Nobody
          /\ file[f].upload # "new"
          /\ file[f].row # "none" => file[f].owner = deletion[d].account
Claimed == \A w \in Worker : Working(w)

Emptied == DeletedOwnNothing

Uploads ==
  \A f \in File : /\ file[f].upload = "new" => file[f].row = "none"
                  /\ file[f].row = "ready" => file[f].upload = "done"

Remembered ==
  \A d \in Deletion : /\ Status(d) = "none" <=> event[d].state = "none"
                      /\ Status(d) \in Unfinished =>
                           event[d].state \notin {"completed", "canceled"}

(* How many attempts an event can have had. *)
Allowed == Tries + MaxFaults - faults
Deserted(d) == event[d].state = "claimed" /\ (event[d].expired \/ ~Attended(d))

Paid ==
  /\ \A d \in Deletion : event[d].state \in {"none", "outbox", "queued"} => event[d].attempts = 0
  /\ \A d \in Deletion : event[d].attempts <= Allowed
  /\ \A d \in Deletion : Deserted(d) => event[d].attempts < Allowed
  /\ \A w \in Worker : worker[w].step # "idle" =>
       worker[w].attempt <= event[worker[w].event].attempts
  /\ \A w \in Worker : worker[w].step = "failDeletion" => ~Owns(w)

IInv == /\ AccountDeletionTypeOK /\ Paired /\ Claimed /\ Emptied
        /\ Uploads /\ Remembered /\ Paid

-----------------------------------------------------------------------------
LEMMA InitInv == Init => IInv
PROOF
  <1> SUFFICES ASSUME Init PROVE IInv
    OBVIOUS
  <1>1. AccountDeletionTypeOK
    BY TriesArePositive, FaultsAreBounded
       DEF Init, AccountDeletionTypeOK, DeletionState, EventState, FileState, WorkerState,
           Attempt, Rested
  <1>2. Paired
    BY DEF Init, Paired, Open, Status, Unfinished
  <1>3. Claimed
    BY DEF Init, Claimed, Working, Rested, PastClaim
  <1>4. Emptied /\ Uploads /\ Remembered
    BY DEF Init, Emptied, DeletedOwnNothing, Uploads, Remembered, Status, Unfinished
  <1>5. Paid
    BY TriesArePositive, FaultsAreBounded DEF Init, Paid, Allowed, Deserted, Rested
  <1> QED
    BY <1>1, <1>2, <1>3, <1>4, <1>5 DEF IInv

-----------------------------------------------------------------------------
(* Which actions there are for each group of variables. *)
LEMMA WhatChangesDeletions ==
  ASSUME [Next]_vars
  PROVE  \/ UNCHANGED <<life, deletion>>
         \/ \E d \in Deletion, a \in Account, t \in Account \cup {Nobody} : StartDeletion(d, a, t)
         \/ \E d \in Deletion : CancelDeletion(d)
         \/ \E a \in Account : Enable(a)
         \/ \E w \in Worker : ClaimDeletion(w)
         \/ \E w \in Worker : CompleteDeletion(w)
         \/ \E w \in Worker : FailDeletion(w)
  BY DEF Next, vars, Work, Deliver, CommitUpload, Publish, MarkReady, UploadBreaks, Reconcile,
     ClaimEvent, Transfer, PurgeNext, PurgeDelete, PurgeAbort, PurgeRemove, FinishEvent,
     FailEvent, StepFails, Crash, LeaseRunsOut, Stall, RenewClaim

LEMMA WhatChangesFiles ==
  ASSUME [Next]_vars
  PROVE  \/ UNCHANGED file
         \/ \E f \in File, a \in Account : CommitUpload(f, a)
         \/ \E f \in File : Publish(f)
         \/ \E f \in File : MarkReady(f)
         \/ \E f \in File : UploadBreaks(f)
         \/ \E f \in File : Reconcile(f)
         \/ \E w \in Worker : Transfer(w)
         \/ \E w \in Worker : PurgeDelete(w)
         \/ \E w \in Worker : PurgeAbort(w)
         \/ \E w \in Worker : PurgeRemove(w)
  BY DEF Next, vars, Work, StartDeletion, CancelDeletion, Enable, Deliver, ClaimEvent,
     ClaimDeletion, PurgeNext, CompleteDeletion, FinishEvent, FailEvent, FailDeletion,
     StepFails, Crash, LeaseRunsOut, Stall, RenewClaim

LEMMA WhatChangesEvents ==
  ASSUME [Next]_vars
  PROVE  \/ UNCHANGED event
         \/ \E d \in Deletion, a \in Account, t \in Account \cup {Nobody} : StartDeletion(d, a, t)
         \/ \E d \in Deletion : Deliver(d)
         \/ \E w \in Worker, d \in Deletion : ClaimEvent(w, d)
         \/ \E w \in Worker : FinishEvent(w)
         \/ \E w \in Worker : FailEvent(w)
         \/ \E d \in Deletion : LeaseRunsOut(d)
         \/ \E d \in Deletion : Stall(d)
         \/ \E w \in Worker : RenewClaim(w)
  BY DEF Next, vars, Work, CancelDeletion, Enable, CommitUpload, Publish, MarkReady,
     UploadBreaks, Reconcile, ClaimDeletion, Transfer, PurgeNext, PurgeDelete, PurgeAbort,
     PurgeRemove, CompleteDeletion, FailDeletion, StepFails, Crash

LEMMA WhatChangesWorkers ==
  ASSUME AccountDeletionTypeOK, [Next]_vars
  PROVE  \/ UNCHANGED worker
         \/ \E w \in Worker : /\ \/ Work(w) \/ StepFails(w) \/ Crash(w)
                                 \/ RenewClaim(w)
                              /\ \A u \in Worker : u # w => worker'[u] = worker[u]
PROOF
  <1>1. ASSUME NEW w \in Worker, Work(w) \/ StepFails(w) \/ Crash(w) \/ RenewClaim(w)
        PROVE  UNCHANGED worker \/ \A u \in Worker : u # w => worker'[u] = worker[u]
    BY <1>1 DEF Work, ClaimEvent, ClaimDeletion, Transfer, PurgeNext, PurgeDelete, PurgeAbort,
       PurgeRemove, CompleteDeletion, FinishEvent, FailEvent, FailDeletion, StepFails, Crash,
       RenewClaim, AccountDeletionTypeOK
  <1> QED
    BY <1>1 DEF Next, vars, StartDeletion, CancelDeletion, Enable, Deliver, CommitUpload, Publish,
       MarkReady, UploadBreaks, Reconcile, LeaseRunsOut, Stall

-----------------------------------------------------------------------------
(* The deletions and their accounts. *)

(* Who is deleted by an unfinished deletion is pending; who was deleted     *)
(* stays so: neither is active or the heir of anything.                     *)
LEMMA NotHere ==
  ASSUME Paired, NEW d \in Deletion, Status(d) \in Begun \cup Unfinished
  PROVE  /\ deletion[d].account \in Account
         /\ ~Here(deletion[d].account)
         /\ Status(d) \in Unfinished =>
              life[deletion[d].account] = "pending" /\ Open(deletion[d].account) = {d}
PROOF
  <1>1. deletion[d].account \in Account
    BY DEF Paired, Begun, Unfinished
  <1>2. CASE Status(d) = "completed"
    BY <1>1, <1>2 DEF Paired, Here, Unfinished
  <1>3. CASE Status(d) \in Unfinished
    <2>1. d \in Open(deletion[d].account)
      BY <1>3 DEF Open
    <2>2. life[deletion[d].account] = "pending"
      BY <1>1, <2>1 DEF Paired
    <2>3. PICK e \in Deletion : Open(deletion[d].account) = {e}
      BY <1>1, <2>2 DEF Paired
    <2> QED
      BY <1>1, <2>1, <2>2, <2>3 DEF Here
  <1> QED
    BY <1>2, <1>3 DEF Begun, Unfinished

(* A step that keeps every deletion open that is, and no other. *)
LEMMA PairedKept ==
  ASSUME Paired, UNCHANGED life,
         \A d \in Deletion :
           /\ deletion'[d].account = deletion[d].account
           /\ deletion'[d].target = deletion[d].target
           /\ Status(d)' \in Unfinished <=> Status(d) \in Unfinished
           /\ Status(d)' = "none" <=> Status(d) = "none"
           /\ Status(d)' = "completed" <=> Status(d) = "completed"
  PROVE  Paired'
PROOF
  <1>1. \A a \in Account : Open(a)' = Open(a)
    BY DEF Open
  <1> QED
    BY <1>1 DEF Paired, Here

LEMMA PairedInv ==
  ASSUME AccountDeletionTypeOK, Paired, Claimed, [Next]_vars
  PROVE  Paired'
PROOF
  <1>0. deletion \in [Deletion -> DeletionState] /\ life \in [Account -> {"active", "disabled", "pending", "deleted"}]
    BY DEF AccountDeletionTypeOK
  <1>1. CASE UNCHANGED <<life, deletion>>
    BY <1>1, PairedKept DEF Status
  <1>2. ASSUME NEW d \in Deletion, NEW a \in Account, NEW t \in Account \cup {Nobody},
               StartDeletion(d, a, t)
        PROVE  Paired'
    <2>1. /\ deletion'[d] = [status |-> "queued", account |-> a, target |-> t]
          /\ \A e \in Deletion : e # d => deletion'[e] = deletion[e]
          /\ life'[a] = "pending" /\ \A b \in Account : b # a => life'[b] = life[b]
          /\ Status(d) = "none" /\ Here(a) /\ ~Referenced(a) /\ t # a
          /\ t # Nobody => Here(t)
      BY <1>0, <1>2 DEF StartDeletion, MayBeDeleted, Status
    <2>2. Open(a) = {}
      BY <2>1 DEF Paired, Here
    <2>3. Open(a)' = {d}
      BY <2>1, <2>2 DEF Open, Status, Unfinished
    <2>4. \A b \in Account : b # a => Open(b)' = Open(b)
      BY <2>1 DEF Open, Status, Unfinished
    <2>5. \A e \in Deletion : Status(e)' = "completed" => life'[deletion'[e].account] = "deleted"
      BY <2>1 DEF Paired, Status, Here
    <2>6. \A e \in Deletion : Status(e)' # "none" => /\ deletion'[e].account \in Account
                                                     /\ deletion'[e].target # deletion'[e].account
      BY <2>1 DEF Paired, Status
    <2>7. \A e \in Deletion : Status(e)' \in Unfinished /\ deletion'[e].target # Nobody =>
            Here(deletion[e].target)'
      <3> SUFFICES ASSUME NEW e \in Deletion, Status(e)' \in Unfinished,
                          deletion'[e].target # Nobody
                   PROVE  Here(deletion[e].target)'
        OBVIOUS
      <3>1. CASE e = d
        BY <2>1, <3>1 DEF Here
      <3>2. CASE e # d
        <4>1. deletion'[e] = deletion[e] /\ Status(e) \in Unfinished
          BY <2>1, <3>2 DEF Status
        <4>2. Here(deletion[e].target) /\ deletion[e].target # a
          BY <2>1, <4>1 DEF Paired, Referenced, Status
        <4>3. deletion[e].target \in Account
          BY <1>0, <4>1 DEF DeletionState
        <4> QED
          BY <2>1, <4>1, <4>2, <4>3 DEF Here
      <3> QED
        BY <3>1, <3>2
    <2>8. \A b \in Account : life'[b] = "pending" => \E e \in Deletion : Open(b)' = {e}
      BY <2>1, <2>3, <2>4 DEF Paired
    <2>9. \A b \in Account : life'[b] # "pending" => Open(b)' = {}
      BY <2>1, <2>4 DEF Paired
    <2> QED
      BY <2>5, <2>6, <2>7, <2>8, <2>9 DEF Paired
  <1>3. ASSUME NEW d \in Deletion, NEW a \in Account, a = deletion[d].account,
               Status(d) \in Unfinished,
               \A e \in Deletion : e # d => deletion'[e] = deletion[e],
               deletion'[d].account = a, deletion'[d].target = deletion[d].target,
               \/ Status(d)' = "canceled" /\ life'[a] = "disabled"
               \/ Status(d)' = "completed" /\ life'[a] = "deleted",
               \A b \in Account : b # a => life'[b] = life[b]
        PROVE  Paired'
    <2>1. life[a] = "pending" /\ Open(a) = {d} /\ ~Here(a)
      BY <1>3, NotHere
    <2>2. Open(a)' = {}
      BY <1>3, <2>1 DEF Open, Status, Unfinished
    <2>3. \A b \in Account : b # a => Open(b)' = Open(b)
      BY <1>3 DEF Open, Status, Unfinished
    <2>4. \A e \in Deletion : Status(e)' = "completed" => life'[deletion'[e].account] = "deleted"
      <3> SUFFICES ASSUME NEW e \in Deletion, e # d, Status(e) = "completed"
                   PROVE  life'[deletion[e].account] = "deleted"
        BY <1>3 DEF Status
      <3>1. life[deletion[e].account] = "deleted" /\ deletion[e].account \in Account
        BY DEF Paired
      <3> QED
        BY <1>3, <2>1, <3>1
    <2>5. \A e \in Deletion : Status(e)' # "none" => /\ deletion'[e].account \in Account
                                                     /\ deletion'[e].target # deletion'[e].account
      BY <1>3 DEF Paired, Status, Unfinished
    <2>6. \A e \in Deletion : Status(e)' \in Unfinished /\ deletion'[e].target # Nobody =>
            Here(deletion[e].target)'
      <3> SUFFICES ASSUME NEW e \in Deletion, e # d, Status(e) \in Unfinished,
                          deletion[e].target # Nobody
                   PROVE  life'[deletion[e].target] \in {"active", "disabled"}
        BY <1>3 DEF Status, Unfinished, Here
      <3>1. Here(deletion[e].target) /\ deletion[e].target \in Account
        BY <1>0 DEF Paired, DeletionState
      <3> QED
        BY <1>3, <2>1, <3>1 DEF Here
    <2>7. \A b \in Account : life'[b] = "pending" => \E e \in Deletion : Open(b)' = {e}
      BY <1>3, <2>3 DEF Paired
    <2>8. \A b \in Account : life'[b] # "pending" => Open(b)' = {}
      BY <1>3, <2>2, <2>3 DEF Paired
    <2> QED
      BY <2>4, <2>5, <2>6, <2>7, <2>8 DEF Paired
  <1>4. ASSUME NEW d \in Deletion, CancelDeletion(d) PROVE Paired'
    <2>1. Status(d) = "queued" /\ deletion[d].account \in Account
      BY <1>4 DEF CancelDeletion, MayBeCanceled, Status, Paired
    <2>2. /\ deletion'[d] = [deletion[d] EXCEPT !.status = "canceled"]
          /\ \A e \in Deletion : e # d => deletion'[e] = deletion[e]
          /\ life'[deletion[d].account] = "disabled"
          /\ \A b \in Account : b # deletion[d].account => life'[b] = life[b]
      BY <1>0, <1>4, <2>1 DEF CancelDeletion
    <2>3. deletion[d] \in DeletionState
      BY <1>0
    <2> QED
      BY <1>3, <2>1, <2>2, <2>3 DEF Status, Unfinished, DeletionState
  <1>5. ASSUME NEW a \in Account, Enable(a) PROVE Paired'
    <2>1. /\ UNCHANGED deletion /\ life[a] = "disabled" /\ life'[a] = "active"
          /\ \A b \in Account : b # a => life'[b] = life[b]
      BY <1>0, <1>5 DEF Enable
    <2>2. \A b \in Account : Open(b)' = Open(b)
      BY <2>1 DEF Open, Status
    <2>4. \A e \in Deletion : Status(e) \in Unfinished /\ deletion[e].target # Nobody =>
            Here(deletion[e].target)'
      BY <1>0, <2>1 DEF Paired, DeletionState, Here
    <2>5. \A e \in Deletion : Status(e) = "completed" => life'[deletion[e].account] = "deleted"
      BY <2>1 DEF Paired
    <2> QED
      BY <2>1, <2>2, <2>4, <2>5 DEF Paired, Status
  <1>6. ASSUME NEW w \in Worker, ClaimDeletion(w) PROVE Paired'
    <2>1. worker[w].event \in Deletion /\ UNCHANGED life
      BY <1>6 DEF ClaimDeletion, Claimed, Working
    <2>2. \A e \in Deletion :
            /\ deletion'[e].account = deletion[e].account
            /\ deletion'[e].target = deletion[e].target
            /\ \/ Status(e)' = Status(e)
               \/ Status(e) \in {"queued", "failed"} /\ Status(e)' = "claimed"
      BY <1>0, <1>6, <2>1 DEF ClaimDeletion, Status, DeletionState
    <2> QED
      BY <2>1, <2>2, PairedKept DEF Unfinished
  <1>7. ASSUME NEW w \in Worker, CompleteDeletion(w) PROVE Paired'
    <2> DEFINE d == worker[w].event
    <2>1. d \in Deletion /\ deletion[d] \in DeletionState
      BY <1>0, <1>7 DEF CompleteDeletion, Claimed, Working
    <2>2. CASE Status(d) \in {"claimed", "failed"}
      <3>1. deletion[d].account \in Account
        BY <2>1, <2>2 DEF Paired
      <3>2. /\ deletion'[d] = [deletion[d] EXCEPT !.status = "completed"]
            /\ \A e \in Deletion : e # d => deletion'[e] = deletion[e]
            /\ life'[deletion[d].account] = "deleted"
            /\ \A b \in Account : b # deletion[d].account => life'[b] = life[b]
        BY <1>0, <1>7, <2>1, <2>2, <3>1 DEF CompleteDeletion, Status
      <3> QED
        BY <1>3, <2>1, <2>2, <3>1, <3>2 DEF Status, Unfinished, DeletionState
    <2>3. CASE Status(d) \notin {"claimed", "failed"}
      BY <1>7, <2>3, PairedKept DEF CompleteDeletion, Status
    <2> QED
      BY <2>2, <2>3
  <1>8. ASSUME NEW w \in Worker, FailDeletion(w) PROVE Paired'
    <2>1. worker[w].event \in Deletion /\ UNCHANGED life
      BY <1>8 DEF FailDeletion, Claimed, Working
    <2>2. \A e \in Deletion :
            /\ deletion'[e].account = deletion[e].account
            /\ deletion'[e].target = deletion[e].target
            /\ \/ Status(e)' = Status(e)
               \/ Status(e) = "claimed" /\ Status(e)' = "failed"
      BY <1>0, <1>8, <2>1 DEF FailDeletion, FailedFrom, Status, DeletionState
    <2> QED
      BY <2>1, <2>2, PairedKept DEF Unfinished
  <1> QED
    BY <1>1, <1>2, <1>4, <1>5, <1>6, <1>7, <1>8, WhatChangesDeletions

(* A deletion goes forward only, and keeps its account and its heir. *)
Forward(d) ==
  /\ deletion'[d].account = deletion[d].account
  /\ deletion'[d].target = deletion[d].target
  /\ Status(d)' # "none"
  /\ Status(d) \in Begun => Status(d)' \in Begun
  /\ Status(d) \notin Unfinished => Status(d)' = Status(d)

LEMMA DeletionsGoForward ==
  ASSUME AccountDeletionTypeOK, Claimed, [Next]_vars
  PROVE  \A d \in Deletion : Status(d) # "none" => Forward(d)
PROOF
  <1>0. deletion \in [Deletion -> DeletionState]
    BY DEF AccountDeletionTypeOK
  <1> SUFFICES ASSUME NEW d \in Deletion, Status(d) # "none" PROVE Forward(d)
    OBVIOUS
  <1>1. CASE UNCHANGED deletion
    BY <1>1 DEF Forward, Status
  <1>2. ASSUME NEW e \in Deletion, NEW a \in Account, NEW t \in Account \cup {Nobody},
               StartDeletion(e, a, t)
        PROVE  Forward(d)
    BY <1>0, <1>2 DEF StartDeletion, Forward, Status
  <1>3. ASSUME NEW e \in Deletion, CancelDeletion(e) PROVE Forward(d)
    BY <1>0, <1>3 DEF CancelDeletion, MayBeCanceled, Forward, Status, DeletionState, Begun,
       Unfinished
  <1>4. ASSUME NEW w \in Worker, ClaimDeletion(w) PROVE Forward(d)
    <2>1. worker[w].event \in Deletion
      BY <1>4 DEF ClaimDeletion, Claimed, Working
    <2> QED
      BY <1>0, <1>4, <2>1 DEF ClaimDeletion, Forward, Status, DeletionState, Begun, Unfinished
  <1>5. ASSUME NEW w \in Worker, CompleteDeletion(w) PROVE Forward(d)
    <2>1. worker[w].event \in Deletion
      BY <1>5 DEF CompleteDeletion, Claimed, Working
    <2>2. CASE deletion[worker[w].event].status \in {"claimed", "failed"}
      BY <1>0, <1>5, <2>1, <2>2 DEF CompleteDeletion, Forward, Status, DeletionState, Begun,
         Unfinished
    <2>3. CASE deletion[worker[w].event].status \notin {"claimed", "failed"}
      BY <1>1, <1>5, <2>3 DEF CompleteDeletion
    <2> QED
      BY <2>2, <2>3
  <1>6. ASSUME NEW w \in Worker, FailDeletion(w) PROVE Forward(d)
    <2>1. worker[w].event \in Deletion
      BY <1>6 DEF FailDeletion, Claimed, Working
    <2> QED
      BY <1>0, <1>6, <2>1 DEF FailDeletion, FailedFrom, Forward, Status, DeletionState, Begun,
         Unfinished
  <1>7. ASSUME NEW a \in Account, Enable(a) PROVE Forward(d)
    BY <1>1, <1>7 DEF Enable
  <1> QED
    BY <1>1, <1>2, <1>3, <1>4, <1>5, <1>6, <1>7, WhatChangesDeletions

-----------------------------------------------------------------------------
(* The files. *)

(* Nobody takes the files of an account but a deletion of it that is under  *)
(* way, and that is the only one.                                           *)
LEMMA OnlyOwnDeletion ==
  ASSUME Paired, Emptied, NEW d \in Deletion, NEW e \in Deletion,
         Status(d) \in Begun, Status(e) \in Begun, deletion[d].account = deletion[e].account,
         Rows(deletion[e].account) # {}
  PROVE  d = e /\ Status(e) \in {"claimed", "failed"}
PROOF
  <1>1. deletion[e].account \in Account /\ life[deletion[e].account] # "deleted"
    BY NotHere DEF Emptied, DeletedOwnNothing
  <1>2. Status(d) # "completed" /\ Status(e) # "completed"
    BY <1>1 DEF Paired
  <1>3. Status(d) \in Unfinished /\ Status(e) \in Unfinished
    BY <1>2 DEF Begun, Unfinished
  <1>4. Open(deletion[e].account) = {d} /\ Open(deletion[e].account) = {e}
    BY <1>3, NotHere
  <1> QED
    BY <1>2, <1>4 DEF Begun

(* A file in the course of an upload, its repair, or a purge. *)
LEMMA UploadSteps ==
  ASSUME AccountDeletionTypeOK, NEW f \in File, NEW g \in File,
         Publish(g) \/ MarkReady(g) \/ UploadBreaks(g) \/ Reconcile(g), file'[f] # file[f]
  PROVE  /\ file'[f].owner = file[f].owner
         /\ file'[f].upload # "new" /\ file[f].upload # "new"
         /\ file[f].row = "none" => file'[f].row = "none"
         /\ file'[f].row = "ready" => file[f].row = "ready" \/ file'[f].upload = "done"
         /\ file[f].row = "ready" /\ file[f].upload = "done" => file'[f].upload = "done"
PROOF
  <1>0. file \in [File -> FileState] /\ file[f] \in FileState
    BY DEF AccountDeletionTypeOK
  <1>1. CASE Publish(g)
    BY <1>0, <1>1 DEF Publish, FileState
  <1>2. CASE MarkReady(g)
    BY <1>0, <1>2 DEF MarkReady, FileState
  <1>3. CASE UploadBreaks(g)
    BY <1>0, <1>3 DEF UploadBreaks, FileState
  <1>4. CASE Reconcile(g)
    BY <1>0, <1>4 DEF Reconcile, FileState
  <1> QED
    BY <1>1, <1>2, <1>3, <1>4

LEMMA PurgeSteps ==
  ASSUME AccountDeletionTypeOK, NEW f \in File, NEW w \in Worker,
         PurgeDelete(w) \/ PurgeAbort(w) \/ PurgeRemove(w), file'[f] # file[f]
  PROVE  /\ f = worker[w].file /\ worker[w].step \in {"delete", "abort", "remove"}
         /\ file'[f].row \in {file[f].row, "none"}
         /\ file'[f].owner = file[f].owner /\ file'[f].upload = file[f].upload
PROOF
  <1>0. file \in [File -> FileState] /\ file[f] \in FileState
    BY DEF AccountDeletionTypeOK
  <1>1. CASE PurgeDelete(w)
    BY <1>0, <1>1 DEF PurgeDelete, FileState
  <1>2. CASE PurgeAbort(w)
    BY <1>0, <1>2 DEF PurgeAbort, FileState
  <1>3. CASE PurgeRemove(w)
    BY <1>0, <1>3 DEF PurgeRemove, FileState
  <1> QED
    BY <1>1, <1>2, <1>3

(* What a step can do to a file. *)
Kept(f) ==
  /\ file[f].upload # "new" => file'[f].upload # "new"
  /\ file'[f].row # "none" => \/ file[f].row # "none" /\ file'[f].owner = file[f].owner
                              \/ Here(file'[f].owner)

LEMMA FilesKept ==
  ASSUME AccountDeletionTypeOK, Paired, Claimed, Emptied, [Next]_vars
  PROVE  \A f \in File : Kept(f)
PROOF
  <1>0. file \in [File -> FileState] /\ deletion \in [Deletion -> DeletionState]
    BY DEF AccountDeletionTypeOK
  <1> SUFFICES ASSUME NEW f \in File PROVE Kept(f)
    OBVIOUS
  <1>1. file[f] \in FileState
    BY <1>0
  <1>2. CASE file'[f] = file[f]
    BY <1>2 DEF Kept
  <1>3. ASSUME NEW a \in Account, CommitUpload(f, a) PROVE Kept(f)
    BY <1>0, <1>3 DEF CommitUpload, Kept, Here
  <1>4. ASSUME NEW g \in File, Publish(g) \/ MarkReady(g) \/ UploadBreaks(g) \/ Reconcile(g)
        PROVE  Kept(f)
    BY <1>4, UploadSteps DEF Kept
  <1>6. ASSUME NEW w \in Worker, Transfer(w) PROVE Kept(f)
    <2> DEFINE d == worker[w].event
    <2>1. d \in Deletion /\ Status(d) \in Begun /\ deletion[d].target \in Account
      BY <1>0, <1>6 DEF Transfer, Claimed, Working, PastClaim, DeletionState
    <2>2. CASE file'[f] # file[f]
      <3>1. f \in Rows(deletion[d].account) /\ file'[f] = [file[f] EXCEPT !.owner = deletion[d].target]
        BY <1>6, <2>2 DEF Transfer
      <3>2. Status(d) \in {"claimed", "failed"}
        BY <2>1, <3>1, OnlyOwnDeletion
      <3>3. Here(deletion[d].target)
        BY <1>6, <2>1, <3>2 DEF Paired, Transfer, Unfinished
      <3> QED
        BY <1>1, <2>1, <3>1, <3>3 DEF Kept, FileState, Here, Transfer
    <2> QED
      BY <1>2, <2>2
  <1>7. ASSUME NEW w \in Worker, PurgeDelete(w) \/ PurgeAbort(w) \/ PurgeRemove(w) PROVE Kept(f)
    BY <1>7, PurgeSteps DEF Kept
  <1>8. \A g \in File, a \in Account : g # f /\ CommitUpload(g, a) => file'[f] = file[f]
    BY <1>0 DEF CommitUpload
  <1> QED
    BY <1>2, <1>3, <1>4, <1>6, <1>7, <1>8, WhatChangesFiles

(* A file that is being purged stays its account's while it has a record. *)
LEMMA PurgedKept ==
  ASSUME AccountDeletionTypeOK, Paired, Claimed, Emptied, [Next]_vars,
         NEW u \in Worker, worker[u].step \in {"delete", "abort", "remove"}
  PROVE  LET f == worker[u].file IN
         file'[f].row # "none" => file[f].row # "none" /\ file'[f].owner = file[f].owner
PROOF
  <1> DEFINE f == worker[u].file
             e == worker[u].event
  <1>0. file \in [File -> FileState] /\ deletion \in [Deletion -> DeletionState]
    BY DEF AccountDeletionTypeOK
  <1>1. /\ f \in File /\ e \in Deletion /\ Status(e) \in Begun /\ deletion[e].target = Nobody
        /\ file[f].upload # "new"
        /\ file[f].row # "none" => file[f].owner = deletion[e].account
        /\ file[f] \in FileState
    BY <1>0 DEF Claimed, Working, PastClaim
  <1> HIDE DEF f, e
  <1> SUFFICES file'[f].row # "none" => file[f].row # "none" /\ file'[f].owner = file[f].owner
    BY DEF f
  <1>2. CASE file'[f] = file[f]
    BY <1>2
  <1>3. \A g \in File, a \in Account : CommitUpload(g, a) => file'[f] = file[f]
    BY <1>0, <1>1 DEF CommitUpload
  <1>4. ASSUME NEW g \in File, Publish(g) \/ MarkReady(g) \/ UploadBreaks(g) \/ Reconcile(g)
        PROVE  file'[f].row # "none" => file[f].row # "none" /\ file'[f].owner = file[f].owner
    BY <1>1, <1>4, UploadSteps
  <1>5. ASSUME NEW w \in Worker, Transfer(w) PROVE file'[f] = file[f]
    <2> DEFINE d == worker[w].event
    <2>1. d \in Deletion /\ Status(d) \in Begun /\ deletion[d].target # Nobody
      BY <1>5 DEF Transfer, Claimed, Working, PastClaim
    <2>2. f \notin Rows(deletion[d].account)
      <3> SUFFICES ASSUME f \in Rows(deletion[d].account) PROVE FALSE
        OBVIOUS
      <3>1. deletion[e].account = deletion[d].account
        BY <1>1 DEF Rows
      <3>2. d = e
        BY <1>1, <2>1, <3>1, OnlyOwnDeletion
      <3> QED
        BY <1>1, <2>1, <3>2
    <2> QED
      BY <1>1, <1>5, <2>2 DEF Transfer
  <1>6. ASSUME NEW w \in Worker, PurgeDelete(w) \/ PurgeAbort(w) \/ PurgeRemove(w)
        PROVE  file'[f].row # "none" => file[f].row # "none" /\ file'[f].owner = file[f].owner
    BY <1>1, <1>6, PurgeSteps
  <1> QED
    BY <1>2, <1>3, <1>4, <1>5, <1>6, WhatChangesFiles

(* Who has no files any more gets none. *)
LEMMA StaysEmpty ==
  ASSUME AccountDeletionTypeOK, Paired, Claimed, Emptied, [Next]_vars,
         NEW a \in Account, ~Here(a), Rows(a) = {}
  PROVE  Rows(a)' = {}
PROOF
  <1> SUFFICES ASSUME NEW f \in File, file'[f].row # "none", file'[f].owner = a PROVE FALSE
    BY DEF Rows
  <1>1. Kept(f)
    BY FilesKept
  <1>2. file[f].row # "none" /\ file[f].owner = a
    BY <1>1 DEF Kept, Here
  <1> QED
    BY <1>2 DEF Rows

LEMMA UploadsInv ==
  ASSUME AccountDeletionTypeOK, Uploads, [Next]_vars
  PROVE  Uploads'
PROOF
  <1>0. file \in [File -> FileState]
    BY DEF AccountDeletionTypeOK
  <1> SUFFICES ASSUME NEW f \in File
               PROVE  /\ file'[f].upload = "new" => file'[f].row = "none"
                      /\ file'[f].row = "ready" => file'[f].upload = "done"
    BY DEF Uploads
  <1>1. /\ file[f] \in FileState
        /\ file[f].upload = "new" => file[f].row = "none"
        /\ file[f].row = "ready" => file[f].upload = "done"
    BY <1>0 DEF Uploads
  <1>2. CASE UNCHANGED file
    BY <1>1, <1>2
  <1>3. ASSUME NEW g \in File, NEW a \in Account, CommitUpload(g, a)
        PROVE  /\ file'[f].upload = "new" => file'[f].row = "none"
               /\ file'[f].row = "ready" => file'[f].upload = "done"
    BY <1>0, <1>1, <1>3 DEF CommitUpload
  <1>4. ASSUME NEW g \in File, Publish(g) \/ MarkReady(g) \/ UploadBreaks(g) \/ Reconcile(g)
        PROVE  /\ file'[f].upload = "new" => file'[f].row = "none"
               /\ file'[f].row = "ready" => file'[f].upload = "done"
    BY <1>1, <1>4, UploadSteps
  <1>5. ASSUME NEW w \in Worker, Transfer(w)
        PROVE  /\ file'[f].upload = "new" => file'[f].row = "none"
               /\ file'[f].row = "ready" => file'[f].upload = "done"
    BY <1>0, <1>1, <1>5 DEF Transfer, FileState
  <1>6. ASSUME NEW w \in Worker, PurgeDelete(w) \/ PurgeAbort(w) \/ PurgeRemove(w)
        PROVE  /\ file'[f].upload = "new" => file'[f].row = "none"
               /\ file'[f].row = "ready" => file'[f].upload = "done"
    BY <1>1, <1>6, PurgeSteps
  <1> QED
    BY <1>2, <1>3, <1>4, <1>5, <1>6, WhatChangesFiles

-----------------------------------------------------------------------------
(* The workers.  What is known of a worker stays true while others move ... *)
LEMMA WorkingKept ==
  ASSUME AccountDeletionTypeOK, Paired, Claimed, Emptied, [Next]_vars,
         NEW u \in Worker, worker'[u] = worker[u]
  PROVE  Working(u)'
PROOF
  <1>0. PICK e, f : e = worker[u].event /\ f = worker[u].file
    OBVIOUS
  <1>1. Working(u)
    BY DEF Claimed
  <1>2. CASE worker[u].step = "idle"
    BY <1>1, <1>2 DEF Working, PastClaim
  <1>3. CASE worker[u].step # "idle"
    <2>1. e \in Deletion /\ Status(e) # "none"
      BY <1>0, <1>1, <1>3 DEF Working
    <2>2. Forward(e)
      BY <2>1, DeletionsGoForward
    <2>3. /\ worker[u].step \in PastClaim => Status(e) \in Begun /\ Status(e)' \in Begun
          /\ worker[u].step = "finish" => Status(e)' = "completed"
          /\ worker[u].step = "cancel" => Status(e)' \notin Unfinished
      BY <1>0, <1>1, <2>2 DEF Working, Forward, Unfinished
    <2>4. worker[u].step = "complete" => Rows(deletion[e].account)' = {}
      <3> SUFFICES ASSUME worker[u].step = "complete" PROVE Rows(deletion[e].account)' = {}
        OBVIOUS
      <3>1. Rows(deletion[e].account) = {} /\ Status(e) \in Begun
        BY <1>0, <1>1, <2>3 DEF Working, PastClaim
      <3>2. deletion[e].account \in Account /\ ~Here(deletion[e].account)
        BY <2>1, <3>1, NotHere
      <3>3. \A g \in File : file'[g].row # "none" => file'[g].owner # deletion[e].account
        BY <3>1, <3>2, FilesKept DEF Kept, Rows, Here
      <3> QED
        BY <2>2, <3>3 DEF Forward, Rows
    <2>5. worker[u].step \in {"delete", "abort", "remove"} =>
            /\ f \in File
            /\ deletion'[e].target = Nobody
            /\ file'[f].upload # "new"
            /\ file'[f].row # "none" => file'[f].owner = deletion'[e].account
      <3> SUFFICES ASSUME worker[u].step \in {"delete", "abort", "remove"}
                   PROVE  /\ f \in File
                          /\ deletion'[e].target = Nobody
                          /\ file'[f].upload # "new"
                          /\ file'[f].row # "none" => file'[f].owner = deletion'[e].account
        OBVIOUS
      <3>1. /\ f \in File /\ deletion[e].target = Nobody /\ file[f].upload # "new"
            /\ file[f].row # "none" => file[f].owner = deletion[e].account
        BY <1>0, <1>1 DEF Working
      <3>2. file'[f].upload # "new"
        BY <3>1, FilesKept DEF Kept
      <3>3. file'[f].row # "none" => file[f].row # "none" /\ file'[f].owner = file[f].owner
        BY <1>0, PurgedKept
      <3> QED
        BY <2>2, <3>1, <3>2, <3>3 DEF Forward
    <2>6. Status(e)' # "none"
      BY <2>2 DEF Forward
    <2> QED
      BY <1>0, <1>3, <2>1, <2>3, <2>4, <2>5, <2>6 DEF Working, Status
  <1> QED
    BY <1>2, <1>3

(* ... and is established by its own steps. *)
LEMMA WorkingSteps ==
  ASSUME AccountDeletionTypeOK, Paired, Claimed, Emptied, Uploads, Remembered, [Next]_vars,
         NEW w \in Worker, Work(w) \/ StepFails(w) \/ Crash(w) \/ RenewClaim(w)
  PROVE  Working(w)'
PROOF
  <1> PICK d, a, v : d = worker[w].event /\ a = deletion[d].account /\ v = worker'[w]
    OBVIOUS
  <1>0. /\ worker \in [Worker -> WorkerState] /\ worker[w] \in WorkerState
        /\ deletion \in [Deletion -> DeletionState] /\ file \in [File -> FileState]
        /\ event \in [Deletion -> EventState]
    BY DEF AccountDeletionTypeOK
  <1>1. /\ worker[w].step # "idle" => d \in Deletion /\ Status(d) # "none" /\ Forward(d)
        /\ Working(w)
    BY DeletionsGoForward DEF Claimed, Working
  <1>2. CASE v = worker[w]
    BY <1>2, WorkingKept
  <1>3. ASSUME v = Rested PROVE Working(w)'
    BY <1>3 DEF Working, Rested, PastClaim
  <1>4. ASSUME worker[w].step # "idle", v.event = d, v.step \in {"fail", "failDeletion"}
        PROVE  Working(w)'
    BY <1>1, <1>4 DEF Working, PastClaim, Forward
  <1>5. ASSUME NEW e \in Deletion, ClaimEvent(w, e) PROVE Working(w)'
    <2>1. v.event = e /\ v.step \in {"fail", "claim"} /\ UNCHANGED deletion
      BY <1>0, <1>5 DEF ClaimEvent
    <2>2. Status(e) # "none"
      BY <1>5 DEF ClaimEvent, Claimable, Remembered
    <2> QED
      BY <2>1, <2>2 DEF Working, Status, PastClaim
  <1>6. CASE ClaimDeletion(w)
    <2>1. /\ worker[w].step = "claim"
          /\ v = [worker[w] EXCEPT !.step = IF Status(d) \in Unfinished THEN "files" ELSE "cancel"]
          /\ deletion' = [deletion EXCEPT ![d].status =
                            IF @ \in {"queued", "failed"} THEN "claimed" ELSE @]
      BY <1>0, <1>6 DEF ClaimDeletion, Status
    <2>2. v.event = d /\ v.step = (IF Status(d) \in Unfinished THEN "files" ELSE "cancel")
      BY <1>0, <2>1 DEF WorkerState
    <2>3. d \in Deletion /\ deletion[d] \in DeletionState
      BY <1>0, <1>1, <2>1
    <2>4. Status(d) \in Unfinished => Status(d)' = "claimed"
      BY <1>0, <2>1, <2>3 DEF Status, Unfinished, DeletionState
    <2>5. Status(d) \notin Unfinished => Status(d)' = Status(d)
      BY <1>0, <2>1, <2>3 DEF Status, Unfinished, DeletionState
    <2> QED
      BY <1>1, <2>1, <2>2, <2>3, <2>4, <2>5 DEF Working, PastClaim, Begun, Status, Forward
  <1>7. CASE Transfer(w)
    <2>1. worker[w].step = "files" /\ Status(d) \in Begun /\ deletion[d].target # Nobody
          /\ v = [worker[w] EXCEPT !.step = IF MayTransfer(Rows(a)) THEN "complete" ELSE "fail"]
          /\ UNCHANGED deletion
      BY <1>0, <1>1, <1>7 DEF Transfer, Working, PastClaim
    <2>2. v.event = d /\ v.step = (IF MayTransfer(Rows(a)) THEN "complete" ELSE "fail")
      BY <1>0, <2>1 DEF WorkerState
    <2>3. CASE MayTransfer(Rows(a))
      <3>1. \A f \in File : f \in Rows(a) => file'[f].owner = deletion[d].target
        BY <1>0, <1>7, <2>3 DEF Transfer, MayTransfer, Settled, FileState
      <3>2. \A f \in File : f \notin Rows(a) => file'[f] = file[f]
        BY <1>7, <2>3 DEF Transfer
      <3>3. deletion[d].target # a
        BY <1>1, <2>1 DEF Paired
      <3>4. Rows(a)' = {}
        <4> SUFFICES ASSUME NEW f \in File, file'[f].row # "none", file'[f].owner = a
                     PROVE  FALSE
          BY <2>1 DEF Rows
        <4> QED
          BY <3>1, <3>2, <3>3 DEF Rows
      <3>5. v.step = "complete"
        BY <2>2, <2>3
      <3> QED
        BY <1>1, <2>1, <2>2, <3>4, <3>5 DEF Working, Status, PastClaim
    <2>4. CASE ~MayTransfer(Rows(a))
      BY <1>4, <2>1, <2>2, <2>4
    <2> QED
      BY <2>3, <2>4
  <1>8. CASE PurgeNext(w)
    <2>1. /\ worker[w].step = "files" /\ Status(d) \in Begun /\ deletion[d].target = Nobody
          /\ UNCHANGED <<deletion, file>>
      BY <1>1, <1>8 DEF PurgeNext, Working, PastClaim
    <2>2. CASE Rows(a) = {} /\ worker' = [worker EXCEPT ![w].step = "complete"]
      <3>1. v.event = d /\ v.step = "complete"
        BY <1>0, <2>2 DEF WorkerState
      <3>2. Rows(a)' = {}
        BY <2>1, <2>2 DEF Rows
      <3> QED
        BY <1>1, <2>1, <3>1, <3>2 DEF Working, Status, PastClaim
    <2>3. ASSUME NEW f \in Rows(a), worker' = [worker EXCEPT ![w].step = "delete", ![w].file = f]
          PROVE  Working(w)'
      <3>1. v.event = d /\ v.step = "delete" /\ v.file = f
        BY <1>0, <2>3 DEF WorkerState
      <3>2. f \in File /\ file[f].upload # "new" /\ file[f].owner = a
        BY DEF Rows, Uploads
      <3> QED
        BY <1>1, <2>1, <3>1, <3>2 DEF Working, Status, PastClaim
    <2> QED
      BY <1>8, <2>2, <2>3 DEF PurgeNext
  <1>9. CASE PurgeDelete(w) \/ PurgeAbort(w)
    <2>1. /\ worker[w].step \in {"delete", "abort"} /\ v.step \in {"abort", "remove"}
          /\ v.event = d /\ v.file = worker[w].file
          /\ UNCHANGED deletion
      BY <1>0, <1>9 DEF PurgeDelete, PurgeAbort, WorkerState
    <2> DEFINE f == worker[w].file
    <2>2. /\ f \in File /\ Status(d) \in Begun /\ deletion[d].target = Nobody
          /\ file[f].upload # "new"
          /\ file[f].row # "none" => file[f].owner = a
      BY <1>1, <2>1 DEF Working, PastClaim
    <2>3. file'[f].upload # "new" /\ (file'[f].row # "none" => file'[f].owner = a)
      BY <1>9, <2>2, PurgeSteps
    <2> QED
      BY <1>1, <2>1, <2>2, <2>3 DEF Working, Status, PastClaim
  <1>10. CASE PurgeRemove(w)
    <2>1. worker[w].step = "remove" /\ v.step = "files" /\ v.event = d /\ UNCHANGED deletion
      BY <1>0, <1>10 DEF PurgeRemove, WorkerState
    <2> QED
      BY <1>1, <2>1 DEF Working, Status, PastClaim
  <1>11. CASE CompleteDeletion(w)
    <2>1. /\ worker[w].step = "complete" /\ Status(d) \in Begun
          /\ v = [worker[w] EXCEPT !.step =
                    IF Status(d) \in {"claimed", "failed", "completed"} THEN "finish" ELSE "fail"]
          /\ IF Status(d) \in {"claimed", "failed"}
               THEN deletion' = [deletion EXCEPT ![d].status = "completed"]
               ELSE deletion' = deletion
      BY <1>0, <1>1, <1>11 DEF CompleteDeletion, Working, PastClaim, Status
    <2>2. v.event = d /\ v.step = "finish"
      BY <1>0, <2>1 DEF WorkerState, Begun
    <2>3. Status(d)' = "completed"
      BY <1>0, <1>1, <2>1 DEF Status, Begun, DeletionState
    <2> QED
      BY <1>1, <2>1, <2>2, <2>3 DEF Working, Status, PastClaim
  <1>12. CASE FinishEvent(w) \/ FailDeletion(w) \/ Crash(w)
    <2>1. v = Rested
      BY <1>0, <1>12 DEF FinishEvent, FailDeletion, Crash
    <2> QED
      BY <1>3, <2>1
  <1>13. CASE FailEvent(w)
    <2>1. worker[w].step = "fail"
          /\ v = IF Owns(w) THEN [worker[w] EXCEPT !.step = "failDeletion", !.file = Nobody]
                            ELSE Rested
      BY <1>0, <1>13 DEF FailEvent
    <2>2. CASE Owns(w)
      <3>1. v.event = d /\ v.step = "failDeletion"
        BY <1>0, <2>1, <2>2 DEF WorkerState
      <3> QED
        BY <1>4, <2>1, <3>1
    <2> QED
      BY <1>3, <2>1, <2>2
  <1>14. CASE StepFails(w)
    <2>1. worker[w].step # "idle" /\ v.step = "fail" /\ v.event = d
      BY <1>0, <1>14 DEF StepFails, WorkerState
    <2> QED
      BY <1>4, <2>1
  <1>15. CASE RenewClaim(w)
    <2>1. v = worker[w] \/ v = Rested
      BY <1>0, <1>15 DEF RenewClaim
    <2> QED
      BY <1>2, <1>3, <2>1
  <1> QED
    BY <1>5, <1>6, <1>7, <1>8, <1>9, <1>10, <1>11, <1>12, <1>13, <1>14, <1>15 DEF Work

LEMMA ClaimedInv ==
  ASSUME AccountDeletionTypeOK, Paired, Claimed, Emptied, Uploads, Remembered, [Next]_vars
  PROVE  Claimed'
PROOF
  <1> SUFFICES ASSUME NEW u \in Worker PROVE Working(u)'
    BY DEF Claimed
  <1>1. CASE worker'[u] = worker[u]
    BY <1>1, WorkingKept
  <1>2. CASE worker'[u] # worker[u]
    <2>1. Work(u) \/ StepFails(u) \/ Crash(u) \/ RenewClaim(u)
      BY <1>2, WhatChangesWorkers
    <2> QED
      BY <2>1, WorkingSteps
  <1> QED
    BY <1>1, <1>2

LEMMA EmptiedInv ==
  ASSUME AccountDeletionTypeOK, Paired, Claimed, Emptied, [Next]_vars
  PROVE  Emptied'
PROOF
  <1>0. life \in [Account -> {"active", "disabled", "pending", "deleted"}]
    BY DEF AccountDeletionTypeOK
  <1> SUFFICES ASSUME NEW a \in Account, life'[a] = "deleted" PROVE Rows(a)' = {}
    BY DEF Emptied, DeletedOwnNothing
  <1>1. CASE life[a] = "deleted"
    BY <1>1, StaysEmpty DEF Emptied, DeletedOwnNothing, Here
  <1>2. CASE life[a] # "deleted"
    <2>1. PICK w \in Worker : CompleteDeletion(w)
      BY <1>0, <1>2, WhatChangesDeletions
         DEF StartDeletion, CancelDeletion, Enable, ClaimDeletion, FailDeletion
    <2> DEFINE d == worker[w].event
    <2>2. /\ Rows(deletion[d].account) = {} /\ d \in Deletion
          /\ life' = [life EXCEPT ![deletion[d].account] = "deleted"]
          /\ UNCHANGED file
      BY <1>2, <2>1 DEF CompleteDeletion, Claimed, Working
    <2>3. a = deletion[d].account
      BY <1>0, <1>2, <2>2
    <2> QED
      BY <2>2, <2>3 DEF Rows
  <1> QED
    BY <1>1, <1>2

-----------------------------------------------------------------------------
(* The events. *)
LEMMA RememberedInv ==
  ASSUME AccountDeletionTypeOK, Claimed, Remembered, [Next]_vars
  PROVE  Remembered'
PROOF
  <1>0. event \in [Deletion -> EventState] /\ deletion \in [Deletion -> DeletionState]
    BY DEF AccountDeletionTypeOK
  <1> SUFFICES ASSUME NEW d \in Deletion
               PROVE  /\ Status(d)' = "none" <=> event'[d].state = "none"
                      /\ Status(d)' \in Unfinished => event'[d].state \notin {"completed", "canceled"}
    BY DEF Remembered
  <1> DEFINE Goal == /\ Status(d)' = "none" <=> event'[d].state = "none"
                     /\ Status(d)' \in Unfinished => event'[d].state \notin {"completed", "canceled"}
  <1>1. /\ Status(d) = "none" <=> event[d].state = "none"
        /\ Status(d) \in Unfinished => event[d].state \notin {"completed", "canceled"}
        /\ event[d] \in EventState
    BY <1>0 DEF Remembered
  <1>2. ASSUME NEW e \in Deletion, NEW a \in Account, NEW t \in Account \cup {Nobody},
               StartDeletion(e, a, t)
        PROVE  Goal
    BY <1>0, <1>1, <1>2 DEF StartDeletion, Status, EventState
  <1>3. ASSUME ~\E e \in Deletion, a \in Account, t \in Account \cup {Nobody} :
                  StartDeletion(e, a, t)
        PROVE  /\ Status(d)' = "none" <=> Status(d) = "none"
               /\ Status(d)' \in Unfinished => Status(d) \in Unfinished
    <2>1. Status(d) # "none" => Forward(d)
      BY DeletionsGoForward
    <2>2. Status(d) = "none" => Status(d)' = "none"
      <3>1. ASSUME NEW e \in Deletion, CancelDeletion(e), Status(d) = "none"
            PROVE  Status(d)' = "none"
        BY <1>0, <3>1 DEF CancelDeletion, MayBeCanceled, Status
      <3>2. ASSUME NEW w \in Worker, Status(d) = "none",
                   ClaimDeletion(w) \/ CompleteDeletion(w) \/ FailDeletion(w)
            PROVE  Status(d)' = "none"
        <4>1. worker[w].event # d
          BY <3>2 DEF ClaimDeletion, CompleteDeletion, FailDeletion, Claimed, Working
        <4> QED
          BY <1>0, <3>2, <4>1 DEF ClaimDeletion, CompleteDeletion, FailDeletion, Status
      <3> QED
        BY <1>3, <3>1, <3>2, WhatChangesDeletions DEF Enable, Status
    <2> QED
      BY <2>1, <2>2 DEF Forward, Unfinished
  <1>4. ASSUME ~\E e \in Deletion, a \in Account, t \in Account \cup {Nobody} :
                  StartDeletion(e, a, t),
               event'[d].state = "none" <=> event[d].state = "none",
               event'[d].state \in {"completed", "canceled"} =>
                 event[d].state \in {"completed", "canceled"} \/ Status(d) \notin Unfinished
        PROVE  Goal
    BY <1>1, <1>3, <1>4
  <1>5. CASE event'[d].state = event[d].state
    BY <1>2, <1>4, <1>5
  <1>6. ASSUME NEW e \in Deletion, Deliver(e) PROVE Goal
    <2>1. \/ event'[d].state = event[d].state
          \/ event[d].state = "outbox" /\ event'[d].state = "queued"
      BY <1>0, <1>1, <1>6 DEF Deliver, EventState
    <2> QED
      BY <1>2, <1>4, <2>1
  <1>7. ASSUME NEW w \in Worker, NEW e \in Deletion, ClaimEvent(w, e) PROVE Goal
    <2>1. \/ event'[d].state = event[d].state
          \/ event[d].state # "none" /\ event'[d].state = "claimed"
      BY <1>0, <1>1, <1>7 DEF ClaimEvent, Claimable
    <2> QED
      BY <1>2, <1>4, <2>1
  <1>8. ASSUME NEW w \in Worker, FinishEvent(w) PROVE Goal
    <2>1. CASE Owns(w) /\ d = worker[w].event
      <3>1. Status(d) \notin Unfinished
        BY <1>8, <2>1 DEF FinishEvent, Claimed, Working, Unfinished
      <3>2. event[d].state = "claimed" /\ event'[d].state \in {"completed", "canceled"}
        BY <1>0, <1>1, <1>8, <2>1 DEF FinishEvent, Owns, EventState
      <3> QED
        BY <1>2, <1>4, <3>1, <3>2
    <2>2. CASE ~(Owns(w) /\ d = worker[w].event)
      BY <1>0, <1>5, <1>8, <2>2 DEF FinishEvent
    <2> QED
      BY <2>1, <2>2
  <1>9. ASSUME NEW w \in Worker, FailEvent(w) PROVE Goal
    <2>1. CASE Owns(w) /\ d = worker[w].event
      <3>1. event[d].state = "claimed" /\ event'[d].state = "failed"
        BY <1>0, <1>1, <1>9, <2>1 DEF FailEvent, Owns, EventState
      <3> QED
        BY <1>2, <1>4, <3>1
    <2>2. CASE ~(Owns(w) /\ d = worker[w].event)
      BY <1>0, <1>5, <1>9, <2>2 DEF FailEvent
    <2> QED
      BY <2>1, <2>2
  <1>10. ASSUME NEW e \in Deletion, LeaseRunsOut(e) \/ Stall(e) PROVE Goal
    BY <1>0, <1>1, <1>5, <1>10 DEF LeaseRunsOut, Stall, EventState
  <1>11. ASSUME NEW w \in Worker, RenewClaim(w) PROVE Goal
    BY <1>0, <1>1, <1>5, <1>11 DEF RenewClaim, EventState
  <1> QED
    BY <1>2, <1>5, <1>6, <1>7, <1>8, <1>9, <1>10, <1>11, WhatChangesEvents

-----------------------------------------------------------------------------
(* The attempts. *)
LEMMA MoreAllowed ==
  ASSUME AccountDeletionTypeOK, faults' \in Nat, faults' <= faults
  PROVE  /\ Allowed \in Int /\ Allowed' \in Int /\ Allowed <= Allowed'
         /\ faults' < faults => Allowed < Allowed'
PROOF
  <1>1. Tries \in Int /\ MaxFaults \in Int /\ faults \in Int /\ faults' \in Int
    BY TriesArePositive, FaultsAreBounded DEF AccountDeletionTypeOK
  <1>2. \A x, y, m, n \in Int :
          n <= m => /\ x + y - m \in Int /\ x + y - n \in Int
                    /\ x + y - m <= x + y - n
                    /\ n < m => x + y - m < x + y - n
    OBVIOUS
  <1> QED
    BY <1>1, <1>2 DEF Allowed

(* A step that claims nothing ... *)
LEMMA PaidKept ==
  ASSUME AccountDeletionTypeOK, Claimed, Paid, faults' \in Nat, faults' <= faults,
         \A d \in Deletion :
           /\ event'[d].attempts = event[d].attempts
           /\ event'[d].state = "claimed" => event[d].state = "claimed"
           /\ event'[d].state \in {"none", "outbox", "queued"} =>
                event[d].state \in {"none", "outbox", "queued"}
           /\ Deserted(d)' => Deserted(d) \/ faults' < faults,
         \A w \in Worker :
           \/ worker'[w].step = "idle"
           \/ /\ worker[w].step # "idle"
              /\ worker'[w].event = worker[w].event /\ worker'[w].attempt = worker[w].attempt
              /\ worker'[w].step = "failDeletion" => worker[w].step = "failDeletion" \/ ~Owns(w)'
  PROVE  Paid'
PROOF
  <1>1. /\ Allowed \in Int /\ Allowed' \in Int /\ Allowed <= Allowed'
        /\ faults' < faults => Allowed < Allowed'
    BY MoreAllowed
  <1>2. \A d \in Deletion : event[d].attempts \in Nat
    BY TriesArePositive, FaultsAreBounded DEF AccountDeletionTypeOK, EventState, Attempt
  <1>3. \A d \in Deletion : event'[d].attempts <= Allowed'
    <2> HIDE DEF Allowed
    <2> QED
      BY <1>1, <1>2 DEF Paid
  <1>4. \A d \in Deletion : Deserted(d)' => event'[d].attempts < Allowed'
    <2> SUFFICES ASSUME NEW d \in Deletion, Deserted(d)' PROVE event[d].attempts < Allowed'
      OBVIOUS
    <2>1. event[d].attempts <= Allowed /\ (Deserted(d) => event[d].attempts < Allowed)
      BY DEF Paid
    <2>2. Deserted(d) \/ faults' < faults
      OBVIOUS
    <2> QED
      BY <1>1, <1>2, <2>1, <2>2
  <1>5. ASSUME NEW w \in Worker, worker'[w].step # "idle"
        PROVE  worker'[w].attempt <= event'[worker'[w].event].attempts
    BY <1>5 DEF Claimed, Working, Paid
  <1>6. ASSUME NEW w \in Worker, worker'[w].step = "failDeletion" PROVE ~Owns(w)'
    <2>1. worker[w].event \in Deletion
      BY <1>6 DEF Claimed, Working
    <2>2. worker[w].step = "failDeletion" => ~Owns(w)
      BY DEF Paid
    <2> QED
      BY <1>6, <2>1, <2>2 DEF Owns
  <1> QED
    BY <1>3, <1>4, <1>5, <1>6 DEF Paid

(* ... and the claim, the one step that counts. *)
LEMMA PaidClaim ==
  ASSUME AccountDeletionTypeOK, Claimed, Paid, NEW w \in Worker, NEW d \in Deletion,
         ClaimEvent(w, d)
  PROVE  Paid' /\ event'[d].attempts \in Attempt
PROOF
  <1>0. /\ event \in [Deletion -> EventState] /\ worker \in [Worker -> WorkerState]
        /\ event[d] \in EventState /\ worker[w] \in WorkerState /\ faults \in 0 .. MaxFaults
    BY DEF AccountDeletionTypeOK
  <1>1. Tries \in Nat /\ Tries >= 1 /\ MaxFaults \in Nat /\ event[d].attempts \in Nat
    BY <1>0, TriesArePositive, FaultsAreBounded DEF EventState, Attempt
  <1>2. UNCHANGED Allowed
    BY DEF ClaimEvent, Allowed
  <1>3. /\ event'[d] = [state |-> "claimed", attempts |-> event[d].attempts + 1, expired |-> FALSE]
        /\ \A e \in Deletion : e # d => event'[e] = event[e]
        /\ worker[w].step = "idle"
        /\ worker'[w].event = d /\ worker'[w].attempt = event[d].attempts + 1
        /\ worker'[w].step \in {"fail", "claim"}
        /\ \A u \in Worker : u # w => worker'[u] = worker[u]
    BY <1>0 DEF ClaimEvent
  <1>4. event[d].attempts + 1 <= Allowed
    <2>1. CASE event[d].state = "queued"
      BY <1>0, <1>1, <2>1 DEF Paid, Allowed
    <2>2. CASE event[d].state = "failed" /\ event[d].attempts < Tries
      BY <1>0, <1>1, <2>2 DEF Allowed
    <2>3. CASE event[d].state = "claimed" /\ event[d].expired
      <3>1. event[d].attempts < Allowed
        BY <2>3 DEF Paid, Deserted
      <3> QED
        BY <1>0, <1>1, <3>1 DEF Allowed
    <2> QED
      BY <2>1, <2>2, <2>3 DEF ClaimEvent, Claimable
  <1>5. event'[d].attempts \in Attempt
    BY <1>0, <1>1, <1>3, <1>4 DEF Allowed, Attempt
  <1>6. Owns(w)' /\ ~Deserted(d)'
    <2>1. Owns(w)'
      BY <1>3, NobodyIsNothing DEF Owns
    <2>2. Attended(d)'
      BY <1>3, <2>1 DEF Attended
    <2> QED
      BY <1>3, <2>1, <2>2 DEF Deserted
  <1>7. ASSUME NEW e \in Deletion, e # d PROVE Deserted(e)' => Deserted(e)
    <2>1. ASSUME NEW u \in Worker, worker[u].event = e, Owns(u)
          PROVE  worker'[u].event = e /\ Owns(u)'
      <3>1. worker[u].step # "idle"
        BY <2>1, NobodyIsNothing DEF Claimed, Working, Rested
      <3> QED
        BY <1>3, <1>7, <2>1, <3>1 DEF Owns
    <2> QED
      BY <1>3, <1>7, <2>1 DEF Deserted, Attended
  <1>8. \A e \in Deletion : Deserted(e)' => event'[e].attempts < Allowed'
    BY <1>2, <1>3, <1>6, <1>7 DEF Paid
  <1>9. \A e \in Deletion : event'[e].attempts <= Allowed'
    BY <1>2, <1>3, <1>4 DEF Paid
  <1>10. \A e \in Deletion : event'[e].state \in {"none", "outbox", "queued"} =>
           event'[e].attempts = 0
    BY <1>3 DEF Paid
  <1>11. ASSUME NEW u \in Worker, worker'[u].step # "idle"
         PROVE  worker'[u].attempt <= event'[worker'[u].event].attempts
    <2>1. CASE u = w
      BY <1>1, <1>3, <2>1
    <2>2. CASE u # w
      <3>1. /\ worker'[u] = worker[u] /\ worker[u].event \in Deletion
            /\ worker[u].attempt <= event[worker[u].event].attempts
            /\ worker[u].attempt \in Nat
        BY <1>0, <1>1, <1>3, <1>11, <2>2 DEF Claimed, Working, Paid, WorkerState, Attempt
      <3>2. CASE worker[u].event = d
        BY <1>1, <1>3, <3>1, <3>2
      <3> QED
        BY <1>3, <3>1, <3>2
    <2> QED
      BY <2>1, <2>2
  <1>12. ASSUME NEW u \in Worker, worker'[u].step = "failDeletion" PROVE ~Owns(u)'
    <2>1. /\ u # w /\ worker'[u] = worker[u] /\ worker[u].event \in Deletion /\ ~Owns(u)
          /\ worker[u].attempt <= event[worker[u].event].attempts
          /\ worker[u].attempt \in Nat
      BY <1>0, <1>1, <1>3, <1>12 DEF Claimed, Working, Paid, WorkerState, Attempt
    <2>2. CASE worker[u].event = d
      <3>1. event'[d].attempts # worker[u].attempt
        BY <1>1, <1>3, <2>1, <2>2
      <3> QED
        BY <2>1, <2>2, <3>1 DEF Owns
    <2> QED
      BY <1>3, <2>1, <2>2 DEF Owns
  <1> QED
    BY <1>5, <1>8, <1>9, <1>10, <1>11, <1>12 DEF Paid

(* Whose own steps leave an event claimed stays the one that owns it. *)
LEMMA StaysAttended ==
  ASSUME Claimed, NEW d \in Deletion, event'[d].state = "claimed",
         event'[d].attempts = event[d].attempts, event[d].state = "claimed",
         \A w \in Worker : \/ worker'[w].event = worker[w].event
                              /\ worker'[w].attempt = worker[w].attempt
                           \/ worker[w].event # d
                           \/ ~Owns(w)
  PROVE  Attended(d) => Attended(d)'
  BY DEF Attended, Owns

LEMMA PaidInv ==
  ASSUME AccountDeletionTypeOK, Claimed, Remembered, Paid, [Next]_vars
  PROVE  Paid'
PROOF
  <1>0. /\ event \in [Deletion -> EventState] /\ worker \in [Worker -> WorkerState]
        /\ faults \in Nat /\ faults <= faults
    BY FaultsAreBounded DEF AccountDeletionTypeOK
  <1>1. \A d \in Deletion : event[d] \in EventState
    BY <1>0
  <1>2. \A u \in Worker : worker[u] \in WorkerState /\ Working(u)
    BY <1>0 DEF Claimed
  <1>3. faults' \in Nat /\ faults' <= faults
    <2>1. \/ faults' = faults
          \/ faults > 0 /\ faults' = faults - 1
      BY DEF Next, vars, Work, StartDeletion, CancelDeletion, Enable, Deliver, CommitUpload,
         Publish, MarkReady, UploadBreaks, Reconcile, ClaimEvent, ClaimDeletion, Transfer,
         PurgeNext, PurgeDelete, PurgeAbort, PurgeRemove, CompleteDeletion, FinishEvent,
         FailEvent, FailDeletion, StepFails, Crash, LeaseRunsOut, Stall, RenewClaim
    <2> QED
      BY <1>0, <2>1
  (* The events other than those a step is about. *)
  <1>4. ASSUME UNCHANGED event,
               \A w \in Worker : \/ worker'[w].event = worker[w].event
                                    /\ worker'[w].attempt = worker[w].attempt
                                 \/ ~Owns(w),
               \A w \in Worker :
                 \/ worker'[w].step = "idle"
                 \/ /\ worker[w].step # "idle"
                    /\ worker'[w].event = worker[w].event
                    /\ worker'[w].attempt = worker[w].attempt
                    /\ worker'[w].step = "failDeletion" => worker[w].step = "failDeletion"
        PROVE  Paid'
    <2>1. \A d \in Deletion : Deserted(d)' => Deserted(d)
      BY <1>4, StaysAttended DEF Deserted
    <2> QED
      BY <1>3, <1>4, <2>1, PaidKept
  <1>5. CASE UNCHANGED <<event, worker>>
    <2>1. \A w \in Worker : worker[w].step # "idle" \/ worker'[w].step = "idle"
      BY <1>5
    <2> QED
      BY <1>4, <1>5, <2>1
  <1>6. ASSUME NEW d \in Deletion, UNCHANGED worker,
               \A e \in Deletion : e # d => event'[e] = event[e],
               event[d].attempts = 0, event'[d].attempts = 0,
               event[d].state \in {"none", "outbox"}, event'[d].state # "claimed"
        PROVE  Paid'
    <2>1. \A e \in Deletion : Deserted(e)' => Deserted(e)
      BY <1>6, StaysAttended DEF Deserted
    <2>2. \A w \in Worker : worker'[w].step = "idle" \/ worker[w].step # "idle"
      BY <1>6
    <2>3. \A e \in Deletion :
            /\ event'[e].attempts = event[e].attempts
            /\ event'[e].state = "claimed" => event[e].state = "claimed"
            /\ event'[e].state \in {"none", "outbox", "queued"} =>
                 event[e].state \in {"none", "outbox", "queued"}
      BY <1>6
    <2> QED
      BY <1>3, <1>6, <2>1, <2>2, <2>3, PaidKept
  <1>7. ASSUME NEW d \in Deletion, NEW a \in Account, NEW t \in Account \cup {Nobody},
               StartDeletion(d, a, t)
        PROVE  Paid'
    <2>1. event[d].state = "none" /\ event[d].attempts = 0
      BY <1>7 DEF StartDeletion, Remembered, Paid, Status
    <2>2. /\ \A e \in Deletion : e # d => event'[e] = event[e]
          /\ event'[d].attempts = event[d].attempts /\ event'[d].state = "outbox"
          /\ UNCHANGED worker
      BY <1>0, <1>1, <1>7 DEF StartDeletion, EventState
    <2> QED
      BY <1>6, <2>1, <2>2
  <1>8. ASSUME NEW d \in Deletion, Deliver(d) PROVE Paid'
    <2>1. event[d].state = "outbox" /\ event[d].attempts = 0
      BY <1>8 DEF Deliver, Paid
    <2>2. /\ \A e \in Deletion : e # d => event'[e] = event[e]
          /\ event'[d].attempts = event[d].attempts /\ event'[d].state = "queued"
          /\ UNCHANGED worker
      BY <1>0, <1>1, <1>8 DEF Deliver, EventState
    <2> QED
      BY <1>6, <2>1, <2>2
  <1>9. ASSUME NEW w \in Worker, UNCHANGED event, worker[w].step # "idle",
               \A u \in Worker : u # w => worker'[u] = worker[u],
               worker'[w].event = worker[w].event, worker'[w].attempt = worker[w].attempt,
               worker'[w].step # "failDeletion"
        PROVE  Paid'
    BY <1>4, <1>9
  <1>10. ASSUME NEW w \in Worker, UNCHANGED event, ~Owns(w), worker'[w] = Rested,
                \A u \in Worker : u # w => worker'[u] = worker[u]
         PROVE  Paid'
    <2>1. worker'[w].step = "idle"
      BY <1>10 DEF Rested
    <2> QED
      BY <1>4, <1>10, <2>1
  <1>11. ASSUME NEW w \in Worker,
                \/ ClaimDeletion(w) \/ Transfer(w) \/ PurgeNext(w) \/ PurgeDelete(w)
                \/ PurgeAbort(w) \/ PurgeRemove(w) \/ CompleteDeletion(w) \/ StepFails(w)
         PROVE  Paid'
    <2>1. \E s \in {"files", "cancel", "complete", "fail", "delete", "abort", "remove", "finish"} :
            \/ worker' = [worker EXCEPT ![w].step = s]
            \/ \E f \in File \cup {Nobody} : worker' = [worker EXCEPT ![w].step = s, ![w].file = f]
      <3>1. CASE ClaimDeletion(w) \/ Transfer(w)
        BY <3>1 DEF ClaimDeletion, Transfer
      <3>2. CASE PurgeNext(w)
        BY <3>2 DEF PurgeNext, Rows
      <3>3. CASE PurgeDelete(w) \/ PurgeAbort(w) \/ PurgeRemove(w)
        BY <3>3 DEF PurgeDelete, PurgeAbort, PurgeRemove
      <3>4. CASE CompleteDeletion(w) \/ StepFails(w)
        BY <3>4 DEF CompleteDeletion, StepFails
      <3> QED
        BY <1>11, <3>1, <3>2, <3>3, <3>4
    <2>2. /\ worker'[w].event = worker[w].event /\ worker'[w].attempt = worker[w].attempt
          /\ worker'[w].step # "failDeletion"
          /\ \A u \in Worker : u # w => worker'[u] = worker[u]
      BY <1>0, <1>2, <2>1 DEF WorkerState
    <2>3. UNCHANGED event /\ worker[w].step # "idle"
      BY <1>11 DEF ClaimDeletion, Transfer, PurgeNext, PurgeDelete, PurgeAbort, PurgeRemove,
         CompleteDeletion, StepFails
    <2> QED
      BY <1>9, <2>2, <2>3
  <1>12. ASSUME NEW w \in Worker, FinishEvent(w) \/ FailEvent(w) PROVE Paid'
    <2>0. worker[w].event \in Deletion /\ worker[w].step \notin {"idle", "failDeletion"}
      BY <1>2, <1>12 DEF FinishEvent, FailEvent, Working
    <2>1. CASE ~Owns(w)
      <3>1. UNCHANGED event /\ worker' = [worker EXCEPT ![w] = Rested]
        BY <1>12, <2>1 DEF FinishEvent, FailEvent
      <3> QED
        BY <1>0, <1>10, <2>1, <3>1
    <2>2. CASE Owns(w)
      <3>1. PICK d \in Deletion : d = worker[w].event
        BY <2>0
      <3>2. /\ \A e \in Deletion : e # d => event'[e] = event[e]
            /\ event'[d].attempts = event[d].attempts
            /\ event'[d].state \in {"completed", "canceled", "failed"}
        BY <1>0, <1>1, <1>12, <2>2, <3>1 DEF FinishEvent, FailEvent, EventState
      <3>3. /\ \A u \in Worker : u # w => worker'[u] = worker[u]
            /\ \/ worker'[w].step = "idle"
               \/ /\ worker'[w].event = worker[w].event
                  /\ worker'[w].attempt = worker[w].attempt
        <4>1. CASE FinishEvent(w)
          BY <1>0, <4>1 DEF FinishEvent, Rested
        <4>2. CASE FailEvent(w)
          <5>1. worker' = [worker EXCEPT ![w] = [@ EXCEPT !.step = "failDeletion",
                                                          !.file = Nobody]]
            BY <2>2, <4>2 DEF FailEvent
          <5> QED
            BY <1>0, <1>2, <5>1 DEF WorkerState
        <4> QED
          BY <1>12, <4>1, <4>2
      <3>4. \A e \in Deletion : Deserted(e)' => Deserted(e)
        <4> SUFFICES ASSUME NEW e \in Deletion, Deserted(e)' PROVE Deserted(e)
          OBVIOUS
        <4>1. e # d /\ event'[e] = event[e] /\ event[e].state = "claimed"
          BY <3>2 DEF Deserted
        <4>2. Attended(e) => Attended(e)'
          BY <3>1, <3>3, <4>1, StaysAttended
        <4> QED
          BY <4>1, <4>2 DEF Deserted
      <3>5. ~Owns(w)' \/ worker'[w].step = "idle"
        BY <3>1, <3>2, <3>3 DEF Owns
      <3>6. \A u \in Worker :
              \/ worker'[u].step = "idle"
              \/ /\ worker[u].step # "idle"
                 /\ worker'[u].event = worker[u].event /\ worker'[u].attempt = worker[u].attempt
                 /\ worker'[u].step = "failDeletion" =>
                      worker[u].step = "failDeletion" \/ ~Owns(u)'
        BY <2>0, <3>3, <3>5
      <3>7. \A e \in Deletion :
              /\ event'[e].attempts = event[e].attempts
              /\ event'[e].state = "claimed" => event[e].state = "claimed"
              /\ event'[e].state \in {"none", "outbox", "queued"} =>
                   event[e].state \in {"none", "outbox", "queued"}
        BY <3>2
      <3> QED
        BY <1>3, <3>4, <3>6, <3>7, PaidKept
    <2> QED
      BY <2>1, <2>2
  <1>13. ASSUME NEW w \in Worker, FailDeletion(w) PROVE Paid'
    <2>1. ~Owns(w) /\ worker' = [worker EXCEPT ![w] = Rested] /\ UNCHANGED event
      BY <1>13 DEF FailDeletion, Paid
    <2> QED
      BY <1>0, <1>10, <2>1
  <1>14. ASSUME faults' < faults,
                \A d \in Deletion : event'[d].attempts = event[d].attempts
                                    /\ event'[d].state = event[d].state,
                \A u \in Worker : worker'[u] = worker[u] \/ worker'[u].step = "idle"
         PROVE  Paid'
    <2>1. \A u \in Worker :
            \/ worker'[u].step = "idle"
            \/ /\ worker[u].step # "idle"
               /\ worker'[u].event = worker[u].event /\ worker'[u].attempt = worker[u].attempt
               /\ worker'[u].step = "failDeletion" =>
                    worker[u].step = "failDeletion" \/ ~Owns(u)'
      BY <1>14
    <2> QED
      BY <1>3, <1>14, <2>1, PaidKept
  <1>15. ASSUME NEW w \in Worker, Crash(w) PROVE Paid'
    <2>1. faults' < faults
      BY <1>0, <1>15 DEF Crash
    <2>2. \A u \in Worker : worker'[u] = worker[u] \/ worker'[u].step = "idle"
      BY <1>0, <1>15 DEF Crash, Rested
    <2> QED
      BY <1>14, <1>15, <2>1, <2>2 DEF Crash
  <1>16. ASSUME NEW d \in Deletion, Stall(d) PROVE Paid'
    <2>1. faults' < faults
      BY <1>0, <1>16 DEF Stall
    <2>2. \A e \in Deletion : event'[e].attempts = event[e].attempts
                              /\ event'[e].state = event[e].state
      BY <1>0, <1>1, <1>16 DEF Stall, EventState
    <2> QED
      BY <1>14, <1>16, <2>1, <2>2 DEF Stall
  <1>17. ASSUME UNCHANGED worker,
                \A e \in Deletion : /\ event'[e].attempts = event[e].attempts
                                    /\ event'[e].state = event[e].state
                                    /\ event'[e].expired => event[e].expired \/ ~Attended(e)
         PROVE  Paid'
    <2>1. \A e \in Deletion : Deserted(e)' => Deserted(e)
      BY <1>17, StaysAttended DEF Deserted
    <2>2. \A u \in Worker : worker'[u].step = "idle" \/ worker[u].step # "idle"
      BY <1>17
    <2> QED
      BY <1>3, <1>17, <2>1, <2>2, PaidKept
  <1>18. ASSUME NEW d \in Deletion, LeaseRunsOut(d) PROVE Paid'
    <2>1. \A e \in Deletion : /\ event'[e].attempts = event[e].attempts
                              /\ event'[e].state = event[e].state
                              /\ event'[e].expired => event[e].expired \/ ~Attended(e)
      BY <1>0, <1>1, <1>18 DEF LeaseRunsOut, EventState
    <2> QED
      BY <1>17, <1>18, <2>1 DEF LeaseRunsOut
  <1>19. ASSUME NEW w \in Worker, RenewClaim(w) PROVE Paid'
    <2>1. CASE Owns(w)
      <3>1. UNCHANGED worker /\ event' = [event EXCEPT ![worker[w].event].expired = FALSE]
        BY <1>19, <2>1 DEF RenewClaim
      <3>2. \A e \in Deletion : /\ event'[e].attempts = event[e].attempts
                                /\ event'[e].state = event[e].state
                                /\ event'[e].expired => event[e].expired \/ ~Attended(e)
        BY <1>0, <1>1, <3>1 DEF EventState
      <3> QED
        BY <1>17, <3>1, <3>2
    <2>2. CASE ~Owns(w)
      <3>1. worker' = [worker EXCEPT ![w] = Rested] /\ UNCHANGED event
        BY <1>19, <2>2 DEF RenewClaim
      <3> QED
        BY <1>0, <1>10, <2>2, <3>1
    <2> QED
      BY <2>1, <2>2
  <1> QED
    BY <1>5, <1>7, <1>8, <1>11, <1>12, <1>13, <1>15, <1>16, <1>18, <1>19, PaidClaim,
       WhatChangesEvents, WhatChangesWorkers DEF Work

-----------------------------------------------------------------------------
LEMMA TypeInv ==
  ASSUME IInv, [Next]_vars
  PROVE  AccountDeletionTypeOK'
PROOF
  <1>0. /\ AccountDeletionTypeOK /\ Paired /\ Claimed /\ Remembered /\ Paid
        /\ life \in [Account -> {"active", "disabled", "pending", "deleted"}]
        /\ deletion \in [Deletion -> DeletionState]
        /\ event \in [Deletion -> EventState]
        /\ file \in [File -> FileState]
        /\ worker \in [Worker -> WorkerState]
        /\ faults \in 0 .. MaxFaults
    BY DEF IInv, AccountDeletionTypeOK
  <1>L. life \in [Account -> {"active", "disabled", "pending", "deleted"}]
    BY <1>0
  <1>D. deletion \in [Deletion -> DeletionState]
    BY <1>0
  <1>E. event \in [Deletion -> EventState]
    BY <1>0
  <1>F. file \in [File -> FileState]
    BY <1>0
  <1>W. worker \in [Worker -> WorkerState]
    BY <1>0
  <1>1. ASSUME UNCHANGED <<life, deletion>>
        PROVE  /\ life' \in [Account -> {"active", "disabled", "pending", "deleted"}]
               /\ deletion' \in [Deletion -> DeletionState]
    BY <1>L, <1>D, <1>1
  <1>2. /\ life' \in [Account -> {"active", "disabled", "pending", "deleted"}]
        /\ deletion' \in [Deletion -> DeletionState]
    <2>1. ASSUME NEW d \in Deletion, NEW a \in Account, NEW t \in Account \cup {Nobody},
                 StartDeletion(d, a, t)
          PROVE  /\ life' \in [Account -> {"active", "disabled", "pending", "deleted"}]
                 /\ deletion' \in [Deletion -> DeletionState]
      BY <1>L, <1>D, <2>1 DEF StartDeletion, DeletionState, Unfinished
    <2>2. ASSUME NEW d \in Deletion, CancelDeletion(d)
          PROVE  /\ life' \in [Account -> {"active", "disabled", "pending", "deleted"}]
                 /\ deletion' \in [Deletion -> DeletionState]
      BY <1>L, <1>D, <2>2 DEF CancelDeletion, DeletionState, Unfinished
    <2>3. ASSUME NEW a \in Account, Enable(a)
          PROVE  /\ life' \in [Account -> {"active", "disabled", "pending", "deleted"}]
                 /\ deletion' \in [Deletion -> DeletionState]
      BY <1>L, <1>D, <2>3 DEF Enable
    <2>4. ASSUME NEW w \in Worker, ClaimDeletion(w) \/ FailDeletion(w)
          PROVE  /\ life' \in [Account -> {"active", "disabled", "pending", "deleted"}]
                 /\ deletion' \in [Deletion -> DeletionState]
      <3> DEFINE d == worker[w].event
      <3>1. life' = life
        BY <2>4 DEF ClaimDeletion, FailDeletion
      <3>2. CASE d \in Deletion
        <4>1. deletion[d].status \in Unfinished \cup {"none", "completed", "canceled"}
          BY <1>D, <3>2 DEF DeletionState
        <4>2. PICK s \in Unfinished \cup {"none", "completed", "canceled"} :
                deletion' = [deletion EXCEPT ![d].status = s]
          BY <2>4, <4>1 DEF ClaimDeletion, FailDeletion, FailedFrom, Unfinished
        <4> QED
          BY <1>L, <1>D, <3>1, <4>2 DEF DeletionState
      <3>3. CASE d \notin Deletion
        <4>1. deletion' = deletion
          BY <1>D, <2>4, <3>3 DEF ClaimDeletion, FailDeletion
        <4> QED
          BY <1>L, <1>D, <3>1, <4>1
      <3> QED
        BY <3>2, <3>3
    <2>5. ASSUME NEW w \in Worker, CompleteDeletion(w)
          PROVE  /\ life' \in [Account -> {"active", "disabled", "pending", "deleted"}]
                 /\ deletion' \in [Deletion -> DeletionState]
      <3> DEFINE d == worker[w].event
      <3>1. CASE UNCHANGED <<life, deletion>>
        BY <1>1, <3>1
      <3>2. CASE ~UNCHANGED <<life, deletion>>
        <4>1. /\ deletion' = [deletion EXCEPT ![d].status = "completed"]
              /\ life' = [life EXCEPT ![deletion[d].account] = "deleted"]
          BY <2>5, <3>2 DEF CompleteDeletion
        <4> QED
          BY <1>L, <1>D, <4>1 DEF DeletionState
      <3> QED
        BY <3>1, <3>2
    <2> QED
      BY <1>1, <2>1, <2>2, <2>3, <2>4, <2>5, WhatChangesDeletions
  <1>3. file' \in [File -> FileState]
    <2>1. ASSUME NEW f \in File, NEW a \in Account, CommitUpload(f, a)
          PROVE  file' \in [File -> FileState]
      BY <1>F, <2>1 DEF CommitUpload, FileState
    <2>2. ASSUME NEW f \in File, Publish(f) PROVE file' \in [File -> FileState]
      <3>1. PICK r \in FileState : file' = [file EXCEPT ![f] = r]
        <4>1. file[f] \in FileState
          BY <1>F
        <4>2. CASE file[f].temporary
          <5>1. [file[f] EXCEPT !.object = TRUE, !.temporary = FALSE, !.upload = "mark"]
                  \in FileState
            BY <4>1 DEF FileState
          <5> QED
            BY <2>2, <4>2, <5>1 DEF Publish
        <4>3. CASE ~file[f].temporary
          <5>1. [file[f] EXCEPT !.upload = "done"] \in FileState
            BY <4>1 DEF FileState
          <5> QED
            BY <2>2, <4>3, <5>1 DEF Publish
        <4> QED
          BY <4>2, <4>3
      <3> QED
        BY <1>F, <3>1
    <2>3. ASSUME NEW f \in File, MarkReady(f) PROVE file' \in [File -> FileState]
      <3>1. PICK r \in {"none", "pending", "ready"} :
              file' = [file EXCEPT ![f].upload = "done", ![f].row = r]
        <4>1. file[f].row \in {"none", "pending", "ready"}
          BY <1>F DEF FileState
        <4> QED
          BY <2>3, <4>1 DEF MarkReady
      <3> QED
        BY <1>F, <3>1 DEF FileState
    <2>4. ASSUME NEW f \in File, UploadBreaks(f) PROVE file' \in [File -> FileState]
      BY <1>F, <2>4 DEF UploadBreaks, FileState
    <2>5. ASSUME NEW f \in File, Reconcile(f) PROVE file' \in [File -> FileState]
      <3>1. PICK r \in FileState : file' = [file EXCEPT ![f] = r]
        <4>1. file[f] \in FileState
          BY <1>F
        <4>2. CASE file[f].object \/ file[f].temporary
          <5>1. [file[f] EXCEPT !.row = "ready", !.object = TRUE, !.temporary = FALSE]
                  \in FileState
            BY <4>1 DEF FileState
          <5> QED
            BY <2>5, <4>2, <5>1 DEF Reconcile
        <4>3. CASE ~(file[f].object \/ file[f].temporary)
          <5>1. [file[f] EXCEPT !.row = "none"] \in FileState
            BY <4>1 DEF FileState
          <5> QED
            BY <2>5, <4>3, <5>1 DEF Reconcile
        <4> QED
          BY <4>2, <4>3
      <3> QED
        BY <1>F, <3>1
    <2>6. ASSUME NEW w \in Worker, Transfer(w) PROVE file' \in [File -> FileState]
      <3>1. deletion[worker[w].event].target \in Account
        BY <1>0, <2>6 DEF Transfer, Claimed, Working, DeletionState
      <3>2. \A f \in File : [file[f] EXCEPT !.owner = deletion[worker[w].event].target] \in FileState
        BY <1>F, <3>1 DEF FileState
      <3> QED
        BY <1>F, <2>6, <3>2 DEF Transfer
    <2>7. ASSUME NEW w \in Worker, PurgeDelete(w) PROVE file' \in [File -> FileState]
      BY <1>F, <2>7 DEF PurgeDelete, FileState
    <2>8. ASSUME NEW w \in Worker, PurgeAbort(w) PROVE file' \in [File -> FileState]
      BY <1>F, <2>8 DEF PurgeAbort, FileState
    <2>9. ASSUME NEW w \in Worker, PurgeRemove(w) PROVE file' \in [File -> FileState]
      BY <1>F, <2>9 DEF PurgeRemove, FileState
    <2> QED
      BY <1>F, <2>1, <2>2, <2>3, <2>4, <2>5, <2>6, <2>7, <2>8, <2>9, WhatChangesFiles
  <1>4. ASSUME NEW w \in Worker, NEW d \in Deletion, ClaimEvent(w, d)
        PROVE  event' \in [Deletion -> EventState] /\ worker' \in [Worker -> WorkerState]
    <2>1. event[d].attempts + 1 \in Attempt
      <3>1. event'[d].attempts \in Attempt /\ event'[d].attempts = event[d].attempts + 1
        BY <1>0, <1>4, PaidClaim DEF ClaimEvent
      <3> QED
        BY <3>1
    <2>2. PICK n \in Attempt : n = event[d].attempts + 1
      BY <2>1
    <2>3. PICK s \in {"fail", "claim"} :
            worker' = [worker EXCEPT ![w] =
              [step |-> s, event |-> d, attempt |-> event[d].attempts + 1, file |-> Nobody]]
      BY <1>4 DEF ClaimEvent
    <2>4. event' = [event EXCEPT ![d] = [state |-> "claimed", attempts |-> n, expired |-> FALSE]]
      BY <1>4, <2>2 DEF ClaimEvent
    <2>5. worker' = [worker EXCEPT ![w] = [step |-> s, event |-> d, attempt |-> n,
                                           file |-> Nobody]]
      BY <2>2, <2>3
    <2> HIDE <2>2, <2>3
    <2> QED
      BY <1>E, <1>W, <2>4, <2>5 DEF EventState, WorkerState, Unfinished
  <1>5. event' \in [Deletion -> EventState]
    <2>1. ASSUME NEW d \in Deletion, NEW a \in Account, NEW t \in Account \cup {Nobody},
                 StartDeletion(d, a, t)
          PROVE  event' \in [Deletion -> EventState]
      BY <1>E, <2>1 DEF StartDeletion, EventState
    <2>2. ASSUME NEW d \in Deletion, Deliver(d) PROVE event' \in [Deletion -> EventState]
      BY <1>E, <2>2 DEF Deliver, EventState, Unfinished
    <2>3. ASSUME NEW d \in Deletion, LeaseRunsOut(d) \/ Stall(d)
          PROVE  event' \in [Deletion -> EventState]
      BY <1>E, <2>3 DEF LeaseRunsOut, Stall, EventState
    <2>7. ASSUME NEW d, NEW s \in {"completed", "canceled", "failed"},
                 event' = [event EXCEPT ![d].state = s, ![d].expired = FALSE]
          PROVE  event' \in [Deletion -> EventState]
      BY <1>E, <2>7 DEF EventState, Unfinished
    <2>4. ASSUME NEW w \in Worker, FinishEvent(w) PROVE event' \in [Deletion -> EventState]
      <3>1. \/ UNCHANGED event
            \/ \E s \in {"completed", "canceled"} :
                 event' = [event EXCEPT ![worker[w].event].state = s,
                                        ![worker[w].event].expired = FALSE]
        BY <2>4 DEF FinishEvent
      <3>2. ASSUME NEW s \in {"completed", "canceled"},
                   event' = [event EXCEPT ![worker[w].event].state = s,
                                          ![worker[w].event].expired = FALSE]
            PROVE  event' \in [Deletion -> EventState]
        <4>1. PICK d : d = worker[w].event
          OBVIOUS
        <4>2. event' = [event EXCEPT ![d].state = s, ![d].expired = FALSE]
          BY <3>2, <4>1
        <4> QED
          BY <2>7, <4>2
      <3> QED
        BY <1>E, <3>1, <3>2
    <2>5. ASSUME NEW w \in Worker, FailEvent(w) PROVE event' \in [Deletion -> EventState]
      <3>1. PICK d : d = worker[w].event
        OBVIOUS
      <3>2. \/ UNCHANGED event
            \/ event' = [event EXCEPT ![d].state = "failed", ![d].expired = FALSE]
        BY <2>5, <3>1 DEF FailEvent
      <3> QED
        BY <1>E, <2>7, <3>2
    <2>6. ASSUME NEW w \in Worker, RenewClaim(w) PROVE event' \in [Deletion -> EventState]
      <3>1. PICK d : d = worker[w].event
        OBVIOUS
      <3>2. \/ UNCHANGED event
            \/ event' = [event EXCEPT ![d].expired = FALSE]
        BY <2>6, <3>1 DEF RenewClaim
      <3> QED
        BY <1>E, <3>2 DEF EventState
    <2> QED
      BY <1>E, <1>4, <2>1, <2>2, <2>3, <2>4, <2>5, <2>6, WhatChangesEvents
  <1>6. worker' \in [Worker -> WorkerState]
    <2>1. Rested \in WorkerState
      BY TriesArePositive, FaultsAreBounded DEF Rested, WorkerState, Attempt
    <2>2. ASSUME NEW w \in Worker,
                 FinishEvent(w) \/ FailDeletion(w) \/ Crash(w) \/ RenewClaim(w)
          PROVE  worker' \in [Worker -> WorkerState]
      BY <1>W, <2>1, <2>2 DEF FinishEvent, FailDeletion, Crash, RenewClaim
    <2>3. ASSUME NEW w \in Worker, FailEvent(w) PROVE worker' \in [Worker -> WorkerState]
      <3>1. [worker[w] EXCEPT !.step = "failDeletion", !.file = Nobody] \in WorkerState
        BY <1>W DEF WorkerState
      <3> QED
        BY <1>W, <2>1, <2>3, <3>1 DEF FailEvent
    <2>4. ASSUME NEW w \in Worker,
                 NEW s \in {"files", "cancel", "complete", "fail", "delete", "abort", "remove",
                            "finish"},
                 NEW f \in File \cup {Nobody},
                 \/ worker' = [worker EXCEPT ![w].step = s]
                 \/ worker' = [worker EXCEPT ![w].step = s, ![w].file = f]
          PROVE  worker' \in [Worker -> WorkerState]
      BY <1>W, <2>4 DEF WorkerState
    <2>5. ASSUME NEW w \in Worker,
                 \/ ClaimDeletion(w) \/ Transfer(w) \/ PurgeDelete(w) \/ PurgeAbort(w)
                 \/ PurgeRemove(w) \/ CompleteDeletion(w) \/ StepFails(w)
          PROVE  worker' \in [Worker -> WorkerState]
      BY <2>4, <2>5 DEF ClaimDeletion, Transfer, PurgeDelete, PurgeAbort, PurgeRemove,
         CompleteDeletion, StepFails
    <2>6. ASSUME NEW w \in Worker, PurgeNext(w) PROVE worker' \in [Worker -> WorkerState]
      BY <2>4, <2>6 DEF PurgeNext, Rows
    <2> QED
      BY <1>0, <1>W, <1>4, <2>2, <2>3, <2>5, <2>6, WhatChangesWorkers DEF Work
  <1>7. faults' \in 0 .. MaxFaults
    <2>1. \/ faults' = faults
          \/ faults > 0 /\ faults' = faults - 1
      BY DEF Next, vars, Work, StartDeletion, CancelDeletion, Enable, Deliver, CommitUpload,
         Publish, MarkReady, UploadBreaks, Reconcile, ClaimEvent, ClaimDeletion, Transfer,
         PurgeNext, PurgeDelete, PurgeAbort, PurgeRemove, CompleteDeletion, FinishEvent,
         FailEvent, FailDeletion, StepFails, Crash, LeaseRunsOut, Stall, RenewClaim
    <2> QED
      BY <1>0, <2>1, FaultsAreBounded
  <1> QED
    BY <1>2, <1>3, <1>5, <1>6, <1>7 DEF AccountDeletionTypeOK

LEMMA StepInv == IInv /\ [Next]_vars => IInv'
PROOF
  <1> SUFFICES ASSUME IInv, [Next]_vars PROVE IInv'
    OBVIOUS
  <1>1. /\ AccountDeletionTypeOK /\ Paired /\ Claimed /\ Emptied
        /\ Uploads /\ Remembered /\ Paid
    BY DEF IInv
  <1>2. AccountDeletionTypeOK'
    BY TypeInv
  <1>3. Paired'
    BY <1>1, PairedInv
  <1>4. Claimed'
    BY <1>1, ClaimedInv
  <1>5. Emptied'
    BY <1>1, EmptiedInv
  <1>6. Uploads'
    BY <1>1, UploadsInv
  <1>7. Remembered'
    BY <1>1, RememberedInv
  <1>8. Paid'
    BY <1>1, PaidInv
  <1> QED
    BY <1>2, <1>3, <1>4, <1>5, <1>6, <1>7, <1>8 DEF IInv

LEMMA AlwaysInv == Spec => []IInv
  BY InitInv, StepInv, PTL DEF Spec

-----------------------------------------------------------------------------
(* Typing; and that an event never has more attempts than its tries and one *)
(* for each fault (claimEvent).                                             *)
THEOREM DeletionTyping == Spec => []AccountDeletionTypeOK
PROOF
  <1>1. IInv => AccountDeletionTypeOK
    BY DEF IInv
  <1> QED
    BY <1>1, AlwaysInv, PTL

(* An account whose deletion was completed owns no file, now and for ever,  *)
(* whoever else hands over, repairs or uploads at the time.                 *)
THEOREM DeletedAreEmpty == Spec => []DeletedOwnNothing
PROOF
  <1>1. IInv => DeletedOwnNothing
    BY DEF IInv, Emptied
  <1> QED
    BY <1>1, AlwaysInv, PTL

(* The event of a deletion that is not over is never settled, although      *)
(* event and deletion are written in two transactions.                      *)
THEOREM NeverForgotten == Spec => []NothingForgotten
PROOF
  <1>1. IInv => NothingForgotten
    BY DEF IInv, Remembered, NothingForgotten, Status, Unfinished
  <1> QED
    BY <1>1, AlwaysInv, PTL

(* An account waits for exactly one deletion while it is pending, and for   *)
(* none otherwise.                                                          *)
THEOREM OneDeletionEach == Spec => []PendingHasDeletion
PROOF
  <1>1. ASSUME IInv PROVE PendingHasDeletion
    <2> SUFFICES ASSUME NEW a \in Account
                 PROVE  Cardinality(Open(a)) = IF life[a] = "pending" THEN 1 ELSE 0
      BY DEF PendingHasDeletion, Open, Status
    <2>1. CASE life[a] = "pending"
      <3>1. PICK d \in Deletion : Open(a) = {d}
        BY <1>1, <2>1 DEF IInv, Paired
      <3> QED
        BY <2>1, <3>1, FS_Singleton
    <2>2. CASE life[a] # "pending"
      <3>1. Open(a) = {}
        BY <1>1, <2>2 DEF IInv, Paired
      <3> QED
        BY <2>2, <3>1, FS_EmptySet
    <2> QED
      BY <2>1, <2>2
  <1> QED
    BY <1>1, AlwaysInv, PTL

(* A file is taken from its owner only by a deletion of the owner that a    *)
(* worker claimed: one that could still be cancelled touches nothing, nor   *)
(* does a worker that was overtaken.                                        *)
TakenAfterClaim ==
  [][\A f \in File :
       file[f].row = "ready" /\ file[f]' # file[f] =>
         \E d \in Deletion : /\ deletion[d].account = file[f].owner
                             /\ deletion[d].status \in {"claimed", "failed"}]_vars

THEOREM NothingTakenBefore == Spec => TakenAfterClaim
PROOF
  <1> DEFINE Claim(f) == \E d \in Deletion : /\ deletion[d].account = file[f].owner
                                             /\ deletion[d].status \in {"claimed", "failed"}
  <1>1. ASSUME IInv, [Next]_vars, NEW f \in File, file[f].row = "ready", file'[f] # file[f]
        PROVE  Claim(f)
    <2>0. /\ AccountDeletionTypeOK /\ Paired /\ Claimed /\ Emptied /\ Uploads
          /\ file \in [File -> FileState] /\ file[f].upload = "done"
      BY <1>1 DEF IInv, AccountDeletionTypeOK, Uploads
    <2>1. ASSUME NEW d \in Deletion, Status(d) \in Begun, f \in Rows(deletion[d].account)
          PROVE  Claim(f)
      <3>1. Status(d) \in {"claimed", "failed"}
        BY <2>0, <2>1, OnlyOwnDeletion
      <3> QED
        BY <2>1, <3>1 DEF Rows, Status
    <2>2. \A g \in File, a \in Account : ~CommitUpload(g, a)
      BY <1>1, <2>0 DEF CommitUpload
    <2>3. \A g \in File : ~Publish(g) /\ ~MarkReady(g) /\ ~UploadBreaks(g) /\ ~Reconcile(g)
      BY <1>1, <2>0 DEF Publish, MarkReady, UploadBreaks, Reconcile
    <2>4. ASSUME NEW w \in Worker, Transfer(w) PROVE Claim(f)
      <3>1. worker[w].event \in Deletion /\ Status(worker[w].event) \in Begun
        BY <2>0, <2>4 DEF Transfer, Claimed, Working, PastClaim
      <3>2. f \in Rows(deletion[worker[w].event].account)
        BY <1>1, <2>4 DEF Transfer
      <3> QED
        BY <2>1, <3>1, <3>2
    <2>5. ASSUME NEW w \in Worker, PurgeDelete(w) \/ PurgeAbort(w) \/ PurgeRemove(w)
          PROVE  Claim(f)
      <3>1. f = worker[w].file /\ worker[w].step \in {"delete", "abort", "remove"}
        BY <1>1, <2>0, <2>5, PurgeSteps
      <3>2. /\ worker[w].event \in Deletion /\ Status(worker[w].event) \in Begun
            /\ file[f].owner = deletion[worker[w].event].account
        BY <1>1, <2>0, <3>1 DEF Claimed, Working, PastClaim
      <3>3. f \in Rows(deletion[worker[w].event].account)
        BY <1>1, <3>2 DEF Rows
      <3> QED
        BY <2>1, <3>2, <3>3
    <2> QED
      BY <1>1, <2>2, <2>3, <2>4, <2>5, WhatChangesFiles
  <1>2. IInv /\ [Next]_vars =>
          [\A f \in File : file[f].row = "ready" /\ file[f]' # file[f] => Claim(f)]_vars
    BY <1>1
  <1> QED
    BY <1>2, AlwaysInv, PTL DEF Spec, TakenAfterClaim

-----------------------------------------------------------------------------
(* The promise.  What it needs beyond IInv: an object that is missing was   *)
(* taken by a purge of its owner that is under way.                         *)
Hollow(f) == /\ file[f].row = "ready" \/ (file[f].row = "pending" /\ file[f].upload = "mark")
             /\ ~file[f].object
Purged(a) == \E d \in Deletion : /\ deletion[d].account = a /\ deletion[d].target = Nobody
                                 /\ Status(d) \in {"claimed", "failed"}
HollowArePurged == \A f \in File : Hollow(f) => Purged(file[f].owner)

LEMMA InitHollow == Init => HollowArePurged
  BY DEF Init, HollowArePurged, Hollow

(* A purge that has records left stays under way. *)
LEMMA PurgedStays ==
  ASSUME IInv, IInv', [Next]_vars, NEW f \in File, Purged(file[f].owner),
         file'[f].row # "none", file'[f].owner = file[f].owner
  PROVE  Purged(file[f].owner)'
PROOF
  <1>0. deletion' \in [Deletion -> DeletionState]
    BY DEF IInv, AccountDeletionTypeOK
  <1>1. PICK d \in Deletion : /\ deletion[d].account = file[f].owner
                              /\ deletion[d].target = Nobody
                              /\ Status(d) \in {"claimed", "failed"}
    BY DEF Purged
  <1>2. Forward(d)
    BY <1>1, DeletionsGoForward DEF IInv
  <1>3. /\ deletion'[d].account = file'[f].owner /\ deletion'[d].target = Nobody
        /\ Status(d)' \in Begun
    BY <1>1, <1>2 DEF Forward, Begun
  <1>4. deletion'[d].account \in Account
    <2>1. Status(d)' # "none"
      BY <1>2 DEF Forward
    <2> QED
      BY <2>1 DEF IInv, Paired
  <1>5. Status(d)' # "completed"
    <2> SUFFICES ASSUME Status(d)' = "completed" PROVE FALSE
      OBVIOUS
    <2>1. life'[deletion'[d].account] = "deleted"
      BY DEF IInv, Paired
    <2>2. Rows(deletion[d].account)' = {}
      BY <1>4, <2>1 DEF IInv, Emptied, DeletedOwnNothing, Rows
    <2>3. f \in Rows(deletion[d].account)'
      BY <1>3 DEF Rows
    <2> QED
      BY <2>2, <2>3
  <1> QED
    BY <1>3, <1>5 DEF Purged, Begun

(* The worker of a purge is at a file of the account it purges. *)
LEMMA PurgerPurges ==
  ASSUME IInv, NEW w \in Worker, worker[w].step \in {"delete", "abort", "remove"},
         file[worker[w].file].row # "none"
  PROVE  /\ worker[w].event \in Deletion
         /\ worker[w].file \in Rows(deletion[worker[w].event].account)
         /\ deletion[worker[w].event].target = Nobody
         /\ Status(worker[w].event) \in {"claimed", "failed"}
PROOF
  <1>1. /\ worker[w].event \in Deletion /\ Status(worker[w].event) \in Begun
        /\ worker[w].file \in File /\ deletion[worker[w].event].target = Nobody
        /\ file[worker[w].file].owner = deletion[worker[w].event].account
    BY DEF IInv, Claimed, Working, PastClaim
  <1>2. worker[w].file \in Rows(deletion[worker[w].event].account)
    BY <1>1 DEF Rows
  <1>3. Status(worker[w].event) \in {"claimed", "failed"}
    BY <1>1, <1>2, OnlyOwnDeletion DEF IInv
  <1> QED
    BY <1>1, <1>2, <1>3

(* What is handed over has its objects, and a living heir. *)
LEMMA HandedOver ==
  ASSUME IInv, HollowArePurged, NEW w \in Worker, Transfer(w),
         NEW f \in Rows(deletion[worker[w].event].account)
  PROVE  /\ worker[w].event \in Deletion
         /\ Status(worker[w].event) \in {"claimed", "failed"}
         /\ Here(deletion[worker[w].event].target)
         /\ ~Hollow(f)
PROOF
  <1> DEFINE d == worker[w].event
  <1>1. d \in Deletion /\ Status(d) \in Begun /\ deletion[d].target # Nobody
    BY DEF Transfer, IInv, Claimed, Working, PastClaim
  <1>2. Status(d) \in {"claimed", "failed"}
    BY <1>1, OnlyOwnDeletion DEF IInv
  <1>3. Here(deletion[d].target)
    BY <1>1, <1>2 DEF IInv, Paired, Unfinished
  <1>4. ~Hollow(f)
    <2> SUFFICES ASSUME Hollow(f) PROVE FALSE
      OBVIOUS
    <2>1. f \in File /\ file[f].owner = deletion[d].account
      BY DEF Rows
    <2>2. PICK e \in Deletion : /\ deletion[e].account = deletion[d].account
                                /\ deletion[e].target = Nobody
                                /\ Status(e) \in {"claimed", "failed"}
      BY <2>1 DEF HollowArePurged, Purged
    <2>3. e = d
      <3>1. Status(e) \in Begun /\ Rows(deletion[d].account) # {}
        BY <2>2 DEF Begun
      <3> QED
        BY <1>1, <2>2, <3>1, OnlyOwnDeletion DEF IInv
    <2> QED
      BY <1>1, <2>2, <2>3
  <1> QED
    BY <1>1, <1>2, <1>3, <1>4

LEMMA HollowInv ==
  ASSUME IInv, IInv', HollowArePurged, [Next]_vars
  PROVE  HollowArePurged'
PROOF
  <1>0. file \in [File -> FileState]
    BY DEF IInv, AccountDeletionTypeOK
  <1> SUFFICES ASSUME NEW f \in File, Hollow(f)' PROVE Purged(file[f].owner)'
    BY DEF HollowArePurged
  <1>1. /\ file[f] \in FileState /\ file'[f].row # "none"
        /\ file[f].row = "ready" => file[f].upload = "done"
    BY <1>0 DEF IInv, Uploads, Hollow
  <1>2. CASE Hollow(f) /\ file'[f].owner = file[f].owner
    <2>1. Purged(file[f].owner)
      BY <1>2 DEF HollowArePurged
    <2> QED
      BY <1>1, <1>2, <2>1, PurgedStays
  <1>3. CASE file'[f] = file[f]
    BY <1>2, <1>3 DEF Hollow
  <1>4. ASSUME NEW g \in File, NEW a \in Account, CommitUpload(g, a), file'[f] # file[f]
        PROVE  FALSE
    BY <1>0, <1>4 DEF CommitUpload, Hollow
  <1>5. ASSUME NEW g \in File, Publish(g), file'[f] # file[f] PROVE FALSE
    BY <1>0, <1>1, <1>5 DEF Publish, Hollow, FileState
  <1>6. ASSUME NEW g \in File, MarkReady(g), file'[f] # file[f]
        PROVE  Hollow(f) /\ file'[f].owner = file[f].owner
    BY <1>0, <1>1, <1>6 DEF MarkReady, Hollow, FileState
  <1>7. ASSUME NEW g \in File, UploadBreaks(g), file'[f] # file[f] PROVE FALSE
    BY <1>0, <1>1, <1>7 DEF UploadBreaks, Hollow, FileState
  <1>8. ASSUME NEW g \in File, Reconcile(g), file'[f] # file[f] PROVE FALSE
    BY <1>0, <1>1, <1>8 DEF Reconcile, Hollow, FileState
  <1>9. ASSUME NEW w \in Worker, Transfer(w), file'[f] # file[f] PROVE FALSE
    <2>1. /\ f \in Rows(deletion[worker[w].event].account)
          /\ file'[f] = [file[f] EXCEPT !.owner = deletion[worker[w].event].target]
      BY <1>9 DEF Transfer
    <2>2. ~Hollow(f)
      BY <1>9, <2>1, HandedOver
    <2> QED
      BY <1>1, <2>1, <2>2 DEF Hollow, FileState
  <1>10. ASSUME NEW w \in Worker, PurgeDelete(w) \/ PurgeAbort(w) \/ PurgeRemove(w),
                file'[f] # file[f]
         PROVE  Purged(file[f].owner)'
    <2>1. /\ f = worker[w].file /\ worker[w].step \in {"delete", "abort", "remove"}
          /\ file'[f].row \in {file[f].row, "none"} /\ file'[f].owner = file[f].owner
      BY <1>10, PurgeSteps DEF IInv
    <2>2. file[f].row # "none"
      BY <1>1, <2>1
    <2>3. Purged(file[f].owner)
      BY <2>1, <2>2, PurgerPurges DEF Purged, Rows
    <2> QED
      BY <1>1, <2>1, <2>3, PurgedStays
  <1> QED
    BY <1>2, <1>3, <1>4, <1>5, <1>6, <1>7, <1>8, <1>9, <1>10, WhatChangesFiles

-----------------------------------------------------------------------------
(* What the promise sees of a state, and of a step. *)
LEMMA SeenFile ==
  ASSUME AccountDeletionTypeOK, NEW f \in File
  PROVE  /\ FileSeen[f] = [condition |-> Condition(file[f]),
                           owner |-> IF file[f].row = "none" THEN Nobody ELSE file[f].owner]
         /\ file[f] \in FileState
         /\ FileSeen[f].condition = "none" <=> file[f].row = "none"
         /\ FileSeen[f].condition = "arriving" <=> file[f].row = "pending"
         /\ FileSeen[f].condition = "kept" <=> file[f].row = "ready" /\ file[f].object
PROOF
  <1>1. file[f] \in FileState
    BY DEF AccountDeletionTypeOK
  <1>2. FileSeen[f] = [condition |-> Condition(file[f]),
                       owner |-> IF file[f].row = "none" THEN Nobody ELSE file[f].owner]
    BY DEF FileSeen
  <1>3. file[f].row \in {"none", "pending", "ready"}
    BY <1>1 DEF FileState
  <1>4. FileSeen[f].condition = Condition(file[f])
    BY <1>2
  <1>5. CASE file[f].row = "none"
    BY <1>1, <1>2, <1>4, <1>5 DEF Condition
  <1>6. CASE file[f].row = "pending"
    BY <1>1, <1>2, <1>4, <1>6 DEF Condition
  <1>7. CASE file[f].row = "ready"
    <2>1. Condition(file[f]) = IF file[f].object THEN "kept" ELSE "hollow"
      BY <1>7 DEF Condition
    <2>2. FileSeen[f].condition = "kept" <=> file[f].object
      BY <1>4, <2>1
    <2>3. FileSeen[f].condition \notin {"none", "arriving"}
      BY <1>4, <2>1
    <2> QED
      BY <1>1, <1>2, <1>7, <2>2, <2>3
  <1> QED
    BY <1>3, <1>5, <1>6, <1>7

LEMMA SeenDeletion ==
  ASSUME AccountDeletionTypeOK, NEW d \in Deletion
  PROVE  /\ DeletionSeen[d] = [phase |-> Phase(Status(d)), account |-> deletion[d].account,
                               heir |-> deletion[d].target]
         /\ Status(d) \in Unfinished \cup {"none", "completed", "canceled"}
         /\ DeletionSeen[d].phase = "none" <=> Status(d) = "none"
         /\ DeletionSeen[d].phase = "requested" <=> Status(d) = "queued"
         /\ DeletionSeen[d].phase = "begun" <=> Status(d) \in {"claimed", "failed"}
  BY DEF AccountDeletionTypeOK, DeletionSeen, Phase, DeletionState, Status, Unfinished

(* The files of an account are the same on both levels. *)
LEMMA SeenOwned ==
  ASSUME AccountDeletionTypeOK, NEW a \in Account
  PROVE  Promise!Owned(a) = Rows(a)
PROOF
  <1>1. \A f \in File : FileSeen[f].owner = a <=> file[f].row # "none" /\ file[f].owner = a
    <2> SUFFICES ASSUME NEW f \in File
                 PROVE  FileSeen[f].owner = a <=> file[f].row # "none" /\ file[f].owner = a
      OBVIOUS
    <2>1. FileSeen[f].owner = IF file[f].row = "none" THEN Nobody ELSE file[f].owner
      BY DEF FileSeen
    <2> QED
      BY <2>1, NobodyIsNothing
  <1> QED
    BY <1>1 DEF Promise!Owned, Rows

LEMMA InitPromise == Init => Promise!Init
PROOF
  <1> SUFFICES ASSUME Init PROVE Promise!Init
    OBVIOUS
  <1>1. DeletionSeen = [d \in Deletion |-> [phase |-> "none", account |-> Nobody, heir |-> Nobody]]
    BY DEF Init, DeletionSeen, Phase
  <1>2. FileSeen = [f \in File |-> [condition |-> "none", owner |-> Nobody]]
    BY DEF Init, FileSeen, Condition
  <1> QED
    BY <1>1, <1>2 DEF Init, Promise!Init

(* A file no step touches looks the same. *)
LEMMA SeenSame ==
  /\ UNCHANGED deletion => UNCHANGED DeletionSeen
  /\ UNCHANGED file => UNCHANGED FileSeen
  /\ \A f \in File : file'[f] = file[f] => FileSeen'[f] = FileSeen[f]
  BY DEF DeletionSeen, FileSeen, Condition

(* One file changes what is seen of it. *)
LEMMA OneSeen ==
  ASSUME NEW f \in File, NEW v, \A g \in File : g # f => file'[g] = file[g],
         FileSeen'[f] = v
  PROVE  FileSeen' = [FileSeen EXCEPT ![f] = v]
PROOF
  <1>1. \A g \in File : g # f => FileSeen'[g] = FileSeen[g]
    BY SeenSame
  <1>2. FileSeen = [g \in File |-> FileSeen[g]] /\ FileSeen' = [g \in File |-> FileSeen'[g]]
    BY DEF FileSeen
  <1> QED
    BY <1>1, <1>2

LEMMA OneDeletionSeen ==
  ASSUME NEW d \in Deletion, NEW v, \A e \in Deletion : e # d => deletion'[e] = deletion[e],
         DeletionSeen'[d] = v
  PROVE  DeletionSeen' = [DeletionSeen EXCEPT ![d] = v]
PROOF
  <1>1. \A e \in Deletion : e # d => DeletionSeen'[e] = DeletionSeen[e]
    BY DEF DeletionSeen
  <1>2. /\ DeletionSeen = [e \in Deletion |-> DeletionSeen[e]]
        /\ DeletionSeen' = [e \in Deletion |-> DeletionSeen'[e]]
    BY DEF DeletionSeen
  <1> QED
    BY <1>1, <1>2

-----------------------------------------------------------------------------
(* The steps of a deletion, with the files left alone. *)
LEMMA DeletionStep ==
  ASSUME IInv, IInv', [Next]_vars, ~UNCHANGED <<life, deletion>>
  PROVE  [Promise!Next]_(Promise!removalVars)
PROOF
  <1>0. /\ AccountDeletionTypeOK /\ AccountDeletionTypeOK'
        /\ deletion \in [Deletion -> DeletionState] /\ deletion' \in [Deletion -> DeletionState]
    BY DEF IInv, AccountDeletionTypeOK
  <1>1. ASSUME NEW d \in Deletion, NEW a \in Account, NEW t \in Account \cup {Nobody},
               StartDeletion(d, a, t)
        PROVE  Promise!Request(d, a, t)
    <2>1. /\ Status(d) = "none" /\ t # a /\ Here(a) /\ ~Referenced(a)
          /\ t # Nobody => Here(t)
          /\ life' = [life EXCEPT ![a] = "pending"] /\ UNCHANGED file
      BY <1>1 DEF StartDeletion, MayBeDeleted, Status
    <2>2. /\ deletion'[d] = [status |-> "queued", account |-> a, target |-> t]
          /\ \A e \in Deletion : e # d => deletion'[e] = deletion[e]
      BY <1>0, <1>1 DEF StartDeletion
    <2>3. DeletionSeen'[d] = [phase |-> "requested", account |-> a, heir |-> t]
      BY <2>2 DEF DeletionSeen, Phase
    <2>4. DeletionSeen' = [DeletionSeen EXCEPT ![d] =
                             [phase |-> "requested", account |-> a, heir |-> t]]
      BY <2>2, <2>3, OneDeletionSeen
    <2>5. DeletionSeen[d].phase = "none"
      BY <1>0, <2>1, SeenDeletion
    <2>6. ASSUME NEW e \in Deletion, DeletionSeen[e].heir = a
          PROVE  DeletionSeen[e].phase \notin {"requested", "begun"}
      <3>1. deletion[e].target = a
        BY <2>6 DEF DeletionSeen
      <3>2. Status(e) \notin Unfinished
        BY <2>1, <3>1 DEF Referenced, Status
      <3> QED
        BY <1>0, <3>2, SeenDeletion DEF Unfinished
    <2>7. UNCHANGED FileSeen
      BY <2>1, SeenSame
    <2> QED
      BY <2>1, <2>4, <2>5, <2>6, <2>7 DEF Promise!Request, Promise!Alive, Here
  <1>2. ASSUME NEW d \in Deletion, CancelDeletion(d) PROVE Promise!Cancel(d)
    <2>1. /\ Status(d) = "queued" /\ UNCHANGED file
          /\ life' = [life EXCEPT ![deletion[d].account] = "disabled"]
      BY <1>2 DEF CancelDeletion, MayBeCanceled, Status
    <2>2. /\ Status(d)' = "canceled" /\ deletion'[d].account = deletion[d].account
          /\ deletion'[d].target = deletion[d].target
          /\ \A e \in Deletion : e # d => deletion'[e] = deletion[e]
      BY <1>0, <1>2 DEF CancelDeletion, Status, DeletionState
    <2>3. DeletionSeen'[d] = [DeletionSeen[d] EXCEPT !.phase = "canceled"]
      BY <2>2 DEF DeletionSeen, Phase, Status
    <2>4. DeletionSeen' = [DeletionSeen EXCEPT ![d] = [DeletionSeen[d] EXCEPT !.phase = "canceled"]]
      BY <2>2, <2>3, OneDeletionSeen
    <2>5. DeletionSeen[d].phase = "requested"
      BY <1>0, <2>1, SeenDeletion
    <2>7. DeletionSeen[d].account = deletion[d].account
      BY DEF DeletionSeen
    <2>6. UNCHANGED FileSeen
      BY <2>1, SeenSame
    <2> QED
      BY <2>1, <2>4, <2>5, <2>6, <2>7 DEF Promise!Cancel
  <1>3. ASSUME NEW a \in Account, Enable(a) PROVE Promise!Enable(a)
    BY <1>3, SeenSame DEF Enable, Promise!Enable
  <1>4. ASSUME NEW w \in Worker, ClaimDeletion(w)
        PROVE  \/ Promise!Begin(worker[w].event) /\ worker[w].event \in Deletion
               \/ UNCHANGED Promise!removalVars
    <2>1. PICK d \in Deletion : d = worker[w].event
      BY <1>4 DEF ClaimDeletion, IInv, Claimed, Working
    <2>2. UNCHANGED <<life, file>>
      BY <1>4 DEF ClaimDeletion
    <2>3. /\ Status(d)' = IF Status(d) \in {"queued", "failed"} THEN "claimed" ELSE Status(d)
          /\ deletion'[d].account = deletion[d].account
          /\ deletion'[d].target = deletion[d].target
          /\ \A e \in Deletion : e # d => deletion'[e] = deletion[e]
      BY <1>0, <1>4, <2>1 DEF ClaimDeletion, Status, DeletionState
    <2>4. UNCHANGED FileSeen
      BY <2>2, SeenSame
    <2>5. CASE Status(d) = "queued"
      <3>1. DeletionSeen'[d] = [DeletionSeen[d] EXCEPT !.phase = "begun"]
        BY <2>1, <2>3, <2>5 DEF DeletionSeen, Phase, Status
      <3>2. DeletionSeen' = [DeletionSeen EXCEPT ![d] = [DeletionSeen[d] EXCEPT !.phase = "begun"]]
        BY <2>1, <2>3, <3>1, OneDeletionSeen
      <3>3. DeletionSeen[d].phase = "requested"
        BY <1>0, <2>1, <2>5, SeenDeletion
      <3> QED
        BY <2>1, <2>2, <2>4, <3>2, <3>3 DEF Promise!Begin
    <2>6. CASE Status(d) # "queued"
      <3>1. Phase(Status(d)') = Phase(Status(d))
        BY <2>3, <2>6 DEF Phase
      <3>2. DeletionSeen'[d] = DeletionSeen[d]
        BY <2>1, <2>3, <3>1 DEF DeletionSeen, Status
      <3>3. DeletionSeen' = [DeletionSeen EXCEPT ![d] = DeletionSeen[d]]
        BY <2>1, <2>3, <3>2, OneDeletionSeen
      <3>4. UNCHANGED DeletionSeen
        BY <3>3 DEF DeletionSeen
      <3> QED
        BY <2>2, <2>4, <3>4 DEF Promise!removalVars
    <2> QED
      BY <2>5, <2>6
  <1>5. ASSUME NEW w \in Worker, CompleteDeletion(w)
        PROVE  \/ Promise!Complete(worker[w].event) /\ worker[w].event \in Deletion
               \/ UNCHANGED Promise!removalVars
    <2>0. PICK d \in Deletion : d = worker[w].event
      BY <1>5 DEF CompleteDeletion, IInv, Claimed, Working
    <2>1. Rows(deletion[d].account) = {} /\ Status(d) # "none"
      BY <1>5, <2>0 DEF CompleteDeletion, IInv, Claimed, Working
    <2>2. CASE Status(d) \notin {"claimed", "failed"}
      BY <1>5, <2>0, <2>2, SeenSame DEF CompleteDeletion, Status, Promise!removalVars
    <2>3. CASE Status(d) \in {"claimed", "failed"}
      <3>1. /\ UNCHANGED file
            /\ life' = [life EXCEPT ![deletion[d].account] = "deleted"]
            /\ deletion' = [deletion EXCEPT ![d].status = "completed"]
        BY <1>5, <2>0, <2>3 DEF CompleteDeletion, Status
      <3>2. /\ Status(d)' = "completed" /\ deletion'[d].account = deletion[d].account
            /\ deletion'[d].target = deletion[d].target
            /\ \A e \in Deletion : e # d => deletion'[e] = deletion[e]
        BY <1>0, <2>1, <3>1 DEF Status, DeletionState
      <3>3. DeletionSeen'[d] = [DeletionSeen[d] EXCEPT !.phase = "completed"]
        BY <2>1, <3>2 DEF DeletionSeen, Phase, Status
      <3>4. DeletionSeen' =
              [DeletionSeen EXCEPT ![d] = [DeletionSeen[d] EXCEPT !.phase = "completed"]]
        BY <2>1, <3>2, <3>3, OneDeletionSeen
      <3>5. DeletionSeen[d].phase = "begun"
        BY <1>0, <2>3, SeenDeletion
      <3>9. DeletionSeen[d].account = deletion[d].account
        BY DEF DeletionSeen
      <3>6. deletion[d].account \in Account
        BY <2>1 DEF IInv, Paired
      <3>7. Promise!Owned(DeletionSeen[d].account) = {}
        BY <1>0, <2>1, <3>6, <3>9, SeenOwned
      <3>8. UNCHANGED FileSeen
        BY <3>1, SeenSame
      <3> QED
        BY <2>0, <3>1, <3>4, <3>5, <3>7, <3>8, <3>9 DEF Promise!Complete
    <2> QED
      BY <2>2, <2>3
  <1>6. ASSUME NEW w \in Worker, FailDeletion(w) PROVE UNCHANGED Promise!removalVars
    <2>1. PICK d \in Deletion : d = worker[w].event /\ UNCHANGED <<life, file>>
      BY <1>6 DEF FailDeletion, IInv, Claimed, Working
    <2>2. /\ Status(d)' = FailedFrom(Status(d))
          /\ deletion'[d].account = deletion[d].account
          /\ deletion'[d].target = deletion[d].target
          /\ \A e \in Deletion : e # d => deletion'[e] = deletion[e]
      BY <1>0, <1>6, <2>1 DEF FailDeletion, FailedFrom, Status, DeletionState
    <2>3. Phase(Status(d)') = Phase(Status(d))
      BY <2>2 DEF Phase, FailedFrom
    <2>4. DeletionSeen'[d] = DeletionSeen[d]
      BY <2>1, <2>2, <2>3 DEF DeletionSeen, Status
    <2>5. DeletionSeen' = [DeletionSeen EXCEPT ![d] = DeletionSeen[d]]
      BY <2>1, <2>2, <2>4, OneDeletionSeen
    <2>6. UNCHANGED DeletionSeen
      BY <2>5 DEF DeletionSeen
    <2> QED
      BY <2>1, <2>6, SeenSame DEF Promise!removalVars
  <1> QED
    BY <1>1, <1>2, <1>3, <1>4, <1>5, <1>6, WhatChangesDeletions DEF Promise!Next

(* A record is gone, or stands without its object; or it is gone or ready. *)
Taken(f) == file[f].row = "none" \/ (file[f].row = "ready" /\ ~file[f].object)
Decided(f) == file[f].row = "none" \/ (file[f].row = "ready" /\ file[f].object)

(* The steps of a file, with the deletions left alone. *)
LEMMA FileStep ==
  ASSUME IInv, HollowArePurged, [Next]_vars, UNCHANGED <<life, deletion>>
  PROVE  [Promise!Next]_(Promise!removalVars)
PROOF
  <1>0. /\ AccountDeletionTypeOK /\ file \in [File -> FileState]
        /\ \A f \in File : file[f].row = "ready" => file[f].upload = "done"
        /\ UNCHANGED <<life, DeletionSeen>>
    BY SeenSame DEF IInv, AccountDeletionTypeOK, Uploads
  <1>same. CASE UNCHANGED FileSeen
    BY <1>0, <1>same DEF Promise!removalVars
  (* A file that looks as before, or has settled, or is hollow now. *)
  <1>one. ASSUME NEW f \in File, \A g \in File : g # f => file'[g] = file[g],
                 FileSeen'[f] = FileSeen[f]
          PROVE  UNCHANGED FileSeen
    <2>1. FileSeen' = [FileSeen EXCEPT ![f] = FileSeen[f]]
      BY <1>one, OneSeen
    <2> QED
      BY <2>1 DEF FileSeen
  <1>settled. ASSUME NEW f \in File, \A g \in File : g # f => file'[g] = file[g],
                     file[f].row = "pending", file'[f].owner = file[f].owner,
                     Decided(f)'
              PROVE  Promise!Settle(f)
    <2>1. FileSeen[f] = [condition |-> "arriving", owner |-> file[f].owner]
      BY <1>settled DEF FileSeen, Condition
    <2>2. CASE file'[f].row = "none"
      <3>1. FileSeen'[f] = [condition |-> "none", owner |-> Nobody]
        BY <2>2 DEF FileSeen, Condition
      <3>2. FileSeen' = [FileSeen EXCEPT ![f] = [condition |-> "none", owner |-> Nobody]]
        BY <1>settled, <3>1, OneSeen
      <3> QED
        BY <1>0, <2>1, <3>2 DEF Promise!Settle
    <2>3. CASE file'[f].row = "ready" /\ file'[f].object
      <3>1. FileSeen'[f] = [FileSeen[f] EXCEPT !.condition = "kept"]
        BY <1>settled, <2>1, <2>3 DEF FileSeen, Condition
      <3>2. FileSeen' = [FileSeen EXCEPT ![f] = [FileSeen[f] EXCEPT !.condition = "kept"]]
        BY <1>settled, <3>1, OneSeen
      <3> QED
        BY <1>0, <2>1, <3>2 DEF Promise!Settle
    <2> QED
      BY <1>settled, <2>2, <2>3 DEF Decided
  <1>purged. ASSUME NEW f \in File, \A g \in File : g # f => file'[g] = file[g],
                    file[f].row # "none", file'[f].owner = file[f].owner,
                    Purged(file[f].owner),
                    Taken(f)'
             PROVE  \E d \in Deletion : Promise!Remove(d, f)
    <2>1. PICK d \in Deletion : /\ deletion[d].account = file[f].owner
                                /\ deletion[d].target = Nobody
                                /\ Status(d) \in {"claimed", "failed"}
      BY <1>purged DEF Purged
    <2>2. DeletionSeen[d].phase = "begun"
      BY <1>0, <2>1, SeenDeletion
    <2>3. DeletionSeen[d].heir = Nobody /\ DeletionSeen[d].account = file[f].owner
      BY <2>1 DEF DeletionSeen
    <2>4. file[f].owner \in Account
      <3>1. deletion[d].account \in Account
        BY <2>1 DEF IInv, Paired
      <3> QED
        BY <2>1, <3>1
    <2>5. f \in Promise!Owned(DeletionSeen[d].account)
      <3>1. Promise!Owned(file[f].owner) = Rows(file[f].owner)
        BY <1>0, <2>4, SeenOwned
      <3>2. f \in Rows(file[f].owner)
        BY <1>purged DEF Rows
      <3> QED
        BY <2>3, <3>1, <3>2
    <2>6. FileSeen[f].owner = file[f].owner
      BY <1>purged DEF FileSeen
    <2>7. CASE file'[f].row = "none"
      <3>1. FileSeen'[f] = [condition |-> "none", owner |-> Nobody]
        BY <2>7 DEF FileSeen, Condition
      <3>2. FileSeen' = [FileSeen EXCEPT ![f] = [condition |-> "none", owner |-> Nobody]]
        BY <1>purged, <3>1, OneSeen
      <3> QED
        BY <1>0, <2>2, <2>3, <2>5, <3>2 DEF Promise!Remove
    <2>8. CASE file'[f].row = "ready" /\ ~file'[f].object
      <3>1. FileSeen'[f] = [FileSeen[f] EXCEPT !.condition = "hollow"]
        BY <1>purged, <2>8 DEF FileSeen, Condition
      <3>2. FileSeen' = [FileSeen EXCEPT ![f] = [FileSeen[f] EXCEPT !.condition = "hollow"]]
        BY <1>purged, <3>1, OneSeen
      <3> QED
        BY <1>0, <2>2, <2>3, <2>5, <3>2 DEF Promise!Remove
    <2> QED
      BY <1>purged, <2>7, <2>8 DEF Taken
  <1>1. ASSUME NEW f \in File, NEW a \in Account, CommitUpload(f, a) PROVE Promise!Arrive(f, a)
    <2>1. /\ file[f].upload = "new" /\ life[a] = "active"
          /\ file' = [file EXCEPT ![f] = [row |-> "pending", owner |-> a, object |-> FALSE,
                                          temporary |-> TRUE, upload |-> "publish"]]
      BY <1>1 DEF CommitUpload
    <2>2. file[f].row = "none"
      BY <2>1 DEF IInv, Uploads
    <2>3. FileSeen[f].condition = "none"
      BY <1>0, <2>2, SeenFile
    <2>4. /\ file'[f].row = "pending" /\ file'[f].owner = a
          /\ \A g \in File : g # f => file'[g] = file[g]
      BY <1>0, <2>1
    <2>5. FileSeen'[f] = [condition |-> "arriving", owner |-> a]
      BY <2>4 DEF FileSeen, Condition
    <2>6. FileSeen' = [FileSeen EXCEPT ![f] = [condition |-> "arriving", owner |-> a]]
      BY <2>4, <2>5, OneSeen
    <2> QED
      BY <1>0, <2>1, <2>3, <2>6 DEF Promise!Arrive
  <1>2. ASSUME NEW f \in File, Publish(f) \/ UploadBreaks(f) PROVE UNCHANGED FileSeen
    <2>1. /\ \A g \in File : g # f => file'[g] = file[g]
          /\ file'[f].row = file[f].row /\ file'[f].owner = file[f].owner
          /\ file[f].row \in {"none", "pending"}
      <3>1. file[f] \in FileState /\ file[f].upload \in {"publish", "mark"}
        BY <1>0, <1>2 DEF Publish, UploadBreaks
      <3>2. file[f].row \in {"none", "pending"}
        BY <1>0, <3>1 DEF FileState
      <3>3. CASE Publish(f)
        <4>1. CASE file[f].temporary
          BY <1>0, <3>1, <3>2, <3>3, <4>1 DEF Publish, FileState
        <4>2. CASE ~file[f].temporary
          BY <1>0, <3>1, <3>2, <3>3, <4>2 DEF Publish, FileState
        <4> QED
          BY <4>1, <4>2
      <3>4. CASE UploadBreaks(f)
        BY <1>0, <3>1, <3>2, <3>4 DEF UploadBreaks, FileState
      <3> QED
        BY <1>2, <3>3, <3>4
    <2>2. FileSeen'[f] = FileSeen[f]
      BY <2>1 DEF FileSeen, Condition
    <2> QED
      BY <1>one, <2>1, <2>2
  <1>3. ASSUME NEW f \in File, MarkReady(f)
        PROVE  \/ UNCHANGED FileSeen
               \/ Promise!Settle(f)
               \/ \E d \in Deletion : Promise!Remove(d, f)
    <2>1. /\ \A g \in File : g # f => file'[g] = file[g]
          /\ file[f].upload = "mark" /\ file[f].row \in {"none", "pending"}
          /\ file'[f].row = (IF file[f].row = "pending" THEN "ready" ELSE file[f].row)
          /\ file'[f].owner = file[f].owner /\ file'[f].object = file[f].object
      BY <1>0, <1>3 DEF MarkReady, FileState
    <2>2. CASE file[f].row = "none"
      <3>1. FileSeen'[f] = FileSeen[f]
        BY <2>1, <2>2 DEF FileSeen, Condition
      <3> QED
        BY <1>one, <2>1, <3>1
    <2>3. CASE file[f].row = "pending" /\ file[f].object
      <3>1. Decided(f)'
        BY <2>1, <2>3 DEF Decided
      <3> QED
        BY <1>settled, <2>1, <2>3, <3>1
    <2>4. CASE file[f].row = "pending" /\ ~file[f].object
      <3>1. Purged(file[f].owner)
        BY <2>1, <2>4 DEF HollowArePurged, Hollow
      <3>2. Taken(f)'
        BY <2>1, <2>4 DEF Taken
      <3> QED
        BY <1>purged, <2>1, <2>4, <3>1, <3>2
    <2> QED
      BY <2>1, <2>2, <2>3, <2>4
  <1>4. ASSUME NEW f \in File, Reconcile(f) PROVE Promise!Settle(f)
    <2>1. /\ \A g \in File : g # f => file'[g] = file[g]
          /\ file[f].row = "pending" /\ file'[f].owner = file[f].owner
          /\ Decided(f)'
      <3>1. file[f] \in FileState /\ file[f].row = "pending"
        BY <1>0, <1>4 DEF Reconcile
      <3>2. \A g \in File : g # f => file'[g] = file[g]
        BY <1>0, <1>4 DEF Reconcile
      <3>3. CASE file[f].object \/ file[f].temporary
        <4>1. file'[f] = [file[f] EXCEPT !.row = "ready", !.object = TRUE, !.temporary = FALSE]
          BY <1>0, <1>4, <3>3 DEF Reconcile
        <4>2. file'[f].row = "ready" /\ file'[f].object /\ file'[f].owner = file[f].owner
          BY <3>1, <4>1 DEF FileState
        <4> QED
          BY <3>1, <3>2, <4>2 DEF Decided
      <3>4. CASE ~(file[f].object \/ file[f].temporary)
        <4>1. file'[f] = [file[f] EXCEPT !.row = "none"]
          BY <1>0, <1>4, <3>4 DEF Reconcile
        <4>2. file'[f].row = "none" /\ file'[f].owner = file[f].owner
          BY <3>1, <4>1 DEF FileState
        <4> QED
          BY <3>1, <3>2, <4>2 DEF Decided
      <3> QED
        BY <3>3, <3>4
    <2> QED
      BY <1>settled, <2>1
  <1>5. ASSUME NEW w \in Worker, Transfer(w)
        PROVE  UNCHANGED FileSeen \/ \E d \in Deletion : Promise!HandOver(d)
    <2> DEFINE d == worker[w].event
               owned == Rows(deletion[d].account)
    <2>1. CASE file' = file
      BY <2>1, SeenSame
    <2>2. CASE file' # file
      <3>1. /\ Settled(owned) /\ deletion[d].target # Nobody
            /\ file' = [f \in File |-> IF f \in owned /\ file[f].row = "ready"
                                         THEN [file[f] EXCEPT !.owner = deletion[d].target]
                                         ELSE file[f]]
        BY <1>5, <2>2 DEF Transfer, MayTransfer
      <3>2. PICK f \in owned : TRUE
        <4>1. owned # {}
          <5> SUFFICES ASSUME owned = {} PROVE FALSE
            OBVIOUS
          <5>1. file' = [f \in File |-> file[f]]
            BY <3>1
          <5> QED
            BY <1>0, <2>2, <5>1
        <4> QED
          BY <4>1
      <3>3. /\ d \in Deletion /\ Status(d) \in {"claimed", "failed"} /\ Here(deletion[d].target)
        BY <1>5, <3>2, HandedOver
      <3>4. \A g \in owned : g \in File /\ file[g].row = "ready" /\ file[g].object
        <4> SUFFICES ASSUME NEW g \in owned
                     PROVE  g \in File /\ file[g].row = "ready" /\ file[g].object
          OBVIOUS
        <4>1. ~Hollow(g)
          BY <1>5, HandedOver
        <4> QED
          BY <3>1, <4>1 DEF Settled, Rows, Hollow
      <3>5. deletion[d].account \in Account
        BY <3>3 DEF IInv, Paired
      <3>6. DeletionSeen[d].phase = "begun"
        BY <1>0, <3>3, SeenDeletion
      <3>7. /\ DeletionSeen[d].account = deletion[d].account
            /\ DeletionSeen[d].heir = deletion[d].target
        BY <3>3 DEF DeletionSeen
      <3>8. Promise!Owned(DeletionSeen[d].account) = owned
        BY <1>0, <3>5, <3>7, SeenOwned
      <3> HIDE DEF owned
      <3>9. \A g \in owned : FileSeen[g].condition = "kept"
        BY <1>0, <3>4, SeenFile
      <3>10. ASSUME NEW g \in File
             PROVE  FileSeen'[g] = IF g \in owned
                                     THEN [FileSeen[g] EXCEPT !.owner = deletion[d].target]
                                     ELSE FileSeen[g]
        <4>1. CASE g \in owned
          <5>1. /\ file[g] \in FileState /\ file[g].row = "ready" /\ file[g].object
                /\ file'[g] = [file[g] EXCEPT !.owner = deletion[d].target]
            BY <1>0, <3>1, <3>4, <4>1
          <5>2. file'[g].row = "ready" /\ file'[g].object /\ file'[g].owner = deletion[d].target
            BY <5>1 DEF FileState
          <5>3. FileSeen'[g] = [condition |-> "kept", owner |-> file'[g].owner]
            BY <5>2 DEF FileSeen, Condition
          <5>4. FileSeen[g] = [condition |-> "kept", owner |-> file[g].owner]
            BY <5>1 DEF FileSeen, Condition
          <5> QED
            BY <4>1, <5>2, <5>3, <5>4
        <4>2. CASE g \notin owned
          <5>1. file'[g] = file[g]
            BY <3>1, <4>2
          <5> QED
            BY <4>2, <5>1, SeenSame
        <4> QED
          BY <4>1, <4>2
      <3>11. FileSeen' = [g \in File |-> IF g \in owned
                                          THEN [FileSeen[g] EXCEPT !.owner = deletion[d].target]
                                          ELSE FileSeen[g]]
        BY <3>10 DEF FileSeen
      <3>12. Promise!HandOver(d)
        BY <1>0, <3>1, <3>3, <3>6, <3>7, <3>8, <3>9, <3>11
           DEF Promise!HandOver, Promise!Alive, Here
      <3> QED
        BY <3>3, <3>12
    <2> QED
      BY <2>1, <2>2
  <1>6. ASSUME NEW w \in Worker, PurgeDelete(w) \/ PurgeAbort(w) \/ PurgeRemove(w)
        PROVE  UNCHANGED FileSeen \/ \E d \in Deletion, f \in File : Promise!Remove(d, f)
    <2>1. /\ worker[w].step \in {"delete", "abort", "remove"}
          /\ worker[w].file \in File
      BY <1>6 DEF PurgeDelete, PurgeAbort, PurgeRemove, IInv, Claimed, Working
    <2>2. PICK f \in File : f = worker[w].file
      BY <2>1
    <2>3. /\ \A g \in File : g # f => file'[g] = file[g]
          /\ file'[f].owner = file[f].owner
          /\ \/ file'[f].row = file[f].row /\ file'[f].object = file[f].object
             \/ file'[f].row = file[f].row /\ ~file'[f].object
             \/ file'[f].row = "none"
      BY <1>0, <1>6, <2>2 DEF PurgeDelete, PurgeAbort, PurgeRemove, FileState
    <2>4. CASE file[f].row # "none" /\ Taken(f)'
      <3>1. Purged(file[f].owner)
        BY <2>1, <2>2, <2>4, PurgerPurges DEF Purged, Rows
      <3> QED
        BY <1>purged, <2>3, <2>4, <3>1
    <2>5. CASE file[f].row = "none" /\ file'[f].row = "none"
      <3>1. FileSeen'[f] = FileSeen[f]
        BY <2>5 DEF FileSeen, Condition
      <3> QED
        BY <1>one, <2>3, <3>1
    <2>6. CASE file'[f].row = "pending" /\ file[f].row = "pending"
      <3>1. FileSeen'[f] = FileSeen[f]
        BY <2>3, <2>6 DEF FileSeen, Condition
      <3> QED
        BY <1>one, <2>3, <3>1
    <2>7. CASE file'[f].row = "ready" /\ file[f].row = "ready" /\ file'[f].object
      <3>1. file[f].object
        BY <2>3, <2>7
      <3>2. Condition(file'[f]) = "kept" /\ Condition(file[f]) = "kept"
        BY <2>7, <3>1 DEF Condition
      <3>3. FileSeen'[f] = FileSeen[f]
        BY <2>3, <2>7, <3>2 DEF FileSeen
      <3> QED
        BY <1>one, <2>3, <3>3
    <2>8. file[f].row \in {"none", "pending", "ready"}
      BY <1>0 DEF FileState
    <2>9. file'[f].row = file[f].row \/ file'[f].row = "none"
      BY <2>3
    <2>10. \/ file[f].row = "none" \/ Taken(f)'
           \/ file'[f].row = "pending" \/ (file'[f].row = "ready" /\ file'[f].object)
      BY <2>8, <2>9 DEF Taken
    <2> QED
      BY <2>4, <2>5, <2>6, <2>7, <2>9, <2>10
  <1>7. CASE UNCHANGED file
    BY <1>same, <1>7, SeenSame
  <1> QED
    BY <1>same, <1>1, <1>2, <1>3, <1>4, <1>5, <1>6, <1>7, WhatChangesFiles DEF Promise!Next

(* The deletion of accounts, with claims, attempts, retries, overtaken      *)
(* workers and uploads under way, keeps what AccountRemoval promises: files *)
(* are handed over at once or removed, by a deletion that has begun and     *)
(* that nobody can cancel, and the account ends when it has none.           *)
THEOREM DeletionKeepsItsPromise == Spec => RemovedAsPromised
PROOF
  <1>1. Init => IInv /\ HollowArePurged
    BY InitInv, InitHollow
  <1>2. IInv /\ HollowArePurged /\ [Next]_vars => IInv' /\ HollowArePurged'
    BY StepInv, HollowInv
  <1>3. IInv /\ HollowArePurged /\ [Next]_vars => [Promise!Next]_(Promise!removalVars)
    BY StepInv, DeletionStep, FileStep
  <1> QED
    BY <1>1, <1>2, <1>3, InitPromise, PTL DEF Spec, RemovedAsPromised, Promise!Spec
=============================================================================
