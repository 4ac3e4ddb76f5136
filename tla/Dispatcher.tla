----------------------------- MODULE Dispatcher -----------------------------
(***************************************************************************)
(* The outbox dispatcher (platform/outbox/dispatcher.go) as the outbox     *)
(* loop of the worker group runs it: one poll claims a batch in one        *)
(* transaction and then settles the claimed rows one transaction at a      *)
(* time, every transaction on the database session that holds the executor *)
(* lease.  Coordination supplies the lease and the loops, Outbox the       *)
(* transactions.                                                           *)
(*                                                                         *)
(* Between any two transactions of a poll the lease may move to another    *)
(* process, the claim may run out and the process may die; what the        *)
(* process still has in memory is "batch".                                 *)
(***************************************************************************)
EXTENDS Coordination, Outbox

CONSTANT OwnerOf   \* OwnerOf[p]: the owner name of process p ("server-<pid>")

ASSUME DispatcherAssumption == OwnerOf \in [Proc -> Owner]

VARIABLES
  phase,   \* phase[p]: the transaction the poll of p is about to run
  batch    \* batch[p]: claimed records the poll of p has not settled yet

pollVars == <<phase, batch>>
vars == <<coordVars, outboxVars, pollVars>>

Phase == {"idle", "claim", "settle", "retry"}

Init ==
  /\ CoordInit
  /\ OutboxInit
  /\ phase = [p \in Proc |-> "idle"]
  /\ batch = [p \in Proc |-> {}]

-----------------------------------------------------------------------------
HasConsumer(c) == Topic[c.event] \in Handled

\* The records are settled in the order claim selected them.
Before(c, d) ==
  \/ c.due < d.due
  \/ c.due = d.due /\ c.created < d.created
  \/ c.due = d.due /\ c.created = d.created /\ c.event < d.event

IsFirst(c, b) == c \in b /\ \A d \in b \ {c} : Before(c, d)

\* The poll forgets its batch, in memory only: the rows stay claimed.
Forget(p) ==
  /\ phase' = [phase EXCEPT ![p] = "idle"]
  /\ batch' = [batch EXCEPT ![p] = {}]

\* The poll goes on with the records in b, or returns when there are none left.
Proceed(p, b) ==
  IF b = {}
    THEN Forget(p) /\ LoopEnd(p, "outbox")
    ELSE /\ phase' = [phase EXCEPT ![p] = "settle"]
         /\ batch' = [batch EXCEPT ![p] = b]
         /\ UNCHANGED coordVars

\* Every transaction of the poll runs on the session of the step's lease.
InTransaction(p) == Usable(held[p]["outbox"])

-----------------------------------------------------------------------------
Poll(p) ==
  /\ LoopBegin(p, "outbox")
  /\ phase' = [phase EXCEPT ![p] = "claim"]
  /\ UNCHANGED <<outboxVars, batch>>

ClaimBatch(p, t) ==
  /\ phase[p] = "claim"
  /\ InTransaction(p)
  /\ ClaimRows(OwnerOf[p], t)
  /\ Proceed(p, ClaimsOf(OwnerOf[p], t))
  /\ UNCHANGED <<now, receipts, effects, accepted>>

\* c is the record whose delivery the poll of p tries next.
Delivering(p, c) ==
  /\ phase[p] = "settle"
  /\ IsFirst(c, batch[p])
  /\ HasConsumer(c)
  /\ InTransaction(p)

\* c is the record the poll of p gives back next: its delivery failed, or its topic
\* has no consumer.
GivingBack(p, c) ==
  /\ phase[p] = "retry" \/ (phase[p] = "settle" /\ ~HasConsumer(c))
  /\ IsFirst(c, batch[p])
  /\ InTransaction(p)

Deliver(p, c, t) ==
  /\ Delivering(p, c)
  /\ DeliverRow(c, t)
  /\ Proceed(p, batch[p] \ {c})

\* deliver finds the claim expired or superseded: ErrClaimLost, rolled back.
ClaimFoundLost(p, c, t) ==
  /\ Delivering(p, c)
  /\ ~VerifyClaim(c, t)
  /\ phase' = [phase EXCEPT ![p] = "retry"]
  /\ UNCHANGED <<coordVars, outboxVars, batch>>

\* The consumer's statements fail or miss their row count: rolled back.
ConsumerFails(p, c) ==
  /\ Delivering(p, c)
  /\ SpendFault
  /\ phase' = [phase EXCEPT ![p] = "retry"]
  /\ UNCHANGED <<up, leaseVars, loopVars, outboxVars, batch>>

\* The delivery commits, but its session is gone before the process learns it.
CommitUnacknowledged(p, c, t) ==
  /\ Delivering(p, c)
  /\ DeliverRow(c, t)
  /\ SessionLost
  /\ UNCHANGED pollVars

Retry(p, c, t) ==
  /\ GivingBack(p, c)
  /\ RetryRow(c, t)
  /\ Proceed(p, batch[p] \ {c})

\* The claim to give back is lost as well: the error ends the poll, and what is
\* left of the batch stays claimed until it runs out.
RetryLost(p, c, t) ==
  /\ GivingBack(p, c)
  /\ ~VerifyClaim(c, t)
  /\ Forget(p)
  /\ LoopEnd(p, "outbox")
  /\ UNCHANGED outboxVars

\* A statement of claim or retry fails on a live session: the poll returns.
PollFails(p) ==
  /\ phase[p] = "claim" \/ \E c \in batch[p] : GivingBack(p, c)
  /\ SpendFault
  /\ Forget(p)
  /\ StepReturns(p, "outbox")
  /\ UNCHANGED outboxVars

\* A transaction of the poll finds the lease lost.
LeaseFoundLost(p) ==
  /\ OutboxLeaseLost(p)
  /\ Forget(p)
  /\ UNCHANGED outboxVars

DispatcherStep(p) ==
  \/ Poll(p)
  \/ \E t \in Reading :
       \/ ClaimBatch(p, t)
       \/ \E c \in batch[p] :
            \/ Deliver(p, c, t)
            \/ ClaimFoundLost(p, c, t)
            \/ Retry(p, c, t)
            \/ RetryLost(p, c, t)
  \/ LeaseFoundLost(p)

\* The rest of the worker group, which the outbox knows nothing of.
TakeLease(p) == (Start(p) \/ Takeover(p)) /\ UNCHANGED <<outboxVars, pollVars>>

SchedulerStep(p) ==
  /\ LoopBegin(p, "scheduler") \/ LoopEnd(p, "scheduler")
  /\ UNCHANGED <<outboxVars, pollVars>>

CloseLost(p, w) == LoopClose(p, w) /\ UNCHANGED <<outboxVars, pollVars>>

GroupStep(p) ==
  \/ TakeLease(p)
  \/ SchedulerStep(p)
  \/ \E w \in Loop : CloseLost(p, w)

Fault(p) ==
  \/ PollFails(p)
  \/ \E c \in batch[p] :
       ConsumerFails(p, c) \/ \E t \in Reading : CommitUnacknowledged(p, c, t)
  \/ SchedulerClaimLost(p) /\ UNCHANGED <<outboxVars, pollVars>>
  \/ (Stop(p) \/ Crash(p)) /\ Forget(p) /\ UNCHANGED outboxVars

Environment ==
  \/ Tick /\ UNCHANGED <<coordVars, pollVars>>
  \/ \E e \in Event, t \in Reading : Enqueue(e, t) /\ UNCHANGED <<coordVars, pollVars>>
  \/ SessionLost /\ UNCHANGED <<outboxVars, pollVars>>

Next ==
  \/ Environment
  \/ \E p \in Proc : DispatcherStep(p) \/ GroupStep(p) \/ Fault(p)

Spec == Init /\ [][Next]_vars

-----------------------------------------------------------------------------
\* The clock, the loops and the takeover ticker are goroutines of their own; faults
\* and enqueues need not happen.
Fairness ==
  /\ WF_vars(Tick /\ UNCHANGED <<coordVars, pollVars>>)
  /\ \A p \in Proc :
       /\ WF_vars(DispatcherStep(p))
       /\ WF_vars(TakeLease(p))
       /\ WF_vars(SchedulerStep(p))
       /\ \A w \in Loop : WF_vars(CloseLost(p, w))

FairSpec == Spec /\ Fairness

-----------------------------------------------------------------------------
TypeOK ==
  /\ CoordTypeOK
  /\ OutboxTypeOK
  /\ phase \in [Proc -> Phase]
  /\ batch \in [Proc -> SUBSET Claim]

\* The consumer's effect, its receipt and the delivered state are one fact: none of
\* them is ever seen without the others, and the effect happens once, whoever
\* claimed the row how often and wherever a poll was interrupted.
ExactlyOnce ==
  \A e \in Event :
    /\ effects[e] = IF rows[e].state = "delivered" THEN 1 ELSE 0
    /\ Topic[e] \in Handled =>
         (ReceiptOf(e) \in receipts <=>
            \E f \in Event : SameKey(e, f) /\ rows[f].state = "delivered")

\* Two processes, or two polls of one process that share an owner name, never both
\* hold a claim of a row that would still pass the fence of verifyClaim.
OneSettler ==
  \A p, q \in Proc : \A c \in batch[p], d \in batch[q] :
    \A t, u \in Reading :
      (c.event = d.event /\ VerifyClaim(c, t) /\ VerifyClaim(d, u)) => p = q /\ c = d

\* The dispatcher implements what the outbox promises the modules that use it.
Delivery == INSTANCE EventDelivery
EventDelivered == Delivery!Spec

\* The modelled time is over before the row comes due again.
DueAfterTheEnd(e) ==
  \/ rows[e].state = "claimed" /\ rows[e].until > MaxTime
  \/ rows[e].state = "retry" /\ rows[e].availableAt > MaxTime

\* An accepted event whose topic has a consumer is eventually delivered: a claim
\* whose owner is gone runs out, and an event nobody consumes holds up no other.
EventuallyDelivered ==
  \A e \in Event :
    (e \in accepted /\ Topic[e] \in Handled)
      ~> (rows[e].state = "delivered" \/ DueAfterTheEnd(e))
=============================================================================
