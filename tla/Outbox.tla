------------------------------- MODULE Outbox -------------------------------
(***************************************************************************)
(* The reliable outbox table, the consumer receipts and the transactions   *)
(* of platform/outbox that change them.  Every operator here is the effect *)
(* of one database transaction; Dispatcher says who runs which, and when.  *)
(*                                                                         *)
(* A claim token is 16 random bytes, fresh for every claim.  All the code  *)
(* ever does with it is compare it with the token of the same row, so the  *)
(* claim of a row is named here by the attempt number it was given, which  *)
(* no other claim of that row has.                                         *)
(***************************************************************************)
EXTENDS Integers, FiniteSets

CONSTANTS
  Event,          \* event ids; numbers, because the id breaks ties in the order
  Topic,          \* Topic[e]: topic of event e
  Key,            \* Key[e]: business key of event e
  ConsumerOf,     \* ConsumerOf[t]: name of the consumer registered for topic t
  Owner,          \* worker owner names that can stand in claimed_by
  NoOwner,        \* claimed_by IS NULL
  BatchSize,      \* DispatcherConfig.BatchSize
  LeaseDuration,  \* DispatcherConfig.LeaseDuration
  RetryDelay,     \* DispatcherConfig.RetryDelay
  Skew,           \* how far a process's clock may be from the common clock
  MaxTime         \* bound on the modelled time

\* A topic without a registered consumer is not in the domain of ConsumerOf.
Handled == DOMAIN ConsumerOf

ASSUME OutboxAssumption ==
  /\ Event \subseteq Nat
  /\ NoOwner \notin Owner
  /\ BatchSize \in Nat \ {0}
  /\ LeaseDuration \in Nat \ {0}
  /\ RetryDelay \in Nat \ {0}
  /\ Skew \in Nat
  /\ MaxTime \in Nat
  \* runtime.go registers every topic under a consumer name of its own
  /\ \A t, u \in Handled : ConsumerOf[t] = ConsumerOf[u] => t = u

VARIABLES
  now,        \* the common clock
  rows,       \* reliable_outbox, by event id
  receipts,   \* reliable_consumer_receipt: pairs of consumer name, business key
  effects,    \* effects[e]: committed applications of e's consumer mutations
  accepted    \* events whose domain transaction has committed

outboxVars == <<now, rows, receipts, effects, accepted>>

RowState == {"absent", "pending", "claimed", "delivered", "retry"}

Row == [state : RowState, attempts : Nat, availableAt : Int, createdAt : Int,
        claimedBy : Owner \cup {NoOwner}, token : Nat, until : Int]

\* A row that does not exist; the claim columns of a row that is not claimed are
\* NULL, which reads NoOwner, 0 and 0 here.
NoRow == [state |-> "absent", attempts |-> 0, availableAt |-> 0, createdAt |-> 0,
          claimedBy |-> NoOwner, token |-> 0, until |-> 0]

\* What Enqueue inserts for an event that occurred at t.
NewRow(t) == [state |-> "pending", attempts |-> 0, availableAt |-> t, createdAt |-> t,
              claimedBy |-> NoOwner, token |-> 0, until |-> 0]

\* The Record a dispatcher keeps in memory for a row it claimed.
Claim == [event : Event, owner : Owner, token : Nat, due : Int, created : Int]

\* What time.Now() may return in some process.
Reading == (now - Skew)..(now + Skew)

OutboxInit ==
  /\ now = 0
  /\ rows = [e \in Event |-> NoRow]
  /\ receipts = {}
  /\ effects = [e \in Event |-> 0]
  /\ accepted = {}

Tick ==
  /\ now < MaxTime
  /\ now' = now + 1
  /\ UNCHANGED <<rows, receipts, effects, accepted>>

-----------------------------------------------------------------------------
SameKey(e, f) == Topic[e] = Topic[f] /\ Key[e] = Key[f]

\* Mutation: ON CONFLICT is taken on the id only, the business key is not unique.
EnqueueAnyKey(e, t) ==
  /\ rows[e].state = "absent"
  /\ rows' = [rows EXCEPT ![e] = NewRow(t)]
  /\ accepted' = accepted \cup {e}
  /\ UNCHANGED <<now, receipts, effects>>

\* A domain transaction commits together with the event it enqueues.  Repeating
\* an identical envelope changes nothing, and a different event on a key that is
\* taken is ErrBusinessKeyConflict, which rolls the caller's transaction back.
Enqueue(e, t) ==
  /\ rows[e].state = "absent"
  /\ \A f \in Event : SameKey(e, f) => rows[f].state = "absent"
  /\ rows' = [rows EXCEPT ![e] = NewRow(t)]
  /\ accepted' = accepted \cup {e}
  /\ UNCHANGED <<now, receipts, effects>>

-----------------------------------------------------------------------------
\* A row leaves the claimed state: every claim column becomes NULL.
Released(r, s, at) ==
  [state |-> s, attempts |-> r.attempts, availableAt |-> at, createdAt |-> r.createdAt,
   claimedBy |-> NoOwner, token |-> 0, until |-> 0]

\* A row is claimed by owner o for LeaseDuration from t on, with a new token.
Claimed(r, o, t) ==
  [state |-> "claimed", attempts |-> r.attempts + 1, availableAt |-> r.availableAt,
   createdAt |-> r.createdAt, claimedBy |-> o, token |-> r.attempts + 1,
   until |-> t + LeaseDuration]

\* The first statement of claim: claims that ran out go back to retry, due now.
ExpireClaims(t) ==
  [e \in Event |->
     IF rows[e].state = "claimed" /\ rows[e].until <= t
       THEN Released(rows[e], "retry", t) ELSE rows[e]]

ReadyRows(rs, t) ==
  {e \in Event : rs[e].state \in {"pending", "retry"} /\ rs[e].availableAt <= t}

\* ORDER BY available_at, created_at, id
Sooner(rs, e, f) ==
  \/ rs[e].availableAt < rs[f].availableAt
  \/ /\ rs[e].availableAt = rs[f].availableAt
     /\ \/ rs[e].createdAt < rs[f].createdAt
        \/ rs[e].createdAt = rs[f].createdAt /\ e < f

\* LIMIT BatchSize
Selected(rs, t) ==
  {e \in ReadyRows(rs, t) :
     Cardinality({f \in ReadyRows(rs, t) : Sooner(rs, f, e)}) < BatchSize}

\* The records claim returns, and the table it leaves behind.
ClaimsOf(o, t) ==
  LET rs == ExpireClaims(t) IN
  {[event |-> e, owner |-> o, token |-> rs[e].attempts + 1,
    due |-> rs[e].availableAt, created |-> rs[e].createdAt] : e \in Selected(rs, t)}

\* Mutation: expired claims are not recovered.
ClaimWithoutRecovery(o, t) ==
  rows' = [e \in Event |->
             IF e \in Selected(rows, t) THEN Claimed(rows[e], o, t) ELSE rows[e]]

ClaimRows(o, t) ==
  LET rs == ExpireClaims(t) IN
  rows' = [e \in Event |-> IF e \in Selected(rs, t) THEN Claimed(rs[e], o, t) ELSE rs[e]]

\* Mutation: the claim is recognised by its owner name, as if it were unique.
VerifyOwnerOnly(c, t) ==
  /\ rows[c.event].state = "claimed"
  /\ rows[c.event].claimedBy = c.owner
  /\ t < rows[c.event].until

\* verifyClaim: the row is still claimed, by this owner, under this token, in time.
VerifyClaim(c, t) ==
  /\ rows[c.event].state = "claimed"
  /\ rows[c.event].claimedBy = c.owner
  /\ rows[c.event].token = c.token
  /\ t < rows[c.event].until

ReceiptOf(e) == <<ConsumerOf[Topic[e]], Key[e]>>

\* Mutation: the consumer's statements commit although the claim has run out.
DeliverOutsideTx(c, t) ==
  /\ effects' = [effects EXCEPT ![c.event] = @ + 1]
  /\ IF VerifyClaim(c, t)
       THEN /\ receipts' = receipts \cup {ReceiptOf(c.event)}
            /\ rows' = [rows EXCEPT ![c.event] = Released(@, "delivered", @.availableAt)]
       ELSE UNCHANGED <<receipts, rows>>
  /\ UNCHANGED <<now, accepted>>

\* deliver: the effect, the receipt and the delivered state in one transaction.  A
\* receipt that is already there suppresses the effect, not the settlement.
DeliverRow(c, t) ==
  /\ VerifyClaim(c, t)
  /\ IF ReceiptOf(c.event) \in receipts
       THEN UNCHANGED <<effects, receipts>>
       ELSE /\ effects' = [effects EXCEPT ![c.event] = @ + 1]
            /\ receipts' = receipts \cup {ReceiptOf(c.event)}
  /\ rows' = [rows EXCEPT ![c.event] = Released(@, "delivered", @.availableAt)]
  /\ UNCHANGED <<now, accepted>>

\* retry: the claim is given back and the row becomes due after RetryDelay.
RetryRow(c, t) ==
  /\ VerifyClaim(c, t)
  /\ rows' = [rows EXCEPT ![c.event] = Released(@, "retry", t + RetryDelay)]
  /\ UNCHANGED <<now, receipts, effects, accepted>>

-----------------------------------------------------------------------------
OutboxTypeOK ==
  /\ now \in 0..MaxTime
  /\ rows \in [Event -> Row]
  /\ receipts \subseteq {ReceiptOf(e) : e \in {f \in Event : Topic[f] \in Handled}}
  /\ effects \in [Event -> Nat]
  /\ accepted \subseteq Event
=============================================================================
