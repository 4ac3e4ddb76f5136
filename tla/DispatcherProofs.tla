-------------------------- MODULE DispatcherProofs --------------------------
(***************************************************************************)
(* Proofs about the executor lease and the worker group, and about the     *)
(* outbox and its dispatcher that work under them, for any processes,      *)
(* events, durations, clock skew and number of faults.                     *)
(*                                                                         *)
(* The lease: NoLeakedLock and DownHoldsNothing are not inductive by       *)
(* themselves.  A crash ends the sessions of its own process only, so the  *)
(* proof needs to know that a process never points to a lease another one  *)
(* acquired (OwnLeases), and that a process that is down is not the one    *)
(* that NoLeakedLock names, which is DownHoldsNothing.                     *)
(*                                                                         *)
(* The outbox: OutboxInv is what the tables satisfy between transactions.  *)
(* ExactlyOnce is not inductive alone: that a receipt never hides the      *)
(* effect of a row that is only claimed rests on OneEventPerKey, the       *)
(* unique business key.  ClaimsInv relates the records processes hold in   *)
(* memory to the rows: a token is never reused, so no two records carry    *)
(* the same one.                                                           *)
(***************************************************************************)
EXTENDS Dispatcher, TLAPS


\* The lease objects process p has acquired so far.
Acquired(p) == {<<p, n>> : n \in 1..issued[p]}

OwnLeases ==
  \A p \in Proc :
    /\ group[p] \in Acquired(p) \cup {NoLease}
    /\ \A w \in Loop : held[p][w] \in Acquired(p) \cup {NoLease}
    /\ stage[p]["outbox"] = "running" => held[p]["outbox"] # NoLease

CoordInv == CoordTypeOK /\ OwnLeases /\ NoLeakedLock /\ DownHoldsNothing

USE DEF CoordTypeOK, MaybeLease, Lease, Stage

-----------------------------------------------------------------------------
\* NoLease is not the name of a lease object.
LEMMA NoLeaseIsNone == \A p, n : p \in Proc /\ n \in Nat => <<p, n>> # NoLease
  BY CoordinationAssumption

LEMMA CoordInitInv == CoordInit => CoordInv
PROOF
  <1> SUFFICES ASSUME CoordInit PROVE CoordInv
    OBVIOUS
  <1>1. CoordTypeOK
    BY DEF CoordInit, NoHeld, IdleStages
  <1>2. OwnLeases
    BY DEF CoordInit, OwnLeases, NoHeld, IdleStages, Loop
  <1>3. NoLeakedLock
    BY DEF CoordInit, NoLeakedLock
  <1>4. DownHoldsNothing
    BY NoLeaseIsNone DEF CoordInit, DownHoldsNothing
  <1> QED
    BY <1>1, <1>2, <1>3, <1>4 DEF CoordInv

\* A process keeps the leases it acquired.
LEMMA AcquiredGrows ==
  ASSUME CoordTypeOK, NEW p \in Proc, AcquireInto(p)
  PROVE  /\ \A q \in Proc : Acquired(q) \subseteq Acquired(q)'
         /\ <<p, issued[p] + 1>> \in Acquired(p)'
PROOF
  <1>1. \A q \in Proc : issued[q] \in Nat /\ issued'[q] \in Nat /\ issued[q] <= issued'[q]
    BY DEF AcquireInto
  <1>2. issued'[p] = issued[p] + 1
    BY DEF AcquireInto
  <1>3. ASSUME NEW q \in Proc, NEW l \in Acquired(q) PROVE l \in Acquired(q)'
    <2>1. PICK n \in 1..issued[q] : l = <<q, n>>
      BY DEF Acquired
    <2>2. n \in 1..issued'[q]
      BY <1>1
    <2> QED
      BY <2>1, <2>2 DEF Acquired
  <1>4. issued[p] + 1 \in 1..issued'[p]
    BY <1>1, <1>2
  <1> QED
    BY <1>3, <1>4 DEF Acquired

\* Taking a free lock keeps the invariant, whichever group pointer it replaces.
LEMMA AcquireInv ==
  ASSUME NEW p \in Proc, CoordInv, AcquireInto(p), up'[p],
         \A q \in Proc : q # p => up'[q] = up[q],
         up' \in [Proc -> BOOLEAN], faults' \in Nat, UNCHANGED loopVars
  PROVE  CoordInv'
PROOF
  <1> USE DEF CoordInv, loopVars
  <1>1. CoordTypeOK'
    <2>1. issued' \in [Proc -> Nat]
      BY DEF AcquireInto
    <2>2. <<p, issued[p] + 1>> \in Proc \X Nat
      OBVIOUS
    <2>3. holder' \in MaybeLease /\ group' \in [Proc -> MaybeLease]
      BY <2>2 DEF AcquireInto
    <2> QED
      BY <2>1, <2>3 DEF AcquireInto
  <1>2. OwnLeases'
    <2> SUFFICES ASSUME NEW q \in Proc
                 PROVE  /\ group'[q] \in Acquired(q)' \cup {NoLease}
                        /\ \A w \in Loop : held'[q][w] \in Acquired(q)' \cup {NoLease}
                        /\ stage'[q]["outbox"] = "running" => held'[q]["outbox"] # NoLease
      BY DEF OwnLeases
    <2>1. group'[q] \in Acquired(q)' \cup {NoLease}
      BY AcquiredGrows DEF OwnLeases, AcquireInto
    <2>2. ASSUME NEW w \in Loop PROVE held'[q][w] \in Acquired(q)' \cup {NoLease}
      BY AcquiredGrows DEF OwnLeases
    <2>3. stage'[q]["outbox"] = "running" => held'[q]["outbox"] # NoLease
      BY DEF OwnLeases
    <2> QED
      BY <2>1, <2>2, <2>3
  <1>3. NoLeakedLock'
    BY DEF NoLeakedLock, AcquireInto
  <1>4. DownHoldsNothing'
    BY DEF DownHoldsNothing, AcquireInto
  <1> QED
    BY <1>1, <1>2, <1>3, <1>4

LEMMA StartInv ==
  ASSUME NEW p \in Proc, CoordInv, Start(p)
  PROVE  CoordInv'
PROOF
  <1>1. CASE AcquireInto(p)
    BY <1>1, AcquireInv DEF Start, CoordInv
  <1>2. CASE UNCHANGED leaseVars
    BY <1>2 DEF Start, CoordInv, OwnLeases, Acquired, NoLeakedLock, DownHoldsNothing,
                leaseVars, loopVars
  <1> QED
    BY <1>1, <1>2 DEF Start

LEMMA TakeoverInv ==
  ASSUME NEW p \in Proc, CoordInv, Takeover(p)
  PROVE  CoordInv'
  BY AcquireInv DEF Takeover, CoordInv

\* A loop takes or gives up its copy of the group's lease: only "closing" copies count.
LEMMA LoopBeginInv ==
  ASSUME NEW p \in Proc, NEW w \in Loop, CoordInv, LoopBegin(p, w)
  PROVE  CoordInv'
PROOF
  <1> USE DEF CoordInv, LoopBegin, leaseVars
  <1>1. CoordTypeOK'
    OBVIOUS
  <1>2. OwnLeases'
    BY DEF OwnLeases, Acquired
  <1>3. NoLeakedLock'
    BY DEF NoLeakedLock
  <1>4. DownHoldsNothing'
    BY DEF DownHoldsNothing
  <1> QED
    BY <1>1, <1>2, <1>3, <1>4

LEMMA StepReturnsInv ==
  ASSUME NEW p \in Proc, NEW w \in Loop, CoordInv, StepReturns(p, w), faults' \in Nat
  PROVE  CoordInv'
PROOF
  <1> USE DEF CoordInv, StepReturns, leaseVars
  <1>1. CoordTypeOK'
    OBVIOUS
  <1>2. OwnLeases'
    BY DEF OwnLeases, Acquired
  <1>3. NoLeakedLock'
    BY ZenonT(60) DEF NoLeakedLock
  <1>4. DownHoldsNothing'
    BY DEF DownHoldsNothing, IdleStages
  <1> QED
    BY <1>1, <1>2, <1>3, <1>4

\* A loop about to close its copy keeps the lock accounted for, whatever becomes of
\* the group's pointer to the same lease.
LEMMA ReportLostInv ==
  ASSUME NEW p \in Proc, NEW w \in Loop, CoordInv, stage[p][w] = "running",
         DropGroupLease(p, held[p][w]), closed' \in SUBSET Lease,
         stage' = [stage EXCEPT ![p][w] = "closing"],
         UNCHANGED <<up, holder, issued, held>>, faults' \in Nat
  PROVE  CoordInv'
PROOF
  <1> USE DEF CoordInv, DropGroupLease
  <1>1. CoordTypeOK'
    OBVIOUS
  <1>2. OwnLeases'
    BY DEF OwnLeases, Acquired
  <1>3. NoLeakedLock'
    BY DEF NoLeakedLock
  <1>4. DownHoldsNothing'
    BY DEF DownHoldsNothing, IdleStages
  <1> QED
    BY <1>1, <1>2, <1>3, <1>4

LEMMA OutboxLeaseLostInv ==
  ASSUME NEW p \in Proc, CoordInv, OutboxLeaseLost(p)
  PROVE  CoordInv'
PROOF
  <1>1. held[p]["outbox"] \in Lease
    BY DEF CoordInv, OwnLeases, OutboxLeaseLost, Loop
  <1>2. closed' \in SUBSET Lease
    BY <1>1 DEF CoordInv, OutboxLeaseLost
  <1> QED
    BY <1>2, ReportLostInv DEF CoordInv, OutboxLeaseLost, Loop

LEMMA SchedulerClaimLostInv ==
  ASSUME NEW p \in Proc, CoordInv, SchedulerClaimLost(p)
  PROVE  CoordInv'
PROOF
  <1>1. closed' \in SUBSET Lease /\ faults' \in Nat
    BY DEF CoordInv, SchedulerClaimLost, SpendFault
  <1> QED
    BY <1>1, ReportLostInv DEF CoordInv, SchedulerClaimLost, Loop

LEMMA LoopCloseInv ==
  ASSUME NEW p \in Proc, NEW w \in Loop, CoordInv, LoopClose(p, w)
  PROVE  CoordInv'
PROOF
  <1> USE DEF CoordInv, LoopClose, CloseLease
  <1>1. CoordTypeOK'
    <2>1. held[p][w] # NoLease => held[p][w] \in Lease
      OBVIOUS
    <2>2. closed' \in SUBSET Lease
      BY <2>1
    <2> QED
      BY <2>2
  <1>2. OwnLeases'
    BY DEF OwnLeases, Acquired
  <1>3. NoLeakedLock'
    BY DEF NoLeakedLock
  <1>4. up[p]
    BY DEF DownHoldsNothing, IdleStages
  <1>5. ASSUME NEW q \in Proc, ~up'[q]
        PROVE  /\ group'[q] = NoLease
               /\ stage'[q] = IdleStages
               /\ \A n \in 0..issued'[q] : holder' # <<q, n>>
    <2>1. q # p /\ ~up[q]
      BY <1>4, <1>5
    <2>2. group'[q] = group[q] /\ stage'[q] = stage[q] /\ issued'[q] = issued[q]
      BY <2>1
    <2>3. ASSUME NEW n \in 0..issued[q] PROVE holder' # <<q, n>>
      <3>1. n \in Nat /\ <<q, n>> # NoLease
        BY NoLeaseIsNone
      <3>2. holder # <<q, n>> /\ holder' \in {holder, NoLease}
        BY <2>1 DEF DownHoldsNothing
      <3> QED
        BY <3>1, <3>2
    <2> QED
      BY <2>1, <2>2, <2>3 DEF DownHoldsNothing
  <1>6. DownHoldsNothing'
    BY <1>5 DEF DownHoldsNothing
  <1> QED
    BY <1>1, <1>2, <1>3, <1>6

\* Stop takes every lease of p out of the lock: by NoLeakedLock no other object of
\* p can hold it.
LEMMA StopInv ==
  ASSUME NEW p \in Proc, CoordInv, Stop(p)
  PROVE  CoordInv'
PROOF
  <1> USE DEF CoordInv
  <1>1. LeasesToClose(p) \subseteq Lease
    BY DEF LeasesToClose
  <1>2. faults' \in Nat /\ NoHeld \in [Loop -> MaybeLease] /\ IdleStages \in [Loop -> Stage]
    BY DEF Stop, SpendFault, NoHeld, IdleStages
  <1>3. CoordTypeOK'
    BY <1>1, <1>2 DEF Stop
  <1>4. OwnLeases'
    BY DEF OwnLeases, Acquired, Stop, NoHeld, IdleStages, Loop
  <1>5. NoLeakedLock'
    <2> SUFFICES ASSUME holder' # NoLease
                 PROVE  \E q \in Proc :
                          \/ group'[q] = holder'
                          \/ \E w \in Loop : stage'[q][w] = "closing" /\ held'[q][w] = holder'
      BY DEF NoLeakedLock
    <2>1. holder' = holder /\ holder \notin LeasesToClose(p)
      BY DEF Stop
    <2>2. PICK q \in Proc : \/ group[q] = holder
                            \/ \E w \in Loop : stage[q][w] = "closing" /\ held[q][w] = holder
      BY <2>1 DEF NoLeakedLock
    <2>3. q # p
      BY <2>1, <2>2 DEF LeasesToClose
    <2>4. group'[q] = group[q] /\ stage'[q] = stage[q] /\ held'[q] = held[q]
      BY <2>3 DEF Stop
    <2> QED
      BY <2>1, <2>2, <2>4
  <1>6. DownHoldsNothing'
    <2> SUFFICES ASSUME NEW q \in Proc, ~up'[q]
                 PROVE  /\ group'[q] = NoLease
                        /\ stage'[q] = IdleStages
                        /\ \A n \in 0..issued'[q] : holder' # <<q, n>>
      BY DEF DownHoldsNothing
    <2>1. CASE q # p
      <3>1. /\ ~up[q] /\ group'[q] = group[q] /\ stage'[q] = stage[q]
            /\ issued'[q] = issued[q]
        BY <2>1 DEF Stop
      <3>2. holder' \in {holder, NoLease}
        BY DEF Stop
      <3> QED
        BY <3>1, <3>2, NoLeaseIsNone DEF DownHoldsNothing
    <2>2. CASE q = p
      <3>1. group'[p] = NoLease /\ stage'[p] = IdleStages /\ issued' = issued
        BY DEF Stop
      <3>2. ASSUME NEW n \in 0..issued[p], holder' = <<p, n>> PROVE FALSE
        <4>1. holder = <<p, n>> /\ holder \notin LeasesToClose(p) /\ holder # NoLease
          BY <3>2, NoLeaseIsNone DEF Stop
        <4>2. PICK r \in Proc : \/ group[r] = holder
                                \/ \E w \in Loop : stage[r][w] = "closing" /\ held[r][w] = holder
          BY <4>1 DEF NoLeakedLock
        <4>3. holder \in Acquired(r)
          BY <4>1, <4>2 DEF OwnLeases
        <4>4. r = p
          BY <4>1, <4>3 DEF Acquired
        <4> QED
          BY <4>1, <4>2, <4>4 DEF LeasesToClose
      <3> QED
        BY <2>2, <3>1, <3>2
    <2> QED
      BY <2>1, <2>2
  <1> QED
    BY <1>3, <1>4, <1>5, <1>6

LEMMA SessionLostInv ==
  ASSUME CoordInv, SessionLost
  PROVE  CoordInv'
PROOF
  <1> USE DEF CoordInv, SessionLost, loopVars
  <1>1. CoordTypeOK'
    BY DEF SpendFault
  <1>2. OwnLeases'
    BY DEF OwnLeases, Acquired
  <1>3. NoLeakedLock'
    BY DEF NoLeakedLock
  <1>4. DownHoldsNothing'
    BY NoLeaseIsNone DEF DownHoldsNothing
  <1> QED
    BY <1>1, <1>2, <1>3, <1>4

\* A crash ends the sessions of p only; what NoLeakedLock names is not one of p's.
LEMMA CrashInv ==
  ASSUME NEW p \in Proc, CoordInv, Crash(p)
  PROVE  CoordInv'
PROOF
  <1> USE DEF CoordInv
  <1>1. faults' \in Nat /\ NoHeld \in [Loop -> MaybeLease] /\ IdleStages \in [Loop -> Stage]
    BY DEF Crash, SpendFault, NoHeld, IdleStages
  <1>2. CoordTypeOK'
    BY <1>1 DEF Crash
  <1>3. OwnLeases'
    BY DEF OwnLeases, Acquired, Crash, NoHeld, IdleStages, Loop
  <1>4. NoLeakedLock'
    <2> SUFFICES ASSUME holder' # NoLease
                 PROVE  \E q \in Proc :
                          \/ group'[q] = holder'
                          \/ \E w \in Loop : stage'[q][w] = "closing" /\ held'[q][w] = holder'
      BY DEF NoLeakedLock
    <2>1. holder' = holder /\ \A n \in 0..issued[p] : holder # <<p, n>>
      BY DEF Crash
    <2>2. PICK q \in Proc : \/ group[q] = holder
                            \/ \E w \in Loop : stage[q][w] = "closing" /\ held[q][w] = holder
      BY <2>1 DEF NoLeakedLock
    <2>3. holder \in Acquired(q)
      BY <2>1, <2>2 DEF OwnLeases
    <2>4. PICK m \in 1..issued[q] : holder = <<q, m>>
      BY <2>3 DEF Acquired
    <2>5. q # p
      BY <2>1, <2>4
    <2>6. group'[q] = group[q] /\ stage'[q] = stage[q] /\ held'[q] = held[q]
      BY <2>5 DEF Crash
    <2> QED
      BY <2>1, <2>2, <2>6
  <1>5. ASSUME NEW q \in Proc, ~up'[q]
        PROVE  /\ group'[q] = NoLease
               /\ stage'[q] = IdleStages
               /\ \A n \in 0..issued'[q] : holder' # <<q, n>>
    <2>1. CASE q # p
      <3>1. /\ ~up[q] /\ group'[q] = group[q] /\ stage'[q] = stage[q]
            /\ issued'[q] = issued[q]
        BY <1>5, <2>1 DEF Crash
      <3>2. holder' \in {holder, NoLease}
        BY DEF Crash
      <3> QED
        BY <3>1, <3>2, NoLeaseIsNone DEF DownHoldsNothing
    <2>2. CASE q = p
      <3>1. group'[p] = NoLease /\ stage'[p] = IdleStages /\ issued' = issued
        BY DEF Crash
      <3>2. ASSUME NEW n \in 0..issued[p] PROVE holder' # <<p, n>>
        <4>1. n \in Nat /\ <<p, n>> # NoLease
          BY NoLeaseIsNone
        <4>2. holder = <<p, n>> => holder' = NoLease
          BY DEF Crash
        <4>3. holder' \in {holder, NoLease}
          BY DEF Crash
        <4> QED
          BY <4>1, <4>2, <4>3
      <3> QED
        BY <2>2, <3>1, <3>2
    <2> QED
      BY <2>1, <2>2
  <1>6. DownHoldsNothing'
    BY <1>5 DEF DownHoldsNothing
  <1> QED
    BY <1>2, <1>3, <1>4, <1>6

-----------------------------------------------------------------------------
LEMMA CoordStepInv == CoordInv /\ [CoordNext]_coordVars => CoordInv'
PROOF
  <1> SUFFICES ASSUME CoordInv, [CoordNext]_coordVars PROVE CoordInv'
    OBVIOUS
  <1>1. CASE SessionLost
    BY <1>1, SessionLostInv
  <1>2. ASSUME NEW p \in Proc, Start(p) PROVE CoordInv'
    BY <1>2, StartInv
  <1>3. ASSUME NEW p \in Proc, Takeover(p) PROVE CoordInv'
    BY <1>3, TakeoverInv
  <1>4. ASSUME NEW p \in Proc, OutboxLeaseLost(p) PROVE CoordInv'
    BY <1>4, OutboxLeaseLostInv
  <1>5. ASSUME NEW p \in Proc, SchedulerClaimLost(p) PROVE CoordInv'
    BY <1>5, SchedulerClaimLostInv
  <1>6. ASSUME NEW p \in Proc, Stop(p) PROVE CoordInv'
    BY <1>6, StopInv
  <1>7. ASSUME NEW p \in Proc, Crash(p) PROVE CoordInv'
    BY <1>7, CrashInv
  <1>8. ASSUME NEW p \in Proc, NEW w \in Loop, LoopBegin(p, w) PROVE CoordInv'
    BY <1>8, LoopBeginInv
  <1>9. ASSUME NEW p \in Proc, NEW w \in Loop, LoopEnd(p, w) PROVE CoordInv'
    <2>1. faults' \in Nat
      BY <1>9 DEF LoopEnd, CoordInv
    <2> QED
      BY <1>9, <2>1, StepReturnsInv DEF LoopEnd
  <1>10. ASSUME NEW p \in Proc, NEW w \in Loop, LoopClose(p, w) PROVE CoordInv'
    BY <1>10, LoopCloseInv
  <1>11. CASE UNCHANGED coordVars
    BY <1>11 DEF CoordInv, OwnLeases, Acquired, NoLeakedLock, DownHoldsNothing, coordVars
  <1> QED
    BY <1>1, <1>2, <1>3, <1>4, <1>5, <1>6, <1>7, <1>8, <1>9, <1>10, <1>11 DEF CoordNext

\* In every reachable state the variables have their types.
THEOREM CoordTyping == CoordSpec => []CoordTypeOK
  BY CoordInitInv, CoordStepInv, PTL DEF CoordSpec, CoordInv

\* The advisory lock never ends up with an object nobody will release, however many
\* sessions are dropped, processes crash, or loops report a lease lost.
THEOREM LockIsNeverLeaked == CoordSpec => []NoLeakedLock
  BY CoordInitInv, CoordStepInv, PTL DEF CoordSpec, CoordInv

\* A process that is down holds no lock, points to no lease and is in no step.
THEOREM DownIsClean == CoordSpec => []DownHoldsNothing
  BY CoordInitInv, CoordStepInv, PTL DEF CoordSpec, CoordInv

HIDE DEF CoordTypeOK, MaybeLease, Lease, Stage

-----------------------------------------------------------------------------
(* The outbox and the dispatcher. *)
Exists(e) == rows[e].state # "absent"
Delivered(e) == rows[e].state = "delivered"

\* The token of a claimed row is the one its latest claim gave out, and an event
\* that is not in the table has never been claimed.
LatestToken ==
  \A e \in Event :
    /\ rows[e].state = "claimed" => rows[e].token = rows[e].attempts
    /\ rows[e].state = "absent" => rows[e].attempts = 0

\* Two rows never share topic and business key.
OneEventPerKey ==
  \A e, f \in Event : SameKey(e, f) /\ Exists(e) /\ Exists(f) => e = f

\* An event is in the table exactly when its domain change is committed, and only
\* an event with a consumer is ever delivered.
RowsMatchEvents ==
  /\ accepted = {e \in Event : Exists(e)}
  /\ \A e \in Event : Delivered(e) => Topic[e] \in Handled

OutboxInv == OutboxTypeOK /\ LatestToken /\ OneEventPerKey /\ RowsMatchEvents /\ ExactlyOnce

\* A record in memory is the claim its row was given by some attempt.
TokensGivenOut ==
  \A p \in Proc : \A c \in batch[p] : c.token <= rows[c.event].attempts

\* No two records in memory carry the same token of the same row.
ClaimsDistinct ==
  \A p, q \in Proc : \A c \in batch[p], d \in batch[q] :
    (c.event = d.event /\ c.token = d.token) => p = q /\ c = d

PollTypeOK == phase \in [Proc -> Phase] /\ batch \in [Proc -> SUBSET Claim]

ClaimsInv == PollTypeOK /\ TokensGivenOut /\ ClaimsDistinct

IInv == CoordInv /\ OutboxInv /\ ClaimsInv

-----------------------------------------------------------------------------
LEMMA InitInv == Init => IInv
PROOF
  <1> SUFFICES ASSUME Init PROVE IInv
    OBVIOUS
  <1>1. CoordInv
    BY CoordInitInv DEF Init
  <1>2. NoRow \in Row /\ NoRow.state = "absent" /\ NoRow.attempts = 0
    BY DEF NoRow, Row, RowState
  <1>3. OutboxTypeOK
    BY <1>2, OutboxAssumption DEF Init, OutboxInit, OutboxTypeOK
  <1>4. LatestToken /\ OneEventPerKey /\ RowsMatchEvents /\ ExactlyOnce
    BY <1>2 DEF Init, OutboxInit, LatestToken, OneEventPerKey, RowsMatchEvents,
                ExactlyOnce, Exists, Delivered
  <1>5. ClaimsInv
    BY DEF Init, ClaimsInv, PollTypeOK, TokensGivenOut, ClaimsDistinct, Phase
  <1> QED
    BY <1>1, <1>3, <1>4, <1>5 DEF IInv, OutboxInv

-----------------------------------------------------------------------------
\* Giving a claim back leaves a well-typed row in the state that was asked for.
LEMMA ReleasedRow ==
  ASSUME NEW r \in Row, NEW s \in RowState, NEW at \in Int
  PROVE  /\ Released(r, s, at) \in Row
         /\ Released(r, s, at).state = s
         /\ Released(r, s, at).attempts = r.attempts
  BY DEF Released, Row, RowState

LEMMA ReadingIsInt ==
  ASSUME OutboxTypeOK, NEW t \in Reading
  PROVE  t \in Int
  BY OutboxAssumption DEF OutboxTypeOK, Reading

\* A transaction that settles no row and takes none in keeps what rows and receipts
\* say about each other.
LEMMA NothingSettled ==
  ASSUME OutboxInv, OutboxTypeOK', LatestToken',
         \A e \in Event : (Delivered(e)' <=> Delivered(e)) /\ (Exists(e)' <=> Exists(e)),
         UNCHANGED <<receipts, effects, accepted>>
  PROVE  OutboxInv'
PROOF
  <1>1. OneEventPerKey'
    BY DEF OutboxInv, OneEventPerKey, SameKey
  <1>2. RowsMatchEvents'
    BY DEF OutboxInv, RowsMatchEvents
  <1>3. ExactlyOnce'
    BY DEF OutboxInv, ExactlyOnce, Delivered, ReceiptOf, SameKey
  <1> QED
    BY <1>1, <1>2, <1>3 DEF OutboxInv

LEMMA TickInv ==
  ASSUME OutboxInv, Tick
  PROVE  OutboxInv'
PROOF
  <1>1. now' \in 0..MaxTime
    BY OutboxAssumption DEF OutboxInv, OutboxTypeOK, Tick
  <1>2. OutboxTypeOK' /\ LatestToken'
    BY <1>1 DEF OutboxInv, OutboxTypeOK, Tick, LatestToken, ReceiptOf
  <1> QED
    BY <1>2, NothingSettled DEF Tick, Delivered, Exists

LEMMA RetryRowInv ==
  ASSUME OutboxInv, NEW c \in Claim, NEW t \in Reading, RetryRow(c, t)
  PROVE  OutboxInv' /\ \A e \in Event : rows'[e].attempts = rows[e].attempts
PROOF
  <1> DEFINE e == c.event
             r == Released(rows[e], "retry", t + RetryDelay)
  <1>1. e \in Event /\ rows[e] \in Row /\ t + RetryDelay \in Int
    <2>1. t \in Int
      BY ReadingIsInt DEF OutboxInv
    <2>2. e \in Event
      BY DEF Claim
    <2>3. RetryDelay \in Int
      BY OutboxAssumption
    <2>4. rows \in [Event -> Row]
      BY DEF OutboxInv, OutboxTypeOK
    <2> HIDE DEF e
    <2> QED
      BY <2>1, <2>2, <2>3, <2>4
  <1>2. r \in Row /\ r.state = "retry" /\ r.attempts = rows[e].attempts
    <2>1. "retry" \in RowState
      BY DEF RowState
    <2> HIDE DEF e
    <2> QED
      BY <1>1, <2>1, ReleasedRow
  <1>3. rows' = [rows EXCEPT ![e] = r] /\ rows[e].state = "claimed"
    BY DEF RetryRow, VerifyClaim
  <1> HIDE DEF e, r
  <1>4. OutboxTypeOK' /\ LatestToken'
    BY <1>1, <1>2, <1>3 DEF OutboxInv, OutboxTypeOK, LatestToken, RetryRow
  <1>5. \A f \in Event : /\ (Delivered(f)' <=> Delivered(f)) /\ (Exists(f)' <=> Exists(f))
                         /\ rows'[f].attempts = rows[f].attempts
    BY <1>1, <1>2, <1>3 DEF Delivered, Exists, OutboxInv, OutboxTypeOK
  <1> QED
    BY <1>4, <1>5, NothingSettled DEF RetryRow

\* Expired claims are recovered and ready rows are claimed: no row is settled by it,
\* and every row claimed has an attempt, so a token, that no claim of it had before.
LEMMA ClaimRowsInv ==
  ASSUME OutboxInv, NEW o \in Owner, NEW t \in Reading, ClaimRows(o, t),
         UNCHANGED <<now, receipts, effects, accepted>>
  PROVE  /\ OutboxInv'
         /\ \A e \in Event : rows[e].attempts <= rows'[e].attempts
         /\ \A c \in ClaimsOf(o, t) :
              /\ c \in Claim
              /\ c.token = rows[c.event].attempts + 1
              /\ c.token = rows'[c.event].attempts
         /\ \A c, d \in ClaimsOf(o, t) : c.event = d.event => c = d
PROOF
  <1> DEFINE rs == ExpireClaims(t)
  <1>1. t \in Int /\ rows \in [Event -> Row]
    BY ReadingIsInt DEF OutboxInv, OutboxTypeOK
  <1>2. ASSUME NEW e \in Event
        PROVE  /\ rs[e] \in Row
               /\ rs[e].attempts = rows[e].attempts
               /\ rs[e] = rows[e] \/ (rs[e].state = "retry" /\ rows[e].state = "claimed")
    <2>1. "retry" \in RowState
      BY DEF RowState
    <2>2. Released(rows[e], "retry", t) \in Row
      BY <1>1, <2>1, ReleasedRow
    <2>3. /\ Released(rows[e], "retry", t).state = "retry"
          /\ Released(rows[e], "retry", t).attempts = rows[e].attempts
      BY DEF Released
    <2>4. rs[e] = IF rows[e].state = "claimed" /\ rows[e].until <= t
                    THEN Released(rows[e], "retry", t) ELSE rows[e]
      BY DEF ExpireClaims
    <2> HIDE DEF rs
    <2> QED
      BY <1>1, <2>2, <2>3, <2>4
  <1>3. Selected(rs, t) \subseteq {e \in Event : rs[e].state \in {"pending", "retry"}}
    BY DEF Selected, ReadyRows
  <1>4. rows' = [e \in Event |-> IF e \in Selected(rs, t) THEN Claimed(rs[e], o, t) ELSE rs[e]]
    BY DEF ClaimRows
  <1>5. ClaimsOf(o, t) =
          {[event |-> e, owner |-> o, token |-> rs[e].attempts + 1,
            due |-> rs[e].availableAt, created |-> rs[e].createdAt] : e \in Selected(rs, t)}
    BY DEF ClaimsOf
  <1> HIDE DEF rs
  <1>6. ASSUME NEW e \in Event
        PROVE  /\ Claimed(rs[e], o, t) \in Row
               /\ Claimed(rs[e], o, t).state = "claimed"
               /\ Claimed(rs[e], o, t).attempts = rs[e].attempts + 1
               /\ Claimed(rs[e], o, t).token = rs[e].attempts + 1
    <2>1. t + LeaseDuration \in Int
      BY <1>1, OutboxAssumption
    <2>2. rs[e] \in Row
      BY <1>2
    <2> QED
      BY <2>1, <2>2 DEF Claimed, Row, RowState
  <1>7. rows' \in [Event -> Row]
    BY <1>2, <1>4, <1>6
  <1>8. OutboxTypeOK'
    BY <1>7 DEF OutboxInv, OutboxTypeOK, ReceiptOf
  <1>9. LatestToken'
    BY <1>2, <1>4, <1>6 DEF OutboxInv, LatestToken
  <1>10. ASSUME NEW e \in Event
         PROVE  /\ Delivered(e)' <=> Delivered(e)
                /\ Exists(e)' <=> Exists(e)
                /\ rows[e].attempts <= rows'[e].attempts
    <2>1. rs[e].attempts \in Nat /\ rs[e].attempts = rows[e].attempts
      BY <1>2 DEF Row
    <2>2. CASE e \in Selected(rs, t)
      BY <1>2, <1>3, <1>4, <1>6, <2>1, <2>2 DEF Delivered, Exists
    <2>3. CASE e \notin Selected(rs, t)
      BY <1>2, <1>4, <2>1, <2>3 DEF Delivered, Exists
    <2> QED
      BY <2>2, <2>3
  <1>11. OutboxInv'
    BY <1>8, <1>9, <1>10, NothingSettled
  <1>12. ASSUME NEW c \in ClaimsOf(o, t)
         PROVE  /\ c \in Claim
                /\ c.token = rows[c.event].attempts + 1
                /\ c.token = rows'[c.event].attempts
    <2>1. PICK e \in Selected(rs, t) :
             c = [event |-> e, owner |-> o, token |-> rs[e].attempts + 1,
                  due |-> rs[e].availableAt, created |-> rs[e].createdAt]
      BY <1>5
    <2>2. e \in Event /\ c.event = e /\ c.token = rs[e].attempts + 1
      BY <1>3, <2>1
    <2>3. rs[e].attempts + 1 \in Nat /\ rs[e].availableAt \in Int /\ rs[e].createdAt \in Int
      BY <1>2, <2>2 DEF Row
    <2>4. c \in Claim
      BY <2>1, <2>2, <2>3 DEF Claim
    <2>5. rows'[e] = Claimed(rs[e], o, t)
      BY <1>4, <2>1, <2>2
    <2> QED
      BY <1>2, <1>6, <2>2, <2>4, <2>5
  <1>13. ASSUME NEW c \in ClaimsOf(o, t), NEW d \in ClaimsOf(o, t), c.event = d.event
         PROVE  c = d
    BY <1>5, <1>13
  <1> QED
    BY <1>10, <1>11, <1>12, <1>13

\* A row exists once its domain change is committed, on a business key of its own.
LEMMA EnqueueInv ==
  ASSUME OutboxInv, NEW e \in Event, NEW t \in Reading, Enqueue(e, t)
  PROVE  OutboxInv' /\ \A f \in Event : rows[f].attempts <= rows'[f].attempts
PROOF
  <1> DEFINE r == NewRow(t)
  <1>1. t \in Int /\ rows \in [Event -> Row]
    BY ReadingIsInt DEF OutboxInv, OutboxTypeOK
  <1>2. r \in Row /\ r.state = "pending" /\ r.attempts = 0
    BY <1>1 DEF NewRow, Row, RowState
  <1>3. rows' = [rows EXCEPT ![e] = r] /\ accepted' = accepted \cup {e} /\ ~Exists(e)
    BY DEF Enqueue, Exists
  <1> HIDE DEF r
  <1>4. OutboxTypeOK' /\ LatestToken'
    BY <1>1, <1>2, <1>3 DEF OutboxInv, OutboxTypeOK, LatestToken, Enqueue
  <1>5. \A f \in Event : f # e => rows'[f] = rows[f]
    BY <1>1, <1>3
  <1>6. rows'[e].state = "pending"
    BY <1>1, <1>2, <1>3
  <1>7. OneEventPerKey'
    <2> SUFFICES ASSUME NEW f \in Event, NEW g \in Event, SameKey(f, g), Exists(f)', Exists(g)'
                 PROVE  f = g
      BY DEF OneEventPerKey, SameKey
    <2>1. \A h \in Event : SameKey(e, h) => ~Exists(h)
      BY DEF Enqueue, Exists
    <2>2. SameKey(g, f)
      BY DEF SameKey
    <2> QED
      BY <1>5, <2>1, <2>2 DEF OutboxInv, OneEventPerKey, Exists
  <1>8. RowsMatchEvents'
    BY <1>3, <1>5, <1>6 DEF OutboxInv, RowsMatchEvents, Exists, Delivered
  <1>9. ExactlyOnce'
    <2>1. \A f \in Event : Delivered(f)' <=> Delivered(f)
      BY <1>3, <1>5, <1>6 DEF Delivered, Exists
    <2> QED
      BY <2>1 DEF OutboxInv, ExactlyOnce, Delivered, ReceiptOf, SameKey, Enqueue
  <1>10. \A f \in Event : rows[f].attempts <= rows'[f].attempts
    <2>1. rows[e].attempts = 0
      BY <1>3 DEF OutboxInv, LatestToken, Exists
    <2>2. \A f \in Event : rows[f].attempts \in Nat
      BY <1>1 DEF Row
    <2> QED
      BY <1>1, <1>2, <1>3, <1>5, <2>1, <2>2
  <1> QED
    BY <1>4, <1>7, <1>8, <1>9, <1>10 DEF OutboxInv

\* The delivery of a row that still verifies finds no receipt, so it commits exactly
\* one effect together with the receipt and the delivered state.
LEMMA DeliverFindsNoReceipt ==
  ASSUME OutboxInv, NEW e \in Event, rows[e].state = "claimed", Topic[e] \in Handled
  PROVE  ReceiptOf(e) \notin receipts
PROOF
  <1> SUFFICES ASSUME ReceiptOf(e) \in receipts PROVE FALSE
    OBVIOUS
  <1>1. PICK f \in Event : SameKey(e, f) /\ rows[f].state = "delivered"
    BY DEF OutboxInv, ExactlyOnce
  <1>2. Exists(e) /\ Exists(f)
    BY <1>1 DEF Exists
  <1>3. e = f
    BY <1>1, <1>2 DEF OutboxInv, OneEventPerKey
  <1> QED
    BY <1>1, <1>3

\* Receipts of different keys are different, because every topic has a consumer name
\* of its own.
LEMMA ReceiptNamesKey ==
  ASSUME NEW e \in Event, NEW f \in Event, Topic[e] \in Handled, Topic[f] \in Handled,
         ReceiptOf(e) = ReceiptOf(f)
  PROVE  SameKey(e, f)
  BY OutboxAssumption DEF ReceiptOf, SameKey

LEMMA DeliverRowInv ==
  ASSUME OutboxInv, NEW c \in Claim, NEW t \in Reading, Topic[c.event] \in Handled,
         DeliverRow(c, t)
  PROVE  /\ OutboxInv'
         /\ \A e \in Event : rows'[e].attempts = rows[e].attempts
         /\ effects[c.event] = 0
         /\ effects' = [effects EXCEPT ![c.event] = 1]
PROOF
  <1> DEFINE e == c.event
             r == Released(rows[e], "delivered", rows[e].availableAt)
  <1>1. e \in Event
    BY DEF Claim
  <1>2. rows \in [Event -> Row] /\ effects \in [Event -> Nat]
    BY DEF OutboxInv, OutboxTypeOK
  <1>3. r \in Row /\ r.state = "delivered" /\ r.attempts = rows[e].attempts
    <2>1. "delivered" \in RowState
      BY DEF RowState
    <2>2. rows[e] \in Row /\ rows[e].availableAt \in Int
      BY <1>1, <1>2 DEF Row
    <2> HIDE DEF e
    <2> QED
      BY <2>1, <2>2, ReleasedRow
  <1>4. rows[e].state = "claimed" /\ rows' = [rows EXCEPT ![e] = r]
    BY DEF DeliverRow, VerifyClaim
  <1>5. /\ effects' = [effects EXCEPT ![e] = @ + 1]
        /\ receipts' = receipts \cup {ReceiptOf(e)}
        /\ UNCHANGED <<now, accepted>>
    BY <1>1, <1>4, DeliverFindsNoReceipt DEF DeliverRow
  <1>6. Topic[e] \in Handled
    OBVIOUS
  <1> HIDE DEF e, r
  <1>7. effects[e] = 0
    BY <1>1, <1>4 DEF OutboxInv, ExactlyOnce
  <1>8. effects' = [effects EXCEPT ![e] = 1]
    BY <1>1, <1>2, <1>5, <1>7
  <1>9. rows'[e] = r /\ \A f \in Event : f # e => rows'[f] = rows[f]
    BY <1>1, <1>2, <1>4
  <1>10. OutboxTypeOK'
    <2>1. rows' \in [Event -> Row] /\ effects' \in [Event -> Nat]
      BY <1>2, <1>3, <1>4, <1>8
    <2>2. receipts' \subseteq {ReceiptOf(f) : f \in {g \in Event : Topic[g] \in Handled}}
      BY <1>1, <1>5, <1>6 DEF OutboxInv, OutboxTypeOK
    <2> QED
      BY <1>5, <2>1, <2>2 DEF OutboxInv, OutboxTypeOK, ReceiptOf
  <1>11. LatestToken'
    BY <1>3, <1>9 DEF OutboxInv, LatestToken
  <1>12. \A f \in Event : /\ Exists(f)' <=> Exists(f)
                          /\ Delivered(f)' <=> (Delivered(f) \/ f = e)
    BY <1>3, <1>4, <1>9 DEF Exists, Delivered
  <1>13. OneEventPerKey'
    BY <1>12 DEF OutboxInv, OneEventPerKey, SameKey
  <1>14. RowsMatchEvents'
    BY <1>5, <1>6, <1>12 DEF OutboxInv, RowsMatchEvents
  <1>15. ExactlyOnce'
    <2> SUFFICES ASSUME NEW f \in Event
                 PROVE  /\ effects'[f] = IF Delivered(f)' THEN 1 ELSE 0
                        /\ Topic[f] \in Handled =>
                             (ReceiptOf(f) \in receipts' <=>
                                \E g \in Event : SameKey(f, g) /\ Delivered(g)')
      BY DEF ExactlyOnce, Delivered, ReceiptOf, SameKey
    <2>1. effects'[f] = IF Delivered(f)' THEN 1 ELSE 0
      <3>1. effects[f] = IF Delivered(f) THEN 1 ELSE 0
        BY DEF OutboxInv, ExactlyOnce, Delivered
      <3> QED
        BY <1>1, <1>2, <1>7, <1>8, <1>12, <3>1
    <2>2. ASSUME Topic[f] \in Handled
          PROVE  ReceiptOf(f) \in receipts' <=> \E g \in Event : SameKey(f, g) /\ Delivered(g)'
      <3>1. ReceiptOf(f) \in receipts <=> \E g \in Event : SameKey(f, g) /\ Delivered(g)
        BY <2>2 DEF OutboxInv, ExactlyOnce, Delivered
      <3>2. ReceiptOf(f) = ReceiptOf(e) <=> SameKey(f, e)
        BY <1>1, <1>6, <2>2, ReceiptNamesKey DEF ReceiptOf, SameKey
      <3>3. ReceiptOf(f) \in receipts' <=> ReceiptOf(f) \in receipts \/ ReceiptOf(f) = ReceiptOf(e)
        BY <1>5
      <3>4. (\E g \in Event : SameKey(f, g) /\ Delivered(g)')
              <=> (\E g \in Event : SameKey(f, g) /\ Delivered(g)) \/ SameKey(f, e)
        BY <1>1, <1>12
      <3> QED
        BY <3>1, <3>2, <3>3, <3>4
    <2> QED
      BY <2>1, <2>2
  <1>16. \A f \in Event : rows'[f].attempts = rows[f].attempts
    BY <1>3, <1>9
  <1> QED
    BY <1>7, <1>8, <1>10, <1>11, <1>13, <1>14, <1>15, <1>16 DEF OutboxInv, e

-----------------------------------------------------------------------------
\* Polls that only forget records, over rows whose attempts only grow.
LEMMA ForgettingKeepsClaims ==
  ASSUME ClaimsInv, PollTypeOK', rows \in [Event -> Row], rows' \in [Event -> Row],
         \A p \in Proc : batch'[p] \subseteq batch[p],
         \A e \in Event : rows[e].attempts <= rows'[e].attempts
  PROVE  ClaimsInv'
PROOF
  <1>1. \A e \in Event : rows[e].attempts \in Nat /\ rows'[e].attempts \in Nat
    BY DEF Row
  <1>2. ASSUME NEW p \in Proc, NEW c \in batch'[p]
        PROVE  c.token <= rows'[c.event].attempts
    <2>1. c \in batch[p] /\ c.token <= rows[c.event].attempts
      BY DEF ClaimsInv, TokensGivenOut
    <2>2. c.event \in Event /\ c.token \in Nat
      BY <2>1 DEF ClaimsInv, PollTypeOK, Claim
    <2> QED
      BY <1>1, <2>1, <2>2
  <1>3. TokensGivenOut'
    BY <1>2 DEF TokensGivenOut
  <1>4. ClaimsDistinct'
    BY DEF ClaimsInv, ClaimsDistinct
  <1> QED
    BY <1>3, <1>4 DEF ClaimsInv

\* A claim gives out tokens above every token given out before.
LEMMA ClaimingKeepsClaims ==
  ASSUME ClaimsInv, PollTypeOK', rows \in [Event -> Row], rows' \in [Event -> Row],
         NEW p \in Proc, NEW b \in SUBSET Claim, batch' = [batch EXCEPT ![p] = b],
         \A e \in Event : rows[e].attempts <= rows'[e].attempts,
         \A c \in b : c.token = rows[c.event].attempts + 1 /\ c.token = rows'[c.event].attempts,
         \A c, d \in b : c.event = d.event => c = d
  PROVE  ClaimsInv'
PROOF
  <1>1. \A e \in Event : rows[e].attempts \in Nat /\ rows'[e].attempts \in Nat
    BY DEF Row
  <1>2. batch'[p] = b /\ \A q \in Proc : q # p => batch'[q] = batch[q]
    BY DEF ClaimsInv, PollTypeOK
  <1>3. ASSUME NEW q \in Proc, NEW c \in batch[q]
        PROVE  /\ c.event \in Event /\ c.token \in Nat
               /\ c.token <= rows[c.event].attempts
    BY DEF ClaimsInv, PollTypeOK, TokensGivenOut, Claim
  <1>4. ASSUME NEW c \in b PROVE c.event \in Event /\ c.token \in Nat
    BY DEF Claim
  <1>5. ASSUME NEW q \in Proc, NEW c \in batch'[q]
        PROVE  c.token <= rows'[c.event].attempts
    BY <1>1, <1>2, <1>3, <1>4
  <1>6. TokensGivenOut'
    BY <1>5 DEF TokensGivenOut
  <1>7. ASSUME NEW q \in Proc, NEW r \in Proc, NEW c \in batch'[q], NEW d \in batch'[r],
               c.event = d.event, c.token = d.token
        PROVE  q = r /\ c = d
    <2>1. CASE q = p /\ r = p
      BY <1>2, <1>7, <2>1
    <2>2. CASE q # p /\ r # p
      BY <1>2, <1>7, <2>2 DEF ClaimsInv, ClaimsDistinct
    <2>3. CASE q = p /\ r # p
      BY <1>1, <1>2, <1>3, <1>4, <1>7, <2>3
    <2>4. CASE q # p /\ r = p
      BY <1>1, <1>2, <1>3, <1>4, <1>7, <2>4
    <2> QED
      BY <2>1, <2>2, <2>3, <2>4
  <1>8. ClaimsDistinct'
    BY <1>7 DEF ClaimsDistinct
  <1> QED
    BY <1>6, <1>8 DEF ClaimsInv

-----------------------------------------------------------------------------
\* What the rest of a poll does to the lease, the loops and the records in memory.
LEMMA ProceedInv ==
  ASSUME CoordInv, PollTypeOK, NEW p \in Proc, NEW b \in SUBSET Claim, Proceed(p, b)
  PROVE  CoordInv' /\ PollTypeOK' /\ batch' = [batch EXCEPT ![p] = b]
PROOF
  <1>1. CASE b = {}
    <2>1. CoordInv'
      BY <1>1, CoordStepInv DEF Proceed, CoordNext, Loop
    <2> QED
      BY <1>1, <2>1 DEF Proceed, Forget, PollTypeOK, Phase
  <1>2. CASE b # {}
    <2>1. CoordInv'
      BY <1>2, CoordStepInv DEF Proceed
    <2> QED
      BY <1>2, <2>1 DEF Proceed, PollTypeOK, Phase
  <1> QED
    BY <1>1, <1>2

LEMMA ForgetInv ==
  ASSUME PollTypeOK, NEW p \in Proc, Forget(p)
  PROVE  PollTypeOK' /\ \A q \in Proc : batch'[q] \subseteq batch[q]
  BY DEF Forget, PollTypeOK, Phase

\* A step that leaves the tables and the records in memory alone.
LEMMA TablesUntouched ==
  ASSUME IInv, CoordInv', UNCHANGED outboxVars, PollTypeOK',
         \A q \in Proc : batch'[q] \subseteq batch[q]
  PROVE  IInv'
PROOF
  <1>1. OutboxInv'
    BY DEF IInv, OutboxInv, OutboxTypeOK, LatestToken, OneEventPerKey, RowsMatchEvents,
           ExactlyOnce, Exists, Delivered, ReceiptOf, SameKey, outboxVars
  <1>2. rows \in [Event -> Row] /\ \A e \in Event : rows[e].attempts \in Nat
    BY DEF IInv, OutboxInv, OutboxTypeOK, Row
  <1>3. rows' = rows
    BY DEF outboxVars
  <1>4. ClaimsInv'
    BY <1>2, <1>3, ForgettingKeepsClaims DEF IInv
  <1> QED
    BY <1>1, <1>4 DEF IInv

LEMMA PollStep ==
  ASSUME IInv, NEW p \in Proc, Poll(p)
  PROVE  IInv'
PROOF
  <1>1. CoordInv'
    BY CoordStepInv DEF IInv, Poll, CoordNext, Loop
  <1>2. PollTypeOK'
    BY DEF IInv, ClaimsInv, PollTypeOK, Phase, Poll
  <1> QED
    BY <1>1, <1>2, TablesUntouched DEF Poll

LEMMA ClaimBatchStep ==
  ASSUME IInv, NEW p \in Proc, NEW t \in Reading, ClaimBatch(p, t)
  PROVE  IInv'
PROOF
  <1> DEFINE b == ClaimsOf(OwnerOf[p], t)
  <1>1. OwnerOf[p] \in Owner
    BY DispatcherAssumption
  <1>2. /\ OutboxInv'
        /\ \A e \in Event : rows[e].attempts <= rows'[e].attempts
        /\ \A c \in b : /\ c \in Claim
                        /\ c.token = rows[c.event].attempts + 1
                        /\ c.token = rows'[c.event].attempts
        /\ \A c, d \in b : c.event = d.event => c = d
    BY <1>1, ClaimRowsInv DEF IInv, ClaimBatch
  <1>3. Proceed(p, b)
    BY DEF ClaimBatch
  <1> HIDE DEF b
  <1>4. CoordInv' /\ PollTypeOK' /\ batch' = [batch EXCEPT ![p] = b]
    BY <1>2, <1>3, ProceedInv DEF IInv, ClaimsInv
  <1>5. rows \in [Event -> Row] /\ rows' \in [Event -> Row]
    BY <1>2 DEF IInv, OutboxInv, OutboxTypeOK
  <1>6. ClaimsInv'
    BY <1>2, <1>4, <1>5, ClaimingKeepsClaims DEF IInv
  <1> QED
    BY <1>2, <1>4, <1>6 DEF IInv

\* The two transactions that settle one record of the batch.
LEMMA SettleStep ==
  ASSUME IInv, OutboxInv', NEW p \in Proc, NEW c \in batch[p],
         \A e \in Event : rows'[e].attempts = rows[e].attempts,
         Proceed(p, batch[p] \ {c})
  PROVE  IInv'
PROOF
  <1>1. batch[p] \ {c} \in SUBSET Claim
    BY DEF IInv, ClaimsInv, PollTypeOK
  <1>2. CoordInv' /\ PollTypeOK' /\ batch' = [batch EXCEPT ![p] = batch[p] \ {c}]
    BY <1>1, ProceedInv DEF IInv, ClaimsInv
  <1>3. \A q \in Proc : batch'[q] \subseteq batch[q]
    BY <1>2 DEF IInv, ClaimsInv, PollTypeOK
  <1>4. rows \in [Event -> Row] /\ rows' \in [Event -> Row]
    BY DEF IInv, OutboxInv, OutboxTypeOK
  <1>5. \A e \in Event : rows[e].attempts <= rows'[e].attempts
    BY <1>4 DEF Row
  <1>6. ClaimsInv'
    BY <1>2, <1>3, <1>4, <1>5, ForgettingKeepsClaims DEF IInv
  <1> QED
    BY <1>2, <1>6 DEF IInv

LEMMA InMemory ==
  ASSUME IInv, NEW p \in Proc, NEW c \in batch[p]
  PROVE  c \in Claim
  BY DEF IInv, ClaimsInv, PollTypeOK

LEMMA DeliverStep ==
  ASSUME IInv, NEW p \in Proc, NEW c \in batch[p], NEW t \in Reading, Deliver(p, c, t)
  PROVE  IInv'
PROOF
  <1>1. c \in Claim /\ Topic[c.event] \in Handled
    BY InMemory DEF Deliver, Delivering, HasConsumer
  <1>2. OutboxInv' /\ \A e \in Event : rows'[e].attempts = rows[e].attempts
    BY <1>1, DeliverRowInv DEF IInv, Deliver
  <1> QED
    BY <1>2, SettleStep DEF Deliver

LEMMA RetryStep ==
  ASSUME IInv, NEW p \in Proc, NEW c \in batch[p], NEW t \in Reading, Retry(p, c, t)
  PROVE  IInv'
PROOF
  <1>1. c \in Claim
    BY InMemory
  <1>2. OutboxInv' /\ \A e \in Event : rows'[e].attempts = rows[e].attempts
    BY <1>1, RetryRowInv DEF IInv, Retry
  <1> QED
    BY <1>2, SettleStep DEF Retry

LEMMA ClaimFoundLostStep ==
  ASSUME IInv, NEW p \in Proc, NEW c \in batch[p], NEW t \in Reading, ClaimFoundLost(p, c, t)
  PROVE  IInv'
PROOF
  <1>1. CoordInv'
    BY CoordStepInv DEF IInv, ClaimFoundLost
  <1>2. PollTypeOK'
    BY DEF IInv, ClaimsInv, PollTypeOK, Phase, ClaimFoundLost
  <1> QED
    BY <1>1, <1>2, TablesUntouched DEF ClaimFoundLost

LEMMA RetryLostStep ==
  ASSUME IInv, NEW p \in Proc, NEW c \in batch[p], NEW t \in Reading, RetryLost(p, c, t)
  PROVE  IInv'
PROOF
  <1>1. CoordInv'
    BY CoordStepInv DEF IInv, RetryLost, CoordNext, Loop
  <1> QED
    BY <1>1, ForgetInv, TablesUntouched DEF IInv, ClaimsInv, RetryLost

LEMMA LeaseFoundLostStep ==
  ASSUME IInv, NEW p \in Proc, LeaseFoundLost(p)
  PROVE  IInv'
PROOF
  <1>1. CoordInv'
    BY CoordStepInv DEF IInv, LeaseFoundLost, CoordNext
  <1> QED
    BY <1>1, ForgetInv, TablesUntouched DEF IInv, ClaimsInv, LeaseFoundLost

LEMMA GroupStepInv ==
  ASSUME IInv, NEW p \in Proc, GroupStep(p)
  PROVE  IInv'
PROOF
  <1>1. UNCHANGED <<outboxVars, pollVars>>
    BY DEF GroupStep, TakeLease, SchedulerStep, CloseLost
  <1>2. CoordNext
    BY DEF GroupStep, TakeLease, SchedulerStep, CloseLost, CoordNext, Loop
  <1>3. CoordInv'
    BY <1>2, CoordStepInv DEF IInv
  <1>4. PollTypeOK' /\ \A q \in Proc : batch'[q] \subseteq batch[q]
    BY <1>1 DEF IInv, ClaimsInv, PollTypeOK, pollVars
  <1> QED
    BY <1>1, <1>3, <1>4, TablesUntouched

LEMMA PollFailsStep ==
  ASSUME IInv, NEW p \in Proc, PollFails(p)
  PROVE  IInv'
PROOF
  <1>1. faults' \in Nat /\ StepReturns(p, "outbox") /\ "outbox" \in Loop
    BY DEF IInv, CoordInv, CoordTypeOK, PollFails, SpendFault, Loop
  <1>2. CoordInv'
    BY <1>1, StepReturnsInv DEF IInv
  <1> QED
    BY <1>2, ForgetInv, TablesUntouched DEF IInv, ClaimsInv, PollFails

LEMMA ConsumerFailsStep ==
  ASSUME IInv, NEW p \in Proc, NEW c \in batch[p], ConsumerFails(p, c)
  PROVE  IInv'
PROOF
  <1>1. CoordInv'
    <2>1. faults' \in Nat /\ UNCHANGED <<up, holder, issued, closed, group, held, stage>>
      BY DEF IInv, CoordInv, CoordTypeOK, ConsumerFails, SpendFault, leaseVars, loopVars
    <2>2. CoordTypeOK'
      BY <2>1 DEF IInv, CoordInv, CoordTypeOK
    <2>3. OwnLeases' /\ NoLeakedLock' /\ DownHoldsNothing'
      BY <2>1 DEF IInv, CoordInv, OwnLeases, Acquired, NoLeakedLock, DownHoldsNothing
    <2> QED
      BY <2>2, <2>3 DEF CoordInv
  <1>2. PollTypeOK' /\ \A q \in Proc : batch'[q] \subseteq batch[q]
    BY DEF IInv, ClaimsInv, PollTypeOK, Phase, ConsumerFails
  <1> QED
    BY <1>1, <1>2, TablesUntouched DEF ConsumerFails

LEMMA CommitUnacknowledgedStep ==
  ASSUME IInv, NEW p \in Proc, NEW c \in batch[p], NEW t \in Reading,
         CommitUnacknowledged(p, c, t)
  PROVE  IInv'
PROOF
  <1>1. c \in Claim /\ Topic[c.event] \in Handled
    BY InMemory DEF CommitUnacknowledged, Delivering, HasConsumer
  <1>2. OutboxInv' /\ \A e \in Event : rows'[e].attempts = rows[e].attempts
    BY <1>1, DeliverRowInv DEF IInv, CommitUnacknowledged
  <1>3. CoordInv'
    BY SessionLostInv DEF IInv, CommitUnacknowledged
  <1>4. rows \in [Event -> Row] /\ rows' \in [Event -> Row]
    BY <1>2 DEF IInv, OutboxInv, OutboxTypeOK
  <1>5. \A e \in Event : rows[e].attempts <= rows'[e].attempts
    BY <1>2, <1>4 DEF Row
  <1>6. PollTypeOK' /\ \A q \in Proc : batch'[q] \subseteq batch[q]
    BY DEF IInv, ClaimsInv, PollTypeOK, CommitUnacknowledged, pollVars
  <1>7. ClaimsInv'
    BY <1>4, <1>5, <1>6, ForgettingKeepsClaims DEF IInv
  <1> QED
    BY <1>2, <1>3, <1>7 DEF IInv

LEMMA FaultStep ==
  ASSUME IInv, NEW p \in Proc, Fault(p)
  PROVE  IInv'
PROOF
  <1>1. CASE PollFails(p)
    BY <1>1, PollFailsStep
  <1>2. ASSUME NEW c \in batch[p], ConsumerFails(p, c) PROVE IInv'
    BY <1>2, ConsumerFailsStep
  <1>3. ASSUME NEW c \in batch[p], NEW t \in Reading, CommitUnacknowledged(p, c, t) PROVE IInv'
    BY <1>3, CommitUnacknowledgedStep
  <1>4. CASE SchedulerClaimLost(p) /\ UNCHANGED <<outboxVars, pollVars>>
    <2>1. CoordInv'
      BY <1>4, SchedulerClaimLostInv DEF IInv
    <2>2. PollTypeOK' /\ \A q \in Proc : batch'[q] \subseteq batch[q]
      BY <1>4 DEF IInv, ClaimsInv, PollTypeOK, pollVars
    <2> QED
      BY <1>4, <2>1, <2>2, TablesUntouched
  <1>5. CASE (Stop(p) \/ Crash(p)) /\ Forget(p) /\ UNCHANGED outboxVars
    <2>1. CoordInv'
      BY <1>5, StopInv, CrashInv DEF IInv
    <2> QED
      BY <1>5, <2>1, ForgetInv, TablesUntouched DEF IInv, ClaimsInv
  <1> QED
    BY <1>1, <1>2, <1>3, <1>4, <1>5 DEF Fault

LEMMA EnvironmentStep ==
  ASSUME IInv, Environment
  PROVE  IInv'
PROOF
  <1>1. CoordInv'
    <2>1. CASE UNCHANGED coordVars
      BY <2>1, CoordStepInv DEF IInv
    <2>2. CASE SessionLost
      BY <2>2, SessionLostInv DEF IInv
    <2> QED
      BY <2>1, <2>2 DEF Environment
  <1>2. PollTypeOK' /\ \A q \in Proc : batch'[q] \subseteq batch[q]
    BY DEF IInv, ClaimsInv, PollTypeOK, Environment, pollVars
  <1>3. CASE UNCHANGED outboxVars
    BY <1>1, <1>2, <1>3, TablesUntouched
  <1>4. CASE Tick \/ \E e \in Event, t \in Reading : Enqueue(e, t)
    <2>1. rows \in [Event -> Row] /\ \A e \in Event : rows[e].attempts \in Nat
      BY DEF IInv, OutboxInv, OutboxTypeOK, Row
    <2>2. OutboxInv' /\ \A e \in Event : rows[e].attempts <= rows'[e].attempts
      <3>1. CASE Tick
        BY <2>1, <3>1, TickInv DEF IInv, Tick
      <3>2. CASE \E e \in Event, t \in Reading : Enqueue(e, t)
        BY <3>2, EnqueueInv DEF IInv
      <3> QED
        BY <1>4, <3>1, <3>2
    <2>3. rows' \in [Event -> Row]
      BY <2>2 DEF OutboxInv, OutboxTypeOK
    <2>4. ClaimsInv'
      BY <1>2, <2>1, <2>2, <2>3, ForgettingKeepsClaims DEF IInv
    <2> QED
      BY <1>1, <2>2, <2>4 DEF IInv
  <1> QED
    BY <1>3, <1>4 DEF Environment

LEMMA StepInv == IInv /\ [Next]_vars => IInv'
PROOF
  <1> SUFFICES ASSUME IInv, [Next]_vars PROVE IInv'
    OBVIOUS
  <1>1. CASE Environment
    BY <1>1, EnvironmentStep
  <1>2. ASSUME NEW p \in Proc, DispatcherStep(p) PROVE IInv'
    BY <1>2, PollStep, ClaimBatchStep, DeliverStep, ClaimFoundLostStep, RetryStep,
       RetryLostStep, LeaseFoundLostStep DEF DispatcherStep
  <1>3. ASSUME NEW p \in Proc, GroupStep(p) PROVE IInv'
    BY <1>3, GroupStepInv
  <1>4. ASSUME NEW p \in Proc, Fault(p) PROVE IInv'
    BY <1>4, FaultStep
  <1>5. CASE UNCHANGED vars
    <2>1. CoordInv'
      BY <1>5, CoordStepInv DEF IInv, vars
    <2>2. PollTypeOK' /\ \A q \in Proc : batch'[q] \subseteq batch[q]
      BY <1>5 DEF IInv, ClaimsInv, PollTypeOK, vars, pollVars
    <2> QED
      BY <1>5, <2>1, <2>2, TablesUntouched DEF vars
  <1> QED
    BY <1>1, <1>2, <1>3, <1>4, <1>5 DEF Next

\* The invariant holds in every reachable state.
LEMMA Invariance == Spec => []IInv
  BY InitInv, StepInv, PTL DEF Spec

\* In every reachable state the tables, the leases and the polls have their types.
THEOREM Typing == Spec => []TypeOK
PROOF
  <1>1. IInv => TypeOK
    BY DEF IInv, CoordInv, OutboxInv, ClaimsInv, PollTypeOK, TypeOK
  <1> QED
    BY <1>1, Invariance, PTL

\* The consumer's effect, its receipt and the delivered state are committed together
\* and once, however often a row was claimed, given back, or claimed again after its
\* owner crashed or lost its session.
THEOREM EffectsHappenOnce == Spec => []ExactlyOnce
PROOF
  <1>1. IInv => ExactlyOnce
    BY DEF IInv, OutboxInv
  <1> QED
    BY <1>1, Invariance, PTL

\* At most one of the records that processes keep in memory still passes the fence
\* of verifyClaim, even where all processes use the same owner name.
THEOREM ClaimIsFenced == Spec => []OneSettler
PROOF
  <1>1. IInv => OneSettler
    <2> SUFFICES ASSUME IInv, NEW p \in Proc, NEW q \in Proc, NEW c \in batch[p],
                        NEW d \in batch[q], NEW t \in Reading, NEW u \in Reading,
                        c.event = d.event, VerifyClaim(c, t), VerifyClaim(d, u)
                 PROVE  p = q /\ c = d
      BY DEF OneSettler
    <2>1. c.token = d.token
      BY DEF VerifyClaim
    <2> QED
      BY <2>1 DEF IInv, ClaimsInv, ClaimsDistinct
  <1> QED
    BY <1>1, Invariance, PTL

-----------------------------------------------------------------------------
LEMMA InitImplements == Init => Delivery!Init
  BY DEF Init, OutboxInit, Delivery!Init

\* A delivery is the one Handle of its event, an enqueue the one Accept.
LEMMA DeliveryImplements ==
  ASSUME IInv, NEW c \in Claim, NEW t \in Reading, Topic[c.event] \in Handled,
         DeliverRow(c, t)
  PROVE  Delivery!Handle(c.event)
PROOF
  <1>1. effects[c.event] = 0 /\ effects' = [effects EXCEPT ![c.event] = 1]
    BY DeliverRowInv DEF IInv
  <1>2. c.event \in Event /\ Exists(c.event) /\ accepted' = accepted
    BY DEF Claim, DeliverRow, VerifyClaim, Exists
  <1>3. c.event \in accepted
    BY <1>2 DEF IInv, OutboxInv, RowsMatchEvents
  <1> QED
    BY <1>1, <1>2, <1>3 DEF Delivery!Handle

LEMMA EnqueueImplements ==
  ASSUME IInv, NEW e \in Event, NEW t \in Reading, Enqueue(e, t)
  PROVE  Delivery!Accept(e)
PROOF
  <1>1. ASSUME NEW f \in accepted PROVE <<Topic[f], Key[f]>> # <<Topic[e], Key[e]>>
    <2>1. f \in Event /\ Exists(f)
      BY DEF IInv, OutboxInv, RowsMatchEvents
    <2> QED
      BY <2>1 DEF Enqueue, SameKey, Exists
  <1> QED
    BY <1>1 DEF Delivery!Accept, Enqueue

LEMMA StepImplements == IInv /\ [Next]_vars => [Delivery!Next]_(Delivery!deliveryVars)
PROOF
  <1> SUFFICES ASSUME IInv, [Next]_vars,
                      ~ UNCHANGED <<accepted, effects>>
               PROVE  Delivery!Next
    BY DEF Delivery!deliveryVars
  <1>1. CASE Environment
    <2>1. PICK e \in Event, t \in Reading : Enqueue(e, t)
      BY <1>1 DEF Environment, Tick, outboxVars
    <2> QED
      BY <2>1, EnqueueImplements DEF Delivery!Next
  <1>2. ASSUME NEW p \in Proc, DispatcherStep(p) PROVE Delivery!Next
    <2>1. PICK c \in batch[p], t \in Reading : Deliver(p, c, t)
      BY <1>2 DEF DispatcherStep, Poll, ClaimBatch, ClaimFoundLost, Retry, RetryRow,
                  RetryLost, LeaseFoundLost, outboxVars
    <2>2. c \in Claim /\ Topic[c.event] \in Handled /\ DeliverRow(c, t)
      BY <2>1, InMemory DEF Deliver, Delivering, HasConsumer
    <2>3. c.event \in Event
      BY <2>2 DEF Claim
    <2> QED
      BY <2>2, <2>3, DeliveryImplements DEF Delivery!Next
  <1>3. ASSUME NEW p \in Proc, GroupStep(p) PROVE FALSE
    BY <1>3 DEF GroupStep, TakeLease, SchedulerStep, CloseLost, outboxVars
  <1>4. ASSUME NEW p \in Proc, Fault(p) PROVE Delivery!Next
    <2>1. PICK c \in batch[p], t \in Reading : CommitUnacknowledged(p, c, t)
      BY <1>4 DEF Fault, PollFails, ConsumerFails, outboxVars
    <2>2. c \in Claim /\ Topic[c.event] \in Handled /\ DeliverRow(c, t)
      BY <2>1, InMemory DEF CommitUnacknowledged, Delivering, HasConsumer
    <2>3. c.event \in Event
      BY <2>2 DEF Claim
    <2> QED
      BY <2>2, <2>3, DeliveryImplements DEF Delivery!Next
  <1> QED
    BY <1>1, <1>2, <1>3, <1>4 DEF Next, vars, outboxVars

\* The dispatcher with its leases, claims, crashes and retries implements what the
\* outbox promises: an accepted event is handled at most once, and one business key
\* never stands for two events.
THEOREM DispatcherImplementsDelivery == Spec => EventDelivered
  BY InitImplements, StepImplements, Invariance, PTL DEF Spec, EventDelivered, Delivery!Spec
=============================================================================
