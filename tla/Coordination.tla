---------------------------- MODULE Coordination ----------------------------
(***************************************************************************)
(* The exclusive executor lease of platform/coordination and the worker    *)
(* group of app/product that acquires, uses, drops and re-acquires it.     *)
(*                                                                         *)
(* A lease object is named <<p, n>>: the n-th lease process p acquired.    *)
(* Its database session holds the PostgreSQL advisory lock (or, on SQLite, *)
(* the entry of the process-wide owner map) while "holder" names it.  The  *)
(* object itself may be open while its session is already gone: the        *)
(* process only finds out when a transaction probes the connection.        *)
(*                                                                         *)
(* Each worker loop copies the group's lease pointer into a local variable *)
(* before its step and acts on that copy afterwards, when the pointer may  *)
(* have moved on.  Two of the four loops matter here: the outbox loop runs *)
(* its transactions through the lease, and the scheduler loop reports      *)
(* ErrLeaseLost when one of its run claims was taken over, which the group *)
(* cannot tell from a lost executor lease.                                 *)
(***************************************************************************)
EXTENDS Naturals

CONSTANTS
  Proc,        \* worker processes that share one database
  NoLease,     \* the nil lease pointer, and an advisory lock nobody holds
  MaxFaults    \* bound on crashes, dropped sessions and lost run claims

ASSUME CoordinationAssumption ==
  /\ NoLease \notin Proc \X Nat
  /\ MaxFaults \in Nat

VARIABLES
  up,       \* up[p]: the worker group of process p is started
  holder,   \* lease object whose session holds the advisory lock
  issued,   \* issued[p]: lease objects process p has acquired so far
  closed,   \* lease objects with closed = true
  group,    \* group[p]: the pointer workerGroup.lease
  held,     \* held[p][w]: the copy of that pointer in loop w's current step
  stage,    \* stage[p][w]: where loop w is in its cycle
  faults    \* faults injected so far

leaseVars == <<holder, issued, closed, group>>
loopVars == <<held, stage>>
coordVars == <<up, holder, issued, closed, group, held, stage, faults>>

Loop == {"outbox", "scheduler"}
Lease == Proc \X Nat
MaybeLease == Lease \cup {NoLease}

\* "waiting" on its timer, "running" its step, "closing" the lost lease
Stage == {"waiting", "running", "closing"}

IdleStages == [w \in Loop |-> "waiting"]
NoHeld == [w \in Loop |-> NoLease]

CoordInit ==
  /\ up = [p \in Proc |-> FALSE]
  /\ holder = NoLease
  /\ issued = [p \in Proc |-> 0]
  /\ closed = {}
  /\ group = [p \in Proc |-> NoLease]
  /\ held = [p \in Proc |-> NoHeld]
  /\ stage = [p \in Proc |-> IdleStages]
  /\ faults = 0

-----------------------------------------------------------------------------
\* pg_try_advisory_lock succeeds and a fresh lease object is stored in g.lease.
AcquireInto(p) ==
  /\ holder = NoLease
  /\ issued' = [issued EXCEPT ![p] = @ + 1]
  /\ holder' = <<p, issued[p] + 1>>
  /\ group' = [group EXCEPT ![p] = <<p, issued[p] + 1>>]
  /\ UNCHANGED closed

\* Mutation: Close marks the object closed and forgets pg_advisory_unlock.
CloseWithoutUnlock(l) ==
  /\ closed' = IF l = NoLease THEN closed ELSE closed \cup {l}
  /\ UNCHANGED holder

\* Lease.Close on l: idempotent, nil-safe, releases the lock its session holds.
CloseLease(l) ==
  /\ closed' = IF l = NoLease THEN closed ELSE closed \cup {l}
  /\ holder' = IF holder = l THEN NoLease ELSE holder

\* A transaction through l goes through only on an open object with a live session.
Usable(l) == l \notin closed /\ l # NoLease /\ holder = l

SpendFault ==
  /\ faults < MaxFaults
  /\ faults' = faults + 1

\* workerGroup.Start: ErrNotLeader is tolerated, the group starts as a standby.
Start(p) ==
  /\ ~up[p]
  /\ up' = [up EXCEPT ![p] = TRUE]
  /\ \/ AcquireInto(p)
     \/ holder # NoLease /\ UNCHANGED leaseVars
  /\ UNCHANGED <<loopVars, faults>>

\* The ticker in workerGroup.run: a group without a lease tries to take over.
Takeover(p) ==
  /\ up[p]
  /\ group[p] = NoLease
  /\ AcquireInto(p)
  /\ UNCHANGED <<up, loopVars, faults>>

\* A loop copies g.lease; the outbox loop skips its step while there is none.
LoopBegin(p, w) ==
  /\ up[p]
  /\ stage[p][w] = "waiting"
  /\ w = "outbox" => group[p] # NoLease
  /\ held' = [held EXCEPT ![p][w] = group[p]]
  /\ stage' = [stage EXCEPT ![p][w] = "running"]
  /\ UNCHANGED <<up, leaseVars, faults>>

\* The step returns nil or an error that is not about the lease.
StepReturns(p, w) ==
  /\ stage[p][w] = "running"
  /\ w = "outbox" => Usable(held[p][w])
  /\ stage' = [stage EXCEPT ![p][w] = "waiting"]
  /\ held' = [held EXCEPT ![p][w] = NoLease]
  /\ UNCHANGED <<up, leaseVars>>

LoopEnd(p, w) == StepReturns(p, w) /\ UNCHANGED faults

\* Mutation: g.lease is cleared without comparing it with the step's copy.
DropAnyLease(p, l) == group' = [group EXCEPT ![p] = NoLease]

\* Mutation: the failure is reported and the lost lease is kept.
KeepGroupLease(p, l) == UNCHANGED group

\* g.lease is cleared only while it still is the lease the failed step used.
DropGroupLease(p, l) ==
  group' = IF group[p] = l THEN [group EXCEPT ![p] = NoLease] ELSE group

\* Authorize or WithinTx finds the object closed or its session gone: the object
\* is closed (lose) and the step returns ErrLeaseLost to the worker loop.
OutboxLeaseLost(p) ==
  /\ stage[p]["outbox"] = "running"
  /\ ~Usable(held[p]["outbox"])
  /\ closed' = closed \cup {held[p]["outbox"]}
  /\ DropGroupLease(p, held[p]["outbox"])
  /\ stage' = [stage EXCEPT ![p]["outbox"] = "closing"]
  /\ UNCHANGED <<up, holder, issued, held, faults>>

\* executor.go returns coordination.ErrLeaseLost for a superseded run claim; the
\* group reads it as a lost executor lease, whatever lease that is by now.
SchedulerClaimLost(p) ==
  /\ stage[p]["scheduler"] = "running"
  /\ SpendFault
  /\ DropGroupLease(p, held[p]["scheduler"])
  /\ stage' = [stage EXCEPT ![p]["scheduler"] = "closing"]
  /\ UNCHANGED <<up, holder, issued, closed, held>>

\* After g.mu is released the loop closes its own copy of the lease.
LoopClose(p, w) ==
  /\ stage[p][w] = "closing"
  /\ CloseLease(held[p][w])
  /\ stage' = [stage EXCEPT ![p][w] = "waiting"]
  /\ held' = [held EXCEPT ![p][w] = NoLease]
  /\ UNCHANGED <<up, issued, group, faults>>

\* What Stop closes on its way out: the group's lease, and the lease a loop was
\* about to close when it was told to return.
LeasesToClose(p) ==
  ({group[p]} \cup {held[p][w] : w \in {v \in Loop : stage[p][v] = "closing"}}) \ {NoLease}

\* workerGroup.Stop: the context is cancelled, every loop returns (what it has not
\* committed is rolled back), then the group's lease is closed.
Stop(p) ==
  /\ up[p]
  /\ SpendFault
  /\ up' = [up EXCEPT ![p] = FALSE]
  /\ closed' = closed \cup LeasesToClose(p)
  /\ holder' = IF holder \in LeasesToClose(p) THEN NoLease ELSE holder
  /\ group' = [group EXCEPT ![p] = NoLease]
  /\ held' = [held EXCEPT ![p] = NoHeld]
  /\ stage' = [stage EXCEPT ![p] = IdleStages]
  /\ UNCHANGED issued

\* The server drops the session that holds the lock; its owner does not know yet.
SessionLost ==
  /\ holder # NoLease
  /\ SpendFault
  /\ holder' = NoLease
  /\ UNCHANGED <<up, issued, closed, group, loopVars>>

\* The process dies: its memory is gone and the server ends its sessions.
Crash(p) ==
  /\ up[p]
  /\ SpendFault
  /\ up' = [up EXCEPT ![p] = FALSE]
  /\ holder' = IF \E n \in 0..issued[p] : holder = <<p, n>> THEN NoLease ELSE holder
  /\ group' = [group EXCEPT ![p] = NoLease]
  /\ held' = [held EXCEPT ![p] = NoHeld]
  /\ stage' = [stage EXCEPT ![p] = IdleStages]
  /\ UNCHANGED <<issued, closed>>

CoordNext ==
  \/ SessionLost
  \/ \E p \in Proc :
       \/ Start(p)
       \/ Takeover(p)
       \/ OutboxLeaseLost(p)
       \/ SchedulerClaimLost(p)
       \/ Stop(p)
       \/ Crash(p)
       \/ \E w \in Loop : LoopBegin(p, w) \/ LoopEnd(p, w) \/ LoopClose(p, w)

CoordSpec == CoordInit /\ [][CoordNext]_coordVars

-----------------------------------------------------------------------------
(* Fairness.  The loops and the takeover ticker are goroutines that run      *)
(* while the process is up; a stopped or crashed process is started again    *)
(* (deploy/compose/compose.yml: restart: unless-stopped).  Faults are not    *)
(* fair: they need not happen.                                               *)
CoordFairness ==
  \A p \in Proc :
    /\ WF_coordVars(Start(p))
    /\ WF_coordVars(Takeover(p))
    /\ WF_coordVars(OutboxLeaseLost(p))
    /\ \A w \in Loop :
         /\ WF_coordVars(LoopBegin(p, w))
         /\ WF_coordVars(LoopEnd(p, w))
         /\ WF_coordVars(LoopClose(p, w))

CoordFairSpec == CoordSpec /\ CoordFairness

-----------------------------------------------------------------------------
CoordTypeOK ==
  /\ up \in [Proc -> BOOLEAN]
  /\ holder \in MaybeLease
  /\ issued \in [Proc -> Nat]
  /\ closed \in SUBSET Lease
  /\ group \in [Proc -> MaybeLease]
  /\ held \in [Proc -> [Loop -> MaybeLease]]
  /\ stage \in [Proc -> [Loop -> Stage]]
  /\ faults \in Nat

\* The advisory lock is never held by a lease nobody will ever release: the
\* object that holds it is the one its process's group points to, or a loop of
\* that process is about to close it.  (Dropping g.lease without comparing it,
\* workers.go:123, would leak the lock and no process could ever dispatch again.)
NoLeakedLock ==
  holder # NoLease =>
    \E p \in Proc :
      \/ group[p] = holder
      \/ \E w \in Loop : stage[p][w] = "closing" /\ held[p][w] = holder

\* A process that is down leaves nothing behind: no lock, no pointer, no step.
DownHoldsNothing ==
  \A p \in Proc : ~up[p] =>
    /\ group[p] = NoLease
    /\ stage[p] = IdleStages
    /\ \A n \in 0..issued[p] : holder # <<p, n>>

\* Some process always again holds a lease it can run the outbox with: the lock
\* is neither left free for ever nor held by an object that is already closed.
TakenOver == []<>(\E p \in Proc : Usable(group[p]))

\* A group never stays on a lease whose session is gone: it notices and drops it.
DeadLeaseDropped ==
  \A p \in Proc :
    (group[p] # NoLease /\ ~Usable(group[p])) ~> (group[p] = NoLease \/ Usable(group[p]))
=============================================================================
