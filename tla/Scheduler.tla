------------------------------ MODULE Scheduler ------------------------------
(***************************************************************************)
(* The task scheduler (modules/scheduler): administrators create, change,  *)
(* enable, stop, delete and run task definitions while the executors of    *)
(* all worker processes claim and execute the due runs.                    *)
(*                                                                         *)
(* An executor claims a run in one transaction and executes it in another. *)
(* While a handler runs, its transaction holds the rows of the definition  *)
(* and of the run (SELECT ... FOR UPDATE); claims skip locked rows and     *)
(* administrators wait for them.  A run that used up its attempts is       *)
(* failed in a transaction that does not lock the definition before it     *)
(* reads it.                                                               *)
(*                                                                         *)
(* A run is named by its definition and the instant it is scheduled for,   *)
(* which UNIQUE(definition_id, scheduled_for) makes a name; the random     *)
(* claim token is named by the attempt it was given to.                    *)
(***************************************************************************)
EXTENDS Naturals

CONSTANTS
  Definition,   \* ids of task definitions
  Builtin,      \* those that EnsureBuiltinDefinition creates, enabled
  Schedule,     \* the Cron schedules administrators choose from
  Occurs,       \* Occurs[s][t]: the first occurrence of schedule s after t
  OnDemand,     \* instants at which administrators may ask for a manual run
  Worker,       \* executors: one per worker process
  NoClaim,      \* an executor that has claimed nothing
  RunLease,     \* TaskTimeout plus a minute
  Skew,         \* how far a process's clock may be from the common clock
  MaxTime,      \* bound on the modelled time
  MaxFaults     \* bound on dying executors and failing transactions

Time == 0..(MaxTime + Skew)

\* definition_id, scheduled_for
Run == Definition \X Time

ASSUME SchedulerAssumption ==
  /\ Builtin \subseteq Definition
  /\ OnDemand \subseteq Time
  /\ RunLease \in Nat \ {0}
  /\ Skew \in Nat
  /\ MaxTime \in Nat
  /\ MaxFaults \in Nat
  /\ Occurs \in [Schedule -> [Time -> Nat]]
  /\ \A s \in Schedule, t \in Time : Occurs[s][t] > t

VARIABLES
  now,      \* the common clock
  defs,     \* scheduler_definitions
  runs,     \* scheduler_runs
  history,  \* scheduler_executions
  effects,  \* effects[k]: committed changes of run k's handler
  tries,    \* tries[k]: how often a handler was started for run k
  asked,    \* asked[d]: clock reading of a request to enable d that waits for its row
  fresh,    \* definitions whose next occurrence an enabling chose, not an executor
  pc,       \* pc[w]: what executor w is about to do
  claim,    \* claim[w]: the run it claimed
  plan,     \* plan[w]: what its retry_exhausted transaction read
  faults    \* faults injected so far

adminVars == <<now, defs, runs, history, effects, tries, asked, fresh>>
workerVars == <<pc, claim, plan>>
vars == <<adminVars, workerVars, faults>>

\* next_run_at is NULL unless the definition is enabled; NULL reads 0 here.
DefRecord == [stage : {"none", "disabled", "enabled", "deleted"},
              schedule : Schedule, next : Nat]

RunRecord == [state : {"absent", "queued", "running", "succeeded", "failed"},
              attempts : Nat, until : Nat]

\* A row of the history: its status and error code, and finished_at.
Outcome == {"none", "succeeded", "failed", "retry_exhausted"}
HistoryRecord == [outcome : Outcome, finished : Nat]

RunClaim == [run : Run, attempt : Nat, started : Time]
Plan == [finished : Time, next : Nat]
NoPlan == [finished |-> 0, next |-> 0]

Stage == {"idle", "claimed", "task", "exhausted", "failing"}

Init ==
  /\ now = 0
  /\ defs \in [Definition -> [stage : {"none"}, schedule : Schedule, next : {0}]]
  /\ runs = [k \in Run |-> [state |-> "absent", attempts |-> 0, until |-> 0]]
  /\ history = [k \in Run |-> [outcome |-> "none", finished |-> 0]]
  /\ effects = [k \in Run |-> 0]
  /\ tries = [k \in Run |-> 0]
  /\ asked = [d \in Definition |-> {}]
  /\ fresh = {}
  /\ pc = [w \in Worker |-> "idle"]
  /\ claim = [w \in Worker |-> NoClaim]
  /\ plan = [w \in Worker |-> NoPlan]
  /\ faults = 0

\* What time.Now() may return in some process.
Reading == {t \in Time : t <= now + Skew /\ now <= t + Skew}

Tick ==
  /\ now < MaxTime
  /\ now' = now + 1
  /\ UNCHANGED <<defs, runs, history, effects, tries, asked, fresh, workerVars, faults>>

-----------------------------------------------------------------------------
Active(k) == runs[k].state \in {"queued", "running"}
HasActiveRun(d) == \E k \in Run : k[1] = d /\ Active(k)
Enabled(d) == defs[d].stage = "enabled"

\* FOR UPDATE: the definition row is locked while a handler runs, the run's row
\* also while its retry_exhausted transaction is under way.
DefinitionLocked(d) == \E w \in Worker : pc[w] = "task" /\ claim[w].run[1] = d
RunLocked(k) == \E w \in Worker : pc[w] \in {"task", "failing"} /\ claim[w].run = k

(* Administration: each request is one transaction that locks the definition  *)
(* and compares the revision the client sent.  A request that fails changes   *)
(* nothing, so only the accepted ones are steps.                              *)
SetDefinition(d, stage, s, next) ==
  /\ ~DefinitionLocked(d)
  /\ defs' = [defs EXCEPT ![d] = [stage |-> stage, schedule |-> s, next |-> next]]
  /\ asked' = [asked EXCEPT ![d] = {}]
  /\ fresh' = IF next = 0 THEN fresh \ {d} ELSE fresh \cup {d}
  /\ UNCHANGED <<now, runs, history, effects, tries, workerVars, faults>>

CreateDefinition(d, s) ==
  /\ d \notin Builtin
  /\ defs[d].stage = "none"
  /\ SetDefinition(d, "disabled", s, 0)

\* Not again after an administrator has stopped or deleted it.
EnsureBuiltinDefinition(d, s, t) ==
  /\ d \in Builtin
  /\ defs[d].stage = "none"
  /\ SetDefinition(d, "enabled", s, Occurs[s][t])

UpdateDefinition(d, s) ==
  /\ defs[d].stage = "disabled"
  /\ SetDefinition(d, "disabled", s, 0)

\* changeState reads the clock before it waits for the row, which a running handler
\* may hold for its whole TaskTimeout.  Any change in between refuses the request.
EnableWaits(d, t) ==
  /\ defs[d].stage = "disabled"
  /\ DefinitionLocked(d)
  /\ asked[d] = {}
  /\ asked' = [asked EXCEPT ![d] = {t}]
  /\ UNCHANGED <<now, defs, runs, history, effects, tries, fresh, workerVars, faults>>

EnableDefinition(d, t) ==
  /\ defs[d].stage = "disabled"
  /\ SetDefinition(d, "enabled", defs[d].schedule, Occurs[defs[d].schedule][t])

\* A run that is queued or running goes on.
StopDefinition(d) ==
  /\ Enabled(d)
  /\ SetDefinition(d, "disabled", defs[d].schedule, 0)

DeleteDefinition(d) ==
  /\ defs[d].stage \in {"disabled", "enabled"}
  /\ SetDefinition(d, "deleted", defs[d].schedule, 0)

\* A manual run, of an enabled or a disabled definition.  The unique indexes refuse
\* it while another run is active or has the same instant.
RunDefinition(d, t) ==
  /\ t \in OnDemand
  /\ defs[d].stage \in {"disabled", "enabled"}
  /\ ~DefinitionLocked(d)
  /\ ~HasActiveRun(d)
  /\ runs[<<d, t>>].state = "absent"
  /\ runs' = [runs EXCEPT ![<<d, t>>] = [state |-> "queued", attempts |-> 0, until |-> 0]]
  /\ UNCHANGED <<now, defs, history, effects, tries, asked, fresh, workerVars, faults>>

-----------------------------------------------------------------------------
(* The claim transaction of runOnce. *)

\* Mutation: the fourth claim still runs the handler.
AfterFourClaims(attempt) == IF attempt <= 4 THEN "claimed" ELSE "exhausted"

\* Three claims run the handler, a later one only records the failure.
AfterClaim(attempt) == IF attempt <= 3 THEN "claimed" ELSE "exhausted"

Attempt(w, k, attempt, t) ==
  /\ runs' = [runs EXCEPT ![k] = [state |-> "running", attempts |-> attempt, until |-> t + RunLease]]
  /\ claim' = [claim EXCEPT ![w] = [run |-> k, attempt |-> attempt, started |-> t]]
  /\ pc' = [pc EXCEPT ![w] = AfterClaim(attempt)]
  /\ UNCHANGED <<now, history, effects, tries, asked, plan, faults>>

\* Mutation: only queued runs are claimed, a dead executor's run never again.
QueuedOnly(t) == {k \in Run : runs[k].state = "queued"}

Claimable(t) ==
  {k \in Run :
     /\ runs[k].state = "queued" \/ (runs[k].state = "running" /\ runs[k].until <= t)
     /\ ~RunLocked(k)}

\* The claimable run that was scheduled first.
ClaimRun(w, k, t) ==
  /\ pc[w] = "idle"
  /\ k \in Claimable(t)
  /\ \A j \in Claimable(t) : k[2] <= j[2]
  /\ Attempt(w, k, runs[k].attempts + 1, t)
  /\ UNCHANGED <<defs, fresh>>

Due(t) ==
  {d \in Definition : Enabled(d) /\ defs[d].next <= t /\ ~HasActiveRun(d) /\ ~DefinitionLocked(d)}

\* No run to claim: the first due definition gets a run, and its next occurrence.
ClaimDue(w, d, t) ==
  LET k == <<d, defs[d].next>> IN
  /\ pc[w] = "idle"
  /\ Claimable(t) = {}
  /\ d \in Due(t)
  /\ \A e \in Due(t) : defs[d].next <= defs[e].next
  /\ runs[k].state = "absent"
  /\ defs' = [defs EXCEPT ![d].next = Occurs[defs[d].schedule][t]]
  /\ fresh' = fresh \ {d}
  /\ Attempt(w, k, 1, t)

\* Nothing is queued or due: the poll returns.
NothingToRun(w) ==
  /\ pc[w] = "idle"
  /\ \E t \in Reading : Claimable(t) = {} /\ Due(t) = {}
  /\ UNCHANGED vars

\* The first due instant already had a run: UNIQUE(definition_id, scheduled_for)
\* refuses the insert, the claim is rolled back and the poll returns the error.
InstantTaken(w, d, t) ==
  /\ pc[w] = "idle"
  /\ Claimable(t) = {}
  /\ d \in Due(t)
  /\ \A e \in Due(t) : defs[d].next <= defs[e].next
  /\ runs[<<d, defs[d].next>>].state # "absent"
  /\ UNCHANGED vars

-----------------------------------------------------------------------------
(* The transaction that executes the claimed run, and the one that fails it. *)

\* The run is still running under the token of w's claim.
Owns(w) ==
  /\ runs[claim[w].run].state = "running"
  /\ runs[claim[w].run].attempts = claim[w].attempt

\* The rows the transaction of w is about to lock are free.
Unblocked(w) ==
  /\ ~RunLocked(claim[w].run)
  /\ pc[w] = "claimed" => ~DefinitionLocked(claim[w].run[1])

BeginTask(w) ==
  /\ pc[w] = "claimed"
  /\ Unblocked(w)
  /\ Owns(w)
  /\ pc' = [pc EXCEPT ![w] = "task"]
  /\ tries' = [tries EXCEPT ![claim[w].run] = @ + 1]
  /\ UNCHANGED <<now, defs, runs, history, effects, asked, fresh, claim, plan, faults>>

\* w leaves runOnce with an error, or asks for the next run.
Return(w) ==
  /\ pc' = [pc EXCEPT ![w] = "idle"]
  /\ claim' = [claim EXCEPT ![w] = NoClaim]
  /\ plan' = [plan EXCEPT ![w] = NoPlan]

\* Another executor has claimed the run since, or has finished it.
Superseded(w) ==
  /\ pc[w] \in {"claimed", "exhausted"}
  /\ Unblocked(w)
  /\ ~Owns(w)
  /\ Return(w)
  /\ UNCHANGED <<adminVars, faults>>

\* CHECK (scheduled_for <= started_at AND started_at <= finished_at) of the history.
Recordable(w, t) == claim[w].run[2] <= claim[w].started /\ claim[w].started <= t

\* Mutation: occurrences missed while the handler ran are not skipped.
NoAdvance(d, next) ==
  UNCHANGED defs /\ fresh' = IF next = 0 THEN fresh ELSE fresh \ {d}

\* Missed occurrences are skipped; next = 0: the definition was not enabled.
Advance(d, next) ==
  IF next = 0 THEN UNCHANGED <<defs, fresh>>
  ELSE defs' = [defs EXCEPT ![d].next = next] /\ fresh' = fresh \ {d}

\* The end of finish: the run's state, the next occurrence and the history row.
Finish(w, state, what, t, next) ==
  LET k == claim[w].run IN
  /\ Recordable(w, t)
  /\ runs' = [runs EXCEPT ![k] = [state |-> state, attempts |-> @.attempts, until |-> 0]]
  /\ history' = [history EXCEPT ![k] = [outcome |-> what, finished |-> t]]
  /\ Advance(k[1], next)
  /\ Return(w)
  /\ UNCHANGED <<now, tries, asked, faults>>

NextIfEnabled(d, t) == IF Enabled(d) THEN Occurs[defs[d].schedule][t] ELSE 0

\* The handler succeeded: its changes commit with the outcome.
TaskSucceeds(w, t) ==
  /\ pc[w] = "task"
  /\ Finish(w, "succeeded", "succeeded", t, NextIfEnabled(claim[w].run[1], t))
  /\ effects' = [effects EXCEPT ![claim[w].run] = @ + 1]

\* Mutation: a failed handler's changes are not rolled back to the savepoint.
FailureKeepsChanges(w, t) ==
  /\ pc[w] = "task"
  /\ Finish(w, "failed", "failed", t, NextIfEnabled(claim[w].run[1], t))
  /\ effects' = [effects EXCEPT ![claim[w].run] = @ + 1]

\* It returned an error, timed out, panicked or is not registered: its changes are
\* rolled back to the savepoint and the failure is final.
TaskFails(w, t) ==
  /\ pc[w] = "task"
  /\ Finish(w, "failed", "failed", t, NextIfEnabled(claim[w].run[1], t))
  /\ UNCHANGED effects

\* retry_exhausted: finish has updated the run and reads the definition, unlocked.
ReadDefinition(w, t) ==
  /\ pc[w] = "exhausted"
  /\ Unblocked(w)
  /\ Owns(w)
  /\ pc' = [pc EXCEPT ![w] = "failing"]
  /\ plan' = [plan EXCEPT ![w] = [finished |-> t, next |-> NextIfEnabled(claim[w].run[1], t)]]
  /\ UNCHANGED <<adminVars, claim, faults>>

\* Mutation: advanceDefinition updates the row whether or not it is enabled.
ExhaustStopped(w) ==
  /\ pc[w] = "failing"
  /\ Finish(w, "failed", "retry_exhausted", plan[w].finished, plan[w].next)
  /\ UNCHANGED effects

\* The failure is recorded and the definition advanced, if it is still enabled.
Exhaust(w) ==
  /\ pc[w] = "failing"
  /\ plan[w].next # 0 => Enabled(claim[w].run[1])
  /\ Finish(w, "failed", "retry_exhausted", plan[w].finished, plan[w].next)
  /\ UNCHANGED effects

\* finish cannot record the end: the definition was stopped after it was read, so that
\* advanceDefinition finds no row, or the clocks disagree and the CHECK of the history
\* refuses the row. Everything is rolled back and runOnce returns the error.
StoppedMeanwhile(w) == pc[w] = "failing" /\ plan[w].next # 0 /\ ~Enabled(claim[w].run[1])
RecordRefused(w) ==
  \/ pc[w] = "task" /\ \E t \in Reading : ~Recordable(w, t)
  \/ pc[w] = "failing" /\ ~Recordable(w, plan[w].finished)

FinishFails(w) ==
  /\ StoppedMeanwhile(w) \/ RecordRefused(w)
  /\ Return(w)
  /\ UNCHANGED <<adminVars, faults>>

\* The executor dies, is stopped or a statement fails: the transaction under way is
\* rolled back, the claim stays until its lease runs out.
Abandon(w) ==
  /\ pc[w] # "idle"
  /\ faults < MaxFaults
  /\ faults' = faults + 1
  /\ Return(w)
  /\ UNCHANGED adminVars

-----------------------------------------------------------------------------
Claims(w) ==
  \E t \in Reading :
    (\E k \in Run : ClaimRun(w, k, t)) \/ (\E d \in Definition : ClaimDue(w, d, t))

\* Polls that find nothing to claim.
PollsInVain(w) ==
  \/ NothingToRun(w)
  \/ \E t \in Reading, d \in Definition : InstantTaken(w, d, t)

Settles(w) ==
  \/ BeginTask(w)
  \/ Superseded(w)
  \/ Exhaust(w)
  \/ FinishFails(w)
  \/ \E t \in Reading : TaskSucceeds(w, t) \/ TaskFails(w, t) \/ ReadDefinition(w, t)

Administers(d) ==
  \/ StopDefinition(d)
  \/ DeleteDefinition(d)
  \/ \E s \in Schedule : CreateDefinition(d, s) \/ UpdateDefinition(d, s)
  \/ \E t \in Reading :
       \/ EnableWaits(d, t)
       \/ RunDefinition(d, t)
       \/ \E s \in Schedule : EnsureBuiltinDefinition(d, s, t)
  \/ \E t \in Reading \cup asked[d] : EnableDefinition(d, t)

Next ==
  \/ Tick
  \/ \E d \in Definition : Administers(d)
  \/ \E w \in Worker : Claims(w) \/ PollsInVain(w) \/ Settles(w) \/ Abandon(w)

Spec == Init /\ [][Next]_vars

\* Time passes, and every executor is polled by a loop of its process; nobody has
\* to administer anything and nothing has to fail.
Fairness ==
  /\ WF_vars(Tick)
  /\ \A w \in Worker : WF_vars(Claims(w)) /\ WF_vars(Settles(w))

FairSpec == Spec /\ Fairness

-----------------------------------------------------------------------------
TypeOK ==
  /\ now \in 0..MaxTime
  /\ defs \in [Definition -> DefRecord]
  /\ runs \in [Run -> RunRecord]
  /\ history \in [Run -> HistoryRecord]
  /\ effects \in [Run -> Nat]
  /\ tries \in [Run -> Nat]
  /\ asked \in [Definition -> SUBSET Time]
  /\ fresh \subseteq Definition
  /\ pc \in [Worker -> Stage]
  /\ claim \in [Worker -> RunClaim \cup {NoClaim}]
  /\ plan \in [Worker -> Plan]
  /\ faults \in Nat

\* The run, its handler's changes and its history row agree at every moment: the row
\* exists when the run has ended and says how, and changes exist when it succeeded.
\* A run only ends as retry_exhausted after three claims have failed to end it.
HistoryAgrees ==
  \A k \in Run :
    /\ effects[k] = IF runs[k].state = "succeeded" THEN 1 ELSE 0
    /\ runs[k].state = "succeeded" <=> history[k].outcome = "succeeded"
    /\ runs[k].state = "failed" <=> history[k].outcome \in {"failed", "retry_exhausted"}
    /\ history[k].outcome = "retry_exhausted" => runs[k].attempts > 3

\* However often executors die, a handler is started at most three times for a run.
ThreeTries == \A k \in Run : tries[k] <= 3

\* A definition has a next occurrence exactly while it is enabled, whatever finishing
\* runs and administrators do at the same time (the CHECK on scheduler_definitions).
NextOnlyWhenEnabled == \A d \in Definition : Enabled(d) <=> defs[d].next # 0

\* Occurrences that pass while a run is under way are skipped: the next occurrence an
\* executor chose lies after the end of every run of the definition, so that no claim
\* makes up for a missed one.
MissedAreSkipped ==
  \A k \in Run :
    (history[k].outcome # "none" /\ Enabled(k[1]) /\ k[1] \notin fresh) =>
      defs[k[1]].next > history[k].finished

\* The scheduler implements what it promises about runs.
StateOf(k) == IF Active(k) THEN "pending" ELSE runs[k].state
Promise == INSTANCE TaskRuns WITH outcome <- [k \in Run |-> StateOf(k)]
RunsAsPromised == Promise!Spec

\* The modelled time is over before the claim runs out.
LeasedPastTheEnd(k) == runs[k].state = "running" /\ runs[k].until > MaxTime

\* A run that was queued ends, however often its executors die.
RunsEnd ==
  \A k \in Run : runs[k].state = "queued" ~> (~Active(k) \/ LeasedPastTheEnd(k))

\* A definition that is due gets its run: it is not starved by the runs of other
\* definitions, nor blocked by a run nobody finishes.
DueIsServed ==
  \A d \in Definition :
    (Enabled(d) /\ defs[d].next <= now) ~>
      \/ ~Enabled(d)
      \/ defs[d].next > now
      \/ \E k \in Run : k[1] = d /\ LeasedPastTheEnd(k)
=============================================================================
