--------------------------- MODULE SchedulerProofs ---------------------------
(***************************************************************************)
(* Proofs about the scheduler, for any definitions, schedules, executors,  *)
(* clock skew and any number of faults.                                    *)
(*                                                                         *)
(* What has to be added to the properties to make them inductive: a claim  *)
(* in an executor's memory is never newer than its run and no two carry    *)
(* the same attempt (ClaimsOK, ClaimsDistinct), so that the token check    *)
(* lets one executor pass; an executor inside its transaction still owns   *)
(* its run, because claims skip locked rows; and a run whose current claim *)
(* has not started its handler has tries left (TriesOK).                   *)
(***************************************************************************)
EXTENDS Scheduler, TLAPS

\* What executor w remembers of its claim fits the run's row.
ClaimOK(w) ==
  pc[w] # "idle" =>
    /\ claim[w] \in RunClaim
    /\ claim[w].attempt >= 1
    /\ claim[w].attempt <= runs[claim[w].run].attempts
    /\ pc[w] \in {"claimed", "task"} => claim[w].attempt <= 3
    /\ pc[w] \in {"exhausted", "failing"} => claim[w].attempt > 3
    /\ pc[w] \in {"task", "failing"} => Owns(w)

ClaimsOK == \A w \in Worker : ClaimOK(w)

ClaimsDistinct ==
  \A v, w \in Worker :
    (pc[v] # "idle" /\ pc[w] # "idle" /\ claim[v].run = claim[w].run
       /\ claim[v].attempt = claim[w].attempt) => v = w

TriesOK ==
  /\ \A k \in Run : tries[k] <= 3 /\ tries[k] <= runs[k].attempts
  /\ \A w \in Worker :
       (pc[w] = "claimed" /\ Owns(w)) => tries[claim[w].run] < claim[w].attempt

RowsOK ==
  /\ \A k \in Run : runs[k].state = "absent" => runs[k].attempts = 0
  /\ \A j, k \in Run : (j[1] = k[1] /\ Active(j) /\ Active(k)) => j = k

SInv ==
  /\ TypeOK
  /\ ClaimsOK
  /\ ClaimsDistinct
  /\ TriesOK
  /\ RowsOK
  /\ HistoryAgrees
  /\ NextOnlyWhenEnabled

-----------------------------------------------------------------------------
LEMMA ReadingIsTime == \A t \in Reading : t \in Time
  BY DEF Reading

LEMMA TimeIsNat == \A t \in Time : t \in Nat
  BY DEF Time

\* The next occurrence of a schedule is an instant after the one it is asked for.
LEMMA OccursLater ==
  \A s \in Schedule, t \in Time : Occurs[s][t] \in Nat /\ Occurs[s][t] > t /\ Occurs[s][t] # 0
  BY SchedulerAssumption, TimeIsNat

LEMMA InitInv == Init => SInv
PROOF
  <1> SUFFICES ASSUME Init PROVE SInv
    OBVIOUS
  <1>1. 0 \in Time
    BY SchedulerAssumption DEF Time
  <1>2. TypeOK
    <2>1. defs \in [Definition -> DefRecord]
      BY DEF Init, DefRecord
    <2>2. runs \in [Run -> RunRecord] /\ history \in [Run -> HistoryRecord]
      BY DEF Init, RunRecord, HistoryRecord, Outcome
    <2>3. NoPlan \in Plan
      BY <1>1 DEF NoPlan, Plan
    <2>4. now \in 0..MaxTime
      BY SchedulerAssumption DEF Init
    <2> QED
      BY <2>1, <2>2, <2>3, <2>4 DEF Init, TypeOK, Stage
  <1>3. ClaimsOK /\ ClaimsDistinct
    BY DEF Init, ClaimsOK, ClaimOK, ClaimsDistinct
  <1>4. TriesOK
    BY DEF Init, TriesOK
  <1>5. RowsOK
    BY DEF Init, RowsOK, Active
  <1>6. HistoryAgrees
    BY DEF Init, HistoryAgrees
  <1>7. NextOnlyWhenEnabled
    BY DEF Init, NextOnlyWhenEnabled, Enabled
  <1> QED
    BY <1>2, <1>3, <1>4, <1>5, <1>6, <1>7 DEF SInv

-----------------------------------------------------------------------------
\* An administrator queues a manual run, waits for a row, or changes one definition's
\* row, in which next_run_at stays in step with whether it is enabled.
ChangesRow(d) ==
  /\ \E r \in DefRecord :
       /\ r.stage = "enabled" <=> r.next # 0
       /\ defs' = [defs EXCEPT ![d] = r]
       /\ fresh' = IF r.next = 0 THEN fresh \ {d} ELSE fresh \cup {d}
  /\ asked' = [asked EXCEPT ![d] = {}]
  /\ UNCHANGED <<now, runs, history, effects, tries, workerVars, faults>>

LEMMA AdministersDefs ==
  ASSUME TypeOK, NEW d \in Definition, Administers(d)
  PROVE  \/ \E t \in Reading : RunDefinition(d, t)
         \/ \E t \in Reading : EnableWaits(d, t)
         \/ ChangesRow(d)
PROOF
  <1>0. defs[d].schedule \in Schedule /\ asked[d] \subseteq Time
    BY DEF TypeOK, DefRecord
  <1>1. ASSUME NEW s \in Schedule, NEW stage \in {"disabled", "deleted"}, SetDefinition(d, stage, s, 0)
        PROVE  ChangesRow(d)
    <2>1. PICK r \in DefRecord : r = [stage |-> stage, schedule |-> s, next |-> 0]
      BY <1>1 DEF DefRecord
    <2> QED
      BY <1>1, <2>1 DEF SetDefinition, ChangesRow
  <1>2. ASSUME NEW s \in Schedule, NEW t \in Time, SetDefinition(d, "enabled", s, Occurs[s][t])
        PROVE  ChangesRow(d)
    <2>1. Occurs[s][t] \in Nat /\ Occurs[s][t] # 0
      BY OccursLater
    <2>2. PICK r \in DefRecord : r = [stage |-> "enabled", schedule |-> s, next |-> Occurs[s][t]]
      BY <1>2, <2>1 DEF DefRecord
    <2> QED
      BY <1>2, <2>1, <2>2 DEF SetDefinition, ChangesRow
  <1>3. CASE StopDefinition(d)
    BY <1>0, <1>1, <1>3 DEF StopDefinition
  <1>4. CASE DeleteDefinition(d)
    BY <1>0, <1>1, <1>4 DEF DeleteDefinition
  <1>5. CASE \E s \in Schedule : CreateDefinition(d, s) \/ UpdateDefinition(d, s)
    BY <1>1, <1>5 DEF CreateDefinition, UpdateDefinition
  <1>6. CASE \E t \in Reading \cup asked[d] : EnableDefinition(d, t)
    BY <1>0, <1>2, <1>6, ReadingIsTime DEF EnableDefinition
  <1>7. CASE \E t \in Reading, s \in Schedule : EnsureBuiltinDefinition(d, s, t)
    BY <1>2, <1>7, ReadingIsTime DEF EnsureBuiltinDefinition
  <1>8. CASE \E t \in Reading : EnableWaits(d, t) \/ RunDefinition(d, t)
    BY <1>8
  <1> QED
    BY <1>3, <1>4, <1>5, <1>6, <1>7, <1>8 DEF Administers

LEMMA RunDefinitionInv ==
  ASSUME SInv, NEW d \in Definition, NEW t \in Time, RunDefinition(d, t)
  PROVE  SInv'
PROOF
  <1> DEFINE k == <<d, t>>
  <1>1. k \in Run /\ runs[k].state = "absent" /\ ~HasActiveRun(d)
    BY DEF RunDefinition, Run
  <1>2. runs[k].attempts = 0
    BY <1>1 DEF SInv, RowsOK
  <1>3. runs' = [runs EXCEPT ![k] = [state |-> "queued", attempts |-> 0, until |-> 0]]
    BY DEF RunDefinition
  <1>4. UNCHANGED <<now, defs, history, effects, tries, asked, fresh, workerVars, faults>>
    BY DEF RunDefinition
  <1>5. runs' \in [Run -> RunRecord]
    BY <1>1, <1>3 DEF SInv, TypeOK, RunRecord
  <1>6. /\ \A j \in Run : j # k => runs'[j] = runs[j]
        /\ runs'[k].state = "queued" /\ runs'[k].attempts = 0
    BY <1>1, <1>3 DEF SInv, TypeOK
  <1> HIDE DEF k
  <1>7. \A w \in Worker : pc[w] # "idle" => claim[w].run # k /\ claim[w].run \in Run
    BY <1>2 DEF SInv, ClaimsOK, ClaimOK, RunClaim
  <1>8. TypeOK'
    BY <1>4, <1>5 DEF SInv, TypeOK, workerVars
  <1>9. ClaimsOK' /\ ClaimsDistinct'
    BY <1>4, <1>6, <1>7 DEF SInv, ClaimsOK, ClaimOK, ClaimsDistinct, Owns, workerVars
  <1>10. TriesOK'
    BY <1>2, <1>4, <1>6, <1>7 DEF SInv, TriesOK, Owns, workerVars
  <1>11. RowsOK'
    <2>1. ASSUME NEW j \in Run, j[1] = k[1], j # k PROVE ~Active(j)'
      BY <1>1, <1>6, <2>1 DEF HasActiveRun, Active, k
    <2> QED
      BY <1>6, <2>1 DEF SInv, RowsOK, Active
  <1>12. HistoryAgrees'
    BY <1>1, <1>4, <1>6 DEF SInv, HistoryAgrees
  <1>13. NextOnlyWhenEnabled'
    BY <1>4 DEF SInv, NextOnlyWhenEnabled, Enabled
  <1> QED
    BY <1>8, <1>9, <1>10, <1>11, <1>12, <1>13 DEF SInv

LEMMA AdministersInv ==
  ASSUME SInv, NEW d \in Definition, Administers(d)
  PROVE  SInv'
PROOF
  <1>1. CASE \E t \in Reading : RunDefinition(d, t)
    BY <1>1, RunDefinitionInv, ReadingIsTime
  <1>2. CASE ChangesRow(d)
    <2>1. PICK r \in DefRecord : /\ r.stage = "enabled" <=> r.next # 0
                                 /\ defs' = [defs EXCEPT ![d] = r]
                                 /\ fresh' = IF r.next = 0 THEN fresh \ {d} ELSE fresh \cup {d}
      BY <1>2 DEF ChangesRow
    <2>2. UNCHANGED <<now, runs, history, effects, tries, pc, claim, plan, faults>>
      BY <1>2 DEF ChangesRow, workerVars
    <2>3. TypeOK'
      <3>1. defs' \in [Definition -> DefRecord] /\ fresh' \subseteq Definition
        BY <2>1 DEF SInv, TypeOK
      <3>2. asked' \in [Definition -> SUBSET Time]
        BY <1>2 DEF ChangesRow, SInv, TypeOK
      <3> QED
        BY <2>2, <3>1, <3>2 DEF SInv, TypeOK
    <2>4. ClaimsOK' /\ ClaimsDistinct' /\ TriesOK' /\ RowsOK' /\ HistoryAgrees'
      BY <2>2 DEF SInv, ClaimsOK, ClaimOK, ClaimsDistinct, TriesOK, RowsOK, HistoryAgrees,
                  Owns, Active
    <2>5. NextOnlyWhenEnabled'
      BY <2>1 DEF SInv, TypeOK, NextOnlyWhenEnabled, Enabled
    <2> QED
      BY <2>3, <2>4, <2>5 DEF SInv
  <1>3. CASE \E t \in Reading : EnableWaits(d, t)
    <2>1. PICK t \in Time : asked' = [asked EXCEPT ![d] = {t}]
      BY <1>3, ReadingIsTime DEF EnableWaits
    <2>2. UNCHANGED <<now, defs, runs, history, effects, tries, fresh, pc, claim, plan, faults>>
      BY <1>3 DEF EnableWaits, workerVars
    <2>3. TypeOK'
      BY <2>1, <2>2 DEF SInv, TypeOK
    <2>4. ClaimsOK' /\ ClaimsDistinct' /\ TriesOK' /\ RowsOK' /\ HistoryAgrees' /\ NextOnlyWhenEnabled'
      BY <2>2 DEF SInv, ClaimsOK, ClaimOK, ClaimsDistinct, TriesOK, RowsOK, HistoryAgrees,
                  NextOnlyWhenEnabled, Enabled, Owns, Active
    <2> QED
      BY <2>3, <2>4 DEF SInv
  <1> QED
    BY <1>1, <1>2, <1>3, AdministersDefs DEF SInv

-----------------------------------------------------------------------------
\* A claim gives the run to w under an attempt no other executor remembers.
LEMMA AttemptInv ==
  ASSUME SInv, NEW w \in Worker, NEW k \in Run, NEW t \in Time, NEW a \in Nat,
         pc[w] = "idle", ~RunLocked(k), a = runs[k].attempts + 1, Attempt(w, k, a, t),
         runs[k].state \in {"absent", "queued", "running"},
         runs[k].state = "absent" => ~HasActiveRun(k[1]),
         defs' \in [Definition -> DefRecord], fresh' \subseteq Definition, NextOnlyWhenEnabled'
  PROVE  SInv'
PROOF
  <1>1. runs' = [runs EXCEPT ![k] = [state |-> "running", attempts |-> a, until |-> t + RunLease]]
    BY DEF Attempt
  <1>2. t + RunLease \in Nat
    BY TimeIsNat, SchedulerAssumption
  <1>3. runs' \in [Run -> RunRecord]
    BY <1>1, <1>2 DEF SInv, TypeOK, RunRecord
  <1>4. /\ \A j \in Run : j # k => runs'[j] = runs[j]
        /\ runs'[k].state = "running" /\ runs'[k].attempts = a
        /\ \A j \in Run : runs[j].attempts \in Nat
    BY <1>1 DEF SInv, TypeOK, RunRecord
  <1>5. AfterClaim(a) = IF a <= 3 THEN "claimed" ELSE "exhausted"
    BY DEF AfterClaim
  <1>6. /\ \A v \in Worker : v # w => pc'[v] = pc[v] /\ claim'[v] = claim[v]
        /\ pc'[w] = AfterClaim(a)
        /\ claim'[w] = [run |-> k, attempt |-> a, started |-> t]
    BY DEF SInv, TypeOK, Attempt
  <1>7. [run |-> k, attempt |-> a, started |-> t] \in RunClaim
    BY DEF RunClaim
  <1>8. UNCHANGED <<now, history, effects, tries, asked, plan, faults>>
    BY DEF Attempt
  <1>9. \A v \in Worker : pc[v] # "idle" => claim[v] \in RunClaim
    BY DEF SInv, ClaimsOK, ClaimOK
  <1>10. TypeOK'
    <2>1. pc' \in [Worker -> Stage]
      BY <1>5 DEF Attempt, SInv, TypeOK, Stage
    <2>2. claim' \in [Worker -> RunClaim \cup {NoClaim}]
      BY <1>7 DEF Attempt, SInv, TypeOK
    <2> QED
      BY <1>3, <1>8, <2>1, <2>2 DEF SInv, TypeOK
  <1>11. ClaimsOK'
    <2> SUFFICES ASSUME NEW v \in Worker PROVE ClaimOK(v)'
      BY DEF ClaimsOK
    <2>1. CASE v = w
      <3>1. a >= 1 /\ claim'[w].attempt = a /\ claim'[w].run = k
        BY <1>4, <1>6
      <3> QED
        BY <1>4, <1>5, <1>6, <1>7, <2>1, <3>1 DEF ClaimOK
    <2>2. CASE v # w
      <3>1. ClaimOK(v)
        BY DEF SInv, ClaimsOK
      <3>2. pc[v] # "idle" => claim[v].run \in Run /\ claim[v].attempt \in Nat
        BY <1>9 DEF RunClaim
      <3>3. pc[v] \in {"task", "failing"} => claim[v].run # k
        BY DEF RunLocked
      <3> QED
        BY <1>4, <1>6, <2>2, <3>1, <3>2, <3>3 DEF ClaimOK, Owns
    <2> QED
      BY <2>1, <2>2
  <1>12. ClaimsDistinct'
    <2>1. \A v \in Worker : v # w /\ pc[v] # "idle" /\ claim[v].run = k => claim[v].attempt < a
      BY <1>4, <1>9 DEF SInv, ClaimsOK, ClaimOK, RunClaim
    <2> QED
      BY <1>6, <2>1 DEF SInv, ClaimsDistinct
  <1>13. TriesOK'
    <2>1. \A j \in Run : tries[j] \in Nat /\ tries[j] <= 3 /\ tries[j] <= runs[j].attempts
      BY DEF SInv, TriesOK, TypeOK
    <2>2. \A j \in Run : tries'[j] <= 3 /\ tries'[j] <= runs'[j].attempts
      BY <1>4, <1>8, <2>1
    <2>3. tries[k] < a
      BY <1>4, <2>1
    <2>4. ASSUME NEW v \in Worker, v # w, pc[v] = "claimed", Owns(v)'
          PROVE  tries[claim[v].run] < claim[v].attempt
      <3>1. claim[v].run \in Run /\ claim[v].attempt <= runs[claim[v].run].attempts
             /\ claim[v].attempt \in Nat
        BY <1>9, <2>4 DEF SInv, ClaimsOK, ClaimOK, RunClaim
      <3>2. claim[v].run # k
        BY <1>4, <1>6, <2>4, <3>1 DEF Owns
      <3>3. Owns(v)
        BY <1>4, <1>6, <2>4, <3>1, <3>2 DEF Owns
      <3> QED
        BY <2>4, <3>3 DEF SInv, TriesOK
    <2> QED
      BY <1>6, <1>8, <2>2, <2>3, <2>4 DEF TriesOK
  <1>14. RowsOK'
    <2>1. ASSUME NEW j \in Run, j # k, j[1] = k[1] PROVE ~Active(j)
      BY <2>1 DEF SInv, RowsOK, Active, HasActiveRun
    <2> QED
      BY <1>4, <2>1 DEF SInv, RowsOK, Active
  <1>15. HistoryAgrees'
    <2>1. \A j \in Run :
            /\ effects'[j] = effects[j] /\ history'[j] = history[j]
            /\ runs[j].attempts <= runs'[j].attempts
            /\ runs'[j].state = "succeeded" <=> runs[j].state = "succeeded"
            /\ runs'[j].state = "failed" <=> runs[j].state = "failed"
      BY <1>4, <1>8
    <2>2. \A j \in Run : runs'[j].attempts \in Nat
      BY <1>3 DEF RunRecord
    <2> QED
      BY <1>4, <2>1, <2>2 DEF SInv, HistoryAgrees
  <1> QED
    BY <1>10, <1>11, <1>12, <1>13, <1>14, <1>15 DEF SInv

LEMMA ClaimsInv ==
  ASSUME SInv, NEW w \in Worker, Claims(w)
  PROVE  SInv'
PROOF
  <1>1. ASSUME NEW t \in Reading, NEW k \in Run, ClaimRun(w, k, t)
        PROVE  SInv'
    <2>1. t \in Time
      BY ReadingIsTime
    <2>2. runs[k].state \in {"queued", "running"} /\ ~RunLocked(k)
      BY <1>1 DEF ClaimRun, Claimable
    <2>3. PICK a \in Nat : a = runs[k].attempts + 1
      BY DEF SInv, TypeOK, RunRecord
    <2>4. UNCHANGED <<defs, fresh>> /\ pc[w] = "idle" /\ Attempt(w, k, a, t)
      BY <1>1, <2>3 DEF ClaimRun
    <2>5. defs' \in [Definition -> DefRecord] /\ fresh' \subseteq Definition /\ NextOnlyWhenEnabled'
      BY <2>4 DEF SInv, TypeOK, NextOnlyWhenEnabled, Enabled
    <2> QED
      BY <2>1, <2>2, <2>3, <2>4, <2>5, AttemptInv
  <1>2. ASSUME NEW t \in Reading, NEW d \in Definition, ClaimDue(w, d, t)
        PROVE  SInv'
    <2> DEFINE n == Occurs[defs[d].schedule][t]
    <2>1. t \in Time
      BY ReadingIsTime
    <2>2. Enabled(d) /\ defs[d].next <= t /\ ~HasActiveRun(d)
      BY <1>2 DEF ClaimDue, Due
    <2>3. defs[d] \in DefRecord
      BY DEF SInv, TypeOK
    <2>4. defs[d].next \in Time
      BY <2>1, <2>2, <2>3, SchedulerAssumption DEF DefRecord, Time
    <2>5. PICK k \in Run : k = <<d, defs[d].next>> /\ k[1] = d
      <3>1. <<d, defs[d].next>> \in Run /\ <<d, defs[d].next>>[1] = d
        BY <2>4 DEF Run
      <3> QED
        BY <3>1
    <2>6. n \in Nat /\ n # 0
      BY <2>1, <2>3, OccursLater DEF DefRecord
    <2>7. /\ defs' = [defs EXCEPT ![d].next = n]
          /\ fresh' = fresh \ {d}
          /\ pc[w] = "idle"
          /\ runs[k].state = "absent"
          /\ Attempt(w, k, 1, t)
      BY <1>2, <2>5 DEF ClaimDue
    <2> HIDE DEF n
    <2>8. defs'[d] = [stage |-> defs[d].stage, schedule |-> defs[d].schedule, next |-> n]
      BY <2>3, <2>7 DEF SInv, TypeOK, DefRecord
    <2>9. defs' \in [Definition -> DefRecord]
      BY <2>3, <2>6, <2>7, <2>8 DEF SInv, TypeOK, DefRecord
    <2>10. NextOnlyWhenEnabled'
      BY <2>2, <2>6, <2>7, <2>8 DEF SInv, TypeOK, NextOnlyWhenEnabled, Enabled
    <2>11. fresh' \subseteq Definition
      BY <2>7 DEF SInv, TypeOK
    <2>12. runs[k].attempts + 1 = 1
      BY <2>5, <2>7 DEF SInv, RowsOK
    <2>13. ~RunLocked(k)
      <3> SUFFICES ASSUME NEW v \in Worker, pc[v] \in {"task", "failing"}, claim[v].run = k
                   PROVE  FALSE
        BY DEF RunLocked
      <3>1. runs[k].state = "running"
        BY DEF SInv, ClaimsOK, ClaimOK, Owns
      <3> QED
        BY <2>7, <3>1
    <2> QED
      BY <2>1, <2>2, <2>5, <2>7, <2>9, <2>10, <2>11, <2>12, <2>13, AttemptInv
  <1> QED
    BY <1>1, <1>2 DEF Claims

-----------------------------------------------------------------------------
\* An executor that forgets its claim leaves the rows and the others alone.
LEMMA ReturnInv ==
  ASSUME SInv, NEW w \in Worker, Return(w), UNCHANGED adminVars, faults' \in Nat
  PROVE  SInv'
PROOF
  <1>1. UNCHANGED <<now, defs, runs, history, effects, tries, asked, fresh>>
    BY DEF adminVars
  <1>2. NoPlan \in Plan
    BY SchedulerAssumption DEF NoPlan, Plan, Time
  <1>3. /\ pc' = [pc EXCEPT ![w] = "idle"]
        /\ claim' = [claim EXCEPT ![w] = NoClaim]
        /\ plan' = [plan EXCEPT ![w] = NoPlan]
    BY DEF Return
  <1>4. TypeOK'
    BY <1>1, <1>2, <1>3 DEF SInv, TypeOK, Stage
  <1>5. ClaimsOK' /\ ClaimsDistinct' /\ TriesOK'
    BY <1>1, <1>3 DEF SInv, TypeOK, ClaimsOK, ClaimOK, ClaimsDistinct, TriesOK, Owns
  <1>6. RowsOK' /\ HistoryAgrees' /\ NextOnlyWhenEnabled'
    BY <1>1 DEF SInv, RowsOK, HistoryAgrees, NextOnlyWhenEnabled, Active, Enabled
  <1> QED
    BY <1>4, <1>5, <1>6 DEF SInv

LEMMA BeginTaskInv ==
  ASSUME SInv, NEW w \in Worker, BeginTask(w)
  PROVE  SInv'
PROOF
  <1> DEFINE k == claim[w].run
  <1>1. pc[w] = "claimed" /\ Owns(w) /\ ClaimOK(w)
    BY DEF BeginTask, SInv, ClaimsOK
  <1>2. k \in Run /\ runs[k].attempts = claim[w].attempt /\ runs[k].attempts <= 3
    BY <1>1 DEF ClaimOK, RunClaim, Owns
  <1>3. /\ pc' = [pc EXCEPT ![w] = "task"]
        /\ tries' = [tries EXCEPT ![k] = @ + 1]
        /\ UNCHANGED <<now, defs, runs, history, effects, asked, fresh, claim, plan, faults>>
    BY DEF BeginTask
  <1>4. \A j \in Run : tries[j] \in Nat /\ runs[j].attempts \in Nat
    BY DEF SInv, TypeOK, RunRecord
  <1>5. tries[k] < runs[k].attempts
    BY <1>1, <1>2 DEF SInv, TriesOK
  <1> HIDE DEF k
  <1>6. tries' \in [Run -> Nat]
    BY <1>2, <1>3, <1>4 DEF SInv, TypeOK
  <1>7. TypeOK'
    BY <1>3, <1>6 DEF SInv, TypeOK, Stage
  <1>8. ClaimsOK' /\ ClaimsDistinct'
    BY <1>1, <1>3 DEF SInv, TypeOK, ClaimsOK, ClaimOK, ClaimsDistinct, Owns
  <1>9. TriesOK'
    <2>1. \A j \in Run : tries'[j] = IF j = k THEN tries[k] + 1 ELSE tries[j]
      BY <1>2, <1>3 DEF SInv, TypeOK
    <2>2. \A j \in Run : tries'[j] <= 3 /\ tries'[j] <= runs'[j].attempts
      BY <1>2, <1>3, <1>4, <1>5, <2>1 DEF SInv, TriesOK
    <2>3. ASSUME NEW v \in Worker, pc'[v] = "claimed", Owns(v)'
          PROVE  tries'[claim'[v].run] < claim'[v].attempt
      <3>1. v # w /\ pc[v] = "claimed" /\ Owns(v)
        BY <1>3, <2>3 DEF SInv, TypeOK, Owns
      <3>2. claim[v].run \in Run
        BY <3>1 DEF SInv, ClaimsOK, ClaimOK, RunClaim
      <3>3. claim[v].run # k
        BY <1>1, <1>2, <3>1 DEF SInv, ClaimsDistinct, Owns, k
      <3> QED
        BY <1>3, <2>1, <3>1, <3>2, <3>3 DEF SInv, TriesOK
    <2> QED
      BY <2>2, <2>3 DEF TriesOK
  <1>10. RowsOK' /\ HistoryAgrees' /\ NextOnlyWhenEnabled'
    BY <1>3 DEF SInv, RowsOK, HistoryAgrees, NextOnlyWhenEnabled, Active, Enabled
  <1> QED
    BY <1>7, <1>8, <1>9, <1>10 DEF SInv

-----------------------------------------------------------------------------
\* The end of a run: its row, its history, its handler's changes and the next
\* occurrence of its definition change together.
LEMMA FinishInv ==
  ASSUME SInv, NEW w \in Worker, NEW t \in Time, NEW next \in Nat,
         NEW state \in {"succeeded", "failed"}, NEW what \in Outcome \ {"none"},
         pc[w] \in {"task", "failing"},
         Finish(w, state, what, t, next),
         state = "succeeded" <=> what = "succeeded",
         what = "retry_exhausted" => pc[w] = "failing",
         next # 0 => Enabled(claim[w].run[1]),
         effects' = IF state = "succeeded"
                      THEN [effects EXCEPT ![claim[w].run] = @ + 1] ELSE effects
  PROVE  SInv'
PROOF
  <1> DEFINE k == claim[w].run
  <1>1. ClaimOK(w) /\ Owns(w)
    BY DEF SInv, ClaimsOK, ClaimOK
  <1>2. k \in Run /\ k[1] \in Definition
    BY <1>1 DEF ClaimOK, RunClaim, Run
  <1>3. runs[k].state = "running" /\ runs[k].attempts \in Nat
    BY <1>1, <1>2 DEF Owns, SInv, TypeOK, RunRecord
  <1>4. effects[k] = 0
    BY <1>2, <1>3 DEF SInv, HistoryAgrees
  <1>5. what = "retry_exhausted" => runs[k].attempts > 3
    BY <1>1 DEF ClaimOK, Owns
  <1>6. /\ runs' = [runs EXCEPT ![k] = [state |-> state, attempts |-> @.attempts, until |-> 0]]
        /\ history' = [history EXCEPT ![k] = [outcome |-> what, finished |-> t]]
        /\ defs' = IF next = 0 THEN defs ELSE [defs EXCEPT ![k[1]].next = next]
        /\ fresh' \subseteq fresh
        /\ Return(w)
        /\ UNCHANGED <<now, tries, asked, faults>>
    BY DEF Finish, Advance
  <1>7. effects' = IF state = "succeeded" THEN [effects EXCEPT ![k] = 1] ELSE effects
    BY <1>2, <1>4 DEF SInv, TypeOK
  <1>8. next # 0 => Enabled(k[1])
    OBVIOUS
  <1>9. /\ pc' = [pc EXCEPT ![w] = "idle"]
        /\ claim' = [claim EXCEPT ![w] = NoClaim]
        /\ plan' = [plan EXCEPT ![w] = NoPlan]
    BY <1>6 DEF Return
  <1>10. \A v \in Worker : v # w /\ pc[v] # "idle" /\ claim[v].run = k =>
           claim[v].attempt < runs[k].attempts /\ ~Owns(v)
    <2> SUFFICES ASSUME NEW v \in Worker, v # w, pc[v] # "idle", claim[v].run = k
                 PROVE  claim[v].attempt < runs[k].attempts /\ ~Owns(v)
      OBVIOUS
    <2>1. claim[v].attempt # claim[w].attempt
      BY <1>1 DEF SInv, ClaimsDistinct
    <2>2. claim[v].attempt \in Nat /\ claim[v].attempt <= runs[k].attempts
      BY DEF SInv, ClaimsOK, ClaimOK, RunClaim
    <2>3. claim[w].attempt = runs[k].attempts
      BY <1>1 DEF Owns
    <2> QED
      BY <1>3, <2>1, <2>2, <2>3 DEF Owns
  <1> HIDE DEF k
  <1>11. /\ runs'[k] = [state |-> state, attempts |-> runs[k].attempts, until |-> 0]
         /\ \A j \in Run : j # k => runs'[j] = runs[j]
    BY <1>2, <1>6 DEF SInv, TypeOK
  <1>12. TypeOK'
    <2>1. runs' \in [Run -> RunRecord]
      BY <1>2, <1>3, <1>6 DEF SInv, TypeOK, RunRecord
    <2>2. history' \in [Run -> HistoryRecord]
      BY <1>2, <1>6, TimeIsNat DEF SInv, TypeOK, HistoryRecord
    <2>3. defs' \in [Definition -> DefRecord]
      <3>1. defs \in [Definition -> DefRecord]
        BY DEF SInv, TypeOK
      <3>2. [defs[k[1]] EXCEPT !.next = next] \in DefRecord
        BY <1>2, <3>1 DEF DefRecord
      <3>3. CASE next = 0
        BY <1>6, <3>1, <3>3
      <3>4. CASE next # 0
        BY <1>6, <3>1, <3>2, <3>4
      <3> QED
        BY <3>3, <3>4
    <2>4. effects' \in [Run -> Nat]
      <3>1. effects \in [Run -> Nat]
        BY DEF SInv, TypeOK
      <3>2. [effects EXCEPT ![k] = 1] \in [Run -> Nat]
        BY <3>1
      <3>3. effects' = effects \/ effects' = [effects EXCEPT ![k] = 1]
        BY <1>7, Zenon
      <3> QED
        BY <3>1, <3>2, <3>3
    <2>5. NoPlan \in Plan
      BY SchedulerAssumption DEF NoPlan, Plan, Time
    <2>6. pc' \in [Worker -> Stage] /\ claim' \in [Worker -> RunClaim \cup {NoClaim}]
            /\ plan' \in [Worker -> Plan]
      BY <1>9, <2>5 DEF SInv, TypeOK, Stage
    <2> QED
      BY <1>6, <2>1, <2>2, <2>3, <2>4, <2>6 DEF SInv, TypeOK
  <1>13. ClaimsOK'
    <2> SUFFICES ASSUME NEW v \in Worker, v # w PROVE ClaimOK(v)'
      BY <1>9 DEF ClaimsOK, ClaimOK, SInv, TypeOK
    <2>1. ClaimOK(v) /\ pc'[v] = pc[v] /\ claim'[v] = claim[v]
      BY <1>9 DEF SInv, ClaimsOK, TypeOK
    <2>2. CASE pc[v] # "idle" /\ claim[v].run = k
      BY <1>10, <1>11, <2>1, <2>2 DEF ClaimOK
    <2>3. CASE pc[v] # "idle" /\ claim[v].run # k
      <3>1. claim[v].run \in Run
        BY <2>1, <2>3 DEF ClaimOK, RunClaim
      <3>2. runs'[claim[v].run] = runs[claim[v].run]
        BY <1>11, <2>3, <3>1
      <3> QED
        BY <2>1, <3>2 DEF ClaimOK, Owns
    <2> QED
      BY <2>1, <2>2, <2>3 DEF ClaimOK
  <1>14. ClaimsDistinct'
    BY <1>9 DEF SInv, TypeOK, ClaimsDistinct
  <1>15. TriesOK'
    <2>1. \A j \in Run : runs'[j].attempts = runs[j].attempts
      BY <1>11
    <2>2. ASSUME NEW v \in Worker, pc'[v] = "claimed", Owns(v)'
          PROVE  v # w /\ pc[v] = "claimed" /\ Owns(v)
      <3>1. v # w /\ pc[v] = "claimed" /\ claim'[v] = claim[v]
        BY <1>9, <2>2 DEF SInv, TypeOK
      <3>2. claim[v].run \in Run
        BY <3>1 DEF SInv, ClaimsOK, ClaimOK, RunClaim
      <3>3. claim[v].run # k
        BY <1>11, <2>2, <3>1 DEF Owns
      <3> QED
        BY <1>11, <2>2, <3>1, <3>2, <3>3 DEF Owns
    <2> QED
      BY <1>6, <1>9, <2>1, <2>2 DEF SInv, TypeOK, TriesOK
  <1>16. RowsOK'
    BY <1>11 DEF SInv, RowsOK, Active
  <1>17. HistoryAgrees'
    <2>1. history'[k].outcome = what /\ \A j \in Run : j # k => history'[j] = history[j]
      BY <1>2, <1>6 DEF SInv, TypeOK
    <2>2. /\ effects'[k] = IF state = "succeeded" THEN 1 ELSE 0
          /\ \A j \in Run : j # k => effects'[j] = effects[j]
      BY <1>2, <1>4, <1>7 DEF SInv, TypeOK
    <2>3. what \in {"succeeded", "failed", "retry_exhausted"}
      BY DEF Outcome
    <2> QED
      BY <1>5, <1>11, <2>1, <2>2, <2>3 DEF SInv, HistoryAgrees
  <1>18. NextOnlyWhenEnabled'
    <2>1. next # 0 => /\ defs'[k[1]].stage = "enabled" /\ defs'[k[1]].next = next
                      /\ \A d \in Definition : d # k[1] => defs'[d] = defs[d]
      BY <1>2, <1>6, <1>8 DEF SInv, TypeOK, DefRecord, Enabled
    <2> QED
      BY <1>6, <2>1 DEF SInv, NextOnlyWhenEnabled, Enabled
  <1> QED
    BY <1>12, <1>13, <1>14, <1>15, <1>16, <1>17, <1>18 DEF SInv

\* The next occurrence finish computes is 0 exactly when the definition is off.
LEMMA NextIfEnabledType ==
  ASSUME TypeOK, NEW d \in Definition, NEW t \in Time
  PROVE  NextIfEnabled(d, t) \in Nat /\ (NextIfEnabled(d, t) # 0 => Enabled(d))
  BY OccursLater DEF NextIfEnabled, TypeOK, DefRecord

LEMMA TaskEndsInv ==
  ASSUME SInv, NEW w \in Worker, NEW t \in Time, TaskSucceeds(w, t) \/ TaskFails(w, t)
  PROVE  SInv'
PROOF
  <1>1. pc[w] = "task"
    BY DEF TaskSucceeds, TaskFails
  <1>2. claim[w].run[1] \in Definition
    BY <1>1 DEF SInv, ClaimsOK, ClaimOK, RunClaim, Run
  <1>3. PICK next \in Nat : /\ next = NextIfEnabled(claim[w].run[1], t)
                            /\ next # 0 => Enabled(claim[w].run[1])
    BY <1>2, NextIfEnabledType DEF SInv
  <1>4. CASE TaskSucceeds(w, t)
    <2>1. /\ Finish(w, "succeeded", "succeeded", t, next)
          /\ effects' = [effects EXCEPT ![claim[w].run] = @ + 1]
      BY <1>3, <1>4 DEF TaskSucceeds
    <2> QED
      BY <1>1, <1>3, <2>1, FinishInv DEF Outcome
  <1>5. CASE TaskFails(w, t)
    <2>1. Finish(w, "failed", "failed", t, next) /\ effects' = effects
      BY <1>3, <1>5 DEF TaskFails
    <2> QED
      BY <1>1, <1>3, <2>1, FinishInv DEF Outcome
  <1> QED
    BY <1>4, <1>5

LEMMA ReadDefinitionInv ==
  ASSUME SInv, NEW w \in Worker, NEW t \in Time, ReadDefinition(w, t)
  PROVE  SInv'
PROOF
  <1> DEFINE p == [finished |-> t, next |-> NextIfEnabled(claim[w].run[1], t)]
  <1>1. pc[w] = "exhausted" /\ Owns(w) /\ ClaimOK(w)
    BY DEF ReadDefinition, SInv, ClaimsOK
  <1>2. claim[w].run[1] \in Definition
    BY <1>1 DEF ClaimOK, RunClaim, Run
  <1>3. p \in Plan
    BY <1>2, NextIfEnabledType DEF SInv, Plan
  <1>4. /\ pc' = [pc EXCEPT ![w] = "failing"]
        /\ plan' = [plan EXCEPT ![w] = p]
        /\ UNCHANGED <<adminVars, claim, faults>>
    BY DEF ReadDefinition
  <1> HIDE DEF p
  <1>5. TypeOK'
    BY <1>3, <1>4 DEF SInv, TypeOK, Stage, adminVars
  <1>6. ClaimsOK' /\ ClaimsDistinct' /\ TriesOK'
    BY <1>1, <1>4 DEF SInv, TypeOK, ClaimsOK, ClaimOK, ClaimsDistinct, TriesOK, Owns, adminVars
  <1>7. RowsOK' /\ HistoryAgrees' /\ NextOnlyWhenEnabled'
    BY <1>4 DEF SInv, RowsOK, HistoryAgrees, NextOnlyWhenEnabled, Active, Enabled, adminVars
  <1> QED
    BY <1>5, <1>6, <1>7 DEF SInv

LEMMA ExhaustInv ==
  ASSUME SInv, NEW w \in Worker, Exhaust(w)
  PROVE  SInv'
PROOF
  <1>1. /\ pc[w] = "failing"
        /\ plan[w].next # 0 => Enabled(claim[w].run[1])
        /\ Finish(w, "failed", "retry_exhausted", plan[w].finished, plan[w].next)
        /\ effects' = effects
    BY DEF Exhaust
  <1>2. PICK t \in Time, next \in Nat : t = plan[w].finished /\ next = plan[w].next
    BY DEF SInv, TypeOK, Plan
  <1> QED
    BY <1>1, <1>2, FinishInv DEF Outcome

LEMMA SettlesInv ==
  ASSUME SInv, NEW w \in Worker, Settles(w)
  PROVE  SInv'
PROOF
  <1>1. CASE BeginTask(w)
    BY <1>1, BeginTaskInv
  <1>2. CASE Superseded(w) \/ FinishFails(w)
    <2>1. Return(w) /\ UNCHANGED adminVars /\ faults' \in Nat
      BY <1>2 DEF Superseded, FinishFails, SInv, TypeOK
    <2> QED
      BY <2>1, ReturnInv
  <1>3. CASE Exhaust(w)
    BY <1>3, ExhaustInv
  <1>4. CASE \E t \in Reading : TaskSucceeds(w, t) \/ TaskFails(w, t)
    BY <1>4, TaskEndsInv, ReadingIsTime
  <1>5. CASE \E t \in Reading : ReadDefinition(w, t)
    BY <1>5, ReadDefinitionInv, ReadingIsTime
  <1> QED
    BY <1>1, <1>2, <1>3, <1>4, <1>5 DEF Settles

LEMMA UnchangedInv == SInv /\ UNCHANGED vars => SInv'
  BY DEF SInv, vars, adminVars, workerVars, TypeOK, ClaimsOK, ClaimOK, ClaimsDistinct, TriesOK,
         RowsOK, HistoryAgrees, NextOnlyWhenEnabled, Owns, Active, Enabled

LEMMA NextInv == SInv /\ [Next]_vars => SInv'
PROOF
  <1> SUFFICES ASSUME SInv, [Next]_vars PROVE SInv'
    OBVIOUS
  <1>1. CASE Tick
    <2>1. now' \in 0..MaxTime
      BY <1>1, SchedulerAssumption DEF Tick, SInv, TypeOK
    <2>2. UNCHANGED <<defs, runs, history, effects, tries, asked, fresh, workerVars, faults>>
      BY <1>1 DEF Tick
    <2>3. TypeOK'
      BY <2>1, <2>2 DEF SInv, TypeOK, workerVars
    <2>4. ClaimsOK' /\ ClaimsDistinct' /\ TriesOK'
      BY <2>2 DEF SInv, ClaimsOK, ClaimOK, ClaimsDistinct, TriesOK, Owns, workerVars
    <2>5. RowsOK' /\ HistoryAgrees' /\ NextOnlyWhenEnabled'
      BY <2>2 DEF SInv, RowsOK, HistoryAgrees, NextOnlyWhenEnabled, Active, Enabled
    <2> QED
      BY <2>3, <2>4, <2>5 DEF SInv
  <1>2. CASE \E d \in Definition : Administers(d)
    BY <1>2, AdministersInv
  <1>3. CASE \E w \in Worker : Claims(w)
    BY <1>3, ClaimsInv
  <1>4. CASE \E w \in Worker : PollsInVain(w)
    BY <1>4, UnchangedInv DEF PollsInVain, NothingToRun, InstantTaken
  <1>5. CASE \E w \in Worker : Settles(w)
    BY <1>5, SettlesInv
  <1>6. CASE \E w \in Worker : Abandon(w)
    <2>1. PICK w \in Worker : Abandon(w)
      BY <1>6
    <2>2. Return(w) /\ UNCHANGED adminVars /\ faults' \in Nat
      BY <2>1 DEF Abandon, SInv, TypeOK
    <2> QED
      BY <2>2, ReturnInv
  <1>7. CASE UNCHANGED vars
    BY <1>7, UnchangedInv
  <1> QED
    BY <1>1, <1>2, <1>3, <1>4, <1>5, <1>6, <1>7 DEF Next

\* The inductive invariant holds of every behaviour of the scheduler.
THEOREM SchedulerInvariant == Spec => []SInv
  BY InitInv, NextInv, PTL DEF Spec

\* Type correctness of the scheduler's tables and of what its executors remember.
THEOREM SchedulerTyping == Spec => []TypeOK
PROOF
  <1>1. SInv => TypeOK
    BY DEF SInv
  <1> QED
    BY <1>1, SchedulerInvariant, PTL

\* A run's state, its handler's changes and its history row never disagree, whatever
\* executors die, whichever claims run out and however the clocks differ.
THEOREM HistoryNeverDisagrees == Spec => []HistoryAgrees
PROOF
  <1>1. SInv => HistoryAgrees
    BY DEF SInv
  <1> QED
    BY <1>1, SchedulerInvariant, PTL

\* No run has its handler started more than three times.
THEOREM HandlerStartsAtMostThrice == Spec => []ThreeTries
PROOF
  <1>1. SInv => ThreeTries
    BY DEF SInv, TriesOK, ThreeTries
  <1> QED
    BY <1>1, SchedulerInvariant, PTL

\* The database's CHECK that a definition has a next occurrence exactly while it is
\* enabled is never what stops a transaction of the scheduler.
THEOREM NextRunMatchesEnabled == Spec => []NextOnlyWhenEnabled
PROOF
  <1>1. SInv => NextOnlyWhenEnabled
    BY DEF SInv
  <1> QED
    BY <1>1, SchedulerInvariant, PTL

-----------------------------------------------------------------------------
(* The scheduler implements TaskRuns.  A run is pending there while its row  *)
(* is queued or running, so claims and failed attempts are stutters.         *)

\* What a step does to the outcome of run k and to no other run.
Becomes(k, s) ==
  /\ StateOf(k)' = s
  /\ \A j \in Run : j # k => StateOf(j)' = StateOf(j)

\* A step that ends, accepts or leaves alone the runs as TaskRuns says.
LEMMA OutcomeChanges ==
  ASSUME NEW k \in Run, NEW s, Becomes(k, s)
  PROVE  [j \in Run |-> StateOf(j)]' = [[j \in Run |-> StateOf(j)] EXCEPT ![k] = s]
PROOF
  <1>1. \A j \in Run : StateOf(j)' = IF j = k THEN s ELSE StateOf(j)
    BY DEF Becomes
  <1> QED
    BY <1>1

LEMMA OutcomeStays ==
  ASSUME \A j \in Run : StateOf(j)' = StateOf(j)
  PROVE  [j \in Run |-> StateOf(j)]' = [j \in Run |-> StateOf(j)]
  OBVIOUS

LEMMA AcceptStep ==
  ASSUME SInv, NEW k \in Run, runs[k].state = "absent", ~HasActiveRun(k[1]),
         Becomes(k, "pending"), effects' = effects
  PROVE  Promise!Next
PROOF
  <1>1. StateOf(k) = "absent"
    BY DEF StateOf, Active
  <1>2. \A j \in Run : j[1] = k[1] => StateOf(j) # "pending"
    BY DEF HasActiveRun, Active, StateOf, SInv, TypeOK, RunRecord
  <1>3. Promise!Accept(k)
    BY <1>1, <1>2, OutcomeChanges DEF Promise!Accept
  <1> QED
    BY <1>3 DEF Promise!Next

LEMMA AttemptStep ==
  ASSUME SInv, NEW w \in Worker, NEW k \in Run, NEW a, NEW t, Attempt(w, k, a, t)
  PROVE  Becomes(k, "pending") /\ effects' = effects
  BY DEF Attempt, Becomes, StateOf, Active, SInv, TypeOK

LEMMA FinishStep ==
  ASSUME SInv, NEW w \in Worker, pc[w] \in {"task", "failing"},
         NEW state \in {"succeeded", "failed"}, NEW what, NEW t, NEW next,
         Finish(w, state, what, t, next)
  PROVE  \E k \in Run : k = claim[w].run /\ StateOf(k) = "pending" /\ Becomes(k, state)
PROOF
  <1>1. claim[w].run \in Run /\ runs[claim[w].run].state = "running"
    BY DEF SInv, ClaimsOK, ClaimOK, RunClaim, Owns
  <1>2. PICK k \in Run : k = claim[w].run
    BY <1>1
  <1>3. runs' = [runs EXCEPT ![k] = [state |-> state, attempts |-> @.attempts, until |-> 0]]
    BY <1>2 DEF Finish
  <1>4. runs'[k].state = state /\ \A j \in Run : j # k => runs'[j] = runs[j]
    BY <1>3 DEF SInv, TypeOK
  <1>5. Becomes(k, state)
    BY <1>4 DEF Becomes, StateOf, Active
  <1> QED
    BY <1>1, <1>2, <1>5 DEF StateOf, Active

LEMMA PromiseStep ==
  ASSUME SInv, [Next]_vars
  PROVE  [Promise!Next]_(Promise!runVars)
PROOF
  <1> DEFINE Stays == Promise!runVars' = Promise!runVars
  <1>0. ASSUME \A j \in Run : StateOf(j)' = StateOf(j), effects' = effects PROVE Stays
    BY <1>0, OutcomeStays DEF Promise!runVars
  <1>1. ASSUME UNCHANGED <<runs, effects>> PROVE Stays
    BY <1>0, <1>1 DEF StateOf, Active
  <1>2. CASE Tick \/ UNCHANGED vars
    BY <1>1, <1>2 DEF Tick, vars, adminVars
  <1>3. ASSUME NEW d \in Definition, Administers(d) PROVE Promise!Next \/ Stays
    <2>1. ASSUME NEW t \in Time, RunDefinition(d, t) PROVE Promise!Next
      <3> DEFINE k == <<d, t>>
      <3>1. k \in Run /\ runs[k].state = "absent" /\ ~HasActiveRun(k[1]) /\ effects' = effects
        BY <2>1 DEF RunDefinition, Run
      <3>2. runs' = [runs EXCEPT ![k] = [state |-> "queued", attempts |-> 0, until |-> 0]]
        BY <2>1 DEF RunDefinition
      <3> HIDE DEF k
      <3>3. Becomes(k, "pending")
        BY <3>1, <3>2 DEF Becomes, StateOf, Active, SInv, TypeOK
      <3> QED
        BY <3>1, <3>3, AcceptStep
    <2>2. CASE ChangesRow(d) \/ \E t \in Reading : EnableWaits(d, t)
      <3>1. UNCHANGED <<runs, effects>>
        BY <2>2 DEF ChangesRow, EnableWaits
      <3> QED
        BY <1>1, <3>1
    <2> QED
      BY <1>3, <2>1, <2>2, AdministersDefs, ReadingIsTime DEF SInv
  <1>4. ASSUME NEW w \in Worker, Claims(w) PROVE Promise!Next \/ Stays
    <2>1. ASSUME NEW t \in Reading, NEW k \in Run, ClaimRun(w, k, t) PROVE Stays
      <3>1. Becomes(k, "pending") /\ effects' = effects
        BY <2>1, AttemptStep DEF ClaimRun
      <3>2. StateOf(k) = "pending"
        BY <2>1 DEF ClaimRun, Claimable, StateOf, Active
      <3> QED
        BY <1>0, <3>1, <3>2 DEF Becomes
    <2>2. ASSUME NEW t \in Reading, NEW d \in Definition, ClaimDue(w, d, t) PROVE Promise!Next
      <3>1. defs[d].next \in Time
        BY <2>2, SchedulerAssumption DEF ClaimDue, Due, Reading, Time, SInv, TypeOK, DefRecord
      <3>2. PICK k \in Run : k = <<d, defs[d].next>>
        BY <3>1 DEF Run
      <3>3. runs[k].state = "absent" /\ ~HasActiveRun(k[1]) /\ Attempt(w, k, 1, t)
        BY <2>2, <3>2 DEF ClaimDue, Due
      <3>4. Becomes(k, "pending") /\ effects' = effects
        BY <3>2, <3>3, AttemptStep
      <3> QED
        BY <3>2, <3>3, <3>4, AcceptStep
    <2> QED
      BY <1>4, <2>1, <2>2 DEF Claims
  <1>5. ASSUME NEW w \in Worker, Settles(w) PROVE Promise!Next \/ Stays
    <2>1. ASSUME NEW t \in Reading, TaskSucceeds(w, t) PROVE Promise!Next
      <3>1. PICK k \in Run : /\ k = claim[w].run
                             /\ StateOf(k) = "pending"
                             /\ Becomes(k, "succeeded")
        BY <2>1, FinishStep DEF TaskSucceeds
      <3>2. effects[k] = 0
        BY <3>1 DEF SInv, HistoryAgrees, StateOf, Active
      <3>3. effects' = [effects EXCEPT ![k] = @ + 1]
        BY <2>1, <3>1 DEF TaskSucceeds
      <3>4. effects' = [effects EXCEPT ![k] = 1]
        BY <3>1, <3>2, <3>3 DEF SInv, TypeOK
      <3>5. Promise!Succeed(k)
        BY <3>1, <3>4, OutcomeChanges DEF Promise!Succeed
      <3> QED
        BY <3>1, <3>5 DEF Promise!Next
    <2>2. ASSUME Exhaust(w) \/ \E t \in Reading : TaskFails(w, t) PROVE Promise!Next
      <3>1. PICK k \in Run : StateOf(k) = "pending" /\ Becomes(k, "failed")
        BY <2>2, FinishStep DEF TaskFails, Exhaust
      <3>2. effects' = effects
        BY <2>2 DEF TaskFails, Exhaust
      <3>3. Promise!Fail(k)
        BY <3>1, <3>2, OutcomeChanges DEF Promise!Fail
      <3> QED
        BY <3>1, <3>3 DEF Promise!Next
    <2>3. ASSUME \/ BeginTask(w) \/ Superseded(w) \/ FinishFails(w)
                 \/ \E t \in Reading : ReadDefinition(w, t)
          PROVE  Stays
      BY <1>1, <2>3 DEF BeginTask, Superseded, FinishFails, ReadDefinition,
                        adminVars
    <2> QED
      BY <1>5, <2>1, <2>2, <2>3 DEF Settles
  <1>6. ASSUME NEW w \in Worker, PollsInVain(w) \/ Abandon(w) PROVE Stays
    BY <1>1, <1>6 DEF PollsInVain, NothingToRun, InstantTaken, Abandon, vars, adminVars
  <1> QED
    BY <1>2, <1>3, <1>4, <1>5, <1>6 DEF Next

\* The scheduler, with its claims, retries, crashes, administrators and clocks that
\* disagree, implements TaskRuns: one unfinished run per definition, every run ends
\* once, and its handler's changes happen exactly when it ends well.
THEOREM SchedulerImplementsRuns == Spec => RunsAsPromised
PROOF
  <1>1. Init => Promise!Init
    <2> SUFFICES ASSUME Init PROVE Promise!Init
      OBVIOUS
    <2>1. \A j \in Run : StateOf(j) = "absent"
      BY DEF Init, StateOf, Active
    <2> QED
      BY <2>1 DEF Init, Promise!Init
  <1>2. SInv /\ [Next]_vars => [Promise!Next]_(Promise!runVars)
    BY PromiseStep
  <1> QED
    BY <1>1, <1>2, SchedulerInvariant, PTL DEF Spec, RunsAsPromised, Promise!Spec

-----------------------------------------------------------------------------
(* Missed occurrences are skipped, when all processes read the same clock.   *)
(* What has finished lies in the past, and before the instant a             *)
(* retry_exhausted transaction has read and computes from.                  *)

Done(k) == history[k].outcome # "none"

PastOK == \A j \in Run : Done(j) => history[j].finished <= now

\* What a retry_exhausted transaction is about to write lies after the end of every
\* run; if it found the definition off, only an enabling can have set its row since.
PlanOK(w) ==
  /\ pc[w] # "idle" => claim[w].started <= now
  /\ pc[w] = "failing" =>
       /\ plan[w].finished <= now
       /\ \A j \in Run : (Done(j) /\ j[1] = claim[w].run[1]) => history[j].finished <= plan[w].finished
       /\ plan[w].next # 0 => plan[w].next > plan[w].finished
       /\ (plan[w].next = 0 /\ Enabled(claim[w].run[1])) => claim[w].run[1] \in fresh

PlansOK == \A w \in Worker : PlanOK(w)

SkipInv == PastOK /\ PlansOK /\ MissedAreSkipped

\* With one clock every process reads the same instant.
LEMMA OneClock ==
  ASSUME Skew = 0, TypeOK
  PROVE  now \in Nat /\ \A t \in Reading : t = now
  BY SchedulerAssumption DEF TypeOK, Reading, Time

\* The numbers the argument compares are numbers.
LEMMA Instants ==
  ASSUME TypeOK
  PROVE  /\ \A k \in Run : k[1] \in Definition /\ k[2] \in Nat /\ history[k].finished \in Nat
         /\ \A d \in Definition : defs[d].next \in Nat
         /\ \A w \in Worker : plan[w].finished \in Nat /\ plan[w].next \in Nat
  BY TimeIsNat DEF TypeOK, Run, HistoryRecord, DefRecord, Plan

\* A step that writes no history, lets no time run back and leaves the definitions
\* alone keeps the invariant, as long as no run becomes active or gets a new plan.
LEMMA SkipUnchanged ==
  ASSUME SInv, SkipInv, now' \in Nat, now' >= now, UNCHANGED <<defs, history, fresh>>,
         \A w \in Worker : pc'[w] # "idle" =>
           \/ /\ pc'[w] # "failing"
              /\ claim'[w].started <= now'
           \/ /\ pc[w] # "idle"
              /\ pc'[w] = "failing" => pc[w] = "failing"
              /\ claim'[w] = claim[w]
              /\ plan'[w] = plan[w]
  PROVE  SkipInv'
PROOF
  <1>1. PastOK'
    BY Instants DEF SInv, TypeOK, SkipInv, PastOK, Done
  <1>2. MissedAreSkipped'
    BY DEF SkipInv, MissedAreSkipped, Enabled
  <1>3. PlansOK'
    <2> SUFFICES ASSUME NEW w \in Worker PROVE PlanOK(w)'
      BY DEF PlansOK
    <2>0. CASE pc'[w] = "idle"
      BY <2>0 DEF PlanOK
    <2>1. CASE pc'[w] # "failing" /\ claim'[w].started <= now'
      BY <2>1 DEF PlanOK
    <2>2. CASE /\ pc[w] # "idle" /\ (pc'[w] = "failing" => pc[w] = "failing")
               /\ claim'[w] = claim[w] /\ plan'[w] = plan[w]
      <3>1. claim[w].started \in Nat /\ now \in Nat /\ plan[w].finished \in Nat
        BY <2>2, Instants, TimeIsNat DEF SInv, ClaimsOK, ClaimOK, RunClaim, TypeOK
      <3>2. /\ claim'[w] = claim[w] /\ plan'[w] = plan[w] /\ defs' = defs /\ fresh' = fresh /\ history' = history
            /\ pc[w] # "idle" /\ (pc'[w] = "failing" => pc[w] = "failing")
        BY <2>2
      <3>3. PlanOK(w)
        BY DEF SkipInv, PlansOK
      <3>4. claim[w].started <= now' /\ (pc'[w] = "failing" => plan[w].finished <= now')
        BY <3>1, <3>2, <3>3 DEF PlanOK
      <3> QED
        BY <3>2, <3>3, <3>4 DEF PlanOK, Enabled, Done
    <2> QED
      BY <2>0, <2>1, <2>2
  <1> QED
    BY <1>1, <1>2, <1>3 DEF SkipInv

LEMMA SkipAdministers ==
  ASSUME Skew = 0, SInv, SkipInv, NEW d \in Definition, Administers(d)
  PROVE  SkipInv'
PROOF
  <1>0. TypeOK /\ now \in Nat /\ now >= now
    BY OneClock DEF SInv
  <1>1. CASE \E t \in Reading : RunDefinition(d, t)
    <2>1. /\ now' = now /\ UNCHANGED <<defs, history, fresh, pc, claim, plan>>
      BY <1>1 DEF RunDefinition, workerVars
    <2> QED
      BY <1>0, <2>1, SkipUnchanged
  <1>2. CASE ChangesRow(d)
    <2>1. PICK r \in DefRecord : /\ r.stage = "enabled" <=> r.next # 0
                                 /\ defs' = [defs EXCEPT ![d] = r]
                                 /\ fresh' = IF r.next = 0 THEN fresh \ {d} ELSE fresh \cup {d}
      BY <1>2 DEF ChangesRow
    <2>2. UNCHANGED <<now, runs, history, pc, claim, plan>>
      BY <1>2 DEF ChangesRow, workerVars
    <2>3. /\ Enabled(d)' => d \in fresh'
          /\ \A e \in Definition : e # d => defs'[e] = defs[e] /\ (e \in fresh' <=> e \in fresh)
      BY <1>0, <2>1 DEF TypeOK, Enabled
    <2>4. PastOK'
      BY <2>2 DEF SkipInv, PastOK, Done
    <2>5. MissedAreSkipped'
      <3>1. ASSUME NEW j \in Run, Done(j), Enabled(j[1])', j[1] \notin fresh'
            PROVE  defs'[j[1]].next > history[j].finished
        <4>1. j[1] \in Definition /\ j[1] # d
          BY <1>0, <2>3, <3>1, Instants
        <4> QED
          BY <2>3, <3>1, <4>1 DEF SkipInv, MissedAreSkipped, Enabled, Done
      <3> QED
        BY <2>2, <3>1 DEF MissedAreSkipped, Done
    <2>6. PlansOK'
      <3>1. ASSUME NEW w \in Worker, pc[w] = "failing", plan[w].next = 0,
                   defs'[claim[w].run[1]].stage = "enabled"
            PROVE  claim[w].run[1] \in fresh'
        <4>1. claim[w].run[1] \in Definition
          BY <1>0, <3>1, Instants DEF SInv, ClaimsOK, ClaimOK, RunClaim
        <4> QED
          BY <2>3, <3>1, <4>1 DEF SkipInv, PlansOK, PlanOK, Enabled
      <3> QED
        BY <2>2, <3>1 DEF SkipInv, PlansOK, PlanOK, Enabled, Done
    <2> QED
      BY <2>4, <2>5, <2>6 DEF SkipInv
  <1>3. CASE \E t \in Reading : EnableWaits(d, t)
    <2>1. /\ now' = now /\ UNCHANGED <<defs, runs, history, fresh, pc, claim, plan>>
      BY <1>3 DEF EnableWaits, workerVars
    <2> QED
      BY <1>0, <2>1, SkipUnchanged
  <1> QED
    BY <1>0, <1>1, <1>2, <1>3, AdministersDefs

\* The definitions and the clock do not run back either when a run is claimed.
LEMMA SkipClaims ==
  ASSUME Skew = 0, SInv, SkipInv, NEW w \in Worker, Claims(w)
  PROVE  SkipInv'
PROOF
  <1>0. TypeOK /\ now \in Nat /\ now >= now
    BY OneClock DEF SInv
  <1>1. CASE \E k \in Run, t \in Reading : ClaimRun(w, k, t)
    <2>1. PICK k \in Run : ClaimRun(w, k, now)
      BY <1>0, <1>1, OneClock
    <2>2. now' = now /\ UNCHANGED <<defs, history, fresh, plan>>
      BY <2>1 DEF ClaimRun, Attempt
    <2>3. /\ pc'[w] # "failing" /\ claim'[w].started = now
          /\ \A x \in Worker : x # w => pc'[x] = pc[x] /\ claim'[x] = claim[x]
      BY <1>0, <2>1 DEF ClaimRun, Attempt, AfterClaim, TypeOK
    <2>4. \A x \in Worker : pc'[x] # "idle" =>
            \/ /\ pc'[x] # "failing"
               /\ claim'[x].started <= now'
            \/ /\ pc[x] # "idle"
               /\ pc'[x] = "failing" => pc[x] = "failing"
               /\ claim'[x] = claim[x]
               /\ plan'[x] = plan[x]
      BY <1>0, <2>2, <2>3
    <2> QED
      BY <1>0, <2>2, <2>4, SkipUnchanged
  <1>2. CASE \E d \in Definition, t \in Reading : ClaimDue(w, d, t)
    <2>1. PICK d \in Definition : ClaimDue(w, d, now) /\ now \in Time
      BY <1>0, <1>2, OneClock, ReadingIsTime
    <2>2. PICK next \in Nat : next = Occurs[defs[d].schedule][now] /\ next > now
      BY <1>0, <2>1, SchedulerAssumption DEF TypeOK, DefRecord
    <2>3. Enabled(d) /\ ~HasActiveRun(d) /\ defs[d] \in DefRecord
      BY <1>0, <2>1 DEF ClaimDue, Due, TypeOK
    <2>4. PICK k \in Run : k = <<d, defs[d].next>>
      BY <2>1, <2>3, SchedulerAssumption DEF ClaimDue, Due, Run, Time, DefRecord
    <2>5. /\ defs' = [defs EXCEPT ![d].next = next]
          /\ fresh' = fresh \ {d}
          /\ Attempt(w, k, 1, now)
          /\ UNCHANGED <<now, history, plan>>
      BY <2>1, <2>2, <2>4 DEF ClaimDue, Attempt
    <2>6. defs'[d] = [stage |-> defs[d].stage, schedule |-> defs[d].schedule, next |-> next]
      BY <1>0, <2>3, <2>5 DEF TypeOK, DefRecord
    <2>7. \A e \in Definition : e # d => defs'[e] = defs[e] /\ (e \in fresh' <=> e \in fresh)
      BY <1>0, <2>5 DEF TypeOK
    <2>8. PastOK'
      BY <2>5 DEF SkipInv, PastOK, Done
    <2>9. MissedAreSkipped'
      <3>1. ASSUME NEW j \in Run, Done(j), Enabled(j[1])', j[1] \notin fresh'
            PROVE  defs'[j[1]].next > history[j].finished
        <4>1. j[1] \in Definition /\ history[j].finished \in Nat /\ history[j].finished <= now
          BY <1>0, <3>1, Instants DEF SkipInv, PastOK
        <4>2. CASE j[1] = d
          BY <1>0, <2>2, <2>6, <4>1, <4>2
        <4>3. CASE j[1] # d
          BY <2>7, <3>1, <4>1, <4>3 DEF SkipInv, MissedAreSkipped, Enabled, Done
        <4> QED
          BY <4>2, <4>3
      <3> QED
        BY <2>5, <3>1 DEF MissedAreSkipped, Done
    <2>10. PlansOK'
      <3> SUFFICES ASSUME NEW v \in Worker PROVE PlanOK(v)'
        BY DEF PlansOK
      <3>1. CASE v = w
        BY <1>0, <2>5, <3>1 DEF Attempt, AfterClaim, TypeOK, PlanOK
      <3>2. CASE v # w
        <4>1. pc'[v] = pc[v] /\ claim'[v] = claim[v] /\ plan'[v] = plan[v] /\ now' = now
          BY <2>5, <3>2 DEF Attempt, SInv, TypeOK
        <4>2. PlanOK(v)
          BY DEF SkipInv, PlansOK
        <4>3. pc[v] = "failing" => claim[v].run[1] \in Definition /\ claim[v].run[1] # d
          <5> SUFFICES ASSUME pc[v] = "failing"
                       PROVE  claim[v].run[1] \in Definition /\ claim[v].run[1] # d
            OBVIOUS
          <5>1. claim[v].run \in Run /\ Owns(v) /\ claim[v].run[1] \in Definition
            BY <1>0, Instants DEF SInv, ClaimsOK, ClaimOK, RunClaim
          <5> QED
            BY <2>3, <5>1 DEF HasActiveRun, Active, Owns
        <4> QED
          BY <2>5, <2>7, <4>1, <4>2, <4>3 DEF PlanOK, Enabled, Done
      <3> QED
        BY <3>1, <3>2
    <2> QED
      BY <2>8, <2>9, <2>10 DEF SkipInv
  <1> QED
    BY <1>1, <1>2 DEF Claims

\* The run that ends was under way alone, and the next occurrence that is written
\* comes after the end of this run and of all runs of the definition before it.
LEMMA SkipFinish ==
  ASSUME SInv, SkipInv, NEW w \in Worker, NEW t \in Nat, NEW next \in Nat,
         NEW state \in {"succeeded", "failed"}, NEW what \in Outcome \ {"none"},
         pc[w] \in {"task", "failing"}, Finish(w, state, what, t, next), t <= now,
         next # 0 => next > t,
         \A j \in Run : (Done(j) /\ j[1] = claim[w].run[1]) => history[j].finished <= t,
         (next = 0 /\ Enabled(claim[w].run[1])) => claim[w].run[1] \in fresh
  PROVE  SkipInv'
PROOF
  <1>0. TypeOK /\ HistoryAgrees /\ RowsOK /\ now \in Nat
    BY TimeIsNat DEF SInv, TypeOK
  <1>1. ClaimOK(w) /\ Owns(w)
    BY DEF SInv, ClaimsOK, ClaimOK
  <1>2. PICK k \in Run : k = claim[w].run /\ runs[k].state = "running"
    BY <1>1 DEF ClaimOK, RunClaim, Owns
  <1>3. k[1] \in Definition
    BY <1>0, Instants
  <1>4. /\ history' = [history EXCEPT ![k] = [outcome |-> what, finished |-> t]]
        /\ IF next = 0 THEN UNCHANGED <<defs, fresh>>
           ELSE defs' = [defs EXCEPT ![k[1]].next = next] /\ fresh' = fresh \ {k[1]}
        /\ Return(w)
        /\ now' = now
    BY <1>2 DEF Finish, Advance
  <1>5. /\ history'[k].outcome = what /\ history'[k].finished = t /\ what # "none"
        /\ \A j \in Run : j # k => history'[j] = history[j]
    BY <1>0, <1>4 DEF TypeOK
  <1>6. Active(k) /\ \A j \in Run : (j[1] = k[1] /\ Active(j)) => j = k
    BY <1>0, <1>2 DEF Active, RowsOK
  <1>7. /\ defs'[k[1]].stage = defs[k[1]].stage
        /\ next # 0 => defs'[k[1]].next = next
        /\ next = 0 => (k[1] \in fresh' <=> k[1] \in fresh)
        /\ \A e \in Definition : e # k[1] => defs'[e] = defs[e] /\ (e \in fresh' <=> e \in fresh)
    <2>1. defs[k[1]] \in DefRecord
      BY <1>0, <1>3 DEF TypeOK
    <2> QED
      BY <1>0, <1>3, <1>4, <2>1 DEF TypeOK, DefRecord
  <1>8. PastOK'
    BY <1>4, <1>5 DEF SkipInv, PastOK, Done
  <1>9. MissedAreSkipped'
    <2>1. ASSUME NEW j \in Run, Done(j)', defs'[j[1]].stage = "enabled", j[1] \notin fresh'
          PROVE  defs'[j[1]].next > history'[j].finished
      <3>1. j[1] \in Definition /\ history[j].finished \in Nat
        BY <1>0, Instants
      <3>2. CASE j[1] = k[1]
        <4>1. next # 0
          BY <1>2, <1>7, <2>1, <3>2 DEF Enabled
        <4>2. history'[j].finished <= t
          <5>1. CASE j = k
            BY <1>5, <5>1
          <5>2. CASE j # k
            BY <1>2, <1>5, <2>1, <3>2, <5>2 DEF Done
          <5> QED
            BY <5>1, <5>2
        <4>3. history'[j].finished \in Nat
          BY <1>5, <3>1
        <4> QED
          BY <1>7, <3>2, <4>1, <4>2, <4>3
      <3>3. CASE j[1] # k[1]
        BY <1>5, <1>7, <2>1, <3>1, <3>3 DEF SkipInv, MissedAreSkipped, Enabled, Done
      <3> QED
        BY <3>2, <3>3
    <2> QED
      BY <2>1 DEF MissedAreSkipped, Done, Enabled
  <1>10. PlansOK'
    <2> SUFFICES ASSUME NEW v \in Worker PROVE PlanOK(v)'
      BY DEF PlansOK
    <2>1. CASE v = w
      BY <1>0, <1>4, <2>1 DEF Return, TypeOK, PlanOK
    <2>2. CASE v # w
      <3>1. pc'[v] = pc[v] /\ claim'[v] = claim[v] /\ plan'[v] = plan[v] /\ now' = now
        BY <1>0, <1>4, <2>2 DEF Return, TypeOK
      <3>2. PlanOK(v)
        BY DEF SkipInv, PlansOK
      <3>3. ASSUME pc[v] = "failing" PROVE claim[v].run[1] \in Definition /\ claim[v].run[1] # k[1]
        <4>1. claim[v].run \in Run /\ Owns(v) /\ claim[v].run[1] \in Definition
          BY <1>0, <3>3, Instants DEF SInv, ClaimsOK, ClaimOK, RunClaim
        <4>2. ASSUME claim[v].run[1] = k[1] PROVE FALSE
          <5>1. claim[v].run = k
            BY <1>6, <4>1, <4>2 DEF Owns, Active
          <5>2. claim[v].attempt = claim[w].attempt
            BY <1>1, <1>2, <4>1, <5>1 DEF Owns
          <5> QED
            BY <1>2, <2>2, <3>3, <5>1, <5>2 DEF SInv, ClaimsDistinct
        <4> QED
          BY <4>1, <4>2
      <3>4. pc[v] = "failing" =>
              /\ defs'[claim[v].run[1]] = defs[claim[v].run[1]]
              /\ claim[v].run[1] \in fresh' <=> claim[v].run[1] \in fresh
              /\ \A j \in Run : j[1] = claim[v].run[1] => history'[j] = history[j]
        BY <1>5, <1>7, <3>3
      <3> QED
        BY <3>1, <3>2, <3>4 DEF PlanOK, Enabled, Done
    <2> QED
      BY <2>1, <2>2
  <1> QED
    BY <1>8, <1>9, <1>10 DEF SkipInv

\* Occurrences asked for at t come after t.
LEMMA NextIsLater ==
  ASSUME TypeOK, NEW d \in Definition, NEW t \in Time
  PROVE  /\ NextIfEnabled(d, t) \in Nat
         /\ NextIfEnabled(d, t) # 0 => NextIfEnabled(d, t) > t
         /\ NextIfEnabled(d, t) = 0 => ~Enabled(d)
  BY OccursLater DEF NextIfEnabled, TypeOK, DefRecord

LEMMA SkipSettles ==
  ASSUME Skew = 0, SInv, SkipInv, NEW w \in Worker, Settles(w)
  PROVE  SkipInv'
PROOF
  <1>0. TypeOK /\ now \in Nat /\ now >= now
    BY OneClock DEF SInv
  <1>1. CASE BeginTask(w)
    <2>1. /\ now' = now /\ UNCHANGED <<defs, runs, history, fresh, claim, plan>>
          /\ pc[w] = "claimed" /\ pc' = [pc EXCEPT ![w] = "task"]
      BY <1>1 DEF BeginTask
    <2>2. \A v \in Worker : pc'[v] # "idle" =>
            /\ pc[v] # "idle" /\ (pc'[v] = "failing" => pc[v] = "failing")
            /\ claim'[v] = claim[v] /\ plan'[v] = plan[v]
      BY <1>0, <2>1 DEF TypeOK
    <2> QED
      BY <1>0, <2>1, <2>2, SkipUnchanged
  <1>2. CASE Superseded(w) \/ FinishFails(w)
    <2>1. Return(w) /\ UNCHANGED adminVars
      BY <1>2 DEF Superseded, FinishFails
    <2>2. \A v \in Worker : pc'[v] # "idle" =>
            /\ pc[v] # "idle" /\ (pc'[v] = "failing" => pc[v] = "failing")
            /\ claim'[v] = claim[v] /\ plan'[v] = plan[v]
      BY <1>0, <2>1 DEF Return, TypeOK
    <2> QED
      BY <1>0, <2>1, <2>2, SkipUnchanged DEF adminVars
  <1>3. CASE \E t \in Reading : TaskSucceeds(w, t) \/ TaskFails(w, t)
    <2>1. (TaskSucceeds(w, now) \/ TaskFails(w, now)) /\ pc[w] = "task" /\ now \in Time
      BY <1>0, <1>3, OneClock, ReadingIsTime DEF TaskSucceeds, TaskFails
    <2>2. claim[w].run[1] \in Definition
      BY <1>0, <2>1, Instants DEF SInv, ClaimsOK, ClaimOK, RunClaim
    <2>3. PICK next \in Nat : /\ next = NextIfEnabled(claim[w].run[1], now)
                              /\ next # 0 => next > now
                              /\ next = 0 => ~Enabled(claim[w].run[1])
      BY <1>0, <2>1, <2>2, NextIsLater
    <2>4. \/ Finish(w, "succeeded", "succeeded", now, next)
          \/ Finish(w, "failed", "failed", now, next)
      BY <2>1, <2>3 DEF TaskSucceeds, TaskFails
    <2>5. \A j \in Run : (Done(j) /\ j[1] = claim[w].run[1]) => history[j].finished <= now
      BY DEF SkipInv, PastOK
    <2> QED
      BY <1>0, <2>1, <2>3, <2>4, <2>5, SkipFinish DEF Outcome
  <1>4. CASE Exhaust(w)
    <2>1. /\ pc[w] = "failing"
          /\ Finish(w, "failed", "retry_exhausted", plan[w].finished, plan[w].next)
      BY <1>4 DEF Exhaust
    <2>2. PlanOK(w)
      BY DEF SkipInv, PlansOK
    <2>3. PICK t \in Nat, next \in Nat : t = plan[w].finished /\ next = plan[w].next
      BY <1>0, Instants
    <2>4. /\ t <= now
          /\ next # 0 => next > t
          /\ \A j \in Run : (Done(j) /\ j[1] = claim[w].run[1]) => history[j].finished <= t
          /\ (next = 0 /\ Enabled(claim[w].run[1])) => claim[w].run[1] \in fresh
      BY <2>1, <2>2, <2>3 DEF PlanOK
    <2> QED
      BY <2>1, <2>3, <2>4, SkipFinish DEF Outcome
  <1>5. CASE \E t \in Reading : ReadDefinition(w, t)
    <2>1. ReadDefinition(w, now) /\ pc[w] = "exhausted" /\ now \in Time
      BY <1>0, <1>5, OneClock, ReadingIsTime DEF ReadDefinition
    <2>2. claim[w].run[1] \in Definition
      BY <1>0, <2>1, Instants DEF SInv, ClaimsOK, ClaimOK, RunClaim
    <2>3. PICK next \in Nat : /\ next = NextIfEnabled(claim[w].run[1], now)
                              /\ next # 0 => next > now
                              /\ next = 0 => ~Enabled(claim[w].run[1])
      BY <1>0, <2>1, <2>2, NextIsLater
    <2>4. /\ pc' = [pc EXCEPT ![w] = "failing"]
          /\ plan' = [plan EXCEPT ![w] = [finished |-> now, next |-> next]]
          /\ UNCHANGED <<now, defs, runs, history, fresh, claim>>
      BY <2>1, <2>3 DEF ReadDefinition, adminVars
    <2>5. plan'[w].finished = now /\ plan'[w].next = next
      BY <1>0, <2>4 DEF TypeOK
    <2>6. \A v \in Worker : v # w => pc'[v] = pc[v] /\ plan'[v] = plan[v]
      BY <1>0, <2>4 DEF TypeOK
    <2>7. PastOK' /\ MissedAreSkipped'
      BY <2>4 DEF SkipInv, PastOK, MissedAreSkipped, Done, Enabled
    <2>8. PlansOK'
      <3> SUFFICES ASSUME NEW v \in Worker PROVE PlanOK(v)'
        BY DEF PlansOK
      <3>1. PlanOK(v)
        BY DEF SkipInv, PlansOK
      <3>2. CASE v = w
        <4>1. claim[w].started <= now
          BY <2>1, <3>1, <3>2 DEF PlanOK
        <4>2. \A j \in Run : Done(j) => history[j].finished <= now
          BY DEF SkipInv, PastOK
        <4> QED
          BY <1>0, <2>3, <2>4, <2>5, <3>2, <4>1, <4>2 DEF PlanOK, Enabled, Done
      <3>3. CASE v # w
        <4>1. pc'[v] = pc[v] /\ plan'[v] = plan[v]
          BY <2>6, <3>3
        <4> QED
          BY <2>4, <3>1, <4>1 DEF PlanOK, Enabled, Done
      <3> QED
        BY <3>2, <3>3
    <2> QED
      BY <2>7, <2>8 DEF SkipInv
  <1> QED
    BY <1>1, <1>2, <1>3, <1>4, <1>5 DEF Settles

LEMMA SkipInit == Init => SkipInv
PROOF
  <1> SUFFICES ASSUME Init PROVE SkipInv
    OBVIOUS
  <1>1. \A k \in Run : ~Done(k)
    BY DEF Init, Done
  <1>2. \A w \in Worker : pc[w] = "idle"
    BY DEF Init
  <1>3. PastOK
    BY <1>1 DEF PastOK
  <1>4. MissedAreSkipped
    BY <1>1 DEF MissedAreSkipped, Done
  <1>5. PlansOK
    BY <1>2 DEF PlansOK, PlanOK
  <1> QED
    BY <1>3, <1>4, <1>5 DEF SkipInv

LEMMA SkipNext == ASSUME Skew = 0 PROVE SInv /\ SkipInv /\ [Next]_vars => SkipInv'
PROOF
  <1> SUFFICES ASSUME SInv, SkipInv, [Next]_vars PROVE SkipInv'
    OBVIOUS
  <1>0. now \in Nat /\ now + 1 \in Nat /\ now + 1 >= now /\ now >= now
    BY OneClock DEF SInv
  <1>1. CASE Tick
    <2>1. now' = now + 1 /\ UNCHANGED <<defs, runs, history, fresh, pc, claim, plan>>
      BY <1>1 DEF Tick, workerVars
    <2> QED
      BY <1>0, <2>1, SkipUnchanged
  <1>2. CASE \E d \in Definition : Administers(d)
    BY <1>2, SkipAdministers
  <1>3. CASE \E w \in Worker : Claims(w)
    BY <1>3, SkipClaims
  <1>4. CASE \E w \in Worker : Settles(w)
    BY <1>4, SkipSettles
  <1>5. CASE \E w \in Worker : Abandon(w)
    <2>1. PICK w \in Worker : Return(w) /\ UNCHANGED adminVars
      BY <1>5 DEF Abandon
    <2>2. \A v \in Worker : pc'[v] # "idle" =>
            /\ pc[v] # "idle" /\ (pc'[v] = "failing" => pc[v] = "failing")
            /\ claim'[v] = claim[v] /\ plan'[v] = plan[v]
      BY <2>1 DEF Return, SInv, TypeOK
    <2> QED
      BY <1>0, <2>1, <2>2, SkipUnchanged DEF adminVars
  <1>6. CASE UNCHANGED vars \/ \E w \in Worker : PollsInVain(w)
    <2>1. UNCHANGED <<now, defs, runs, history, fresh, pc, claim, plan>>
      BY <1>6 DEF PollsInVain, NothingToRun, InstantTaken, vars, adminVars, workerVars
    <2> QED
      BY <1>0, <2>1, SkipUnchanged
  <1> QED
    BY <1>1, <1>2, <1>3, <1>4, <1>5, <1>6 DEF Next

\* As long as all processes read the same clock, the next occurrence an executor
\* wrote lies after the end of every run of its definition.
THEOREM MissedOccurrencesAreSkipped ==
  ASSUME Skew = 0
  PROVE  Spec => []MissedAreSkipped
PROOF
  <1>1. SInv /\ SkipInv /\ [Next]_vars => SkipInv'
    BY SkipNext
  <1>2. Init => SkipInv
    BY SkipInit
  <1>3. SkipInv => MissedAreSkipped
    BY DEF SkipInv
  <1> QED
    BY <1>1, <1>2, <1>3, SchedulerInvariant, PTL DEF Spec
=============================================================================
