------------------------------ MODULE TaskRuns ------------------------------
(***************************************************************************)
(* What the scheduler promises about the runs of its task definitions.     *)
(*                                                                         *)
(* A run is one occurrence <<definition, instant>>.  A definition has one  *)
(* unfinished run at a time.  A run ends once: it succeeds, and its        *)
(* handler's changes are committed in the same step, or it fails and       *)
(* leaves nothing behind.                                                  *)
(***************************************************************************)
EXTENDS Naturals

CONSTANT Run    \* pairs of a definition and the instant it is scheduled for

VARIABLES
  outcome,   \* outcome[k]: "absent", "pending", "succeeded" or "failed"
  effects    \* effects[k]: how often the handler's changes were committed

runVars == <<outcome, effects>>

Init ==
  /\ outcome = [k \in Run |-> "absent"]
  /\ effects = [k \in Run |-> 0]

Accept(k) ==
  /\ outcome[k] = "absent"
  /\ \A j \in Run : j[1] = k[1] => outcome[j] # "pending"
  /\ outcome' = [outcome EXCEPT ![k] = "pending"]
  /\ UNCHANGED effects

Succeed(k) ==
  /\ outcome[k] = "pending"
  /\ outcome' = [outcome EXCEPT ![k] = "succeeded"]
  /\ effects' = [effects EXCEPT ![k] = 1]

Fail(k) ==
  /\ outcome[k] = "pending"
  /\ outcome' = [outcome EXCEPT ![k] = "failed"]
  /\ UNCHANGED effects

Next == \E k \in Run : Accept(k) \/ Succeed(k) \/ Fail(k)

Spec == Init /\ [][Next]_runVars
=============================================================================
