--------------------------- MODULE EventDelivery ----------------------------
(***************************************************************************)
(* What the reliable outbox promises to the modules that use it.           *)
(*                                                                         *)
(* An event is accepted together with the domain change that caused it, at *)
(* most one event per topic and business key.  An accepted event is        *)
(* handled: its consumer's database effect happens once, in the same step  *)
(* in which the event becomes handled.  Nothing is ever taken back.        *)
(***************************************************************************)
EXTENDS Naturals

CONSTANTS
  Event,      \* the integration events that may be enqueued
  Topic,      \* Topic[e]: the topic of event e
  Key,        \* Key[e]: its business key
  Handled     \* the topics that have a registered consumer

VARIABLES
  accepted,   \* events committed with their domain change
  effects     \* effects[e]: how often the consumer's effect was committed

deliveryVars == <<accepted, effects>>

Init ==
  /\ accepted = {}
  /\ effects = [e \in Event |-> 0]

Accept(e) ==
  /\ \A f \in accepted : <<Topic[f], Key[f]>> # <<Topic[e], Key[e]>>
  /\ accepted' = accepted \cup {e}
  /\ UNCHANGED effects

Handle(e) ==
  /\ e \in accepted
  /\ Topic[e] \in Handled
  /\ effects[e] = 0
  /\ effects' = [effects EXCEPT ![e] = 1]
  /\ UNCHANGED accepted

Next == \E e \in Event : Accept(e) \/ Handle(e)

Spec == Init /\ [][Next]_deliveryVars
=============================================================================
