-------------------------- MODULE AccountRemoval ---------------------------
(***************************************************************************)
(* What an administrator who deletes an account is promised.               *)
(*                                                                         *)
(* A deletion is requested and waits.  Until it begins it may be           *)
(* cancelled, and has touched nothing; once begun it cannot be taken back. *)
(* It hands all files of the account to a living heir at once, or removes  *)
(* them one by one, and ends only when the account has none: from then on  *)
(* the account is a tombstone.  Nobody else takes a file away from its     *)
(* owner, and the heir of an unfinished deletion is not deleted itself.    *)
(***************************************************************************)
CONSTANTS Account, Deletion, File, Nobody

VARIABLES life,      \* "active", "disabled", "pending" or "deleted"
          deletion,  \* phase, account and heir (Nobody: its files are removed)
          file       \* condition and owner

removalVars == <<life, deletion, file>>

Init ==
  /\ life = [a \in Account |-> "active"]
  /\ deletion = [d \in Deletion |-> [phase |-> "none", account |-> Nobody, heir |-> Nobody]]
  /\ file = [f \in File |-> [condition |-> "none", owner |-> Nobody]]

Alive(a) == life[a] \in {"active", "disabled"}
Owned(a) == {f \in File : file[f].owner = a}

Request(d, a, heir) ==
  /\ deletion[d].phase = "none"
  /\ Alive(a) /\ heir # a
  /\ heir # Nobody => Alive(heir)
  /\ \A e \in Deletion : deletion[e].heir = a => deletion[e].phase \notin {"requested", "begun"}
  /\ deletion' = [deletion EXCEPT ![d] = [phase |-> "requested", account |-> a, heir |-> heir]]
  /\ life' = [life EXCEPT ![a] = "pending"]
  /\ UNCHANGED file

Cancel(d) ==
  /\ deletion[d].phase = "requested"
  /\ deletion' = [deletion EXCEPT ![d].phase = "canceled"]
  /\ life' = [life EXCEPT ![deletion[d].account] = "disabled"]
  /\ UNCHANGED file

Enable(a) ==
  /\ life[a] = "disabled"
  /\ life' = [life EXCEPT ![a] = "active"]
  /\ UNCHANGED <<deletion, file>>

Begin(d) ==
  /\ deletion[d].phase = "requested"
  /\ deletion' = [deletion EXCEPT ![d].phase = "begun"]
  /\ UNCHANGED <<life, file>>

Complete(d) ==
  /\ deletion[d].phase = "begun"
  /\ Owned(deletion[d].account) = {}
  /\ deletion' = [deletion EXCEPT ![d].phase = "completed"]
  /\ life' = [life EXCEPT ![deletion[d].account] = "deleted"]
  /\ UNCHANGED file

(* A file arrives, and stays or is never seen again. *)
Arrive(f, a) ==
  /\ file[f].condition = "none" /\ life[a] = "active"
  /\ file' = [file EXCEPT ![f] = [condition |-> "arriving", owner |-> a]]
  /\ UNCHANGED <<life, deletion>>

Settle(f) ==
  /\ file[f].condition = "arriving"
  /\ \/ file' = [file EXCEPT ![f].condition = "kept"]
     \/ file' = [file EXCEPT ![f] = [condition |-> "none", owner |-> Nobody]]
  /\ UNCHANGED <<life, deletion>>

(* What a deletion that has begun does to the files. *)
HandOver(d) ==
  /\ deletion[d].phase = "begun"
  /\ deletion[d].heir # Nobody /\ Alive(deletion[d].heir)
  /\ \A f \in Owned(deletion[d].account) : file[f].condition = "kept"
  /\ file' = [f \in File |-> IF f \in Owned(deletion[d].account)
                               THEN [file[f] EXCEPT !.owner = deletion[d].heir] ELSE file[f]]
  /\ UNCHANGED <<life, deletion>>

Remove(d, f) ==
  /\ deletion[d].phase = "begun" /\ deletion[d].heir = Nobody
  /\ f \in Owned(deletion[d].account)
  /\ \/ file' = [file EXCEPT ![f].condition = "hollow"]   \* the record without its object
     \/ file' = [file EXCEPT ![f] = [condition |-> "none", owner |-> Nobody]]
  /\ UNCHANGED <<life, deletion>>

Next ==
  \/ \E d \in Deletion, a \in Account, h \in Account \cup {Nobody} : Request(d, a, h)
  \/ \E d \in Deletion : Cancel(d) \/ Begin(d) \/ Complete(d) \/ HandOver(d)
  \/ \E a \in Account : Enable(a)
  \/ \E f \in File, a \in Account : Arrive(f, a)
  \/ \E f \in File : Settle(f)
  \/ \E d \in Deletion, f \in File : Remove(d, f)

Spec == Init /\ [][Next]_removalVars
=============================================================================
