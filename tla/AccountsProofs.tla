--------------------------- MODULE AccountsProofs ---------------------------
(***************************************************************************)
(* Proofs about accounts and sessions, for any set of accounts and of      *)
(* connections and any number of changes.                                  *)
(*                                                                         *)
(* What has to be shown is that the locks suffice.  The argument: locks    *)
(* that are held at the same time are compatible (Compatible); who has     *)
(* decided holds the locks its decision rests on (Secured); so no other    *)
(* transaction that has decided can commit a change to it (Apart), and     *)
(* the decision stands (DecisionsStand).  What a commit does to the        *)
(* administrators and the sessions then follows from its own decision.     *)
(***************************************************************************)
EXTENDS Accounts, FiniteSetTheorems, SequenceTheorems, TLAPS

(* The locks of r as one list each; `admin` is whether its actor has the role. *)
LocksFor(r, admin) ==
  LET role     == Lock("role", Role, "own")
      actor    == Lock("account", r.actor, "share")
      target   == Lock("account", r.target, "own")
      deletion == Lock("deletion", r.target, "own")
  IN CASE r.kind \in {"disable", "enable", "reset", "delete"} -> <<role, actor, target>>
       [] r.kind \in {"promote", "demote"} -> <<role, actor>>
       [] r.kind = "cancel"   -> <<role, actor, deletion, target>>
       [] r.kind = "claim"    -> <<deletion>>
       [] r.kind = "complete" -> <<deletion, target>>
       [] r.kind = "use"      -> IF admin THEN <<actor, Lock("role", Role, "share")>>
                                          ELSE <<actor>>
       [] OTHER               -> <<target>>

Admin(r) == account[r.actor].admin

OwnsAccount  == {"disable", "enable", "reset", "delete", "cancel", "complete",
                 "login", "change", "logout"}
OwnsDeletion == {"cancel", "claim", "complete"}

Secured(t) ==
  LET r == tx[t] IN
  /\ r.kind \in Command =>
       /\ Lock("role", Role, "own") \in Held(t)
       /\ Lock("account", r.actor, "share") \in Held(t)
  /\ r.kind \in OwnsAccount => Lock("account", r.target, "own") \in Held(t)
  /\ r.kind \in OwnsDeletion => Lock("deletion", r.target, "own") \in Held(t)
  /\ r.kind = "use" =>
       /\ Lock("account", r.actor, "share") \in Held(t)
       /\ Lock("role", Role, "share") \in Held(t) \/ r.actor \in Member

(* What is known of a transaction besides its type. *)
Fits(t) ==
  /\ tx[t].step = "idle" => tx[t] = Idle
  /\ tx[t].step # "idle" => tx[t].kind \in Kind
  /\ tx[t].kind \in Own \cup Worker => tx[t].actor = tx[t].target
  /\ tx[t].locks <= Len(Locks(tx[t]))
  /\ tx[t].step = "decided" => Secured(t)

Orderly == \A t \in Tx : Fits(t)

Compatible ==
  \A t, u \in Tx : t # u => \A k \in Held(t), l \in Held(u) : ~Conflict(k, l)

IInv == /\ AccountsTypeOK /\ Orderly /\ Compatible
        /\ DecisionsStand /\ AdministratorRemains /\ SessionsAreCurrent

USE DEF Kind, Command, Worker, Own

-----------------------------------------------------------------------------
(* The locks. *)

LEMMA Joined ==
  ASSUME NEW a, NEW b, NEW c, NEW d
  PROVE  /\ <<a>> \o <<>> = <<a>>
         /\ <<a>> \o <<b>> = <<a, b>>
         /\ <<a, b>> \o <<c>> = <<a, b, c>>
         /\ <<a, b>> \o <<c>> \o <<d>> = <<a, b, c, d>>
PROOF
  <1> DEFINE S == {a, b, c, d}
  <1>1. <<a>> \o <<>> = <<a>>
    BY ConcatEmptySeq, <<a>> \in Seq({a})
  <1>2. <<a>> \o <<b>> = <<a, b>>
    <2>1. <<a>> \in Seq(S) /\ <<b>> \in Seq(S) /\ <<a, b>> \in Seq(S)
      OBVIOUS
    <2>2. <<a>> \o <<b>> \in Seq(S) /\ Len(<<a>> \o <<b>>) = 2
      BY <2>1
    <2>3. \A i \in 1 .. 2 : (<<a>> \o <<b>>)[i] = <<a, b>>[i]
      BY <2>1
    <2> QED
      BY <2>1, <2>2, <2>3, SeqEqual
  <1>3. <<a, b>> \o <<c>> = <<a, b, c>>
    <2>1. <<a, b>> \in Seq(S) /\ <<c>> \in Seq(S) /\ <<a, b, c>> \in Seq(S)
      OBVIOUS
    <2>2. <<a, b>> \o <<c>> \in Seq(S) /\ Len(<<a, b>> \o <<c>>) = 3
      BY <2>1
    <2>3. \A i \in 1 .. 3 : (<<a, b>> \o <<c>>)[i] = <<a, b, c>>[i]
      BY <2>1
    <2> QED
      BY <2>1, <2>2, <2>3, SeqEqual
  <1>4. <<a, b, c>> \o <<d>> = <<a, b, c, d>>
    <2>1. <<a, b, c>> \in Seq(S) /\ <<d>> \in Seq(S) /\ <<a, b, c, d>> \in Seq(S)
      OBVIOUS
    <2>2. <<a, b, c>> \o <<d>> \in Seq(S) /\ Len(<<a, b, c>> \o <<d>>) = 4
      BY <2>1
    <2>3. \A i \in 1 .. 4 : (<<a, b, c>> \o <<d>>)[i] = <<a, b, c, d>>[i]
      BY <2>1
    <2> QED
      BY <2>1, <2>2, <2>3, SeqEqual
  <1> QED
    BY <1>1, <1>2, <1>3, <1>4

LEMMA LocksAre == \A r : Locks(r) = LocksFor(r, Admin(r))
PROOF
  <1> TAKE r
  <1>1. RightLocks(r.actor) = IF Admin(r)
          THEN <<Lock("account", r.actor, "share"), Lock("role", Role, "share")>>
          ELSE <<Lock("account", r.actor, "share")>>
    BY Joined DEF RightLocks, Admin
  <1>2. CASE r.kind \in {"disable", "enable", "reset", "delete"}
    BY <1>2, Joined DEF Locks, LocksFor, AdministratorLocks
  <1>3. CASE r.kind \in {"promote", "demote"}
    BY <1>3, Joined DEF Locks, LocksFor, AdministratorLocks
  <1>4. CASE r.kind = "cancel"
    <2>1. Locks(r) = AdministratorLocks(r) \o <<Lock("deletion", r.target, "own")>>
                                          \o <<Lock("account", r.target, "own")>>
      BY <1>4 DEF Locks
    <2>2. @ = <<Lock("role", Role, "own"), Lock("account", r.actor, "share"),
                Lock("deletion", r.target, "own"), Lock("account", r.target, "own")>>
      BY Joined, ZenonT(60) DEF AdministratorLocks
    <2> QED
      BY <1>4, <2>1, <2>2 DEF LocksFor
  <1>5. CASE r.kind \in {"claim", "complete"}
    BY <1>5, Joined DEF Locks, LocksFor
  <1>6. CASE r.kind = "use"
    BY <1>1, <1>6 DEF Locks, LocksFor
  <1>7. CASE r.kind \notin Command \cup Worker \cup {"use"}
    BY <1>7 DEF Locks, LocksFor
  <1> QED
    BY <1>2, <1>3, <1>4, <1>5, <1>6, <1>7

LEMMA HeldNow ==
  \A t \in Tx :
    /\ Locks(tx[t]) = LocksFor(tx[t], account[tx[t].actor].admin)
    /\ Held(t) = {LocksFor(tx[t], account[tx[t].actor].admin)[i] : i \in 1 .. tx[t].locks}
  BY LocksAre DEF Held, Admin

LEMMA HeldThen ==
  \A t \in Tx :
    /\ Locks(tx[t])' = LocksFor(tx'[t], account'[tx'[t].actor].admin)
    /\ Held(t)' = {LocksFor(tx'[t], account'[tx'[t].actor].admin)[i] : i \in 1 .. tx'[t].locks}
PROOF
  <1>1. (\A t \in Tx :
           /\ Locks(tx[t]) = LocksFor(tx[t], account[tx[t].actor].admin)
           /\ Held(t) = {LocksFor(tx[t], account[tx[t].actor].admin)[i] : i \in 1 .. tx[t].locks})'
    BY HeldNow, PTL
  <1> QED
    BY <1>1 DEF LocksFor, Lock

(* A transaction that goes on as it was keeps its locks: the role of its   *)
(* actor matters only to one that holds the role row.                      *)
LEMMA HeldStays ==
  ASSUME NEW t \in Tx, AccountsTypeOK, Orderly, tx'[t] = tx[t],
         \/ tx[t].kind # "use" \/ tx[t].locks <= 1
         \/ account'[tx[t].actor].admin = account[tx[t].actor].admin
  PROVE  Held(t)' = Held(t) /\ tx'[t].locks <= Len(Locks(tx[t])')
PROOF
  <1> DEFINE r == tx[t]
             then == account'[r.actor].admin
             now == account[r.actor].admin
  <1>1. r.locks \in 0 .. 4
    BY DEF AccountsTypeOK, TxState
  <1>2. /\ Held(t) = {LocksFor(r, now)[i] : i \in 1 .. r.locks}
        /\ r.locks <= Len(LocksFor(r, now))
    BY HeldNow DEF Orderly, Fits
  <1>3. /\ Held(t)' = {LocksFor(r, then)[i] : i \in 1 .. r.locks}
        /\ Locks(tx[t])' = LocksFor(r, then)
    BY HeldThen
  <1>4. \/ LocksFor(r, then) = LocksFor(r, now)
        \/ r.kind = "use" /\ r.locks <= 1
    BY DEF LocksFor
  <1>5. CASE LocksFor(r, then) = LocksFor(r, now)
    BY <1>2, <1>3, <1>5
  <1>6. CASE r.kind = "use" /\ r.locks <= 1
    <2>1. \A admin : /\ Len(LocksFor(r, admin)) >= 1
                     /\ LocksFor(r, admin)[1] = Lock("account", r.actor, "share")
      BY <1>6 DEF LocksFor
    <2>2. \A i \in 1 .. r.locks : LocksFor(r, then)[i] = LocksFor(r, now)[i]
      BY <1>1, <1>6, <2>1
    <2>3. r.locks <= Len(LocksFor(r, then))
      BY <1>1, <1>6, <2>1
    <2>4. {LocksFor(r, then)[i] : i \in 1 .. r.locks} = {LocksFor(r, now)[i] : i \in 1 .. r.locks}
      BY <2>2
    <2> QED
      BY <1>2, <1>3, <2>3, <2>4
  <1> QED
    BY <1>4, <1>5, <1>6

-----------------------------------------------------------------------------
(* What a commit can do to the row of its target. *)
LEMMA CommitWrites ==
  ASSUME NEW u \in Tx, AccountsTypeOK, Orderly, Commit(u)
  PROVE  LET r == tx[u]
             b == account[r.target]
             c == account'[r.target]
         IN
         /\ r \in TxState /\ r.kind \in Kind /\ r.target \in Account /\ b \in AccountState
         /\ \A a \in Account : a # r.target => account'[a] = account[a]
         /\ c = Written(r)
         /\ c \in AccountState
PROOF
  <1> DEFINE r == tx[u]
             b == account[r.target]
             c == account'[r.target]
  <1>1. r \in TxState /\ r.kind \in Kind /\ r.target \in Account
    BY DEF AccountsTypeOK, TxState, Orderly, Fits, Commit
  <1>2. b \in AccountState
    BY <1>1 DEF AccountsTypeOK
  <1>3. account' = [account EXCEPT ![r.target] = Written(r)]
    BY DEF Commit
  <1>4. c = Written(r) /\ \A a \in Account : a # r.target => account'[a] = account[a]
    BY <1>1, <1>3 DEF AccountsTypeOK
  <1>5. /\ b.enabled \in BOOLEAN /\ b.admin \in BOOLEAN /\ b.stage \in Stages
        /\ b.generation \in Nat /\ b.password \in Nat
        /\ b = [enabled |-> b.enabled, admin |-> b.admin, stage |-> b.stage,
                generation |-> b.generation, password |-> b.password]
    BY <1>2 DEF AccountState, Version
  <1>6. Written(r) \in AccountState
    <2>1. PICK p \in Nat : p = b.password + 1
      BY <1>5
    <2>2. PICK g \in Nat : g = b.generation + 1
      BY <1>5
    <2>3. /\ r.kind = "disable" => Written(r) = [b EXCEPT !.enabled = FALSE,
                                                !.generation = IF b.enabled THEN g ELSE @]
          /\ r.kind \in {"reset", "change"} =>
               Written(r) = [b EXCEPT !.password = p, !.generation = g]
          /\ r.kind = "delete" =>
               Written(r) = [b EXCEPT !.stage = "queued", !.enabled = FALSE, !.generation = g]
      BY <2>1, <2>2 DEF Written
    <2> HIDE <2>1, <2>2
    <2>4. CASE r.kind = "disable"
      BY <1>2, <2>3, <2>4 DEF AccountState, Version
    <2>5. CASE r.kind \in {"reset", "change"}
      BY <1>2, <2>3, <2>5 DEF AccountState, Version
    <2>6. CASE r.kind = "delete"
      BY <1>2, <2>3, <2>6 DEF AccountState, Version, Stages
    <2>7. CASE r.kind = "enable"
      BY <1>5, <2>7 DEF Written, AccountState, Version, Stages
    <2>8. CASE r.kind = "promote"
      BY <1>5, <2>8 DEF Written, AccountState, Version, Stages
    <2>9. CASE r.kind = "demote"
      BY <1>5, <2>9 DEF Written, AccountState, Version, Stages
    <2>10. CASE r.kind = "cancel"
      BY <1>5, <2>10 DEF Written, AccountState, Version, Stages
    <2>11. CASE r.kind = "claim"
      BY <1>5, <2>11 DEF Written, AccountState, Version, Stages
    <2>12. CASE r.kind = "complete"
      BY <1>5, <2>12 DEF Written, AccountState, Version, Stages
    <2>13. CASE r.kind \in {"use", "login", "logout"}
      BY <1>2, <2>13 DEF Written
    <2> QED
      BY <1>1, <2>4, <2>5, <2>6, <2>7, <2>8, <2>9, <2>10, <2>11, <2>12, <2>13
  <1> QED
    BY <1>1, <1>2, <1>4, <1>6

(* ... field by field: from b to c. *)
Changed(kind, b, c) ==
  /\ kind \notin {"disable", "enable", "delete", "cancel"} => c.enabled = b.enabled
  /\ kind \in {"disable", "delete", "cancel"} => c.enabled = FALSE
  /\ kind = "enable" => c.enabled = TRUE
  /\ kind \notin {"promote", "demote", "complete"} => c.admin = b.admin
  /\ kind = "promote" => c.admin = TRUE
  /\ kind \in {"demote", "complete"} => c.admin = FALSE
  /\ kind \notin {"delete", "cancel", "claim", "complete"} => c.stage = b.stage
  /\ kind = "cancel" => c.stage = "none"
  /\ kind \in {"delete", "claim", "complete"} => c.stage # "none"
  /\ kind = "claim" => c.stage = "claimed"
  /\ kind \notin {"reset", "change"} => c.password = b.password
  /\ kind \notin {"disable", "reset", "change", "delete"} => c.generation = b.generation
  /\ kind = "disable" /\ ~b.enabled => c.generation = b.generation

LEMMA CommitChanges ==
  ASSUME NEW u \in Tx, AccountsTypeOK, Orderly, Commit(u)
  PROVE  Changed(tx[u].kind, account[tx[u].target], account'[tx[u].target])
PROOF
  <1> DEFINE r == tx[u]
             b == account[r.target]
             c == account'[r.target]
  <1>1. r.kind \in Kind /\ b \in AccountState /\ c = Written(r)
    BY CommitWrites
  <1> SUFFICES Changed(r.kind, b, Written(r))
    BY <1>1
  <1>3. CASE r.kind = "disable"
    BY <1>1, <1>3 DEF Written, Changed, AccountState
  <1>4. CASE r.kind = "enable"
    BY <1>1, <1>4 DEF Written, Changed, AccountState
  <1>5. CASE r.kind \in {"promote", "demote"}
    BY <1>1, <1>5 DEF Written, Changed, AccountState
  <1>6. CASE r.kind \in {"reset", "change"}
    BY <1>1, <1>6 DEF Written, Changed, AccountState
  <1>7. CASE r.kind \in {"delete", "cancel"}
    BY <1>1, <1>7 DEF Written, Changed, AccountState
  <1>8. CASE r.kind \in {"claim", "complete"}
    BY <1>1, <1>8 DEF Written, Changed, AccountState
  <1>9. CASE r.kind \in {"use", "login", "logout"}
    BY <1>1, <1>9 DEF Written, Changed
  <1> QED
    BY <1>1, <1>3, <1>4, <1>5, <1>6, <1>7, <1>8, <1>9

(* What it does to the sessions. *)
LEMMA CommitSessions ==
  ASSUME NEW u \in Tx, Commit(u)
  PROVE  LET r == tx[u] IN
         /\ r.kind \in {"reset", "change", "delete"} => sessions' = OthersOf(r.target)
         /\ r.kind = "disable" =>
              sessions' = IF account[r.target].enabled THEN OthersOf(r.target) ELSE sessions
         /\ r.kind = "login" =>
              sessions' = sessions \cup {[account |-> r.target, password |-> r.password,
                                         generation |-> account[r.target].generation]}
         /\ r.kind = "logout" =>
              \/ sessions' = sessions
              \/ sessions' = {s \in sessions : s.account # r.actor \/ s.generation # r.generation}
         /\ r.kind \notin {"reset", "change", "delete", "disable", "login", "logout"} =>
              sessions' = sessions
  BY DEF Commit, Left

-----------------------------------------------------------------------------
(* Two transactions that have decided keep apart. *)
LEMMA Apart ==
  ASSUME NEW t \in Tx, NEW u \in Tx, t # u, Orderly, Compatible,
         tx[t].step = "decided", tx[u].step = "decided"
  PROVE  LET r == tx[t]
             q == tx[u]
         IN
         /\ ~(r.kind \in Command /\ q.kind \in Command)
         /\ r.kind \in OwnsAccount /\ q.kind \in OwnsAccount => r.target # q.target
         /\ r.kind \in OwnsDeletion /\ q.kind \in OwnsDeletion => r.target # q.target
         /\ r.kind \in Command \cup {"use"} /\ q.kind \in OwnsAccount => r.actor # q.target
         /\ r.kind = "use" /\ q.kind \in Command => r.actor \in Member
PROOF
  <1>1. Secured(t) /\ Secured(u)
    BY DEF Orderly, Fits
  <1>2. \A k \in Held(t), l \in Held(u) : k.row = l.row => k.mode = "share" /\ l.mode = "share"
    BY DEF Compatible, Conflict
  <1>4. \A of, id, mode, other :
          Lock(of, id, mode) \in Held(t) /\ Lock(of, id, other) \in Held(u) =>
            mode = "share" /\ other = "share"
    <2> TAKE of, id, mode, other
    <2> HAVE Lock(of, id, mode) \in Held(t) /\ Lock(of, id, other) \in Held(u)
    <2>1. Lock(of, id, mode).row = Lock(of, id, other).row
      BY DEF Lock
    <2>2. Lock(of, id, mode).mode = "share" /\ Lock(of, id, other).mode = "share"
      BY <1>2, <2>1
    <2> QED
      BY <2>2 DEF Lock
  <1> QED
    BY <1>1, <1>4 DEF Secured, OwnsAccount, OwnsDeletion

(* Commands aside, nobody adds or removes an enabled administrator. *)
LEMMA SameAdministrators ==
  ASSUME NEW u \in Tx, AccountsTypeOK, Orderly, Commit(u), Permits(tx[u]),
         tx[u].kind \notin Command
  PROVE  Administrators' = Administrators
PROOF
  <1> DEFINE r == tx[u]
             b == account[r.target]
             c == account'[r.target]
  <1>1. /\ r.target \in Account
        /\ \A a \in Account : a # r.target => account'[a] = account[a]
        /\ b.enabled \in BOOLEAN
    BY CommitWrites DEF AccountState
  <1>2. c.enabled = b.enabled /\ (r.kind # "complete" => c.admin = b.admin)
    BY CommitChanges DEF Changed
  <1>3. r.kind = "complete" => b.enabled = FALSE
    BY <1>1 DEF Permits, AccountsTypeOK
  <1>4. ASSUME NEW a \in Account
        PROVE  account'[a].admin /\ account'[a].enabled <=> account[a].admin /\ account[a].enabled
    BY <1>1, <1>2, <1>3
  <1> QED
    BY <1>4 DEF Administrators, Enabled

(* What another transaction that has decided can have to do with t's        *)
(* decision.                                                                *)
LEMMA DecisionStands ==
  ASSUME NEW t \in Tx, NEW u \in Tx, t # u, AccountsTypeOK, Orderly, Compatible,
         tx[t].step = "decided", Permits(tx[t]), Permits(tx[u]), Commit(u), tx'[t] = tx[t]
  PROVE  Permits(tx[t])'
PROOF
  <1> DEFINE r == tx[t]
             q == tx[u]
             b == account[r.target]
             c == account'[r.target]
  <1>1. tx[u].step = "decided"
    BY DEF Commit
  <1>2. r \in TxState /\ r.kind \in Kind /\ r.target \in Account /\ r.actor \in Account
    BY DEF AccountsTypeOK, TxState, Orderly, Fits
  <1>3. /\ q.kind \in Kind /\ q.target \in Account
        /\ \A a \in Account : a # q.target => account'[a] = account[a]
    BY CommitWrites
  <1>4. Changed(q.kind, account[q.target], account'[q.target])
    BY CommitChanges
  <1>5. /\ ~(r.kind \in Command /\ q.kind \in Command)
        /\ r.kind \in OwnsAccount /\ q.kind \in OwnsAccount => r.target # q.target
        /\ r.kind \in OwnsDeletion /\ q.kind \in OwnsDeletion => r.target # q.target
        /\ r.kind \in Command \cup {"use"} /\ q.kind \in OwnsAccount => r.actor # q.target
        /\ r.kind = "use" /\ q.kind \in Command => r.actor \in Member
    BY <1>1, Apart
  <1>6. CASE r.kind \in Command
    <2>1. q.kind \notin Command /\ Administrators' = Administrators
      BY <1>5, <1>6, SameAdministrators
    <2>2. CASE r.kind \in {"disable", "reset"}
      <3>1. b.stage # "deleted" => c.stage # "deleted"
        BY <1>2, <1>3, <1>4, <1>5, <2>1, <2>2 DEF Changed, OwnsAccount
      <3> QED
        BY <2>1, <2>2, <3>1 DEF Permits, Authorized, LastAdministrator
    <2>3. CASE r.kind \in {"enable", "promote", "delete"}
      <3>1. b.stage = "none"
        BY <2>3 DEF Permits, MayReturn
      <3>2. c.stage = "none" /\ c.admin = b.admin
        BY <1>2, <1>3, <1>4, <2>1, <3>1 DEF Changed, Permits
      <3> QED
        BY <2>1, <2>3, <3>2 DEF Permits, Authorized, MayReturn, LastToDelete
    <2>4. CASE r.kind = "demote"
      BY <2>1, <2>4 DEF Permits, Authorized, LastAdministrator
    <2>5. CASE r.kind = "cancel"
      <3>1. c.stage = b.stage
        BY <1>2, <1>3, <1>4, <1>5, <2>1, <2>5 DEF Changed, OwnsAccount, OwnsDeletion
      <3> QED
        BY <2>1, <2>5, <3>1 DEF Permits, Authorized
    <2> QED
      BY <1>6, <2>2, <2>3, <2>4, <2>5
  <1>7. CASE r.kind = "claim"
    <2>1. b.stage = "queued"
      BY <1>7 DEF Permits
    <2>2. c.stage = "queued"
      BY <1>2, <1>3, <1>4, <1>5, <1>7, <2>1 DEF Changed, Permits, OwnsDeletion
    <2> QED
      BY <1>7, <2>2 DEF Permits
  <1>8. CASE r.kind = "complete"
    <2>1. b.stage = "claimed"
      BY <1>8 DEF Permits
    <2>2. c.stage = "claimed"
      BY <1>2, <1>3, <1>4, <1>5, <1>8, <2>1 DEF Changed, Permits, OwnsAccount
    <2> QED
      BY <1>8, <2>2 DEF Permits
  <1>9. CASE r.kind = "use"
    <2>1. account[r.actor].enabled => account'[r.actor].enabled
      BY <1>2, <1>3, <1>4, <1>5, <1>9 DEF Changed, OwnsAccount
    <2>2. account[r.actor].admin => account'[r.actor].admin \/ r.actor \in Member
      BY <1>2, <1>3, <1>4, <1>5, <1>9 DEF Changed, OwnsAccount
    <2> QED
      BY <1>9, <2>1, <2>2 DEF Permits, Administrators, Enabled
  <1>10. CASE r.kind = "login"
    <2>1. b.enabled => c.enabled
      BY <1>2, <1>3, <1>4, <1>5, <1>10 DEF Changed, OwnsAccount
    <2>2. c.password = b.password
      BY <1>2, <1>3, <1>4, <1>5, <1>10 DEF Changed, OwnsAccount
    <2> QED
      BY <1>10, <2>1, <2>2 DEF Permits, LoginStands
  <1>11. CASE r.kind \in {"change", "logout"}
    <2>1. r.actor = r.target
      BY <1>11 DEF Orderly, Fits
    <2>2. /\ b.enabled => c.enabled
          /\ c.password = b.password
          /\ c.generation = b.generation
      BY <1>2, <1>3, <1>4, <1>5, <1>11 DEF Changed, OwnsAccount
    <2>3. \A s \in sessions : s.account = r.target => s \in sessions'
      <3>1. q.kind \in {"reset", "change", "delete", "disable", "logout"} => q.target # r.target
        BY <1>5, <1>11 DEF OwnsAccount
      <3>2. q.kind = "logout" => q.actor = q.target
        BY DEF Orderly, Fits
      <3> QED
        BY <3>1, <3>2, CommitSessions DEF OthersOf
    <2> QED
      BY <1>11, <2>1, <2>2, <2>3 DEF Permits, SessionStands
  <1> QED
    BY <1>2, <1>6, <1>7, <1>8, <1>9, <1>10, <1>11

-----------------------------------------------------------------------------
(* What a step of t leaves alone of the others. *)
LEMMA OthersStay ==
  ASSUME NEW t \in Tx, AccountsTypeOK, Orderly,
         \A u \in Tx : u # t => tx'[u] = tx[u],
         \A u \in Tx : u # t =>
           \/ tx[u].kind # "use" \/ tx[u].locks <= 1
           \/ account'[tx[u].actor].admin = account[tx[u].actor].admin
  PROVE  \A u \in Tx : u # t => Held(u)' = Held(u) /\ Fits(u)'
PROOF
  <1> SUFFICES ASSUME NEW u \in Tx, u # t PROVE Held(u)' = Held(u) /\ Fits(u)'
    OBVIOUS
  <1>1. tx'[u] = tx[u] /\ Fits(u)
    BY DEF Orderly
  <1>2. Held(u)' = Held(u) /\ tx'[u].locks <= Len(Locks(tx[u])')
    BY <1>1, HeldStays
  <1>3. Secured(u) => Secured(u)'
    BY <1>1, <1>2 DEF Secured
  <1> QED
    BY <1>1, <1>2, <1>3 DEF Fits, Idle

LEMMA CompatibleStays ==
  ASSUME NEW t \in Tx, Compatible,
         \A u \in Tx : u # t => Held(u)' = Held(u),
         \A u \in Tx : u # t => \A k \in Held(t)', l \in Held(u) : ~Conflict(k, l)
  PROVE  Compatible'
PROOF
  <1> SUFFICES ASSUME NEW u \in Tx, NEW v \in Tx, u # v, NEW k \in Held(u)', NEW l \in Held(v)'
               PROVE  ~Conflict(k, l)
    BY DEF Compatible, Conflict
  <1>1. CASE u = t
    BY <1>1
  <1>2. CASE v = t
    BY <1>2 DEF Conflict
  <1>3. CASE u # t /\ v # t
    BY <1>3 DEF Compatible
  <1> QED
    BY <1>1, <1>2, <1>3

(* A transaction that holds nothing yet, or no longer. *)
LEMMA NothingHeld ==
  ASSUME NEW t \in Tx, tx'[t].locks = 0
  PROVE  Held(t)' = {} /\ 0 <= Len(Locks(tx[t])')
PROOF
  <1>1. Held(t)' = {}
    BY HeldThen
  <1>2. \A r, admin : Len(LocksFor(r, admin)) \in Nat
    BY DEF LocksFor
  <1> QED
    BY <1>1, <1>2, HeldThen

LEMMA IdleIsState == Idle \in TxState
PROOF
  <1>1. (CHOOSE a \in Account : TRUE) \in Account
    BY AccountsAreNamed
  <1> QED
    BY <1>1 DEF Idle, TxState, Version

-----------------------------------------------------------------------------
LEMMA InitInv == Init => IInv
PROOF
  <1> SUFFICES ASSUME Init PROVE IInv
    OBVIOUS
  <1>1. AccountsTypeOK
    BY IdleIsState, ChangesAreBounded DEF Init, AccountsTypeOK, AccountState, Stages, Version
  <1>2. ASSUME NEW t \in Tx PROVE Held(t) = {}
    <2>1. tx[t].locks = 0
      BY DEF Init, Idle
    <2> QED
      BY <2>1, HeldNow
  <1>3. \A r, admin : Len(LocksFor(r, admin)) \in Nat
    BY DEF LocksFor
  <1>4. Orderly
    BY <1>3, HeldNow DEF Init, Orderly, Fits, Idle
  <1>5. Compatible
    BY <1>2 DEF Compatible
  <1>6. DecisionsStand
    BY DEF Init, DecisionsStand, Idle
  <1>7. AdministratorRemains
    <2>1. PICK a \in Administrator : a \in Account
      BY AccountsAreNamed
    <2>2. account[a].admin /\ account[a].enabled
      BY <2>1 DEF Init
    <2> QED
      BY <2>1, <2>2 DEF AdministratorRemains, Administrators, Enabled
  <1>8. SessionsAreCurrent
    BY DEF Init, SessionsAreCurrent
  <1> QED
    BY <1>1, <1>4, <1>5, <1>6, <1>7, <1>8 DEF IInv

-----------------------------------------------------------------------------
(* A step that changes nothing but one transaction. *)
LEMMA PermitsStays ==
  ASSUME NEW u \in Tx, tx'[u] = tx[u], UNCHANGED <<account, sessions>>
  PROVE  Permits(tx[u])' <=> Permits(tx[u])
  BY DEF Permits, Authorized, Administrators, Enabled, LastAdministrator, LastToDelete,
         MayReturn, LoginStands, SessionStands

LEMMA OneStep ==
  ASSUME NEW t \in Tx, NEW r \in TxState, IInv, UNCHANGED <<account, sessions>>,
         tx' = [tx EXCEPT ![t] = r], changes' \in 0 .. MaxChanges, Fits(t)',
         \A u \in Tx : u # t => \A k \in Held(t)', l \in Held(u) : ~Conflict(k, l),
         r.step = "decided" => Permits(tx[t])'
  PROVE  IInv'
PROOF
  <1> USE DEF IInv
  <1>1. tx'[t] = r /\ \A u \in Tx : u # t => tx'[u] = tx[u]
    BY DEF AccountsTypeOK
  <1>2. \A u \in Tx : u # t => Held(u)' = Held(u) /\ Fits(u)'
    BY <1>1, OthersStay
  <1>3. AccountsTypeOK'
    BY DEF AccountsTypeOK
  <1>4. Orderly'
    BY <1>2 DEF Orderly
  <1>5. Compatible'
    BY <1>2, CompatibleStays
  <1>6. DecisionsStand'
    <2> SUFFICES ASSUME NEW u \in Tx, tx'[u].step = "decided" PROVE Permits(tx[u])'
      BY DEF DecisionsStand
    <2>1. CASE u = t
      BY <1>1, <2>1
    <2>2. CASE u # t
      BY <1>1, <2>2, PermitsStays DEF DecisionsStand
    <2> QED
      BY <2>1, <2>2
  <1>7. AdministratorRemains'
    BY DEF AdministratorRemains, Administrators, Enabled
  <1>8. SessionsAreCurrent'
    BY DEF SessionsAreCurrent
  <1> QED
    BY <1>3, <1>4, <1>5, <1>6, <1>7, <1>8

LEMMA BeginInv ==
  ASSUME NEW t \in Tx, NEW r \in TxState, IInv, Begin(t, r), r.step = "open", r.locks = 0,
         r.kind \in Kind, r.kind \in Own \cup Worker => r.actor = r.target
  PROVE  IInv'
PROOF
  <1>1. tx' = [tx EXCEPT ![t] = r] /\ tx'[t] = r
    BY DEF Begin, IInv, AccountsTypeOK
  <1>2. Held(t)' = {} /\ 0 <= Len(Locks(tx[t])')
    BY <1>1, NothingHeld
  <1>3. Fits(t)'
    BY <1>1, <1>2 DEF Fits
  <1>4. changes' \in 0 .. MaxChanges
    BY ChangesAreBounded DEF Begin, IInv, AccountsTypeOK
  <1> QED
    BY <1>1, <1>2, <1>3, <1>4, OneStep DEF Begin

LEMMA BeginsInv ==
  ASSUME NEW t \in Tx, IInv,
         BeginCommand(t) \/ BeginWork(t) \/ BeginUse(t) \/ BeginLogin(t) \/ BeginOwn(t)
  PROVE  IInv'
PROOF
  <1>1. \A kind \in Kind, a \in Account, b \in Account, g \in Nat, p \in Nat :
          LET r == Opened(kind, a, b, g, p) IN
          /\ r \in TxState /\ r.step = "open" /\ r.locks = 0
          /\ r.kind = kind /\ r.actor = a /\ r.target = b
    BY DEF Opened, TxState, Version
  <1>2. /\ \A a \in Account : account[a].password \in Nat
        /\ \A s \in sessions : s.account \in Account /\ s.generation \in Nat
    BY DEF IInv, AccountsTypeOK, AccountState, Session, Version
  <1>3. CASE BeginCommand(t)
    <2>1. PICK kind \in Command, a \in Account, b \in Account : Begin(t, Opened(kind, a, b, 0, 0))
      BY <1>3 DEF BeginCommand
    <2> QED
      BY <1>1, <2>1, BeginInv
  <1>4. CASE BeginWork(t)
    <2>1. PICK kind \in Worker, a \in Account : Begin(t, Opened(kind, a, a, 0, 0))
      BY <1>4 DEF BeginWork
    <2>2. kind \in Kind /\ 0 \in Nat
      OBVIOUS
    <2> DEFINE r == Opened(kind, a, a, 0, 0)
    <2>3. r \in TxState /\ r.step = "open" /\ r.locks = 0
          /\ r.kind = kind /\ r.actor = a /\ r.target = a
      BY <1>1, <2>2
    <2> QED
      BY <2>1, <2>2, <2>3, BeginInv
  <1>5. CASE BeginUse(t)
    <2>1. PICK a \in Account : Begin(t, Opened("use", a, a, 0, 0))
      BY <1>5 DEF BeginUse
    <2> DEFINE r == Opened("use", a, a, 0, 0)
    <2>2. r \in TxState /\ r.step = "open" /\ r.locks = 0
          /\ r.kind = "use" /\ r.actor = a /\ r.target = a
      BY <1>1
    <2> QED
      BY <2>1, <2>2, BeginInv
  <1>6. CASE BeginLogin(t)
    <2>1. PICK a \in Account : Begin(t, Opened("login", a, a, 0, account[a].password))
      BY <1>6 DEF BeginLogin
    <2> DEFINE r == Opened("login", a, a, 0, account[a].password)
    <2>2. r \in TxState /\ r.step = "open" /\ r.locks = 0
          /\ r.kind = "login" /\ r.actor = a /\ r.target = a
      BY <1>1, <1>2
    <2> QED
      BY <2>1, <2>2, BeginInv
  <1>7. CASE BeginOwn(t)
    <2>1. PICK s \in sessions, kind \in {"change", "logout"} :
            Begin(t, Opened(kind, s.account, s.account, s.generation,
                            IF kind = "change" THEN account[s.account].password ELSE 0))
      BY <1>7 DEF BeginOwn
    <2>2. (IF kind = "change" THEN account[s.account].password ELSE 0) \in Nat
      BY <1>2
    <2> DEFINE r == Opened(kind, s.account, s.account, s.generation,
                           IF kind = "change" THEN account[s.account].password ELSE 0)
    <2>3. r \in TxState /\ r.step = "open" /\ r.locks = 0
          /\ r.kind = kind /\ r.actor = s.account /\ r.target = s.account
      BY <1>1, <1>2, <2>2, SMTT(30)
    <2> QED
      BY <2>1, <2>3, BeginInv
  <1> QED
    BY <1>3, <1>4, <1>5, <1>6, <1>7

LEMMA AbortInv ==
  ASSUME NEW t \in Tx, IInv, tx' = [tx EXCEPT ![t] = Idle],
         UNCHANGED <<account, sessions, changes>>
  PROVE  IInv'
PROOF
  <1>1. tx'[t] = Idle
    BY DEF IInv, AccountsTypeOK
  <1>2. Held(t)' = {} /\ 0 <= Len(Locks(tx[t])')
    BY <1>1, NothingHeld DEF Idle
  <1>3. Fits(t)'
    BY <1>1, <1>2 DEF Fits, Idle
  <1> QED
    BY <1>2, <1>3, OneStep, IdleIsState DEF IInv, AccountsTypeOK, Idle

LEMMA TakeLockInv ==
  ASSUME NEW t \in Tx, IInv, TakeLock(t)
  PROVE  IInv'
PROOF
  <1> DEFINE r == [tx[t] EXCEPT !.locks = @ + 1]
             L == LocksFor(tx[t], account[tx[t].actor].admin)
  <1>1. tx[t] \in TxState /\ tx[t].locks \in 0 .. 4 /\ Fits(t)
    BY DEF IInv, AccountsTypeOK, TxState, Orderly
  <1>2. Locks(tx[t]) = L /\ Held(t) = {L[i] : i \in 1 .. tx[t].locks}
    BY HeldNow
  <1>3. Len(L) \in 0 .. 4 /\ tx[t].locks < Len(L) /\ tx[t].step = "open"
    BY <1>2 DEF TakeLock, Waiting, LocksFor
  <1>4. r \in TxState /\ r.step = "open" /\ r.kind = tx[t].kind /\ r.actor = tx[t].actor
        /\ r.target = tx[t].target /\ r.locks = tx[t].locks + 1
    <2>1. PICK n \in 0 .. 4 : n = tx[t].locks + 1
      <3>1. \A len \in 0 .. 4, m \in 0 .. 4 : m < len => m + 1 \in 0 .. 4
        OBVIOUS
      <3>2. tx[t].locks + 1 \in 0 .. 4
        <4> HIDE DEF L, r
        <4> QED
          BY <1>1, <1>3, <3>1
      <3> QED
        BY <3>2
    <2>2. r = [tx[t] EXCEPT !.locks = n]
      BY <2>1
    <2> HIDE DEF r
    <2>3. r \in TxState /\ r.step = tx[t].step /\ r.kind = tx[t].kind /\ r.actor = tx[t].actor
          /\ r.target = tx[t].target /\ r.locks = n
      BY <1>1, <2>2 DEF TxState
    <2> QED
      BY <1>3, <2>1, <2>3
  <1>5. tx' = [tx EXCEPT ![t] = r] /\ tx'[t] = r
    BY DEF TakeLock, IInv, AccountsTypeOK
  <1>6. LocksFor(r, account'[r.actor].admin) = L
    BY <1>4 DEF TakeLock, LocksFor
  <1>7. Held(t)' = Held(t) \cup {Wanted(t)} /\ r.locks <= Len(Locks(tx[t])')
    <2>1. Held(t)' = {L[i] : i \in 1 .. tx[t].locks + 1} /\ Locks(tx[t])' = L
      <3>1. /\ Locks(tx[t])' = LocksFor(tx'[t], account'[tx'[t].actor].admin)
            /\ Held(t)' = {LocksFor(tx'[t], account'[tx'[t].actor].admin)[i] :
                             i \in 1 .. tx'[t].locks}
        BY HeldThen
      <3> QED
        BY <1>4, <1>5, <1>6, <3>1
    <2>2. Wanted(t) = L[tx[t].locks + 1]
      BY <1>2 DEF Wanted
    <2>3. 1 .. tx[t].locks + 1 = (1 .. tx[t].locks) \cup {tx[t].locks + 1}
      BY <1>1
    <2> QED
      BY <1>1, <1>2, <1>3, <1>4, <2>1, <2>2, <2>3
  <1>8. Fits(t)'
    BY <1>1, <1>4, <1>5, <1>7 DEF Fits
  <1>9. \A u \in Tx : u # t => \A k \in Held(t)', l \in Held(u) : ~Conflict(k, l)
    BY <1>7 DEF IInv, Compatible, TakeLock, BlockedBy
  <1> QED
    BY <1>4, <1>5, <1>8, <1>9, OneStep DEF TakeLock, IInv, AccountsTypeOK

(* A decision is made under all the locks it needs. *)
LEMMA AllLocksTaken ==
  ASSUME NEW t \in Tx, AccountsTypeOK, Orderly, tx[t].step = "open", ~Waiting(t), Permits(tx[t])
  PROVE  Secured(t)
PROOF
  <1> DEFINE r == tx[t]
             L == LocksFor(r, account[r.actor].admin)
  <1>1. /\ r \in TxState /\ r.locks \in 0 .. 4 /\ r.kind \in Kind
        /\ r.locks <= Len(Locks(r)) /\ r.actor \in Account
    BY DEF AccountsTypeOK, TxState, Orderly, Fits
  <1>2. Locks(r) = L /\ Held(t) = {L[i] : i \in 1 .. r.locks}
    BY HeldNow
  <1>3. Len(L) \in Nat
    BY DEF LocksFor
  <1>4. r.locks = Len(L)
    <2> HIDE DEF L
    <2> QED
      BY <1>1, <1>2, <1>3 DEF Waiting
  <1>5. \A i \in 1 .. Len(L) : L[i] \in Held(t)
    BY <1>2, <1>4
  <1>6. CASE r.kind \in {"disable", "enable", "reset", "delete"}
    <2>1. L = <<Lock("role", Role, "own"), Lock("account", r.actor, "share"),
                Lock("account", r.target, "own")>>
      BY <1>6 DEF LocksFor
    <2>2. {L[1], L[2], L[3]} \subseteq Held(t)
      BY <1>5, <2>1
    <2> QED
      BY <1>6, <2>1, <2>2 DEF Secured, OwnsAccount, OwnsDeletion
  <1>7. CASE r.kind \in {"promote", "demote"}
    <2>1. L = <<Lock("role", Role, "own"), Lock("account", r.actor, "share")>>
      BY <1>7 DEF LocksFor
    <2>2. {L[1], L[2]} \subseteq Held(t)
      BY <1>5, <2>1
    <2> QED
      BY <1>7, <2>1, <2>2 DEF Secured, OwnsAccount, OwnsDeletion
  <1>8. CASE r.kind = "cancel"
    <2>1. L = <<Lock("role", Role, "own"), Lock("account", r.actor, "share"),
                Lock("deletion", r.target, "own"), Lock("account", r.target, "own")>>
      BY <1>8 DEF LocksFor
    <2>2. {L[1], L[2], L[3], L[4]} \subseteq Held(t)
      BY <1>5, <2>1
    <2> QED
      BY <1>8, <2>1, <2>2 DEF Secured, OwnsAccount, OwnsDeletion
  <1>9. CASE r.kind \in {"claim", "complete"}
    <2>1. L = IF r.kind = "claim" THEN <<Lock("deletion", r.target, "own")>>
              ELSE <<Lock("deletion", r.target, "own"), Lock("account", r.target, "own")>>
      BY <1>9 DEF LocksFor
    <2>2. L[1] \in Held(t) /\ (r.kind = "complete" => L[2] \in Held(t))
      BY <1>5, <1>9, <2>1
    <2> QED
      BY <1>9, <2>1, <2>2 DEF Secured, OwnsAccount, OwnsDeletion
  <1>10. CASE r.kind = "use"
    <2>1. L = IF account[r.actor].admin
              THEN <<Lock("account", r.actor, "share"), Lock("role", Role, "share")>>
              ELSE <<Lock("account", r.actor, "share")>>
      BY <1>10 DEF LocksFor
    <2>2. account[r.actor].admin \/ r.actor \in Member
      BY <1>10 DEF Permits, Administrators, Enabled
    <2>3. L[1] \in Held(t) /\ (account[r.actor].admin => L[2] \in Held(t))
      BY <1>5, <2>1
    <2> QED
      BY <1>10, <2>1, <2>2, <2>3 DEF Secured, OwnsAccount, OwnsDeletion
  <1>11. CASE r.kind \in {"login", "change", "logout"}
    <2>1. L = <<Lock("account", r.target, "own")>>
      BY <1>11 DEF LocksFor
    <2>2. L[1] \in Held(t)
      BY <1>5, <2>1
    <2> QED
      BY <1>11, <2>1, <2>2 DEF Secured, OwnsAccount, OwnsDeletion
  <1> QED
    BY <1>1, <1>6, <1>7, <1>8, <1>9, <1>10, <1>11

LEMMA DecideInv ==
  ASSUME NEW t \in Tx, IInv, Decide(t)
  PROVE  IInv'
PROOF
  <1>1. tx[t] \in TxState /\ Fits(t)
    BY DEF IInv, AccountsTypeOK, Orderly
  <1>2. CASE ~Permits(tx[t])
    BY <1>2, AbortInv DEF Decide
  <1>3. CASE Permits(tx[t])
    <2> DEFINE r == [tx[t] EXCEPT !.step = "decided"]
    <2>1. r \in TxState /\ r.step = "decided" /\ r.kind = tx[t].kind /\ r.actor = tx[t].actor
          /\ r.target = tx[t].target /\ r.locks = tx[t].locks
          /\ r.generation = tx[t].generation /\ r.password = tx[t].password
      BY <1>1 DEF TxState
    <2>2. tx' = [tx EXCEPT ![t] = r] /\ tx'[t] = r
      BY <1>3 DEF Decide, IInv, AccountsTypeOK
    <2>3. Held(t)' = Held(t) /\ Locks(tx[t])' = Locks(tx[t])
      <3>1. LocksFor(r, account'[r.actor].admin) = LocksFor(tx[t], account[tx[t].actor].admin)
        BY <2>1 DEF Decide, LocksFor
      <3>2. /\ Locks(tx[t])' = LocksFor(tx'[t], account'[tx'[t].actor].admin)
            /\ Held(t)' = {LocksFor(tx'[t], account'[tx'[t].actor].admin)[i] :
                             i \in 1 .. tx'[t].locks}
        BY HeldThen
      <3>3. /\ Locks(tx[t]) = LocksFor(tx[t], account[tx[t].actor].admin)
            /\ Held(t) = {LocksFor(tx[t], account[tx[t].actor].admin)[i] : i \in 1 .. tx[t].locks}
        BY HeldNow
      <3> HIDE DEF r
      <3> QED
        BY <2>1, <2>2, <3>1, <3>2, <3>3
    <2>4. Secured(t)'
      <3>1. Secured(t)
        BY <1>3, AllLocksTaken DEF Decide, IInv
      <3> QED
        BY <2>1, <2>2, <2>3, <3>1 DEF Secured
    <2>5. Fits(t)'
      BY <1>1, <2>1, <2>2, <2>3, <2>4 DEF Fits, Decide
    <2>6. Permits(tx[t])'
      BY <1>3, <2>1, <2>2 DEF Decide, Permits, Authorized, Administrators, Enabled,
         LastAdministrator, LastToDelete, MayReturn, LoginStands, SessionStands
    <2>7. \A u \in Tx : u # t => \A k \in Held(t)', l \in Held(u) : ~Conflict(k, l)
      BY <2>3 DEF IInv, Compatible
    <2> QED
      BY <2>1, <2>2, <2>5, <2>6, <2>7, OneStep DEF Decide, IInv, AccountsTypeOK
  <1> QED
    BY <1>2, <1>3

-----------------------------------------------------------------------------
(* A commit.  First, whom it leaves an administrator. *)
LEMMA AdministratorStays ==
  ASSUME NEW t \in Tx, AccountsTypeOK, Orderly, AdministratorRemains, Commit(t), Permits(tx[t])
  PROVE  AdministratorRemains'
PROOF
  <1> DEFINE r == tx[t]
             b == account[r.target]
             c == account'[r.target]
  <1>1. /\ r.kind \in Kind /\ r.target \in Account
        /\ \A a \in Account : a # r.target => account'[a] = account[a]
    BY CommitWrites
  <1>2. Changed(r.kind, b, c)
    BY CommitChanges
  <1>3. \A a \in Administrators : a # r.target => a \in Administrators'
    BY <1>1 DEF Administrators, Enabled
  <1> SUFFICES \E a \in Administrators : a \in Administrators'
    BY DEF AdministratorRemains
  <1>4. CASE r.kind \notin Command
    BY <1>4, SameAdministrators DEF AdministratorRemains
  <1>5. CASE r.kind \in {"disable", "demote"}
    <2>1. ~LastAdministrator(r.target)
      BY <1>5 DEF Permits
    <2>2. \E a \in Administrators : a # r.target
      <3> SUFFICES ASSUME \A a \in Administrators : a = r.target PROVE FALSE
        OBVIOUS
      <3>1. Administrators = {r.target}
        BY DEF AdministratorRemains
      <3>2. Cardinality(Administrators) = 1
        BY <3>1, FS_Singleton
      <3> QED
        BY <2>1, <3>1, <3>2 DEF LastAdministrator
    <2> QED
      BY <1>3, <2>2
  <1>6. CASE r.kind = "delete"
    BY <1>3, <1>6 DEF Permits, Authorized
  <1>7. CASE r.kind \in {"enable", "promote", "reset", "cancel"}
    <2>1. r.kind = "cancel" => b.enabled = FALSE
      BY <1>1 DEF Permits, AccountsTypeOK, AccountState
    <2>2. r.target \in Administrators => r.target \in Administrators'
      BY <1>1, <1>2, <1>7, <2>1 DEF Changed, Administrators, Enabled
    <2> QED
      BY <1>3, <2>2 DEF AdministratorRemains
  <1> QED
    BY <1>1, <1>4, <1>5, <1>6, <1>7

(* ... and whom it leaves a session. *)
LEMMA SessionsStayCurrent ==
  ASSUME NEW t \in Tx, AccountsTypeOK, Orderly, SessionsAreCurrent, Commit(t), Permits(tx[t])
  PROVE  SessionsAreCurrent' /\ sessions' \subseteq Session
PROOF
  <1> DEFINE r == tx[t]
             b == account[r.target]
             c == account'[r.target]
             new == [account |-> r.target, password |-> r.password, generation |-> b.generation]
  <1>1. /\ r \in TxState /\ r.kind \in Kind /\ r.target \in Account /\ b \in AccountState
        /\ \A a \in Account : a # r.target => account'[a] = account[a]
    BY CommitWrites
  <1>2. Changed(r.kind, b, c)
    BY CommitChanges
  <1>3. \/ sessions' \subseteq sessions
        \/ r.kind = "login" /\ sessions' = sessions \cup {new}
    <2>1. OthersOf(r.target) \subseteq sessions
      BY DEF OthersOf
    <2>2. CASE r.kind = "login"
      BY <2>2, CommitSessions
    <2>3. CASE r.kind \in {"disable", "logout"}
      BY <2>1, <2>3, CommitSessions
    <2>4. CASE r.kind \notin {"login", "disable", "logout"}
      BY <2>1, <2>4, CommitSessions
    <2> QED
      BY <2>2, <2>3, <2>4
  <1>4. sessions' \subseteq Session
    <2>1. r.password \in Nat /\ b.generation \in Nat
      BY <1>1 DEF TxState, AccountState, Version
    <2>2. new \in Session
      BY <1>1, <2>1 DEF Session, Version
    <2> QED
      BY <1>3, <2>2 DEF AccountsTypeOK
  <1>5. ASSUME NEW s \in sessions'
        PROVE  LET a == account'[s.account] IN
               a.enabled /\ a.generation = s.generation /\ a.password = s.password
    <2>1. s.account \in Account
      BY <1>4 DEF Session
    <2>2. CASE s \in sessions /\ s.account # r.target
      BY <1>1, <2>1, <2>2 DEF SessionsAreCurrent
    <2>3. CASE s \in sessions /\ s.account = r.target
      <3>1. b.enabled /\ b.generation = s.generation /\ b.password = s.password
        BY <2>3 DEF SessionsAreCurrent
      <3>2. r.kind \notin {"reset", "change", "delete", "disable"}
        BY <2>3, <3>1, CommitSessions DEF OthersOf
      <3>3. r.kind # "cancel"
        BY <1>1, <3>1 DEF Permits, AccountsTypeOK
      <3> QED
        BY <1>2, <2>3, <3>1, <3>2, <3>3 DEF Changed
    <2>4. CASE r.kind = "login" /\ s = new
      <3>1. b.enabled /\ b.password = r.password
        BY <2>4 DEF Permits, LoginStands
      <3> QED
        BY <1>2, <2>4, <3>1 DEF Changed
    <2> QED
      BY <1>3, <2>2, <2>3, <2>4
  <1> QED
    BY <1>4, <1>5 DEF SessionsAreCurrent

LEMMA CommitInv ==
  ASSUME NEW t \in Tx, IInv, Commit(t)
  PROVE  IInv'
PROOF
  <1> DEFINE r == tx[t]
             b == account[r.target]
             c == account'[r.target]
  <1>0. /\ AccountsTypeOK /\ Orderly /\ Compatible
        /\ DecisionsStand /\ AdministratorRemains /\ SessionsAreCurrent
    BY DEF IInv
  <1>1. r.step = "decided" /\ Permits(r)
    BY <1>0 DEF DecisionsStand, Commit
  <1>2. /\ r.kind \in Kind /\ r.target \in Account /\ b \in AccountState /\ c \in AccountState
        /\ \A a \in Account : a # r.target => account'[a] = account[a]
    BY <1>0, CommitWrites
  <1>3. Changed(r.kind, b, c)
    BY <1>0, CommitChanges
  <1>4. tx' \in [Tx -> TxState] /\ tx'[t] = Idle /\ \A u \in Tx : u # t => tx'[u] = tx[u]
    BY <1>0, IdleIsState DEF Commit, AccountsTypeOK
  <1>5. ASSUME NEW u \in Tx, u # t
        PROVE  \/ tx[u].kind # "use" \/ tx[u].locks <= 1
               \/ account'[tx[u].actor].admin = account[tx[u].actor].admin
    <2> DEFINE q == tx[u]
               L == LocksFor(q, account[q.actor].admin)
    <2> SUFFICES ASSUME q.kind = "use", ~(q.locks <= 1)
                 PROVE  account'[q.actor].admin = account[q.actor].admin
      OBVIOUS
    <2>1. q.actor \in Account /\ q.locks \in 0 .. 4 /\ q.locks <= Len(Locks(q))
      BY <1>0 DEF AccountsTypeOK, TxState, Orderly, Fits
    <2>2. Locks(q) = L /\ Held(u) = {L[i] : i \in 1 .. q.locks}
      BY HeldNow
    <2>3. L = <<Lock("account", q.actor, "share"), Lock("role", Role, "share")>>
      <3>1. CASE account[q.actor].admin
        BY <3>1 DEF LocksFor
      <3>2. CASE ~account[q.actor].admin
        <4>1. Len(L) = 1
          BY <3>2 DEF LocksFor
        <4> HIDE DEF L
        <4> QED
          BY <2>1, <2>2, <4>1
      <3> QED
        BY <3>1, <3>2
    <2>4. {L[1], L[2]} \subseteq Held(u)
      <3> HIDE DEF L
      <3> QED
        BY <2>1, <2>2
    <2>5. Lock("account", q.actor, "share") \in Held(u) /\ Lock("role", Role, "share") \in Held(u)
      BY <2>3, <2>4
    <2>6. Lock("role", Role, "own") \notin Held(t) /\ Lock("account", q.actor, "own") \notin Held(t)
      <3>1. \A k \in Held(t), l \in Held(u) : ~Conflict(k, l)
        BY <1>0, <1>5 DEF Compatible
      <3>2. /\ Conflict(Lock("role", Role, "own"), Lock("role", Role, "share"))
            /\ Conflict(Lock("account", q.actor, "own"), Lock("account", q.actor, "share"))
        BY DEF Conflict, Lock
      <3> QED
        BY <2>5, <3>1, <3>2
    <2>7. Secured(t)
      BY <1>0, <1>1 DEF Orderly, Fits
    <2>8. r.kind \notin {"promote", "demote"} /\ (r.kind = "complete" => r.target # q.actor)
      BY <2>6, <2>7 DEF Secured, OwnsAccount
    <2> QED
      BY <1>2, <1>3, <2>1, <2>8 DEF Changed
  <1>6. \A u \in Tx : u # t => Held(u)' = Held(u) /\ Fits(u)'
    BY <1>0, <1>4, <1>5, OthersStay
  <1>7. Held(t)' = {} /\ 0 <= Len(Locks(tx[t])')
    BY <1>4, NothingHeld DEF Idle
  <1>8. Orderly'
    <2>1. Fits(t)'
      BY <1>4, <1>7 DEF Fits, Idle
    <2> QED
      BY <1>6, <2>1 DEF Orderly
  <1>9. Compatible'
    BY <1>0, <1>6, <1>7, CompatibleStays
  <1>10. SessionsAreCurrent' /\ sessions' \subseteq Session
    BY <1>0, <1>1, SessionsStayCurrent
  <1>11. AccountsTypeOK'
    <2>1. account' \in [Account -> AccountState]
      BY <1>0, <1>2 DEF Commit, AccountsTypeOK
    <2>2. ASSUME NEW a \in Account, account'[a].stage # "none" PROVE ~account'[a].enabled
      <3>1. CASE a # r.target
        BY <1>0, <1>2, <2>2, <3>1 DEF AccountsTypeOK
      <3>2. CASE a = r.target
        <4>1. b.stage # "none" => ~b.enabled
          BY <1>0, <1>2 DEF AccountsTypeOK
        <4>2. r.kind # "enable"
          BY <1>1, <1>3, <2>2, <3>2 DEF Permits, MayReturn, Changed
        <4>3. r.kind \in {"claim", "complete"} => b.stage # "none"
          BY <1>1 DEF Permits
        <4> QED
          BY <1>3, <2>2, <3>2, <4>1, <4>2, <4>3 DEF Changed
      <3> QED
        BY <3>1, <3>2
    <2>3. changes' \in 0 .. MaxChanges
      BY <1>0 DEF Commit, AccountsTypeOK
    <2> QED
      BY <1>4, <1>10, <2>1, <2>2, <2>3 DEF AccountsTypeOK
  <1>12. DecisionsStand'
    <2> SUFFICES ASSUME NEW u \in Tx, tx'[u].step = "decided" PROVE Permits(tx[u])'
      BY DEF DecisionsStand
    <2>1. u # t /\ tx'[u] = tx[u]
      BY <1>4 DEF Idle
    <2>2. tx[u].step = "decided" /\ Permits(tx[u])
      BY <1>0, <2>1 DEF DecisionsStand
    <2> QED
      BY <1>0, <1>1, <2>1, <2>2, DecisionStands
  <1>13. AdministratorRemains'
    BY <1>0, <1>1, AdministratorStays
  <1> QED
    BY <1>8, <1>9, <1>10, <1>11, <1>12, <1>13 DEF IInv

(* Recovery, when nothing else is under way. *)
LEMMA RecoverInv ==
  ASSUME NEW a \in Account, IInv, Recover(a)
  PROVE  IInv'
PROOF
  <1>0. /\ AccountsTypeOK /\ Orderly /\ SessionsAreCurrent
    BY DEF IInv
  <1> DEFINE b == account[a]
             c == account'[a]
  <1>1. \A t \in Tx : tx'[t] = Idle
    BY <1>0 DEF Recover, Orderly, Fits
  <1>14. Idle.locks = 0 /\ Idle.step = "idle"
    BY DEF Idle
  <1>2. ASSUME NEW t \in Tx PROVE Held(t)' = {} /\ 0 <= Len(Locks(tx[t])')
    <2>1. tx'[t].locks = 0
      BY <1>1, <1>14
    <2> QED
      BY <2>1, NothingHeld
  <1>3. b \in AccountState /\ b.password \in Nat /\ b.generation \in Nat
    BY <1>0 DEF AccountsTypeOK, AccountState, Version
  <1>5. /\ c = Recovered(b)
        /\ \A d \in Account : d # a => account'[d] = account[d]
        /\ account' = [account EXCEPT ![a] = Recovered(b)]
    BY <1>0 DEF Recover, AccountsTypeOK
  <1>6. c \in AccountState /\ c.enabled /\ c.admin /\ c.stage = "none"
    <2>1. PICK p \in Nat : p = b.password + 1
      BY <1>3
    <2>2. PICK g \in Nat : g = b.generation + 1
      BY <1>3
    <2>3. c = [b EXCEPT !.enabled = TRUE, !.admin = TRUE, !.password = p, !.generation = g]
      BY <1>5, <2>1, <2>2 DEF Recovered
    <2> HIDE <2>1, <2>2
    <2> HIDE DEF c
    <2> QED
      BY <1>3, <2>3 DEF AccountState, Version, Recover
  <1>7. sessions' = OthersOf(a)
    BY DEF Recover
  <1>8. AccountsTypeOK'
    <2>1. changes' \in 0 .. MaxChanges
      BY <1>0, ChangesAreBounded DEF Recover, AccountsTypeOK
    <2>2. account' \in [Account -> AccountState] /\ tx' \in [Tx -> TxState]
      BY <1>0, <1>5, <1>6 DEF AccountsTypeOK, Recover
    <2>3. \A d \in Account : account'[d].stage # "none" => ~account'[d].enabled
      BY <1>0, <1>5, <1>6 DEF AccountsTypeOK
    <2> QED
      BY <1>0, <1>7, <2>1, <2>2, <2>3 DEF AccountsTypeOK, OthersOf
  <1>9. Orderly'
    BY <1>1, <1>2, <1>14 DEF Orderly, Fits, Idle
  <1>10. Compatible'
    BY <1>2 DEF Compatible
  <1>11. DecisionsStand'
    BY <1>1, <1>14 DEF DecisionsStand
  <1>12. AdministratorRemains'
    <2>1. a \in Administrators'
      BY <1>6 DEF Administrators, Enabled
    <2> QED
      BY <2>1 DEF AdministratorRemains
  <1>13. SessionsAreCurrent'
    BY <1>0, <1>5, <1>7 DEF SessionsAreCurrent, OthersOf, AccountsTypeOK, Session
  <1> QED
    BY <1>8, <1>9, <1>10, <1>11, <1>12, <1>13 DEF IInv

LEMMA StutterInv ==
  ASSUME IInv, UNCHANGED vars
  PROVE  IInv'
PROOF
  <1>1. UNCHANGED <<account, sessions, tx, changes>>
    BY DEF vars
  <1>2. \A t \in Tx : Held(t)' = Held(t) /\ Locks(tx[t])' = Locks(tx[t])
    <2> TAKE t \in Tx
    <2>1. /\ Locks(tx[t])' = LocksFor(tx'[t], account'[tx'[t].actor].admin)
          /\ Held(t)' = {LocksFor(tx'[t], account'[tx'[t].actor].admin)[i] :
                           i \in 1 .. tx'[t].locks}
      BY HeldThen
    <2>2. /\ Locks(tx[t]) = LocksFor(tx[t], account[tx[t].actor].admin)
          /\ Held(t) = {LocksFor(tx[t], account[tx[t].actor].admin)[i] : i \in 1 .. tx[t].locks}
      BY HeldNow
    <2> QED
      BY <1>1, <2>1, <2>2
  <1>3. AccountsTypeOK' /\ AdministratorRemains' /\ SessionsAreCurrent'
    BY <1>1 DEF IInv, AccountsTypeOK, AdministratorRemains, Administrators, Enabled,
       SessionsAreCurrent
  <1>4. Orderly'
    BY <1>1, <1>2 DEF IInv, Orderly, Fits, Secured, Idle
  <1>5. Compatible'
    BY <1>2 DEF IInv, Compatible
  <1>6. DecisionsStand'
    BY <1>1, PermitsStays DEF IInv, DecisionsStand
  <1> QED
    BY <1>3, <1>4, <1>5, <1>6 DEF IInv

LEMMA StepInv == IInv /\ [Next]_vars => IInv'
PROOF
  <1> SUFFICES ASSUME IInv, [Next]_vars PROVE IInv'
    OBVIOUS
  <1>1. ASSUME NEW t \in Tx,
               BeginCommand(t) \/ BeginWork(t) \/ BeginUse(t) \/ BeginLogin(t) \/ BeginOwn(t)
        PROVE  IInv'
    BY <1>1, BeginsInv
  <1>2. ASSUME NEW t \in Tx, TakeLock(t) PROVE IInv'
    BY <1>2, TakeLockInv
  <1>3. ASSUME NEW t \in Tx, Decide(t) PROVE IInv'
    BY <1>3, DecideInv
  <1>4. ASSUME NEW t \in Tx, Commit(t) PROVE IInv'
    BY <1>4, CommitInv
  <1>5. ASSUME NEW t \in Tx, Abort(t) PROVE IInv'
    BY <1>5, AbortInv DEF Abort
  <1>6. ASSUME NEW a \in Account, Recover(a) PROVE IInv'
    BY <1>6, RecoverInv
  <1>7. CASE UNCHANGED vars
    BY <1>7, StutterInv
  <1> QED
    BY <1>1, <1>2, <1>3, <1>4, <1>5, <1>6, <1>7 DEF Next

LEMMA AlwaysInv == Spec => []IInv
  BY InitInv, StepInv, PTL DEF Spec

-----------------------------------------------------------------------------
(* Typing; and whose deletion was requested is disabled until it is over    *)
(* (the checks and the two triggers of the deletion migration).             *)
THEOREM TypeCorrect == Spec => []AccountsTypeOK
PROOF
  <1>1. IInv => AccountsTypeOK
    BY DEF IInv
  <1> QED
    BY <1>1, AlwaysInv, PTL

(* However many administrators disable, demote or delete one another at the *)
(* same time, one of them stays enabled: the lock on the role row serialises *)
(* all who decide about it (protectLastAdministrator, StartDeletion).       *)
THEOREM AlwaysAdministrated == Spec => []AdministratorRemains
PROOF
  <1>1. IInv => AdministratorRemains
    BY DEF IInv
  <1> QED
    BY <1>1, AlwaysInv, PTL

(* Nothing that a decision rests on changes before it is committed: the     *)
(* final authorization (RequireInTx) still holds, a right that was revoked  *)
(* is not used once more, the password of a login is still the password.    *)
THEOREM DecisionsAlwaysStand == Spec => []DecisionsStand
PROOF
  <1>1. IInv => DecisionsStand
    BY DEF IInv
  <1> QED
    BY <1>1, AlwaysInv, PTL

(* After a password change, a reset, a disabling or a deletion no session   *)
(* of before is active, not even one that a login opened meanwhile          *)
(* (LoginFrom compares the password hash under the account's lock).         *)
THEOREM SessionsAlwaysCurrent == Spec => []SessionsAreCurrent
PROOF
  <1>1. IInv => SessionsAreCurrent
    BY DEF IInv
  <1> QED
    BY <1>1, AlwaysInv, PTL
=============================================================================
