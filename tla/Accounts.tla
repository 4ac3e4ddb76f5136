------------------------------ MODULE Accounts ------------------------------
(***************************************************************************)
(* Accounts, their rights, their sessions and the transactions that change *)
(* them (backend/internal/modules/iam: administration, authorization,      *)
(* session, recovery) on PostgreSQL in READ COMMITTED, at the granularity  *)
(* of the row locks the code takes.                                        *)
(*                                                                         *)
(* A transaction takes its locks one after the other, waiting for each,    *)
(* decides on what is committed, and commits; its locks are held from when *)
(* they are taken until then.  It may end without effect at any moment: a  *)
(* broken connection, a cancelled request, the victim of a deadlock.       *)
(*                                                                         *)
(* There is one administrator role with every right and the scope `all`;   *)
(* the accounts in Member have the right to use a module through another   *)
(* role, which nobody changes here.  Sessions that agree in account,       *)
(* generation and password are one.  A deletion that failed counts as      *)
(* claimed: AccountDeletion tells them apart.                              *)
(***************************************************************************)
EXTENDS Naturals, Sequences, FiniteSets

CONSTANTS Account,       \* accounts
          Administrator, \* those that have the role at first
          Member,        \* those that may use a module through another role
          Tx,            \* database connections
          Role,          \* the row of the administrator role
          MaxChanges     \* bound: commands that end sessions

ASSUME AccountsAreNamed ==
  /\ Administrator \subseteq Account /\ Administrator # {}
  /\ Member \subseteq Account
  /\ IsFiniteSet(Account)
  /\ Role \notin Account
ASSUME ChangesAreBounded == MaxChanges \in Nat

VARIABLES account,   \* iam_accounts and iam_account_roles
          sessions,  \* active rows of iam_sessions
          tx,        \* transactions under way
          changes    \* bound: commands left that end sessions

vars == <<account, sessions, tx, changes>>

Command == {"enable", "disable", "promote", "demote", "reset", "delete", "cancel"}
Worker  == {"claim", "complete"}
Own     == {"use", "login", "change", "logout"}
Ending  == {"disable", "reset", "delete", "change"}
Kind    == Command \cup Worker \cup Own

Row == {[of |-> "account", id |-> a] : a \in Account}
       \cup {[of |-> "deletion", id |-> a] : a \in Account}
       \cup {[of |-> "role", id |-> Role]}

Version == Nat
Stages == {"none", "queued", "claimed", "deleted"}
AccountState == [enabled : BOOLEAN, admin : BOOLEAN, stage : Stages,
                 generation : Version,      \* session_generation
                 password : Version]        \* password_hash
Session == [account : Account, generation : Version, password : Version]

TxState == [kind : Kind \cup {"none"}, actor : Account, target : Account,
            locks : 0 .. 4,                 \* how many of its locks it has
            step : {"idle", "open", "decided"},
            generation : Version, password : Version]   \* what it saw earlier
Idle == [kind |-> "none", actor |-> CHOOSE a \in Account : TRUE,
         target |-> CHOOSE a \in Account : TRUE, locks |-> 0, step |-> "idle",
         generation |-> 0, password |-> 0]

Init ==
  /\ account = [a \in Account |->
       [enabled |-> TRUE, admin |-> a \in Administrator, stage |-> "none",
        generation |-> 0, password |-> 0]]
  /\ sessions = {}
  /\ tx = [t \in Tx |-> Idle]
  /\ changes = MaxChanges

-----------------------------------------------------------------------------
(* The locks of a transaction, in the order of its statements. *)
Lock(of, id, mode) == [row |-> [of |-> of, id |-> id], mode |-> mode]

(* `RequireInTx`: FOR SHARE OF account, assignments, roles, grants. *)
NothingLocked(a) == <<>>            \* mutant: a plain read
RightLocks(a) ==
  <<Lock("account", a, "share")>>
    \o IF account[a].admin THEN <<Lock("role", Role, "share")>> ELSE <<>>

(* `lockAdministrator`, then the final authorization of the actor (who is  *)
(* refused without the role: that its role is then not locked once more    *)
(* makes no difference).                                                   *)
NoAdministratorLock(r) == <<Lock("account", r.actor, "share")>>   \* mutant
AdministratorLocks(r) ==
  <<Lock("role", Role, "own"), Lock("account", r.actor, "share")>>

Locks(r) ==
  LET account_ == <<Lock("account", r.target, "own")>>
      deletion == <<Lock("deletion", r.target, "own")>>
  IN CASE r.kind \in {"disable", "enable", "reset", "delete"} ->
            AdministratorLocks(r) \o account_
       [] r.kind \in {"promote", "demote"} -> AdministratorLocks(r)
       [] r.kind = "cancel"   -> AdministratorLocks(r) \o deletion \o account_
       [] r.kind = "claim"    -> deletion
       [] r.kind = "complete" -> deletion \o account_
       [] r.kind = "use"      -> RightLocks(r.actor)
       [] OTHER               -> account_

Held(t) == {Locks(tx[t])[i] : i \in 1 .. tx[t].locks}
Conflict(l, k) == l.row = k.row /\ ~(l.mode = "share" /\ k.mode = "share")
Wanted(t) == Locks(tx[t])[tx[t].locks + 1]
Waiting(t) == tx[t].step = "open" /\ tx[t].locks < Len(Locks(tx[t]))
BlockedBy(t, u) == Waiting(t) /\ t # u /\ \E k \in Held(u) : Conflict(Wanted(t), k)

-----------------------------------------------------------------------------
(* What a transaction decides. *)
Enabled(admins) == {a \in admins : account[a].enabled}
Administrators == Enabled({a \in Account : account[a].admin})
Authorized(r) == r.actor \in Administrators

(* `protectLastAdministrator`, and its stricter form in StartDeletion. *)
LastAdministrator(a) == a \in Administrators /\ Cardinality(Administrators) <= 1
LastToDelete(a) == account[a].admin /\ Cardinality(Administrators) <= 1

(* The last transaction of LoginFrom: still enabled, and the password that *)
(* was proven is still the password.                                       *)
StillEnabled(r) == account[r.target].enabled      \* mutant: hash not compared
LoginStands(r) == account[r.target].enabled /\ account[r.target].password = r.password

(* `authorizeMutation`: the session that sent the request is still good. *)
SessionStands(r) ==
  /\ account[r.actor].enabled
  /\ account[r.actor].generation = r.generation
  /\ \E s \in sessions : s.account = r.actor /\ s.generation = r.generation

(* The triggers: an account under deletion is not enabled again. *)
AtAnyStage(b) == TRUE                        \* mutant
MayReturn(b) == b.stage = "none"

Permits(r) ==
  LET b == account[r.target] IN
  CASE r.kind = "use"      -> r.actor \in Administrators \cup Enabled(Member)
    [] r.kind = "disable"  -> Authorized(r) /\ b.stage # "deleted" /\ ~LastAdministrator(r.target)
    [] r.kind = "enable"   -> Authorized(r) /\ MayReturn(b)
    [] r.kind = "promote"  -> Authorized(r) /\ MayReturn(b)
    [] r.kind = "demote"   -> Authorized(r) /\ ~LastAdministrator(r.target)
    [] r.kind = "reset"    -> Authorized(r) /\ b.stage # "deleted"
    [] r.kind = "delete"   -> Authorized(r) /\ r.actor # r.target /\ b.stage = "none"
                                /\ ~LastToDelete(r.target)
    [] r.kind = "cancel"   -> Authorized(r) /\ b.stage = "queued"
    [] r.kind = "claim"    -> b.stage = "queued"
    [] r.kind = "complete" -> b.stage = "claimed"
    [] r.kind = "login"    -> LoginStands(r)
    [] r.kind = "change"   -> SessionStands(r) /\ b.password = r.password
    [] r.kind = "logout"   -> SessionStands(r)
    [] OTHER               -> FALSE

(* ... and what it writes. *)
Written(r) ==
  LET b == account[r.target] IN
  CASE r.kind = "disable"  -> [b EXCEPT !.enabled = FALSE,
                                 !.generation = IF b.enabled THEN @ + 1 ELSE @]
    [] r.kind = "enable"   -> [b EXCEPT !.enabled = TRUE]
    [] r.kind = "promote"  -> [b EXCEPT !.admin = TRUE]
    [] r.kind = "demote"   -> [b EXCEPT !.admin = FALSE]
    [] r.kind \in {"reset", "change"} ->
         [b EXCEPT !.password = @ + 1, !.generation = @ + 1]
    [] r.kind = "delete"   -> [b EXCEPT !.stage = "queued", !.enabled = FALSE,
                                 !.generation = @ + 1]
    [] r.kind = "cancel"   -> [b EXCEPT !.stage = "none", !.enabled = FALSE]
    [] r.kind = "claim"    -> [b EXCEPT !.stage = "claimed"]
    [] r.kind = "complete" -> [b EXCEPT !.stage = "deleted", !.admin = FALSE]
    [] OTHER               -> b

(* The sessions a transaction leaves active. *)
OthersOf(a) == {s \in sessions : s.account # a}
Left(r) ==
  CASE r.kind \in {"reset", "change", "delete"} -> {OthersOf(r.target)}
    [] r.kind = "disable" -> {IF account[r.target].enabled THEN OthersOf(r.target) ELSE sessions}
    [] r.kind = "login"   -> {sessions \cup
                                {[account |-> r.target, password |-> r.password,
                                  generation |-> account[r.target].generation]}}
    [] r.kind = "logout"  -> {sessions, {s \in sessions :
                                s.account # r.actor \/ s.generation # r.generation}}
    [] OTHER              -> {sessions}

-----------------------------------------------------------------------------
(* A request opens its transaction.  A login has read the account and      *)
(* proven its password before, a password change and a logout come with a  *)
(* session, and a password change has proven the password, too.            *)
Opened(kind, actor, target, generation, password) ==
  [kind |-> kind, actor |-> actor, target |-> target, locks |-> 0, step |-> "open",
   generation |-> generation, password |-> password]

Begin(t, r) ==
  /\ tx[t].step = "idle"
  /\ r.kind \in Ending => changes > 0
  /\ changes' = IF r.kind \in Ending THEN changes - 1 ELSE changes
  /\ tx' = [tx EXCEPT ![t] = r]
  /\ UNCHANGED <<account, sessions>>

BeginCommand(t) ==
  \E kind \in Command, a, b \in Account : Begin(t, Opened(kind, a, b, 0, 0))
BeginWork(t) ==
  \E kind \in Worker, a \in Account :
    /\ account[a].stage = (IF kind = "claim" THEN "queued" ELSE "claimed")
    /\ Begin(t, Opened(kind, a, a, 0, 0))
BeginUse(t) == \E a \in Account : Begin(t, Opened("use", a, a, 0, 0))
BeginLogin(t) ==
  \E a \in Account : /\ account[a].enabled
                     /\ Begin(t, Opened("login", a, a, 0, account[a].password))
BeginOwn(t) ==
  \E s \in sessions, kind \in {"change", "logout"} :
    Begin(t, Opened(kind, s.account, s.account, s.generation,
                    IF kind = "change" THEN account[s.account].password ELSE 0))

TakeLock(t) ==
  /\ Waiting(t)
  /\ \A u \in Tx : ~BlockedBy(t, u)
  /\ tx' = [tx EXCEPT ![t].locks = @ + 1]
  /\ UNCHANGED <<account, sessions, changes>>

Decide(t) ==
  /\ tx[t].step = "open"
  /\ ~Waiting(t)
  /\ tx' = [tx EXCEPT ![t] = IF Permits(@) THEN [@ EXCEPT !.step = "decided"] ELSE Idle]
  /\ UNCHANGED <<account, sessions, changes>>

Commit(t) ==
  /\ tx[t].step = "decided"
  /\ account' = [account EXCEPT ![tx[t].target] = Written(tx[t])]
  /\ sessions' \in Left(tx[t])
  /\ tx' = [tx EXCEPT ![t] = Idle]
  /\ UNCHANGED changes

Abort(t) ==
  /\ tx[t].step # "idle"
  /\ tx' = [tx EXCEPT ![t] = Idle]
  /\ UNCHANGED <<account, sessions, changes>>

(* `RecoverAdmin`, with every server stopped: a new password, enabled, and *)
(* the administrator role, unless the account is blocked by a deletion.    *)
Recovered(b) ==
  [b EXCEPT !.enabled = TRUE, !.admin = TRUE, !.password = @ + 1, !.generation = @ + 1]
Recover(a) ==
  /\ \A t \in Tx : tx[t].step = "idle"
  /\ account[a].stage = "none"
  /\ changes > 0
  /\ changes' = changes - 1
  /\ account' = [account EXCEPT ![a] = Recovered(@)]
  /\ sessions' = OthersOf(a)
  /\ tx' = tx

Next ==
  \/ \E t \in Tx : BeginCommand(t)
  \/ \E t \in Tx : BeginWork(t)
  \/ \E t \in Tx : BeginUse(t)
  \/ \E t \in Tx : BeginLogin(t)
  \/ \E t \in Tx : BeginOwn(t)
  \/ \E t \in Tx : TakeLock(t)
  \/ \E t \in Tx : Decide(t)
  \/ \E t \in Tx : Commit(t)
  \/ \E t \in Tx : Abort(t)
  \/ \E a \in Account : Recover(a)

Spec == Init /\ [][Next]_vars

-----------------------------------------------------------------------------
(* An account whose deletion was requested is disabled until it is over. *)
AccountsTypeOK ==
  /\ account \in [Account -> AccountState]
  /\ \A a \in Account : account[a].stage # "none" => ~account[a].enabled
  /\ sessions \subseteq Session
  /\ tx \in [Tx -> TxState]
  /\ changes \in 0 .. MaxChanges

(* The installation never loses its last administrator: whatever            *)
(* administrators disable, demote or delete at the same time, also          *)
(* themselves and one another, one of them stays enabled.                   *)
AdministratorRemains == Administrators # {}

(* What a transaction decided under its locks is still so when it commits:  *)
(* the actor still has the right, the account is still in the state, the    *)
(* password still the one that was proven.  A revoked right is not used     *)
(* once more.                                                               *)
DecisionsStand == \A t \in Tx : tx[t].step = "decided" => Permits(tx[t])

(* Revocation leaves nothing behind: an active session belongs to an        *)
(* enabled account, to its current generation, and was opened with the      *)
(* password the account has now.                                            *)
SessionsAreCurrent ==
  \A s \in sessions :
    LET a == account[s.account] IN
    a.enabled /\ a.generation = s.generation /\ a.password = s.password

(* "必须在授权读取之前获取，保持 PostgreSQL 的锁顺序一致" (admin_invariant.go:12): *)
(* the lock order is consistent, no two transactions wait for each other.   *)
LockOrderConsistent == \A t, u \in Tx : ~(BlockedBy(t, u) /\ BlockedBy(u, t))
=============================================================================
