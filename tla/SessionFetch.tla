---------------------------- MODULE SessionFetch ----------------------------
(***************************************************************************)
(* The tabs of one browser and the session they share                      *)
(* (frontend/packages/adapters/browser/src/session-fetch.ts).              *)
(*                                                                         *)
(* Every tab keeps the CSRF token of the session in memory, the cookie jar *)
(* is shared.  A tab learns the token from the answers of login and        *)
(* current, drops it when an answer says the session is over, and tells    *)
(* the other tabs over a BroadcastChannel.  While its user is active a tab *)
(* keeps the session alive with heartbeats and renewals; a lease in        *)
(* localStorage keeps two tabs from doing so at the same time.             *)
(*                                                                         *)
(* A request is three steps: it leaves with the cookie and the token of    *)
(* that moment, the server handles it, and its answer is handled by the    *)
(* tab; requests overtake one another.  The server (iam/session) is        *)
(* reduced to the set of live sessions: a session is named by the number   *)
(* of its login, and its token by the same number, because the token of a  *)
(* session never changes (service.go: create, renew).                      *)
(*                                                                         *)
(* Time is relative: ages grow to the interval they are compared with and  *)
(* timers run down, so that the model has no horizon.  A timer may fire    *)
(* late, never early.  Two requests that are alike in everything the model *)
(* tells apart are one request.                                            *)
(***************************************************************************)
EXTENDS Integers, Sequences, FiniteSets

CONSTANTS Tab,                \* the tabs that are open at the start
          SharedStorage,      \* whether localStorage can be used
          HeartbeatInterval,  \* heartbeatIntervalMs
          RenewInterval,      \* renewIntervalMs
          ActiveWindow,       \* activeWindowMs
          LeaderLease,        \* leaderLeaseMs
          MaxLogins,          \* bound: sessions issued
          MaxRequests,        \* bound: requests users start
          MaxFaults           \* bound: lost answers, revocations, dead tabs

ASSUME TabsAreNotNumbers == 0 \notin Tab
ASSUME StorageIsBoolean == SharedStorage \in BOOLEAN
ASSUME IntervalsArePositive ==
  {HeartbeatInterval, RenewInterval, ActiveWindow, LeaderLease} \subseteq Nat \ {0}
ASSUME BoundsAreNumbers == {MaxLogins, MaxRequests, MaxFaults} \subseteq Nat

Unset   == -1      \* an instant that was never set, or a timer that is not armed
Nobody  == 0       \* the owner of a lease nobody holds
NoToken == 0       \* no session, no token

VARIABLES tab,       \* tab[t]: what createBrowserSessionFetch keeps in tab t
          flight,    \* the requests and answers under way
          inbox,     \* inbox[t]: messages of the channel on their way to tab t
          lease,     \* the leader lease in localStorage
          open,      \* the tabs that are still there
          cookie,    \* the session of the browser's cookie
          live,      \* server: the sessions that are active
          issued,    \* server: sessions issued so far
          requests,  \* requests users may still start
          faults,    \* faults that may still happen
          kept       \* history: tabs that have kept their lease since they last
                     \* sent maintenance (used by OneWriter only)

tabVars    == <<tab, inbox, lease, open, kept>>
serverVars == <<live, issued>>
vars == <<tab, flight, inbox, lease, open, cookie, live, issued, requests, faults, kept>>

Token       == 0 .. MaxLogins
Ending      == {"logout", "password"}
Facts       == {"login", "current"}
Safe        == {"current", "read", "verify"}
Maintenance == {"heartbeat", "renew"}
UserKind    == Facts \cup Ending \cup {"read", "write"}
Status      == {"sent", "ok", "unauthenticated", "rejected", "unavailable", "failed"}

(* `fallbackFactor`: without storage there is no lease, and twice the interval. *)
Factor         == IF SharedStorage THEN 1 ELSE 2
HeartbeatAfter == HeartbeatInterval * Factor
RenewAfter     == RenewInterval * Factor
Lesser(a, b)   == IF a < b THEN a ELSE b
Greater(a, b)  == IF a > b THEN a ELSE b

TabState == [csrf      : Token,                          \* `csrf`
             active    : Unset .. ActiveWindow + 1,      \* age of `lastActivityAt`
             heartbeat : Unset .. HeartbeatAfter,        \* age of `lastHeartbeatAt`
             renew     : Unset .. RenewAfter,            \* age of `lastRenewAt`
             timer     : Unset .. Greater(Lesser(HeartbeatAfter, RenewAfter), LeaderLease),
             sent      : Unset .. Greater(Greater(HeartbeatAfter, RenewAfter), LeaderLease)]
                                                         \* age of the maintenance under way
Request == [tab : Tab, kind : UserKind \cup Maintenance \cup {"verify"},
            session : Token,    \* of the cookie it carries; a served login's new session
            csrf : Token, status : Status]
Lease == [owner : Tab \cup {Nobody}, left : 0 .. LeaderLease]

Free  == [owner |-> Nobody, left |-> 0]
Fresh == [csrf |-> NoToken, active |-> Unset, heartbeat |-> Unset, renew |-> Unset,
          timer |-> Unset, sent |-> Unset]

Init ==
  /\ tab = [t \in Tab |-> Fresh]
  /\ flight = {}
  /\ inbox = [t \in Tab |-> <<>>]
  /\ lease = Free
  /\ open = Tab
  /\ cookie = NoToken
  /\ live = {}
  /\ issued = 0
  /\ requests = MaxRequests
  /\ faults = MaxFaults
  /\ kept = {}

-----------------------------------------------------------------------------
(* What the handlers are made of. *)

(* `schedule`: one timer, at the earlier of the two due times. *)
Scheduled(b) ==
  [b EXCEPT !.timer =
     IF b.csrf = NoToken \/ b.active = Unset THEN Unset
     ELSE Greater(0, Lesser(HeartbeatAfter - b.heartbeat, RenewAfter - b.renew))]

(* The fields `clearSession` resets; a maintenance under way goes on. *)
Cleared(b) == [Fresh EXCEPT !.sent = b.sent]

(* A session fact was learned: activity, and `||=` on the two instants. *)
Learned(b, token) ==
  [b EXCEPT !.csrf = token, !.active = 0,
            !.heartbeat = IF @ = Unset THEN 0 ELSE @,
            !.renew     = IF @ = Unset THEN 0 ELSE @]

(* Maintenance of a kind that started `sent` ago is over. *)
Noted(b, kind, sent) ==
  IF kind = "renew" THEN [b EXCEPT !.renew = Lesser(sent, RenewAfter)]
  ELSE [b EXCEPT !.heartbeat = Lesser(sent, HeartbeatAfter)]

(* Another tab leads: try again when its lease is over. *)
GivenUp(b) == b                     \* mutant: leaves it to the leader
Deferred(b) == [b EXCEPT !.timer = LeaderLease]

(* `publish`: to every other open tab; the version and the time bucket of a *)
(* message are read by nobody.                                              *)
Published(t, type) ==
  [u \in Tab |-> IF u \in open \ {t} THEN Append(inbox[u], type) ELSE inbox[u]]

(* `releaseLeadership` *)
Released(t) == IF lease.owner = t THEN Free ELSE lease

(* `clearSession(notify)` *)
ClearSession(t, notify) ==
  /\ tab' = [tab EXCEPT ![t] = Cleared(@)]
  /\ lease' = Released(t)
  /\ inbox' = IF notify THEN Published(t, "invalidated") ELSE inbox
  /\ kept' = kept \ {t}

Leave(t) == /\ lease' = lease
            /\ inbox' = inbox
            /\ kept' = kept

Running(t) == \E r \in flight : r.tab = t /\ r.kind \in Maintenance

Sent(t, kind) ==
  [tab |-> t, kind |-> kind, session |-> cookie,
   csrf |-> IF kind \in Safe THEN NoToken ELSE tab[t].csrf, status |-> "sent"]

-----------------------------------------------------------------------------
(* A page of tab t calls the shared fetch.  Bound: one request of a kind at *)
(* a time in a tab.                                                         *)
Send(t, kind) ==
  /\ t \in open
  /\ requests > 0
  /\ \A r \in flight : ~(r.tab = t /\ r.kind = kind)
  /\ flight' = flight \cup {Sent(t, kind)}
  /\ requests' = requests - 1
  /\ UNCHANGED <<tabVars, cookie, serverVars, faults>>

(* The server handles a request of the IAM API. *)
Outcome(r) ==
  IF r.kind = "login" THEN {"ok", "unauthenticated"}
  ELSE IF r.session \notin live THEN {"unauthenticated"}
  ELSE IF r.kind \in Safe \/ r.csrf = r.session THEN {"ok"}
  ELSE {"rejected"}

Serve(r) ==
  /\ r \in flight
  /\ r.status = "sent"
  /\ \E status \in Outcome(r) :
       LET newSession == status = "ok" /\ r.kind = "login" IN
       /\ newSession => issued < MaxLogins
       /\ issued' = IF newSession THEN issued + 1 ELSE issued
       /\ live' = CASE newSession -> live \cup {issued + 1}
                    [] status = "ok" /\ r.kind = "logout"   -> live \ {r.session}
                    [] status = "ok" /\ r.kind = "password" -> {}
                    [] OTHER -> live
       /\ flight' = (flight \ {r}) \cup
            {[r EXCEPT !.status = status,
                       !.session = IF newSession THEN issued + 1 ELSE @]}
  /\ UNCHANGED <<tabVars, cookie, requests, faults>>

(* The server answers 5xx or 429, or the connection breaks before or after *)
(* the request was handled.                                                *)
Fail(r) ==
  /\ r \in flight
  /\ faults > 0
  /\ \E status \in {"unavailable", "failed"} :
       /\ status = "unavailable" => r.status = "sent"
       /\ r.status # status
       /\ flight' = (flight \ {r}) \cup {[r EXCEPT !.status = status]}
  /\ faults' = faults - 1
  /\ UNCHANGED <<tabVars, cookie, serverVars, requests>>

(* An administrator, or its age, ends a session (iam: RevokeAccount, expiry). *)
Revoke(s) ==
  /\ s \in live
  /\ faults > 0
  /\ live' = live \ {s}
  /\ faults' = faults - 1
  /\ UNCHANGED <<tabVars, flight, cookie, issued, requests>>

-----------------------------------------------------------------------------
(* The browser takes an answer off the wire: Set-Cookie, if there is one.  *)
Taken(r) ==
  /\ r \in flight
  /\ r.status # "sent"
  /\ r.tab \in open
  /\ flight' = flight \ {r}
  /\ cookie' = CASE r.status = "ok" /\ r.kind = "login"  -> r.session
                 [] r.status = "ok" /\ r.kind \in Ending -> NoToken
                 [] OTHER -> cookie
  /\ UNCHANGED <<open, serverVars, requests, faults>>

(* The shared fetch handles the answer of a user's request. *)
Answer(r) ==
  LET t == r.tab  b == tab[t] IN
  /\ r.kind \in UserKind
  /\ Taken(r)
  /\ \/ /\ r.status \in {"unauthenticated", "rejected"}
        /\ ClearSession(t, TRUE)
     \/ /\ r.status = "ok" /\ r.kind \in Ending
        /\ ClearSession(t, TRUE)
     \/ /\ r.status = "ok" /\ r.kind \in Facts
        /\ tab' = [tab EXCEPT ![t] = Scheduled(Learned(b, r.session))]
        /\ inbox' = IF b.csrf # r.session THEN Published(t, "changed") ELSE inbox
        /\ UNCHANGED <<lease, kept>>
     \/ /\ r.status = "ok" /\ r.kind \in {"read", "write"}
        /\ tab' = IF b.csrf = NoToken THEN tab
                  ELSE [tab EXCEPT ![t] = Scheduled([b EXCEPT !.active = 0])]
        /\ Leave(t)
     \/ /\ r.status \in {"unavailable", "failed"}
        /\ tab' = tab
        /\ Leave(t)

(* `maintain` after its await.  The token it compares with is the one the  *)
(* tab holds now; the instant it notes is the one it started at.           *)
AnswerMaintenance(r) ==
  LET t == r.tab
      b == [tab[t] EXCEPT !.sent = Unset]
  IN
  /\ r.kind \in Maintenance
  /\ Taken(r)
  /\ IF \/ r.status \in {"unauthenticated", "rejected"}
        \/ r.status = "ok" /\ r.session # b.csrf
     THEN /\ tab' = [tab EXCEPT ![t] = Cleared(b)]
          /\ lease' = Released(t)
          /\ inbox' = Published(t, "invalidated")
          /\ kept' = kept \ {t}
     ELSE /\ tab' = [tab EXCEPT ![t] = Scheduled(Noted(b, r.kind, tab[t].sent))]
          /\ Leave(t)

(* `refreshFromServer` after its await. *)
AnswerVerify(r) ==
  LET t == r.tab IN
  /\ r.kind = "verify"
  /\ Taken(r)
  /\ \/ /\ r.status \in {"unauthenticated", "unavailable"}
        /\ ClearSession(t, FALSE)
     \/ /\ r.status = "ok"
        /\ tab' = [tab EXCEPT ![t] = Scheduled(IF @.csrf = r.session THEN @
                                               ELSE Learned(@, r.session))]
        /\ Leave(t)
     \/ /\ r.status = "failed"
        /\ tab' = tab
        /\ Leave(t)

(* `onMessage` *)
TakenOn(t) ==                       \* mutant: clearSession(true), told on
  [u \in Tab |-> IF u = t THEN Tail(inbox[t])
                 ELSE IF u \in open /\ Head(inbox[t]) = "invalidated"
                      THEN Append(inbox[u], "invalidated") ELSE inbox[u]]
TakenOff(t) == [inbox EXCEPT ![t] = Tail(@)]

Receive(t) ==
  /\ t \in open
  /\ inbox[t] # <<>>
  /\ IF Head(inbox[t]) = "invalidated"
     THEN /\ tab' = [tab EXCEPT ![t] = Cleared(@)]
          /\ lease' = Released(t)
          /\ kept' = kept \ {t}
          /\ flight' = flight
     ELSE /\ flight' = flight \cup {Sent(t, "verify")}
          /\ UNCHANGED <<tab, lease, kept>>
  /\ inbox' = TakenOff(t)
  /\ UNCHANGED <<open, cookie, serverVars, requests, faults>>

-----------------------------------------------------------------------------
(* `claimLeadership` *)
MayLeadUnseen(t) == t \in Tab       \* mutant: overwrites the lease of another
MayLead(t) == ~SharedStorage \/ lease.owner \in {Nobody, t}

(* The timer of tab t fires: `maintain` up to its await. *)
Maintain(t) ==
  LET b   == [tab[t] EXCEPT !.timer = Unset]
      due == IF b.renew >= RenewAfter THEN {"renew"}
             ELSE IF b.heartbeat >= HeartbeatAfter THEN {"heartbeat"} ELSE {}
  IN
  /\ t \in open
  /\ tab[t].timer = 0
  /\ IF Running(t) \/ b.csrf = NoToken \/ b.active > ActiveWindow
     THEN /\ tab' = [tab EXCEPT ![t] = b]
          /\ UNCHANGED <<flight, lease, kept>>
     ELSE IF ~MayLead(t)
     THEN /\ tab' = [tab EXCEPT ![t] = Deferred(b)]
          /\ UNCHANGED <<flight, lease, kept>>
     ELSE /\ lease' = IF SharedStorage THEN [owner |-> t, left |-> LeaderLease] ELSE lease
          /\ flight' = flight \cup {Sent(t, kind) : kind \in due}
          /\ tab' = [tab EXCEPT ![t] = IF due = {} THEN Scheduled(b)
                                       ELSE [b EXCEPT !.sent = 0]]
          /\ kept' = kept \cup {t}
  /\ UNCHANGED <<inbox, open, cookie, serverVars, requests, faults>>

(* `close`: the tab is left in good order.  What it had sent is still      *)
(* handled; the answers reach nobody.                                      *)
Close(t) ==
  /\ t \in open
  /\ faults > 0
  /\ faults' = faults - 1
  /\ open' = open \ {t}
  /\ tab' = [tab EXCEPT ![t] = Fresh]
  /\ inbox' = [inbox EXCEPT ![t] = <<>>]
  /\ \E orderly \in BOOLEAN : lease' = IF orderly THEN Released(t) ELSE lease
  /\ kept' = kept \ {t}
  /\ flight' = {r \in flight : r.tab # t \/ r.status = "sent"}
  /\ UNCHANGED <<cookie, serverVars, requests>>

Tick ==
  LET Older(age, cap) == IF age = Unset THEN Unset ELSE Lesser(age + 1, cap) IN
  /\ tab' = [t \in Tab |->
       [tab[t] EXCEPT !.active    = Older(@, ActiveWindow + 1),
                      !.heartbeat = Older(@, HeartbeatAfter),
                      !.renew     = Older(@, RenewAfter),
                      !.sent      = Older(@, Greater(Greater(HeartbeatAfter, RenewAfter), LeaderLease)),
                      !.timer     = IF @ > 0 THEN @ - 1 ELSE @]]
  /\ lease' = IF lease.left > 1 THEN [lease EXCEPT !.left = @ - 1] ELSE Free
  /\ UNCHANGED <<flight, inbox, open, cookie, serverVars, requests, faults, kept>>

Handle(r) == Answer(r) \/ AnswerMaintenance(r) \/ AnswerVerify(r)

Next ==
  \/ \E t \in Tab : \E kind \in UserKind : Send(t, kind)
  \/ \E r \in flight : Serve(r) \/ Fail(r)
  \/ \E r \in flight : Answer(r)
  \/ \E r \in flight : AnswerMaintenance(r)
  \/ \E r \in flight : AnswerVerify(r)
  \/ \E s \in live : Revoke(s)
  \/ \E t \in Tab : Receive(t)
  \/ \E t \in Tab : Maintain(t)
  \/ \E t \in Tab : Close(t)
  \/ Tick

Spec == Init /\ [][Next]_vars

(* Requests are served or fail, answers and messages arrive, time passes    *)
(* and timers fire.  Nothing makes a user act, a session end or a tab close. *)
Fairness ==
  /\ WF_vars(Tick)
  /\ WF_vars(\E r \in flight : Serve(r))
  /\ WF_vars(\E r \in flight : Handle(r))
  /\ WF_vars(\E t \in Tab : Receive(t))
  /\ WF_vars(\E t \in Tab : Maintain(t))

FairSpec == Spec /\ Fairness

-----------------------------------------------------------------------------
(* Every variable has its type. *)
SessionFetchTypeOK ==
  /\ tab \in [Tab -> TabState]
  /\ flight \subseteq Request
  /\ inbox \in [Tab -> Seq({"changed", "invalidated"})]
  /\ lease \in Lease
  /\ open \subseteq Tab
  /\ cookie \in Token
  /\ issued \in Token
  /\ live \subseteq Token \ {NoToken}
  /\ requests \in 0 .. MaxRequests
  /\ faults \in 0 .. MaxFaults
  /\ kept \subseteq open

(* Within one leader lease only one tab of the browser sends a heartbeat or *)
(* a renewal: two tabs that kept their session since they sent theirs did   *)
(* not both send it less than a lease ago.                                  *)
OneWriter ==
  SharedStorage =>
    \A t, u \in kept : t # u /\ Running(t) /\ Running(u) =>
      tab[t].sent >= LeaderLease \/ tab[u].sent >= LeaderLease

(* An active user's session never goes without a keeper: while a tab holds *)
(* a token and its user was active within the window, either its timer is  *)
(* armed or its maintenance is under way, whatever answers, messages and   *)
(* lost leaderships came in between.  A tab without a token keeps no timer.*)
MaintenanceNeverLost ==
  \A t \in open :
    /\ tab[t].csrf # NoToken /\ tab[t].active <= ActiveWindow =>
         tab[t].timer # Unset \/ Running(t)
    /\ tab[t].csrf = NoToken => tab[t].timer = Unset

(* The tabs do not keep one another awake: once the users stop, no          *)
(* heartbeat, renewal or message goes round the browser any more, so that a *)
(* session nobody uses can expire.                                          *)
IdleBrowserFallsSilent ==
  <>[](\A t \in open : ~Running(t) /\ inbox[t] = <<>>)
=============================================================================
