------------------------- MODULE SessionFetchProofs -------------------------
(***************************************************************************)
(* Proofs about the tabs of one browser, for any tabs, intervals, lease    *)
(* and number of requests and faults.                                      *)
(*                                                                         *)
(* A tab's timer may be forgotten only while its maintenance is under way, *)
(* so the answer must find what the tab needs to arm it again: a tab has   *)
(* one maintenance under way at most, knows when it sent it, and with a    *)
(* token has all three instants (Known).  That two tabs do not write within *)
(* one lease rests on LeaseCovers: the lease of a tab that sent maintenance *)
(* and kept its session lasts at least until that is a lease old.          *)
(***************************************************************************)
EXTENDS SessionFetch, TLAPS

OneMaintenance ==
  \A r, s \in flight :
    /\ r.kind \in Maintenance /\ s.kind \in Maintenance
    /\ r.tab = s.tab /\ r.tab \in open
    => r = s

SentWhileRunning == \A t \in open : Running(t) => tab[t].sent # Unset

\* A tab with a token knows all three instants; one without has no timer.
Known(b) ==
  /\ b.csrf # NoToken => b.active # Unset /\ b.heartbeat # Unset /\ b.renew # Unset
  /\ b.csrf = NoToken => b.timer = Unset
TabsKnown == \A t \in Tab : Known(tab[t])

\* An answer that is fine is about a session.
AnswersName == \A r \in flight : r.status = "ok" => r.session # NoToken

LeaseCovers ==
  SharedStorage =>
    \A t \in kept : Running(t) /\ tab[t].sent < LeaderLease =>
       lease.owner = t /\ lease.left + tab[t].sent >= LeaderLease

IInv ==
  /\ SessionFetchTypeOK
  /\ OneMaintenance
  /\ SentWhileRunning
  /\ TabsKnown
  /\ AnswersName
  /\ LeaseCovers
  /\ MaintenanceNeverLost

-----------------------------------------------------------------------------
(* The intervals a tab works with. *)
LEMMA Intervals ==
  /\ HeartbeatInterval \in Nat \ {0} /\ RenewInterval \in Nat \ {0}
  /\ ActiveWindow \in Nat \ {0} /\ LeaderLease \in Nat \ {0}
  /\ HeartbeatAfter \in Nat \ {0} /\ RenewAfter \in Nat \ {0}
  BY IntervalsArePositive, StorageIsBoolean DEF HeartbeatAfter, RenewAfter, Factor

(* Where the timer of a tab may stand. *)
TimerEnd == Greater(Lesser(HeartbeatAfter, RenewAfter), LeaderLease)
SentEnd  == Greater(Greater(HeartbeatAfter, RenewAfter), LeaderLease)

LEMMA Ends ==
  /\ TimerEnd \in Nat /\ SentEnd \in Nat
  /\ LeaderLease <= TimerEnd /\ LeaderLease <= SentEnd
  /\ \/ HeartbeatAfter <= TimerEnd
     \/ RenewAfter <= TimerEnd
  /\ HeartbeatAfter <= SentEnd /\ RenewAfter <= SentEnd
  BY Intervals DEF TimerEnd, SentEnd, Greater, Lesser

LEMMA TabFields ==
  TabState = [csrf : Token, active : Unset .. ActiveWindow + 1,
              heartbeat : Unset .. HeartbeatAfter, renew : Unset .. RenewAfter,
              timer : Unset .. TimerEnd, sent : Unset .. SentEnd]
  BY DEF TabState, TimerEnd, SentEnd

LEMMA FreshIsKnown == Fresh \in TabState /\ Known(Fresh)
  BY TabFields, Intervals, Ends, BoundsAreNumbers
  DEF Fresh, Known, Token, NoToken, Unset

LEMMA ClearedIsKnown ==
  ASSUME NEW b \in TabState
  PROVE  /\ Cleared(b) \in TabState /\ Known(Cleared(b))
         /\ Cleared(b).csrf = NoToken /\ Cleared(b).sent = b.sent
  BY TabFields, Intervals, Ends, BoundsAreNumbers
  DEF Cleared, Fresh, Known, Token, NoToken, Unset

(* `schedule` arms the timer exactly when the tab holds a token. *)
LEMMA ScheduledArms ==
  ASSUME NEW b \in TabState,
         b.csrf # NoToken => b.active # Unset /\ b.heartbeat # Unset /\ b.renew # Unset
  PROVE  /\ Scheduled(b) \in TabState /\ Known(Scheduled(b))
         /\ Scheduled(b).csrf = b.csrf /\ Scheduled(b).sent = b.sent
         /\ Scheduled(b).csrf # NoToken => Scheduled(b).timer # Unset
  <1> DEFINE due == IF b.csrf = NoToken \/ b.active = Unset THEN Unset
                    ELSE Greater(0, Lesser(HeartbeatAfter - b.heartbeat, RenewAfter - b.renew))
  <1>1. Scheduled(b) = [b EXCEPT !.timer = due]
    BY DEF Scheduled
  <1>2. /\ b.active \in Int /\ b.heartbeat \in Unset .. HeartbeatAfter
        /\ b.renew \in Unset .. RenewAfter
    BY TabFields, Intervals DEF Unset
  <1>3. due \in Unset .. TimerEnd
    BY <1>2, Intervals, Ends DEF Unset, Greater, Lesser
  <1>4. b.csrf # NoToken => due # Unset
    BY <1>2, Intervals DEF Unset, Greater, Lesser
  <1>5. b.csrf = NoToken => due = Unset
    OBVIOUS
  <1> HIDE DEF due
  <1> QED
    BY <1>1, <1>3, <1>4, <1>5, TabFields DEF Known

LEMMA LearnedIsTyped ==
  ASSUME NEW b \in TabState, NEW token \in Token
  PROVE  /\ Learned(b, token) \in TabState
         /\ Learned(b, token).csrf = token /\ Learned(b, token).sent = b.sent
         /\ Learned(b, token).active # Unset
         /\ Learned(b, token).heartbeat # Unset /\ Learned(b, token).renew # Unset
  <1> DEFINE heartbeat == IF b.heartbeat = Unset THEN 0 ELSE b.heartbeat
             renew     == IF b.renew = Unset THEN 0 ELSE b.renew
  <1>1. Learned(b, token) = [b EXCEPT !.csrf = token, !.active = 0,
                                      !.heartbeat = heartbeat, !.renew = renew]
    BY DEF Learned
  <1>2. heartbeat \in 0 .. HeartbeatAfter /\ renew \in 0 .. RenewAfter
    BY TabFields, Intervals DEF Unset
  <1>3. /\ heartbeat # Unset /\ renew # Unset /\ 0 # Unset
        /\ heartbeat \in Unset .. HeartbeatAfter /\ renew \in Unset .. RenewAfter
        /\ 0 \in Unset .. ActiveWindow + 1
    BY <1>2, Intervals DEF Unset
  <1> HIDE DEF heartbeat, renew
  <1> QED
    BY <1>1, <1>3, TabFields

LEMMA NotedIsTyped ==
  ASSUME NEW b \in TabState, NEW kind, NEW sent \in 0 .. SentEnd
  PROVE  /\ Noted(b, kind, sent) \in TabState
         /\ Noted(b, kind, sent).csrf = b.csrf /\ Noted(b, kind, sent).sent = b.sent
         /\ Noted(b, kind, sent).active = b.active
         /\ Noted(b, kind, sent).heartbeat \in {b.heartbeat} \cup Nat
         /\ Noted(b, kind, sent).renew \in {b.renew} \cup Nat
  <1>1. Lesser(sent, RenewAfter) \in 0 .. RenewAfter
    BY Intervals, Ends DEF Lesser
  <1>2. Lesser(sent, HeartbeatAfter) \in 0 .. HeartbeatAfter
    BY Intervals, Ends DEF Lesser
  <1>3. CASE kind = "renew"
    <2>1. Noted(b, kind, sent) = [b EXCEPT !.renew = Lesser(sent, RenewAfter)]
      BY <1>3 DEF Noted
    <2>2. Lesser(sent, RenewAfter) \in Nat /\ Lesser(sent, RenewAfter) \in Unset .. RenewAfter
      BY <1>1, Intervals DEF Unset
    <2> QED
      BY <2>1, <2>2, TabFields
  <1>4. CASE kind # "renew"
    <2>1. Noted(b, kind, sent) = [b EXCEPT !.heartbeat = Lesser(sent, HeartbeatAfter)]
      BY <1>4 DEF Noted
    <2>2. /\ Lesser(sent, HeartbeatAfter) \in Nat
          /\ Lesser(sent, HeartbeatAfter) \in Unset .. HeartbeatAfter
      BY <1>2, Intervals DEF Unset
    <2> QED
      BY <2>1, <2>2, TabFields
  <1> QED
    BY <1>3, <1>4

LEMMA PublishedIsTyped ==
  ASSUME SessionFetchTypeOK, NEW t, NEW type \in {"changed", "invalidated"}
  PROVE  Published(t, type) \in [Tab -> Seq({"changed", "invalidated"})]
  BY DEF SessionFetchTypeOK, Published

LEMMA SentIsTyped ==
  ASSUME SessionFetchTypeOK, NEW t \in Tab,
         NEW kind \in UserKind \cup Maintenance \cup {"verify"}
  PROVE  /\ Sent(t, kind) \in Request
         /\ Sent(t, kind).tab = t /\ Sent(t, kind).kind = kind /\ Sent(t, kind).status = "sent"
  <1>1. tab[t].csrf \in Token
    BY DEF SessionFetchTypeOK, TabState
  <1>2. NoToken \in Token
    BY BoundsAreNumbers DEF NoToken, Token
  <1> QED
    BY <1>1, <1>2 DEF SessionFetchTypeOK, Sent, Request, Status

LEMMA ReleasedIsTyped ==
  ASSUME SessionFetchTypeOK, NEW t \in Tab
  PROVE  Released(t) \in Lease
  BY Intervals DEF SessionFetchTypeOK, Released, Free, Lease

-----------------------------------------------------------------------------
LEMMA InitInv == Init => IInv
  <1> SUFFICES ASSUME Init PROVE IInv
    OBVIOUS
  <1>1. SessionFetchTypeOK
    <2>1. Free \in Lease
      BY Intervals DEF Free, Lease
    <2>2. NoToken \in Token
      BY BoundsAreNumbers DEF NoToken, Token
    <2> QED
      BY <2>1, <2>2, FreshIsKnown, BoundsAreNumbers DEF Init, SessionFetchTypeOK, NoToken
  <1>2. TabsKnown
    BY FreshIsKnown DEF Init, TabsKnown
  <1>3. MaintenanceNeverLost
    BY DEF Init, MaintenanceNeverLost, Fresh
  <1> QED
    BY <1>1, <1>2, <1>3
    DEF IInv, Init, OneMaintenance, SentWhileRunning, AnswersName, LeaseCovers, Running

(* What a tab keeps for itself may change in a handler: the answers it took *)
(* off the wire are gone, its lease is kept or given up, and the tab is as  *)
(* it should be, armed or with its maintenance still under way.             *)
LEMMA TabHandles ==
  ASSUME IInv, NEW t \in open, NEW b \in TabState, Known(b),
         NEW gone \in SUBSET {r \in flight : r.tab = t},
         tab' = [tab EXCEPT ![t] = b],
         flight' = flight \ gone,
         b.sent = tab[t].sent \/ \E r \in gone : r.kind \in Maintenance,
         b.csrf # NoToken /\ b.active <= ActiveWindow => b.timer # Unset \/ Running(t)',
         inbox' \in [Tab -> Seq({"changed", "invalidated"})],
         \/ lease' = lease /\ kept' = kept
         \/ lease' = Released(t) /\ kept' = kept \ {t},
         cookie' \in Token,
         UNCHANGED <<open, serverVars, requests, faults>>
  PROVE  IInv'
PROOF
  <1>1. t \in Tab
    BY DEF IInv, SessionFetchTypeOK
  <1>2. /\ \A u \in Tab \ {t} : Running(u)' <=> Running(u)
        /\ Running(t)' => Running(t)
    BY DEF Running
  <1>3. Running(t)' => b.sent = tab[t].sent
    BY DEF IInv, OneMaintenance, Running
  <1>4. /\ tab'[t] = b
        /\ \A u \in Tab \ {t} : tab'[u] = tab[u]
    BY <1>1 DEF IInv, SessionFetchTypeOK
  <1>5. SessionFetchTypeOK'
    BY <1>1, ReleasedIsTyped DEF IInv, SessionFetchTypeOK, serverVars
  <1>6. OneMaintenance'
    BY DEF IInv, OneMaintenance
  <1>7. SentWhileRunning'
    BY <1>1, <1>2, <1>3, <1>4 DEF IInv, SentWhileRunning, SessionFetchTypeOK
  <1>8. TabsKnown'
    BY <1>1, <1>4 DEF IInv, TabsKnown, Known
  <1>9. AnswersName'
    BY DEF IInv, AnswersName
  <1>10. LeaseCovers'
    <2> SUFFICES ASSUME SharedStorage, NEW u \in kept', Running(u)',
                        tab'[u].sent < LeaderLease
                 PROVE  lease'.owner = u /\ lease'.left + tab'[u].sent >= LeaderLease
      BY DEF LeaseCovers
    <2>1. u \in kept /\ u \in Tab
      BY DEF IInv, SessionFetchTypeOK
    <2>2. Running(u) /\ tab'[u].sent = tab[u].sent
      BY <1>2, <1>3, <1>4, <2>1
    <2>3. lease.owner = u /\ lease.left + tab[u].sent >= LeaderLease
      BY <2>1, <2>2 DEF IInv, LeaseCovers
    <2>4. lease' = lease
      BY <2>3 DEF Released
    <2> QED
      BY <2>2, <2>3, <2>4
  <1>11. MaintenanceNeverLost'
    BY <1>1, <1>2, <1>4 DEF IInv, MaintenanceNeverLost, Known, SessionFetchTypeOK
  <1> QED
    BY <1>5, <1>6, <1>7, <1>8, <1>9, <1>10, <1>11 DEF IInv

(* What may change in the requests under way without touching a tab: none   *)
(* that keeps a tab's session alive appears or is lost.                     *)
LEMMA WireChanges ==
  ASSUME IInv, NEW next \in SUBSET Request,
         flight' = next,
         \A t \in Tab : Running(t)' <=> Running(t),
         OneMaintenance', AnswersName',
         UNCHANGED <<tab, lease, open, kept>>,
         inbox' \in [Tab -> Seq({"changed", "invalidated"})],
         cookie' \in Token, issued' \in Token, live' \subseteq Token \ {NoToken},
         requests' \in 0 .. MaxRequests, faults' \in 0 .. MaxFaults
  PROVE  IInv'
PROOF
  <1>1. open \subseteq Tab /\ kept \subseteq Tab
    BY DEF IInv, SessionFetchTypeOK
  <1>2. SessionFetchTypeOK'
    BY DEF IInv, SessionFetchTypeOK
  <1>3. SentWhileRunning'
    BY <1>1 DEF IInv, SentWhileRunning
  <1>4. TabsKnown'
    BY DEF IInv, TabsKnown
  <1>5. LeaseCovers'
    BY <1>1 DEF IInv, LeaseCovers
  <1>6. MaintenanceNeverLost'
    BY <1>1 DEF IInv, MaintenanceNeverLost
  <1> QED
    BY <1>2, <1>3, <1>4, <1>5, <1>6 DEF IInv

-----------------------------------------------------------------------------
(* Every action preserves the invariant. *)
LEMMA SendInv == ASSUME IInv, NEW t \in Tab, NEW kind \in UserKind, Send(t, kind) PROVE IInv'
PROOF
  <1>1. /\ Sent(t, kind) \in Request
        /\ Sent(t, kind).tab = t /\ Sent(t, kind).kind = kind
        /\ Sent(t, kind).status = "sent"
    BY SentIsTyped DEF IInv
  <1>2. kind \notin Maintenance
    BY DEF UserKind, Maintenance, Facts, Ending
  <1>3. flight' = flight \cup {Sent(t, kind)} /\ flight' \in SUBSET Request
    BY <1>1 DEF Send, IInv, SessionFetchTypeOK
  <1>4. \A u \in Tab : Running(u)' <=> Running(u)
    BY <1>1, <1>2, <1>3 DEF Running
  <1>5. OneMaintenance' /\ AnswersName'
    BY <1>1, <1>2, <1>3 DEF IInv, OneMaintenance, AnswersName, Send, tabVars
  <1>6. requests' \in 0 .. MaxRequests
    BY BoundsAreNumbers DEF Send, IInv, SessionFetchTypeOK
  <1> QED
    BY <1>3, <1>4, <1>5, <1>6, WireChanges
    DEF Send, IInv, SessionFetchTypeOK, tabVars, serverVars

(* A request that is handled stays a request of its tab and its kind. *)
LEMMA Rewritten ==
  ASSUME IInv, NEW r \in flight, NEW q \in Request, q.tab = r.tab, q.kind = r.kind,
         q.status = "ok" => q.session # NoToken,
         flight' = (flight \ {r}) \cup {q}, open' = open
  PROVE  /\ flight' \in SUBSET Request
         /\ \A t \in Tab : Running(t)' <=> Running(t)
         /\ OneMaintenance' /\ AnswersName'
  <1>1. flight' \in SUBSET Request
    BY DEF IInv, SessionFetchTypeOK
  <1>2. \A t \in Tab : Running(t)' <=> Running(t)
    BY DEF Running
  <1>3. OneMaintenance'
    BY DEF IInv, OneMaintenance
  <1>4. AnswersName'
    BY DEF IInv, AnswersName
  <1> QED
    BY <1>1, <1>2, <1>3, <1>4

LEMMA ServeInv == ASSUME IInv, NEW r \in flight, Serve(r) PROVE IInv'
PROOF
  <1> DEFINE newSession(status) == status = "ok" /\ r.kind = "login"
  <1>1. PICK status \in Outcome(r) :
          /\ newSession(status) => issued < MaxLogins
          /\ issued' = IF newSession(status) THEN issued + 1 ELSE issued
          /\ live' = CASE newSession(status) -> live \cup {issued + 1}
                       [] status = "ok" /\ r.kind = "logout"   -> live \ {r.session}
                       [] status = "ok" /\ r.kind = "password" -> {}
                       [] OTHER -> live
          /\ flight' = (flight \ {r}) \cup
               {[r EXCEPT !.status = status,
                          !.session = IF newSession(status) THEN issued + 1 ELSE @]}
    BY DEF Serve
  <1> DEFINE q == [r EXCEPT !.status = status,
                            !.session = IF newSession(status) THEN issued + 1 ELSE @]
  <1>2. r \in Request /\ issued \in Nat /\ issued <= MaxLogins /\ MaxLogins \in Nat
    BY BoundsAreNumbers DEF IInv, SessionFetchTypeOK, Token
  <1>3. status \in Status /\ (status = "ok" => r.kind = "login" \/ r.session \in live)
    BY <1>1 DEF Outcome, Status
  <1>4. newSession(status) => issued + 1 \in Token /\ issued + 1 # NoToken
    BY <1>1, <1>2 DEF Token, NoToken
  <1>5. q \in Request /\ q.tab = r.tab /\ q.kind = r.kind
    BY <1>2, <1>3, <1>4 DEF Request
  <1>6. q.status = "ok" => q.session # NoToken
    BY <1>2, <1>3, <1>4 DEF Request, IInv, SessionFetchTypeOK
  <1>7. issued' \in Token
    BY <1>1, <1>4 DEF IInv, SessionFetchTypeOK
  <1>8. live' \subseteq Token \ {NoToken}
    BY <1>1, <1>4 DEF IInv, SessionFetchTypeOK
  <1>9. /\ flight' = (flight \ {r}) \cup {q}
        /\ UNCHANGED <<tab, inbox, lease, open, kept, cookie, requests, faults>>
    BY <1>1 DEF Serve, tabVars
  <1> HIDE DEF q, newSession
  <1>10. /\ flight' \in SUBSET Request
         /\ \A t \in Tab : Running(t)' <=> Running(t)
         /\ OneMaintenance' /\ AnswersName'
    BY <1>5, <1>6, <1>9, Rewritten
  <1> QED
    BY <1>7, <1>8, <1>9, <1>10, WireChanges DEF IInv, SessionFetchTypeOK

LEMMA FailInv == ASSUME IInv, NEW r \in flight, Fail(r) PROVE IInv'
PROOF
  <1>1. PICK status \in {"unavailable", "failed"} :
          flight' = (flight \ {r}) \cup {[r EXCEPT !.status = status]}
    BY DEF Fail
  <1> DEFINE q == [r EXCEPT !.status = status]
  <1>2. q \in Request /\ q.tab = r.tab /\ q.kind = r.kind /\ q.status # "ok"
    BY DEF IInv, SessionFetchTypeOK, Request, Status
  <1>3. /\ flight' = (flight \ {r}) \cup {q}
        /\ UNCHANGED <<tab, inbox, lease, open, kept, cookie, live, issued, requests>>
    BY <1>1 DEF Fail, tabVars, serverVars
  <1> HIDE DEF q
  <1>4. /\ flight' \in SUBSET Request
        /\ \A t \in Tab : Running(t)' <=> Running(t)
        /\ OneMaintenance' /\ AnswersName'
    BY <1>2, <1>3, Rewritten
  <1>5. faults' \in 0 .. MaxFaults
    BY BoundsAreNumbers DEF Fail, IInv, SessionFetchTypeOK
  <1> QED
    BY <1>3, <1>4, <1>5, WireChanges DEF IInv, SessionFetchTypeOK

LEMMA RevokeInv == ASSUME IInv, NEW s \in live, Revoke(s) PROVE IInv'
PROOF
  <1>1. /\ UNCHANGED <<tab, inbox, lease, open, kept, flight, cookie, issued, requests>>
        /\ live' = live \ {s}
    BY DEF Revoke, tabVars
  <1>2. faults' \in 0 .. MaxFaults
    BY BoundsAreNumbers DEF Revoke, IInv, SessionFetchTypeOK
  <1>3. \A t \in Tab : Running(t)' <=> Running(t)
    BY <1>1 DEF Running
  <1>4. OneMaintenance' /\ AnswersName'
    BY <1>1 DEF IInv, OneMaintenance, AnswersName
  <1> QED
    BY <1>1, <1>2, <1>3, <1>4, WireChanges DEF IInv, SessionFetchTypeOK

(* What an answer that is taken off the wire does to the rest. *)
LEMMA TakenOffWire ==
  ASSUME IInv, NEW r \in flight, Taken(r)
  PROVE  /\ r.tab \in open /\ r.tab \in Tab /\ r \in Request
         /\ tab[r.tab] \in TabState /\ Known(tab[r.tab])
         /\ flight' = flight \ {r}
         /\ {r} \in SUBSET {q \in flight : q.tab = r.tab}
         /\ cookie' \in Token
         /\ UNCHANGED <<open, serverVars, requests, faults>>
         /\ r.kind \notin Maintenance => (Running(r.tab)' <=> Running(r.tab))
  <1>1. r \in Request /\ r.session \in Token /\ NoToken \in Token
    BY BoundsAreNumbers DEF IInv, SessionFetchTypeOK, Request, Token, NoToken
  <1>2. cookie' \in Token
    BY <1>1 DEF Taken, IInv, SessionFetchTypeOK
  <1> QED
    BY <1>1, <1>2 DEF Taken, IInv, SessionFetchTypeOK, TabsKnown, Running

LEMMA AnswerInv == ASSUME IInv, NEW r \in flight, Answer(r) PROVE IInv'
PROOF
  <1> DEFINE t == r.tab
  <1>1. Taken(r) /\ r.kind \in UserKind /\ r.kind \notin Maintenance
    BY DEF Answer, UserKind, Maintenance, Facts, Ending
  <1>2. /\ t \in open /\ t \in Tab /\ r \in Request
        /\ tab[t] \in TabState /\ Known(tab[t])
        /\ flight' = flight \ {r}
        /\ {r} \in SUBSET {q \in flight : q.tab = t}
        /\ cookie' \in Token
        /\ UNCHANGED <<open, serverVars, requests, faults>>
        /\ Running(t)' <=> Running(t)
    BY <1>1, TakenOffWire
  <1>3. SessionFetchTypeOK
    BY DEF IInv
  <1> DEFINE C(b) == /\ b \in TabState /\ Known(b) /\ b.sent = tab[t].sent
                     /\ b.csrf # NoToken /\ b.active <= ActiveWindow =>
                          b.timer # Unset \/ Running(t)
  <1>4. \A b : C(b) /\ tab' = [tab EXCEPT ![t] = b]
               /\ inbox' \in [Tab -> Seq({"changed", "invalidated"})]
               /\ (\/ lease' = lease /\ kept' = kept
                   \/ lease' = Released(t) /\ kept' = kept \ {t})
               => IInv'
    BY <1>2, TabHandles
  <1>5. CASE ClearSession(t, TRUE)
    <2>1. C(Cleared(tab[t]))
      BY <1>2, ClearedIsKnown
    <2>2. inbox' \in [Tab -> Seq({"changed", "invalidated"})]
      BY <1>3, <1>5, PublishedIsTyped DEF ClearSession
    <2> QED
      BY <1>4, <1>5, <2>1, <2>2 DEF ClearSession
  <1>6. CASE /\ r.status = "ok" /\ r.kind \in Facts
             /\ tab' = [tab EXCEPT ![t] = Scheduled(Learned(tab[t], r.session))]
             /\ inbox' = IF tab[t].csrf # r.session THEN Published(t, "changed") ELSE inbox
             /\ UNCHANGED <<lease, kept>>
    <2>1. r.session \in Token
      BY <1>2 DEF Request
    <2> DEFINE b == Learned(tab[t], r.session)
    <2>2. /\ b \in TabState /\ b.sent = tab[t].sent
          /\ b.active # Unset /\ b.heartbeat # Unset /\ b.renew # Unset
      BY <1>2, <2>1, LearnedIsTyped
    <2>3. inbox' \in [Tab -> Seq({"changed", "invalidated"})]
      BY <1>3, <1>6, PublishedIsTyped DEF SessionFetchTypeOK
    <2>4. tab' = [tab EXCEPT ![t] = Scheduled(b)]
      BY <1>6
    <2> HIDE DEF b
    <2>5. C(Scheduled(b))
      BY <2>2, ScheduledArms
    <2> QED
      BY <1>4, <1>6, <2>3, <2>4, <2>5
  <1>7. CASE /\ r.status = "ok" /\ r.kind \in {"read", "write"}
             /\ tab' = IF tab[t].csrf = NoToken THEN tab
                       ELSE [tab EXCEPT ![t] = Scheduled([tab[t] EXCEPT !.active = 0])]
             /\ Leave(t)
    <2> DEFINE b == [tab[t] EXCEPT !.active = 0]
    <2>1. CASE tab[t].csrf = NoToken
      <3>1. tab' = [tab EXCEPT ![t] = tab[t]]
        BY <1>2, <1>3, <1>7, <2>1 DEF SessionFetchTypeOK
      <3>2. C(tab[t])
        BY <1>2, <2>1
      <3> QED
        BY <1>3, <1>4, <1>7, <3>1, <3>2 DEF Leave, SessionFetchTypeOK
    <2>2. CASE tab[t].csrf # NoToken
      <3>1. 0 \in Unset .. ActiveWindow + 1 /\ 0 # Unset
        BY Intervals DEF Unset
      <3>2. /\ b \in TabState /\ b.csrf = tab[t].csrf /\ b.sent = tab[t].sent
            /\ b.active # Unset /\ b.heartbeat # Unset /\ b.renew # Unset
        BY <1>2, <2>2, <3>1, TabFields DEF Known
      <3> HIDE DEF b
      <3>3. C(Scheduled(b))
        BY <3>2, ScheduledArms
      <3>4. tab' = [tab EXCEPT ![t] = Scheduled(b)]
        BY <1>7, <2>2 DEF b
      <3> QED
        BY <1>3, <1>4, <1>7, <3>3, <3>4 DEF Leave, SessionFetchTypeOK
    <2> QED
      BY <2>1, <2>2
  <1>8. CASE tab' = tab /\ Leave(t)
    <2>1. tab' = [tab EXCEPT ![t] = tab[t]]
      BY <1>2, <1>3, <1>8 DEF SessionFetchTypeOK
    <2>2. C(tab[t])
      BY <1>2 DEF IInv, MaintenanceNeverLost
    <2> QED
      BY <1>3, <1>4, <1>8, <2>1, <2>2 DEF Leave, SessionFetchTypeOK
  <1> QED
    BY <1>5, <1>6, <1>7, <1>8 DEF Answer

LEMMA AnswerMaintenanceInv == ASSUME IInv, NEW r \in flight, AnswerMaintenance(r) PROVE IInv'
PROOF
  <1> DEFINE t == r.tab
             b == [tab[t] EXCEPT !.sent = Unset]
  <1>1. Taken(r) /\ r.kind \in Maintenance
    BY DEF AnswerMaintenance
  <1>2. /\ t \in open /\ t \in Tab /\ r \in Request
        /\ tab[t] \in TabState /\ Known(tab[t])
        /\ flight' = flight \ {r}
        /\ {r} \in SUBSET {q \in flight : q.tab = t}
        /\ cookie' \in Token
        /\ UNCHANGED <<open, serverVars, requests, faults>>
    BY <1>1, TakenOffWire
  <1>3. SessionFetchTypeOK
    BY DEF IInv
  <1>4. Unset \in Unset .. SentEnd
    BY Ends DEF Unset
  <1>5. /\ b \in TabState /\ b.csrf = tab[t].csrf /\ b.active = tab[t].active
        /\ b.heartbeat = tab[t].heartbeat /\ b.renew = tab[t].renew
    BY <1>2, <1>4, TabFields
  <1>6. tab[t].sent \in 0 .. SentEnd
    <2>1. tab[t].sent \in Unset .. SentEnd
      BY <1>2, TabFields
    <2>2. tab[t].sent # Unset
      BY <1>1, <1>2 DEF IInv, SentWhileRunning, Running
    <2> QED
      BY <2>1, <2>2, Ends DEF Unset
  <1> HIDE DEF b
  <1>7. CASE /\ tab' = [tab EXCEPT ![t] = Cleared(b)]
             /\ lease' = Released(t)
             /\ inbox' = Published(t, "invalidated")
             /\ kept' = kept \ {t}
    <2>1. Cleared(b) \in TabState /\ Known(Cleared(b)) /\ Cleared(b).csrf = NoToken
      BY <1>5, ClearedIsKnown
    <2>2. inbox' \in [Tab -> Seq({"changed", "invalidated"})]
      BY <1>3, <1>7, PublishedIsTyped
    <2> QED
      BY <1>1, <1>2, <1>7, <2>1, <2>2, TabHandles
  <1>8. CASE /\ tab' = [tab EXCEPT ![t] = Scheduled(Noted(b, r.kind, tab[t].sent))]
             /\ Leave(t)
    <2> DEFINE n == Noted(b, r.kind, tab[t].sent)
    <2>1. /\ n \in TabState /\ n.csrf = tab[t].csrf /\ n.active = tab[t].active
          /\ n.heartbeat \in {tab[t].heartbeat} \cup Nat
          /\ n.renew \in {tab[t].renew} \cup Nat
      BY <1>5, <1>6, NotedIsTyped
    <2>2. Unset \notin Nat
      BY DEF Unset
    <2>3. n.csrf # NoToken => n.active # Unset /\ n.heartbeat # Unset /\ n.renew # Unset
      BY <1>2, <2>1, <2>2 DEF Known
    <2> HIDE DEF n
    <2>4. /\ Scheduled(n) \in TabState /\ Known(Scheduled(n))
          /\ Scheduled(n).csrf # NoToken => Scheduled(n).timer # Unset
      BY <2>1, <2>3, ScheduledArms
    <2>5. tab' = [tab EXCEPT ![t] = Scheduled(n)]
      BY <1>8 DEF n
    <2>6. /\ inbox' \in [Tab -> Seq({"changed", "invalidated"})]
          /\ lease' = lease /\ kept' = kept
      BY <1>3, <1>8 DEF Leave, SessionFetchTypeOK
    <2> QED
      BY <1>1, <1>2, <2>4, <2>5, <2>6, TabHandles
  <1> QED
    BY <1>7, <1>8 DEF AnswerMaintenance, b

LEMMA AnswerVerifyInv == ASSUME IInv, NEW r \in flight, AnswerVerify(r) PROVE IInv'
PROOF
  <1> DEFINE t == r.tab
  <1>1. Taken(r) /\ r.kind \notin Maintenance
    BY DEF AnswerVerify, Maintenance
  <1>2. /\ t \in open /\ t \in Tab /\ r \in Request
        /\ tab[t] \in TabState /\ Known(tab[t])
        /\ flight' = flight \ {r}
        /\ {r} \in SUBSET {q \in flight : q.tab = t}
        /\ cookie' \in Token
        /\ UNCHANGED <<open, serverVars, requests, faults>>
        /\ Running(t)' <=> Running(t)
    BY <1>1, TakenOffWire
  <1>3. SessionFetchTypeOK
    BY DEF IInv
  <1> DEFINE C(b) == /\ b \in TabState /\ Known(b) /\ b.sent = tab[t].sent
                     /\ b.csrf # NoToken /\ b.active <= ActiveWindow =>
                          b.timer # Unset \/ Running(t)
  <1>4. \A b : C(b) /\ tab' = [tab EXCEPT ![t] = b] /\ inbox' = inbox
               /\ (\/ lease' = lease /\ kept' = kept
                   \/ lease' = Released(t) /\ kept' = kept \ {t})
               => IInv'
    BY <1>2, <1>3, TabHandles DEF SessionFetchTypeOK
  <1>5. CASE ClearSession(t, FALSE)
    <2>1. C(Cleared(tab[t]))
      BY <1>2, ClearedIsKnown
    <2> QED
      BY <1>4, <1>5, <2>1 DEF ClearSession
  <1>6. CASE /\ r.status = "ok"
             /\ tab' = [tab EXCEPT ![t] = Scheduled(IF @.csrf = r.session THEN @
                                                    ELSE Learned(@, r.session))]
             /\ Leave(t)
    <2> DEFINE b == IF tab[t].csrf = r.session THEN tab[t] ELSE Learned(tab[t], r.session)
    <2>1. r.session \in Token /\ r.session # NoToken
      BY <1>2, <1>6 DEF Request, IInv, AnswersName
    <2>2. /\ b \in TabState /\ b.sent = tab[t].sent
          /\ b.active # Unset /\ b.heartbeat # Unset /\ b.renew # Unset
      BY <1>2, <2>1, LearnedIsTyped DEF Known
    <2>3. tab' = [tab EXCEPT ![t] = Scheduled(b)]
      BY <1>2, <1>3, <1>6 DEF SessionFetchTypeOK
    <2> HIDE DEF b
    <2>4. C(Scheduled(b))
      BY <2>2, ScheduledArms
    <2> QED
      BY <1>4, <1>6, <2>3, <2>4 DEF Leave
  <1>7. CASE tab' = tab /\ Leave(t)
    <2>1. tab' = [tab EXCEPT ![t] = tab[t]]
      BY <1>2, <1>3, <1>7 DEF SessionFetchTypeOK
    <2>2. C(tab[t])
      BY <1>2 DEF IInv, MaintenanceNeverLost
    <2> QED
      BY <1>4, <1>7, <2>1, <2>2 DEF Leave
  <1> QED
    BY <1>5, <1>6, <1>7 DEF AnswerVerify

LEMMA ReceiveInv == ASSUME IInv, NEW t \in Tab, Receive(t) PROVE IInv'
PROOF
  <1>1. t \in open /\ tab[t] \in TabState /\ SessionFetchTypeOK
    BY DEF Receive, IInv, SessionFetchTypeOK
  <1>2. inbox' \in [Tab -> Seq({"changed", "invalidated"})]
    BY <1>1 DEF Receive, TakenOff, SessionFetchTypeOK
  <1>3. CASE Head(inbox[t]) = "invalidated"
    <2>1. /\ Cleared(tab[t]) \in TabState /\ Known(Cleared(tab[t]))
          /\ Cleared(tab[t]).csrf = NoToken /\ Cleared(tab[t]).sent = tab[t].sent
      BY <1>1, ClearedIsKnown
    <2>2. /\ tab' = [tab EXCEPT ![t] = Cleared(tab[t])]
          /\ lease' = Released(t) /\ kept' = kept \ {t}
          /\ flight' = flight \ {}
          /\ UNCHANGED <<open, serverVars, requests, faults>>
      BY <1>3 DEF Receive
    <2>3. {} \in SUBSET {r \in flight : r.tab = t} /\ cookie' \in Token
      BY <1>1 DEF Receive, SessionFetchTypeOK
    <2> QED
      BY <1>1, <1>2, <2>1, <2>2, <2>3, TabHandles
  <1>4. CASE Head(inbox[t]) # "invalidated"
    <2>1. /\ Sent(t, "verify") \in Request /\ Sent(t, "verify").kind = "verify"
          /\ Sent(t, "verify").status = "sent"
      BY <1>1, SentIsTyped
    <2>2. /\ flight' = flight \cup {Sent(t, "verify")}
          /\ UNCHANGED <<tab, lease, open, kept, cookie, live, issued, requests, faults>>
      BY <1>4 DEF Receive, serverVars
    <2>3. flight' \in SUBSET Request
      BY <1>1, <2>1, <2>2 DEF SessionFetchTypeOK
    <2>4. \A u \in Tab : Running(u)' <=> Running(u)
      BY <2>1, <2>2 DEF Running, Maintenance
    <2>5. OneMaintenance' /\ AnswersName'
      BY <2>1, <2>2 DEF IInv, OneMaintenance, AnswersName, Maintenance
    <2> QED
      BY <1>1, <1>2, <2>2, <2>3, <2>4, <2>5, WireChanges DEF SessionFetchTypeOK
  <1> QED
    BY <1>3, <1>4

(* When the timer fires nothing may be due, the tab may have to wait for    *)
(* another one's lease, or it claims the lease, and then perhaps sends.     *)
LEMMA MaintainInv == ASSUME IInv, NEW t \in Tab, Maintain(t) PROVE IInv'
PROOF
  <1> DEFINE b   == [tab[t] EXCEPT !.timer = Unset]
             due == IF b.renew >= RenewAfter THEN {"renew"}
                    ELSE IF b.heartbeat >= HeartbeatAfter THEN {"heartbeat"} ELSE {}
  <1>1. /\ t \in open /\ tab[t] \in TabState /\ Known(tab[t]) /\ SessionFetchTypeOK
        /\ UNCHANGED <<open, serverVars, requests, faults>>
        /\ inbox' \in [Tab -> Seq({"changed", "invalidated"})] /\ cookie' \in Token
    BY DEF Maintain, IInv, SessionFetchTypeOK, TabsKnown
  <1>2. /\ Unset \in Unset .. TimerEnd /\ LeaderLease \in Unset .. TimerEnd
        /\ LeaderLease # Unset /\ 0 \in Unset .. SentEnd /\ 0 # Unset
    BY Intervals, Ends DEF Unset
  <1>3. /\ b \in TabState /\ Known(b) /\ b.csrf = tab[t].csrf /\ b.sent = tab[t].sent
        /\ b.active = tab[t].active
    BY <1>1, <1>2, TabFields DEF Known
  <1>4. {} \in SUBSET {r \in flight : r.tab = t} /\ flight = flight \ {}
    OBVIOUS
  <1>5. \/ /\ Running(t) \/ b.csrf = NoToken \/ b.active > ActiveWindow
           /\ tab' = [tab EXCEPT ![t] = b]
           /\ UNCHANGED <<flight, lease, kept>>
        \/ /\ ~Running(t) /\ b.csrf # NoToken
           /\ tab' = [tab EXCEPT ![t] = Deferred(b)]
           /\ UNCHANGED <<flight, lease, kept>>
        \/ /\ ~Running(t) /\ b.csrf # NoToken /\ MayLead(t)
           /\ lease' = IF SharedStorage THEN [owner |-> t, left |-> LeaderLease] ELSE lease
           /\ flight' = flight \cup {Sent(t, kind) : kind \in due}
           /\ tab' = [tab EXCEPT ![t] = IF due = {} THEN Scheduled(b)
                                        ELSE [b EXCEPT !.sent = 0]]
           /\ kept' = kept \cup {t}
    BY DEF Maintain
  <1>6. due = {} \/ \E kind \in Maintenance : due = {kind}
    BY DEF Maintenance
  <1> HIDE DEF due
  <1>7. CASE /\ Running(t) \/ b.csrf = NoToken \/ b.active > ActiveWindow
             /\ tab' = [tab EXCEPT ![t] = b]
             /\ UNCHANGED <<flight, lease, kept>>
    <2>1. Running(t) => Running(t)'
      BY <1>7 DEF Running
    <2>2. b.active \in Int
      BY <1>3, TabFields, Intervals DEF Unset
    <2>3. b.csrf # NoToken /\ b.active <= ActiveWindow => Running(t)'
      BY <1>7, <2>1, <2>2, Intervals
    <2> HIDE DEF b
    <2> QED
      BY <1>1, <1>3, <1>4, <1>7, <2>3, TabHandles
  <1>8. CASE /\ ~Running(t) /\ b.csrf # NoToken
             /\ tab' = [tab EXCEPT ![t] = Deferred(b)]
             /\ UNCHANGED <<flight, lease, kept>>
    <2> DEFINE d == Deferred(b)
    <2>1. /\ d \in TabState /\ d.csrf = b.csrf /\ d.sent = tab[t].sent
          /\ d.timer # Unset /\ Known(d)
      BY <1>2, <1>3, <1>8, TabFields DEF Deferred, Known
    <2> HIDE DEF b, d
    <2>2. tab' = [tab EXCEPT ![t] = d]
      BY <1>8 DEF d
    <2> QED
      BY <1>1, <1>4, <1>8, <2>1, <2>2, TabHandles
  <1>9. ASSUME /\ ~Running(t) /\ b.csrf # NoToken /\ MayLead(t)
               /\ lease' = IF SharedStorage THEN [owner |-> t, left |-> LeaderLease] ELSE lease
               /\ flight' = flight \cup {Sent(t, kind) : kind \in due}
               /\ tab' = [tab EXCEPT ![t] = IF due = {} THEN Scheduled(b)
                                            ELSE [b EXCEPT !.sent = 0]]
               /\ kept' = kept \cup {t}
        PROVE  IInv'
    <2> DEFINE c == IF due = {} THEN Scheduled(b) ELSE [b EXCEPT !.sent = 0]
    <2>1. b.active # Unset /\ b.heartbeat # Unset /\ b.renew # Unset
      BY <1>1, <1>3, <1>9 DEF Known
    <2>2. CASE due = {}
      <3>1. /\ c \in TabState /\ Known(c) /\ c.csrf # NoToken /\ c.timer # Unset
        BY <1>3, <1>9, <2>1, <2>2, ScheduledArms
      <3>2. tab'[t] = c /\ \A u \in Tab \ {t} : tab'[u] = tab[u]
        BY <1>1, <1>9 DEF SessionFetchTypeOK
      <3> HIDE DEF c, b
      <3>3. flight' = flight /\ \A u \in Tab : Running(u)' <=> Running(u)
        BY <1>9, <2>2 DEF Running
      <3>4. tab' \in [Tab -> TabState]
        BY <1>1, <1>9, <3>1, <3>2 DEF SessionFetchTypeOK, c
      <3>5. lease' \in Lease
        BY <1>1, <1>9, Intervals DEF SessionFetchTypeOK, Lease
      <3>6. SessionFetchTypeOK'
        BY <1>1, <1>9, <3>3, <3>4, <3>5 DEF SessionFetchTypeOK, serverVars
      <3>7. OneMaintenance' /\ AnswersName'
        BY <1>1, <3>3 DEF IInv, OneMaintenance, AnswersName
      <3>8. SentWhileRunning'
        BY <1>1, <1>9, <3>2, <3>3 DEF IInv, SentWhileRunning, SessionFetchTypeOK
      <3>9. TabsKnown'
        BY <3>1, <3>2 DEF IInv, TabsKnown, Known
      <3>10. LeaseCovers'
        <4> SUFFICES ASSUME SharedStorage, NEW u \in kept', Running(u)',
                            tab'[u].sent < LeaderLease
                     PROVE  FALSE
          BY DEF LeaseCovers
        <4>1. u # t /\ u \in kept /\ u \in Tab
          BY <1>1, <1>9, <3>3 DEF SessionFetchTypeOK
        <4>2. lease.owner = u
          BY <3>2, <3>3, <4>1 DEF IInv, LeaseCovers
        <4> QED
          BY <1>9, <4>1, <4>2, TabsAreNotNumbers DEF MayLead, Nobody
      <3>11. MaintenanceNeverLost'
        BY <1>1, <3>1, <3>2, <3>3 DEF IInv, MaintenanceNeverLost, SessionFetchTypeOK
      <3> QED
        BY <3>6, <3>7, <3>8, <3>9, <3>10, <3>11 DEF IInv
    <2>3. ASSUME NEW kind \in Maintenance, due = {kind} PROVE IInv'
      <3> DEFINE q == Sent(t, kind)
      <3>1. q \in Request /\ q.tab = t /\ q.kind = kind /\ q.status = "sent"
        BY <1>1, SentIsTyped
      <3>2. flight' = flight \cup {q}
        BY <1>9, <2>3
      <3>3. c \in TabState /\ Known(c) /\ c.csrf # NoToken /\ c.sent = 0
        BY <1>2, <1>3, <1>9, <2>3, TabFields DEF Known
      <3>4. tab'[t] = c /\ \A u \in Tab \ {t} : tab'[u] = tab[u]
        BY <1>1, <1>9 DEF SessionFetchTypeOK
      <3>5. tab' \in [Tab -> TabState]
        BY <1>1, <1>9, <3>3 DEF SessionFetchTypeOK
      <3> HIDE DEF b, c, q
      <3>6. Running(t)' /\ \A u \in Tab \ {t} : Running(u)' <=> Running(u)
        BY <3>1, <3>2 DEF Running
      <3>7. lease' \in Lease
        BY <1>1, <1>9, Intervals DEF SessionFetchTypeOK, Lease
      <3>8. SessionFetchTypeOK'
        BY <1>1, <1>9, <3>1, <3>2, <3>5, <3>7 DEF SessionFetchTypeOK, serverVars
      <3>9. OneMaintenance' /\ AnswersName'
        <4>1. \A r \in flight : ~(r.kind \in Maintenance /\ r.tab = t)
          BY <1>9 DEF Running
        <4> QED
          BY <1>1, <3>1, <3>2, <4>1 DEF IInv, OneMaintenance, AnswersName
      <3>10. SentWhileRunning'
        BY <1>1, <1>2, <3>3, <3>4, <3>6 DEF IInv, SentWhileRunning, SessionFetchTypeOK
      <3>11. TabsKnown'
        BY <3>3, <3>4 DEF IInv, TabsKnown, Known
      <3>12. LeaseCovers'
        <4> SUFFICES ASSUME SharedStorage, NEW u \in kept', Running(u)',
                            tab'[u].sent < LeaderLease
                     PROVE  lease'.owner = u /\ lease'.left + tab'[u].sent >= LeaderLease
          BY DEF LeaseCovers
        <4>1. CASE u = t
          BY <1>9, <3>3, <3>4, <4>1, Intervals
        <4>2. CASE u # t
          <5>1. u \in kept /\ u \in Tab
            BY <1>1, <1>9, <4>2 DEF SessionFetchTypeOK
          <5>2. lease.owner = u
            BY <3>4, <3>6, <4>2, <5>1 DEF IInv, LeaseCovers
          <5> QED
            BY <1>9, <4>2, <5>1, <5>2, TabsAreNotNumbers DEF MayLead, Nobody
        <4> QED
          BY <4>1, <4>2
      <3>13. MaintenanceNeverLost'
        BY <1>1, <3>3, <3>4, <3>6 DEF IInv, MaintenanceNeverLost, SessionFetchTypeOK
      <3> QED
        BY <3>8, <3>9, <3>10, <3>11, <3>12, <3>13 DEF IInv
    <2> QED
      BY <1>6, <2>2, <2>3
  <1> QED
    BY <1>5, <1>7, <1>8, <1>9

LEMMA CloseInv == ASSUME IInv, NEW t \in Tab, Close(t) PROVE IInv'
PROOF
  <1>1. /\ t \in open /\ SessionFetchTypeOK
        /\ open' = open \ {t} /\ kept' = kept \ {t}
        /\ tab' = [tab EXCEPT ![t] = Fresh]
        /\ inbox' = [inbox EXCEPT ![t] = <<>>]
        /\ lease' = Released(t) \/ lease' = lease
        /\ flight' = {r \in flight : r.tab # t \/ r.status = "sent"}
        /\ UNCHANGED <<cookie, live, issued, requests>>
    BY DEF Close, IInv, serverVars
  <1>2. \A u \in Tab \ {t} : tab'[u] = tab[u]
    BY <1>1 DEF SessionFetchTypeOK
  <1>3. \A u \in Tab \ {t} : Running(u)' <=> Running(u)
    BY <1>1 DEF Running
  <1>4. SessionFetchTypeOK'
    <2>1. tab' \in [Tab -> TabState]
      BY <1>1, FreshIsKnown DEF SessionFetchTypeOK
    <2>2. faults' \in 0 .. MaxFaults
      BY <1>1, BoundsAreNumbers DEF Close, SessionFetchTypeOK
    <2> QED
      BY <1>1, <2>1, <2>2, ReleasedIsTyped DEF SessionFetchTypeOK
  <1>5. OneMaintenance'
    BY <1>1 DEF IInv, OneMaintenance
  <1>6. SentWhileRunning'
    BY <1>1, <1>2, <1>3 DEF IInv, SentWhileRunning, SessionFetchTypeOK
  <1>7. TabsKnown'
    BY <1>1, <1>2, FreshIsKnown DEF IInv, TabsKnown, SessionFetchTypeOK
  <1>8. AnswersName'
    BY <1>1 DEF IInv, AnswersName
  <1>9. LeaseCovers'
    <2> SUFFICES ASSUME SharedStorage, NEW u \in kept', Running(u)',
                        tab'[u].sent < LeaderLease
                 PROVE  lease'.owner = u /\ lease'.left + tab'[u].sent >= LeaderLease
      BY DEF LeaseCovers
    <2>1. u # t /\ u \in kept /\ u \in Tab
      BY <1>1 DEF SessionFetchTypeOK
    <2>2. lease.owner = u /\ lease.left + tab[u].sent >= LeaderLease
      BY <1>2, <1>3, <2>1 DEF IInv, LeaseCovers
    <2>3. lease' = lease
      BY <1>1, <2>1, <2>2 DEF Released
    <2> QED
      BY <1>2, <2>1, <2>2, <2>3
  <1>10. MaintenanceNeverLost'
    BY <1>1, <1>2, <1>3 DEF IInv, MaintenanceNeverLost, SessionFetchTypeOK
  <1> QED
    BY <1>4, <1>5, <1>6, <1>7, <1>8, <1>9, <1>10 DEF IInv

(* Time makes a tab older, not another. *)
LEMMA TickInv == ASSUME IInv, Tick PROVE IInv'
PROOF
  <1> DEFINE Older(age, cap) == IF age = Unset THEN Unset ELSE Lesser(age + 1, cap)
             b(t) == [tab[t] EXCEPT !.active    = Older(@, ActiveWindow + 1),
                                    !.heartbeat = Older(@, HeartbeatAfter),
                                    !.renew     = Older(@, RenewAfter),
                                    !.sent      = Older(@, SentEnd),
                                    !.timer     = IF @ > 0 THEN @ - 1 ELSE @]
  <1>1. /\ tab' = [t \in Tab |-> b(t)]
        /\ lease' = IF lease.left > 1 THEN [lease EXCEPT !.left = @ - 1] ELSE Free
        /\ UNCHANGED <<flight, inbox, open, cookie, live, issued, requests, faults, kept>>
    BY DEF Tick, SentEnd, serverVars
  <1>2. SessionFetchTypeOK /\ \A t \in Tab : tab[t] \in TabState /\ Known(tab[t])
    BY DEF IInv, SessionFetchTypeOK, TabsKnown
  <1>3. \A cap \in Nat : \A age \in Unset .. cap :
          /\ Older(age, cap) \in Unset .. cap
          /\ age # Unset => Older(age, cap) # Unset
          /\ Older(age, cap) < cap => age = Unset \/ Older(age, cap) = age + 1
    BY DEF Unset, Lesser
  <1>4. \A timer \in Unset .. TimerEnd :
          LET next == IF timer > 0 THEN timer - 1 ELSE timer IN
          /\ next \in Unset .. TimerEnd
          /\ timer = Unset <=> next = Unset
    BY Ends DEF Unset
  <1>5. ASSUME NEW t \in Tab
        PROVE  /\ b(t) \in TabState /\ Known(b(t)) /\ b(t).csrf = tab[t].csrf
               /\ b(t).timer = Unset <=> tab[t].timer = Unset
               /\ b(t).csrf # NoToken /\ b(t).active <= ActiveWindow =>
                    tab[t].active <= ActiveWindow
               /\ tab[t].sent # Unset => b(t).sent # Unset
               /\ b(t).sent < LeaderLease /\ tab[t].sent # Unset =>
                    tab[t].sent \in Nat /\ b(t).sent = tab[t].sent + 1
    <2> DEFINE c == tab[t]
               timer == IF c.timer > 0 THEN c.timer - 1 ELSE c.timer
    <2>1. /\ c \in [csrf : Token, active : Unset .. ActiveWindow + 1,
                    heartbeat : Unset .. HeartbeatAfter, renew : Unset .. RenewAfter,
                    timer : Unset .. TimerEnd, sent : Unset .. SentEnd]
          /\ Known(c)
      BY <1>2, TabFields
    <2>2. b(t) = [c EXCEPT !.active = Older(c.active, ActiveWindow + 1),
                           !.heartbeat = Older(c.heartbeat, HeartbeatAfter),
                           !.renew = Older(c.renew, RenewAfter),
                           !.sent = Older(c.sent, SentEnd),
                           !.timer = timer]
      OBVIOUS
    <2>3. ActiveWindow + 1 \in Nat /\ HeartbeatAfter \in Nat /\ RenewAfter \in Nat
      BY Intervals
    <2>4. /\ Older(c.active, ActiveWindow + 1) \in Unset .. ActiveWindow + 1
          /\ c.active # Unset => Older(c.active, ActiveWindow + 1) # Unset
          /\ Older(c.active, ActiveWindow + 1) < ActiveWindow + 1 =>
               c.active = Unset \/ Older(c.active, ActiveWindow + 1) = c.active + 1
      BY <1>3, <2>1, <2>3
    <2>5. /\ Older(c.heartbeat, HeartbeatAfter) \in Unset .. HeartbeatAfter
          /\ c.heartbeat # Unset => Older(c.heartbeat, HeartbeatAfter) # Unset
      BY <1>3, <2>1, <2>3
    <2>6. /\ Older(c.renew, RenewAfter) \in Unset .. RenewAfter
          /\ c.renew # Unset => Older(c.renew, RenewAfter) # Unset
      BY <1>3, <2>1, <2>3
    <2>7. /\ Older(c.sent, SentEnd) \in Unset .. SentEnd
          /\ c.sent # Unset => Older(c.sent, SentEnd) # Unset
          /\ Older(c.sent, SentEnd) < SentEnd =>
               c.sent = Unset \/ Older(c.sent, SentEnd) = c.sent + 1
      BY <1>3, <2>1, Ends
    <2>8. timer \in Unset .. TimerEnd /\ (c.timer = Unset <=> timer = Unset)
      BY <1>4, <2>1
    <2>9. /\ b(t).csrf = c.csrf /\ b(t).active = Older(c.active, ActiveWindow + 1)
          /\ b(t).heartbeat = Older(c.heartbeat, HeartbeatAfter)
          /\ b(t).renew = Older(c.renew, RenewAfter)
          /\ b(t).sent = Older(c.sent, SentEnd) /\ b(t).timer = timer
          /\ b(t) \in TabState
      <3> HIDE DEF Older, timer, c, b
      <3> QED
        BY <2>1, <2>2, <2>4, <2>5, <2>6, <2>7, <2>8, TabFields
    <2> HIDE DEF Older, timer, b
    <2>10. Known(b(t))
      BY <2>1, <2>4, <2>5, <2>6, <2>8, <2>9 DEF Known
    <2>11. b(t).csrf # NoToken /\ b(t).active <= ActiveWindow => c.active <= ActiveWindow
      BY <2>1, <2>4, <2>9, Intervals DEF Known, Unset
    <2>12. b(t).sent < LeaderLease /\ c.sent # Unset =>
             c.sent \in Nat /\ b(t).sent = c.sent + 1
      BY <2>1, <2>7, <2>9, Ends, Intervals DEF Unset
    <2>13. b(t).timer = Unset <=> c.timer = Unset
      BY <2>8, <2>9
    <2>14. c.sent # Unset => b(t).sent # Unset
      BY <2>7, <2>9
    <2>15. b(t) \in TabState /\ b(t).csrf = c.csrf
      BY <2>9
    <2> QED
      BY <2>10, <2>11, <2>12, <2>13, <2>14, <2>15
  <1> HIDE DEF Older, b
  <1>6. \A t \in Tab : tab'[t] = b(t) /\ (Running(t)' <=> Running(t))
    BY <1>1 DEF Running
  <1>7. SessionFetchTypeOK'
    <2>1. lease' \in Lease
      <3>1. lease \in Lease /\ lease.left \in 0 .. LeaderLease /\ Free \in Lease
        BY <1>2, Intervals DEF SessionFetchTypeOK, Lease, Free
      <3>2. lease.left > 1 => lease.left - 1 \in 0 .. LeaderLease
        BY <3>1, Intervals
      <3> QED
        BY <1>1, <3>1, <3>2 DEF Lease
    <2>2. tab' \in [Tab -> TabState]
      BY <1>1, <1>5
    <2> QED
      BY <1>1, <1>2, <2>1, <2>2 DEF SessionFetchTypeOK
  <1>8. OneMaintenance' /\ AnswersName'
    BY <1>1 DEF IInv, OneMaintenance, AnswersName
  <1>9. SentWhileRunning'
    BY <1>1, <1>2, <1>5, <1>6 DEF IInv, SentWhileRunning, SessionFetchTypeOK
  <1>10. TabsKnown'
    BY <1>5, <1>6 DEF TabsKnown, Known
  <1>11. LeaseCovers'
    <2> SUFFICES ASSUME SharedStorage, NEW u \in kept', Running(u)',
                        tab'[u].sent < LeaderLease
                 PROVE  lease'.owner = u /\ lease'.left + tab'[u].sent >= LeaderLease
      BY DEF LeaseCovers
    <2>1. u \in kept /\ u \in open /\ u \in Tab /\ Running(u)
      BY <1>1, <1>2, <1>6 DEF SessionFetchTypeOK
    <2>2. tab[u].sent \in Nat /\ tab'[u].sent = tab[u].sent + 1
      BY <1>5, <1>6, <2>1 DEF IInv, SentWhileRunning
    <2>3. lease.owner = u /\ lease.left + tab[u].sent >= LeaderLease
      BY <2>1, <2>2, Intervals DEF IInv, LeaseCovers
    <2>4. lease.left \in Nat /\ lease \in Lease
      BY <1>2, Intervals DEF SessionFetchTypeOK, Lease
    <2>5. lease.left > 1
      BY <2>2, <2>3, <2>4, Intervals
    <2>6. lease'.owner = u /\ lease'.left = lease.left - 1
      BY <1>1, <2>3, <2>4, <2>5 DEF Lease
    <2> QED
      BY <2>2, <2>3, <2>4, <2>6, Intervals
  <1>12. MaintenanceNeverLost'
    BY <1>1, <1>2, <1>5, <1>6 DEF IInv, MaintenanceNeverLost, SessionFetchTypeOK
  <1> QED
    BY <1>7, <1>8, <1>9, <1>10, <1>11, <1>12 DEF IInv

LEMMA UnchangedInv == ASSUME IInv, UNCHANGED vars PROVE IInv'
PROOF
  <1> USE DEF vars
  <1>1. \A t : Running(t)' <=> Running(t)
    BY DEF Running
  <1> QED
    BY <1>1 DEF IInv, SessionFetchTypeOK, OneMaintenance, SentWhileRunning, TabsKnown, Known,
                AnswersName, LeaseCovers, MaintenanceNeverLost

LEMMA NextInv == ASSUME IInv, [Next]_vars PROVE IInv'
PROOF
  <1>1. CASE UNCHANGED vars
    BY <1>1, UnchangedInv
  <1>2. CASE Next
    BY <1>2, SendInv, ServeInv, FailInv, RevokeInv, AnswerInv, AnswerMaintenanceInv,
       AnswerVerifyInv, ReceiveInv, MaintainInv, CloseInv, TickInv
    DEF Next
  <1> QED
    BY <1>1, <1>2

LEMMA SessionFetchInvariant == Spec => []IInv
PROOF
  <1>1. Init => IInv
    BY InitInv
  <1>2. IInv /\ [Next]_vars => IInv'
    BY NextInv
  <1> QED
    BY <1>1, <1>2, PTL DEF Spec

-----------------------------------------------------------------------------
(* Every variable of the tabs keeps its type; with it no age and no timer   *)
(* ever leaves the interval it is compared with.                            *)
THEOREM SessionFetchTypeCorrect == Spec => []SessionFetchTypeOK
PROOF
  <1>1. IInv => SessionFetchTypeOK
    BY DEF IInv
  <1> QED
    BY <1>1, SessionFetchInvariant, PTL

(* However many tabs a browser has, and whatever answers, messages, lost    *)
(* leaderships and failures come in between: a tab that holds a token and   *)
(* whose user was active within the window has its timer armed or its       *)
(* maintenance under way (`schedule`, `maintain`).                          *)
THEOREM MaintenanceIsNeverLost == Spec => []MaintenanceNeverLost
PROOF
  <1>1. IInv => MaintenanceNeverLost
    BY DEF IInv
  <1> QED
    BY <1>1, SessionFetchInvariant, PTL

(* For any number of tabs and any intervals, with a shared localStorage two *)
(* tabs that keep their session never both sent maintenance less than a     *)
(* leader lease ago (`claimLeadership`, `releaseLeadership`).               *)
THEOREM OneTabWrites == Spec => []OneWriter
PROOF
  <1>1. IInv => OneWriter
    <2> SUFFICES ASSUME IInv, SharedStorage, NEW t \in kept, NEW u \in kept,
                        t # u, Running(t), Running(u)
                 PROVE  tab[t].sent >= LeaderLease \/ tab[u].sent >= LeaderLease
      BY DEF OneWriter
    <2>1. /\ tab[t].sent < LeaderLease => lease.owner = t
          /\ tab[u].sent < LeaderLease => lease.owner = u
      BY DEF IInv, LeaseCovers
    <2>2. t \in Tab /\ u \in Tab /\ tab[t] \in TabState /\ tab[u] \in TabState
      BY DEF IInv, SessionFetchTypeOK
    <2>3. tab[t].sent \in Int /\ tab[u].sent \in Int
      BY <2>2, TabFields, Ends DEF Unset
    <2> QED
      BY <2>1, <2>3, Intervals
  <1> QED
    BY <1>1, SessionFetchInvariant, PTL
=============================================================================
