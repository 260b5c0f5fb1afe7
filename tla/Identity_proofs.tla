---------------------------- MODULE Identity_proofs ----------------------------
(***************************************************************************)
(* Accounts, DeviceDirectory and DeviceLink keep their invariants, for any *)
(* number of tokens, tabs, callers, codes, commands, sessions, streams and *)
(* requests and any bounds.  The components share no state, so each has    *)
(* its own theorem.                                                        *)
(***************************************************************************)
EXTENDS Accounts, DeviceDirectory, DeviceLink, FiniteSetTheorems, TLAPS

-----------------------------------------------------------------------------
(* Accounts. *)

\* What getValidAccessToken does with token k of tab t: a request of its own, or nothing.
SendsRequest(t, k) ==
    /\ refreshing[t] = None
    /\ refreshing' = [refreshing EXCEPT ![t] = Request(k)]
    /\ sent' = [sent EXCEPT ![t] = sent[t] \cup {k}]
    /\ stale' = [stale EXCEPT ![t] = IF k = auth[t] THEN stale[t] ELSE stale[t] \cup {k}]

SendsToken(c, t, k) ==
    /\ UNCHANGED <<issued, revoked, old, stored, auth, ages, faults, loggedOut>>
    /\ Open(t) /\ caller[c] = [tab |-> t, seen |-> k, step |-> "captured"]
    /\ caller' = [caller EXCEPT ![c] = NoCall]
       \/ caller' = [caller EXCEPT ![c] = [tab |-> t, seen |-> k, step |-> "waiting"]]
    /\ UNCHANGED <<refreshing, sent, stale>> \/ SendsRequest(t, k)

\* The tab and the token of a caller name the same request in every case of its call.
LEMMA TokenSent ==
    ASSUME AccountsTypeOK, RequestsHaveReason, NEW c \in Callers, getValidAccessToken(c)
    PROVE  \E t \in Tabs, k \in 1 .. issued : SendsToken(c, t, k)
<1>1. /\ caller[c].step = "captured" /\ caller[c].tab \in Tabs /\ Open(caller[c].tab)
      /\ caller[c].seen \in 1 .. issued
  BY DEF getValidAccessToken, RequestsHaveReason
<1>2. PICK t \in Tabs, k \in 1 .. issued : t = caller[c].tab /\ k = caller[c].seen
  BY <1>1
<1>3. caller[c] = [tab |-> t, seen |-> k, step |-> "captured"]
  BY <1>1, <1>2 DEF AccountsTypeOK
<1>4. caller' = [caller EXCEPT ![c] = NoCall]
       \/ caller' = [caller EXCEPT ![c] = [tab |-> t, seen |-> k, step |-> "waiting"]]
  BY <1>3 DEF getValidAccessToken, AccountsTypeOK
<1>5. UNCHANGED <<refreshing, sent, stale>> \/ SendsRequest(t, k)
  BY <1>2 DEF getValidAccessToken, SendsRequest, AccountsTypeOK, accountHistory
<1>6. UNCHANGED <<issued, revoked, old, stored, auth, ages, faults, loggedOut>>
  BY DEF getValidAccessToken, accountHistory
<1> QED
  BY <1>1, <1>2, <1>3, <1>4, <1>5, <1>6 DEF SendsToken

(* The fields of one caller of getValidAccessToken, taken out of its type. *)
LEMMA CallerTyped ==
    ASSUME AccountsTypeOK, NEW c \in Callers, NEW t \in Tabs, NEW k \in 1 .. issued,
           SendsToken(c, t, k)
    PROVE  caller' \in [Callers -> [tab : Tabs \cup {None}, seen : Tokens \cup {None},
                                    step : {"idle", "captured", "waiting"}]]
<1>1. k \in Tokens
  BY DEF AccountsTypeOK
<1>2. /\ NoCall \in [tab : Tabs \cup {None}, seen : Tokens \cup {None},
                     step : {"idle", "captured", "waiting"}]
      /\ [tab |-> t, seen |-> k, step |-> "waiting"] \in
            [tab : Tabs \cup {None}, seen : Tokens \cup {None},
             step : {"idle", "captured", "waiting"}]
  BY <1>1 DEF NoCall
<1> QED
  BY <1>2 DEF SendsToken, AccountsTypeOK

\* A tab that sends a revoked token has not sent it before, so another tab has, or the
\* token was sent by a function older than the render.
LEMMA SentForReason ==
    ASSUME AccountsTypeOK, RequestsHaveReason, SentTokensReplaced,
           NEW c \in Callers, NEW t \in Tabs, NEW k \in 1 .. issued,
           SendsToken(c, t, k), SendsRequest(t, k)
    PROVE  RequestsHaveReason'
<1>1. /\ UNCHANGED <<issued, revoked, auth, faults>> /\ Open(t)
      /\ caller[c].step = "captured" /\ caller[c].tab = t /\ caller[c].seen = k
  BY DEF SendsToken
<1>2. k \in Tokens /\ issued \in Nat
  BY DEF AccountsTypeOK
<1>3. \A u \in Tabs : sent[u] \subseteq sent'[u] /\ stale[u] \subseteq stale'[u]
  BY DEF SendsRequest, AccountsTypeOK
<1>4. \A u \in Tabs, r \in Tokens : Reason(u, r) => Reason(u, r)'
  BY <1>1, <1>3 DEF Reason
<1>5. k \in sent'[t]
  BY DEF SendsRequest, AccountsTypeOK
<1>6. k \in revoked => Reason(t, k)'
  <2>1. SUFFICES ASSUME k \in revoked, faults = 0, k \notin stale'[t]
                 PROVE  \E u \in Tabs \ {t} : k \in sent'[u]
    BY <1>1, AccountsAssumption DEF Reason, AccountsTypeOK
  <2>2. k = auth[t] /\ k \notin stale[t]
    BY <2>1 DEF SendsRequest, AccountsTypeOK
  <2>3. k \notin sent[t]
    BY <2>1, <2>2 DEF SendsRequest, SentTokensReplaced
  <2>4. PICK u \in Tabs : k \in sent[u]
    BY <2>1 DEF SentTokensReplaced
  <2> QED
    BY <1>3, <2>3, <2>4
<1>7. ASSUME NEW d \in Callers, caller'[d].step # "idle"
      PROVE  caller'[d].tab \in Tabs /\ Open(caller[d].tab)' /\ caller'[d].seen \in 1 .. issued'
  <2>1. \/ caller'[d] = caller[d] /\ d # c
        \/ d = c /\ caller'[c] = NoCall
        \/ d = c /\ caller'[c] = [tab |-> t, seen |-> k, step |-> "waiting"]
    BY DEF SendsToken, AccountsTypeOK
  <2>2. CASE caller'[d] = caller[d] /\ d # c
    BY <1>1, <1>7, <2>2 DEF RequestsHaveReason, Open
  <2>3. CASE d = c /\ caller'[c] = NoCall
    BY <1>7, <2>3 DEF NoCall
  <2>4. CASE d = c /\ caller'[c] = [tab |-> t, seen |-> k, step |-> "waiting"]
    BY <1>1, <2>4 DEF Open
  <2> QED
    BY <2>1, <2>2, <2>3, <2>4
<1>8. ASSUME NEW u \in Tabs, refreshing'[u] # None
      PROVE  /\ Open(u)' /\ refreshing'[u].token \in sent'[u]
             /\ \/ refreshing'[u].step = "refused"
                \/ refreshing'[u].step = "sent" /\ refreshing'[u].token \in revoked'
                => Reason(u, refreshing[u].token)'
  <2>1. CASE u = t
    <3>1. refreshing'[u].token = k /\ refreshing'[u].step = "sent"
      BY <2>1 DEF SendsRequest, Request, AccountsTypeOK
    <3> QED
      BY <1>1, <1>5, <1>6, <2>1, <3>1 DEF Open
  <2>2. CASE u # t
    <3>1. refreshing'[u] = refreshing[u] /\ refreshing[u] \in RequestState
      BY <1>8, <2>2 DEF SendsRequest, AccountsTypeOK
    <3>2. refreshing[u].token \in Tokens
      BY <3>1 DEF RequestState
    <3> QED
      BY <1>1, <1>3, <1>4, <1>8, <2>2, <3>1, <3>2 DEF RequestsHaveReason, Open
  <2> QED
    BY <2>1, <2>2
<1> QED
  BY <1>7, <1>8 DEF RequestsHaveReason

\* A new pair is numbered after the others.
LEMMA TokenIssued ==
    ASSUME AccountsTypeOK, issueToken
    PROVE  /\ issued' = issued + 1 /\ issued' \in Tokens /\ issued' \in Nat
           /\ 1 .. issued' \subseteq Tokens
           /\ 1 .. issued \subseteq 1 .. issued' /\ 0 .. issued \subseteq 0 .. issued'
<1>1. issued \in Nat /\ issued' = issued + 1 /\ issued' \in Tokens
  BY DEF AccountsTypeOK, issueToken
<1>2. 1 .. issued' = (1 .. issued) \cup {issued'} /\ 0 .. issued \subseteq 0 .. issued'
  BY <1>1
<1> QED
  BY <1>1, <1>2 DEF AccountsTypeOK

\* Every value stays in its set; the pair an answer carries is one that was issued.
LEMMA AccountsTypeStep ==
    ASSUME AccountsTypeOK, RequestsHaveReason, AnswerIsSecret, [AccountsNext]_accountVars
    PROVE  AccountsTypeOK'
<1> USE AccountsAssumption DEF AccountsTypeOK, RequestState, NoToken, accountHistory,
    RequestsHaveReason, AnswerIsSecret, Answered
<1>1. CASE Age
  BY <1>1 DEF Age
<1>2. ASSUME NEW t \in Tabs, Revoke(t) PROVE AccountsTypeOK'
  BY <1>2 DEF Revoke
<1>3. ASSUME NEW t \in Tabs, Issue(t) PROVE AccountsTypeOK'
  <2>1. /\ issued' = issued + 1 /\ issued' \in Tokens /\ issued' \in Nat
        /\ 1 .. issued' \subseteq Tokens
        /\ 1 .. issued \subseteq 1 .. issued' /\ 0 .. issued \subseteq 0 .. issued'
    BY <1>3, TokenIssued DEF Issue
  <2>2. refreshing' \in [Tabs -> RequestState \cup {None}]
    BY <1>3, <2>1 DEF Issue
  <2> QED
    BY <1>3, <2>1, <2>2 DEF Issue
<1>4. ASSUME NEW t \in Tabs, RequestFails(t) PROVE AccountsTypeOK'
  BY <1>4 DEF RequestFails
<1>5. ASSUME NEW t \in Tabs, Load(t) PROVE AccountsTypeOK'
  BY <1>5 DEF Load, NoCall
<1>6. ASSUME NEW t \in Tabs, LoadDuringRefresh(t) PROVE AccountsTypeOK'
  BY <1>6 DEF LoadDuringRefresh, NoCall
<1>7. ASSUME NEW t \in Tabs, Login(t) PROVE AccountsTypeOK'
  <2>1. /\ issued' = issued + 1 /\ issued' \in Tokens /\ issued' \in Nat
        /\ 1 .. issued' \subseteq Tokens
        /\ 1 .. issued \subseteq 1 .. issued' /\ 0 .. issued \subseteq 0 .. issued'
    BY <1>7, TokenIssued DEF Login
  <2> QED
    BY <1>7, <2>1 DEF Login
<1>8. ASSUME NEW t \in Tabs, doRefresh(t) PROVE AccountsTypeOK'
  <2>1. CASE Answered(t)
    BY <1>8, <2>1 DEF doRefresh, NoCall
  <2>2. CASE ~Answered(t)
    <3>1. caller' \in [Callers -> [tab : Tabs \cup {None}, seen : Tokens \cup {None},
                                  step : {"idle", "captured", "waiting"}]]
      BY <1>8 DEF doRefresh, NoCall
    <3>2. loggedOut' \in [Tabs -> SUBSET Tokens]
      BY <1>8, <2>2 DEF doRefresh
    <3>3. refreshing' \in [Tabs -> RequestState \cup {None}]
      BY <1>8 DEF doRefresh
    <3>4. auth' \in [Tabs -> 0 .. issued \cup {None}] /\ stored' \in 0 .. issued
      BY <1>8, <2>2 DEF doRefresh
    <3>5. UNCHANGED <<issued, revoked, old, ages, faults, sent, stale>>
      BY <1>8, <2>2 DEF doRefresh
    <3> QED
      BY <3>1, <3>2, <3>3, <3>4, <3>5
  <2> QED
    BY <2>1, <2>2
<1>9. ASSUME NEW t \in Tabs, logout(t) PROVE AccountsTypeOK'
  BY <1>9 DEF logout
<1>10. ASSUME NEW c \in Callers, getValidAccessToken(c) PROVE AccountsTypeOK'
  <2>1. PICK t \in Tabs, k \in 1 .. issued : SendsToken(c, t, k)
    BY <1>10, TokenSent
  <2>2. caller' \in [Callers -> [tab : Tabs \cup {None}, seen : Tokens \cup {None},
                                step : {"idle", "captured", "waiting"}]]
    BY <2>1, CallerTyped
  <2>3. CASE UNCHANGED <<refreshing, sent, stale>>
    BY <2>1, <2>2, <2>3 DEF SendsToken
  <2>4. CASE SendsRequest(t, k)
    BY <2>1, <2>2, <2>4 DEF SendsToken, SendsRequest, Request
  <2> QED
    BY <2>1, <2>3, <2>4 DEF SendsToken
<1>11. ASSUME NEW c \in Callers, NEW t \in Tabs, Capture(c, t) PROVE AccountsTypeOK'
  BY <1>11 DEF Capture, Open
<1>12. CASE UNCHANGED accountVars
  BY <1>12 DEF accountVars
<1> QED
  BY <1>1, <1>2, <1>3, <1>4, <1>5, <1>6, <1>7, <1>8, <1>9, <1>10, <1>11, <1>12 DEF AccountsNext

\* A request is refused only for a reason: while it is on its way its token can only be
\* revoked by the request of another tab, or by one that a reload has cut off.
LEMMA RequestsStep ==
    ASSUME AccountsTypeOK, RequestsHaveReason, AnswerIsSecret, SentTokensReplaced,
        [AccountsNext]_accountVars
    PROVE  RequestsHaveReason'
<1> USE AccountsAssumption DEF AccountsTypeOK, RequestsHaveReason, AnswerIsSecret,
    SentTokensReplaced, RequestState, NoToken, accountHistory, Reason, Open, Answered
<1>1. CASE Age
  BY <1>1 DEF Age
<1>2. ASSUME NEW t \in Tabs, Revoke(t) PROVE RequestsHaveReason'
  BY <1>2 DEF Revoke
<1>3. ASSUME NEW t \in Tabs, Issue(t) PROVE RequestsHaveReason'
  BY <1>3 DEF Issue, issueToken
<1>4. ASSUME NEW t \in Tabs, RequestFails(t) PROVE RequestsHaveReason'
  BY <1>4 DEF RequestFails
<1>5. ASSUME NEW t \in Tabs, Load(t) PROVE RequestsHaveReason'
  BY <1>5 DEF Load, NoCall
<1>6. ASSUME NEW t \in Tabs, LoadDuringRefresh(t) PROVE RequestsHaveReason'
  BY <1>6 DEF LoadDuringRefresh, NoCall
<1>7. ASSUME NEW t \in Tabs, Login(t) PROVE RequestsHaveReason'
  BY <1>7 DEF Login, issueToken
<1>8. ASSUME NEW t \in Tabs, doRefresh(t) PROVE RequestsHaveReason'
  <2>1. CASE Answered(t)
    BY <1>8, <2>1 DEF doRefresh, NoCall, Open
  <2>2. CASE ~Answered(t)
    BY <1>8, <2>2 DEF doRefresh, NoCall, Open
  <2> QED
    BY <2>1, <2>2
<1>9. ASSUME NEW t \in Tabs, logout(t) PROVE RequestsHaveReason'
  BY <1>9 DEF logout
<1>10. ASSUME NEW c \in Callers, getValidAccessToken(c) PROVE RequestsHaveReason'
  <2>1. PICK t \in Tabs, k \in 1 .. issued : SendsToken(c, t, k)
    BY <1>10, TokenSent
  <2>2. CASE UNCHANGED <<refreshing, sent, stale>>
    BY <2>1, <2>2 DEF SendsToken, NoCall
  <2>3. CASE SendsRequest(t, k)
    BY <2>1, <2>3, SentForReason
  <2> QED
    BY <2>1, <2>2, <2>3 DEF SendsToken
<1>11. ASSUME NEW c \in Callers, NEW t \in Tabs, Capture(c, t)
      PROVE  RequestsHaveReason'
  BY <1>11 DEF Capture, Open
<1>12. CASE UNCHANGED accountVars
  BY <1>12 DEF accountVars
<1> QED
  BY <1>1, <1>2, <1>3, <1>4, <1>5, <1>6, <1>7, <1>8, <1>9, <1>10, <1>11, <1>12 DEF AccountsNext

\* The new pair of an answer reaches localStorage, a tab or a caller only in doRefresh,
\* which takes the answer away.
LEMMA SecretStep ==
    ASSUME AccountsTypeOK, RequestsHaveReason, AnswerIsSecret, [AccountsNext]_accountVars
    PROVE  AnswerIsSecret'
<1> USE AccountsAssumption DEF AccountsTypeOK, RequestsHaveReason, AnswerIsSecret, RequestState,
    NoToken, accountHistory, Answered
<1>1. CASE Age
  BY <1>1 DEF Age
<1>2. ASSUME NEW t \in Tabs, Revoke(t) PROVE AnswerIsSecret'
  BY <1>2 DEF Revoke
<1>3. ASSUME NEW t \in Tabs, Issue(t) PROVE AnswerIsSecret'
  BY <1>3 DEF Issue, issueToken
<1>4. ASSUME NEW t \in Tabs, RequestFails(t) PROVE AnswerIsSecret'
  BY <1>4 DEF RequestFails
<1>5. ASSUME NEW t \in Tabs, Load(t) PROVE AnswerIsSecret'
  BY <1>5 DEF Load, NoCall
<1>6. ASSUME NEW t \in Tabs, LoadDuringRefresh(t) PROVE AnswerIsSecret'
  BY <1>6 DEF LoadDuringRefresh, NoCall
<1>7. ASSUME NEW t \in Tabs, Login(t) PROVE AnswerIsSecret'
  BY <1>7 DEF Login, issueToken
<1>8. ASSUME NEW t \in Tabs, doRefresh(t) PROVE AnswerIsSecret'
  <2>1. CASE Answered(t)
    BY <1>8, <2>1 DEF doRefresh, NoCall, Open
  <2>2. CASE ~Answered(t)
    BY <1>8, <2>2 DEF doRefresh, NoCall, Open
  <2> QED
    BY <2>1, <2>2
<1>9. ASSUME NEW t \in Tabs, logout(t) PROVE AnswerIsSecret'
  BY <1>9 DEF logout
<1>10. ASSUME NEW c \in Callers, getValidAccessToken(c) PROVE AnswerIsSecret'
  <2>1. PICK t \in Tabs, k \in 1 .. issued : SendsToken(c, t, k)
    BY <1>10, TokenSent
  <2>2. \A u \in Tabs : Answered(u)' => Answered(u) /\ refreshing'[u] = refreshing[u]
    BY <2>1 DEF SendsToken, SendsRequest, Request
  <2>3. \A u \in Tabs : Answered(u) => refreshing[u].new # k
    BY <2>1 DEF SendsToken
  <2>4. \A u \in Tabs : sent'[u] = sent[u] \/ sent'[u] = sent[u] \cup {k}
    BY <2>1 DEF SendsToken, SendsRequest
  <2>5. \A d \in Callers : caller'[d].step # "idle" => caller'[d].seen = k \/ caller'[d] = caller[d]
    BY <2>1 DEF SendsToken, NoCall
  <2>6. SUFFICES ASSUME NEW u \in Tabs, Answered(u)', NEW n \in Tokens, n = refreshing[u].new
                 PROVE  /\ n \in (1 .. issued) \ (revoked \cup {stored})
                        /\ \A v \in Tabs : auth[v] # n /\ n \notin sent'[v]
                        /\ \A v \in Tabs \ {u} : Answered(v)' => refreshing'[v].new # n
                        /\ \A d \in Callers : caller'[d].step # "idle" => caller'[d].seen # n
    <3>1. \A u \in Tabs : Answered(u) => refreshing[u].new \in Tokens
      OBVIOUS
    <3> QED
      BY <2>1, <2>2, <3>1 DEF SendsToken
  <2>7. Answered(u) /\ n # k
    BY <2>2, <2>3, <2>6
  <2> QED
    BY <2>2, <2>4, <2>5, <2>6, <2>7
<1>11. ASSUME NEW c \in Callers, NEW t \in Tabs, Capture(c, t) PROVE AnswerIsSecret'
  BY <1>11 DEF Capture, Open
<1>12. CASE UNCHANGED accountVars
  BY <1>12 DEF accountVars
<1> QED
  BY <1>1, <1>2, <1>3, <1>4, <1>5, <1>6, <1>7, <1>8, <1>9, <1>10, <1>11, <1>12 DEF AccountsNext

\* A tab gives up the token it sends when the answer arrives, and localStorage with it.
LEMMA ReplacedStep ==
    ASSUME AccountsTypeOK, RequestsHaveReason, AnswerIsSecret, SentTokensReplaced,
        [AccountsNext]_accountVars
    PROVE  SentTokensReplaced'
<1> USE AccountsAssumption DEF AccountsTypeOK, RequestsHaveReason, AnswerIsSecret,
    SentTokensReplaced, RequestState, NoToken, accountHistory, Answered
<1>1. CASE Age
  BY <1>1 DEF Age
<1>2. ASSUME NEW t \in Tabs, Revoke(t) PROVE SentTokensReplaced'
  <2>1. CASE refreshing[t].token \in revoked
    BY <1>2, <2>1 DEF Revoke
  <2>2. CASE refreshing[t].token \notin revoked
    BY <1>2, <2>2 DEF Revoke
  <2> QED
    BY <2>1, <2>2
<1>3. ASSUME NEW t \in Tabs, Issue(t) PROVE SentTokensReplaced'
  BY <1>3 DEF Issue, issueToken
<1>4. ASSUME NEW t \in Tabs, RequestFails(t) PROVE SentTokensReplaced'
  BY <1>4 DEF RequestFails
<1>5. ASSUME NEW t \in Tabs, Load(t) PROVE SentTokensReplaced'
  BY <1>5 DEF Load, NoCall
<1>6. ASSUME NEW t \in Tabs, LoadDuringRefresh(t) PROVE SentTokensReplaced'
  BY <1>6 DEF LoadDuringRefresh, NoCall
<1>7. ASSUME NEW t \in Tabs, Login(t) PROVE SentTokensReplaced'
  BY <1>7 DEF Login, issueToken
<1>8. ASSUME NEW t \in Tabs, doRefresh(t) PROVE SentTokensReplaced'
  <2>1. CASE Answered(t)
    BY <1>8, <2>1 DEF doRefresh, NoCall, Open
  <2>2. CASE ~Answered(t)
    BY <1>8, <2>2 DEF doRefresh, NoCall, Open
  <2> QED
    BY <2>1, <2>2
<1>9. ASSUME NEW t \in Tabs, logout(t) PROVE SentTokensReplaced'
  BY <1>9 DEF logout
<1>10. ASSUME NEW c \in Callers, getValidAccessToken(c) PROVE SentTokensReplaced'
  <2>1. PICK t \in Tabs, k \in 1 .. issued : SendsToken(c, t, k)
    BY <1>10, TokenSent
  <2> QED
    BY <2>1 DEF SendsToken, SendsRequest, Request, NoCall, Open
<1>11. ASSUME NEW c \in Callers, NEW t \in Tabs, Capture(c, t)
      PROVE  SentTokensReplaced'
  BY <1>11 DEF Capture, Open
<1>12. CASE UNCHANGED accountVars
  BY <1>12 DEF accountVars
<1> QED
  BY <1>1, <1>2, <1>3, <1>4, <1>5, <1>6, <1>7, <1>8, <1>9, <1>10, <1>11, <1>12 DEF AccountsNext

\* doRefresh logs a tab out for a refused token only, and that had its reason.
LEMMA ReasonStep ==
    ASSUME AccountsTypeOK, RequestsHaveReason, AnswerIsSecret, SentTokensReplaced, LogoutHasReason,
        [AccountsNext]_accountVars
    PROVE  LogoutHasReason'
<1> USE AccountsAssumption DEF AccountsTypeOK, RequestsHaveReason, AnswerIsSecret,
    SentTokensReplaced, LogoutHasReason, Answered, RequestState, NoToken, accountHistory, Reason
<1>1. CASE Age
  BY <1>1 DEF Age
<1>2. ASSUME NEW t \in Tabs, Revoke(t) PROVE LogoutHasReason'
  BY <1>2 DEF Revoke
<1>3. ASSUME NEW t \in Tabs, Issue(t) PROVE LogoutHasReason'
  BY <1>3 DEF Issue, issueToken
<1>4. ASSUME NEW t \in Tabs, RequestFails(t) PROVE LogoutHasReason'
  BY <1>4 DEF RequestFails
<1>5. ASSUME NEW t \in Tabs, Load(t) PROVE LogoutHasReason'
  BY <1>5 DEF Load, NoCall
<1>6. ASSUME NEW t \in Tabs, LoadDuringRefresh(t) PROVE LogoutHasReason'
  BY <1>6 DEF LoadDuringRefresh, NoCall
<1>7. ASSUME NEW t \in Tabs, Login(t) PROVE LogoutHasReason'
  BY <1>7 DEF Login, issueToken
<1>8. ASSUME NEW t \in Tabs, doRefresh(t) PROVE LogoutHasReason'
  <2>1. \A u \in Tabs, r \in Tokens : Reason(u, r) => Reason(u, r)'
    BY <1>8 DEF doRefresh
  <2>2. \A u \in Tabs : \A r \in loggedOut'[u] :
          \/ r \in loggedOut[u]
          \/ refreshing[u] # None /\ refreshing[u].step = "refused" /\ r = refreshing[u].token
    BY <1>8 DEF doRefresh
  <2> SUFFICES ASSUME NEW u \in Tabs, NEW r \in loggedOut'[u] PROVE Reason(u, r)'
    OBVIOUS
  <2>3. CASE r \in loggedOut[u]
    BY <2>1, <2>3
  <2>4. CASE r \notin loggedOut[u]
    BY <2>1, <2>2, <2>4
  <2> QED
    BY <2>3, <2>4
<1>9. ASSUME NEW t \in Tabs, logout(t) PROVE LogoutHasReason'
  BY <1>9 DEF logout
<1>10. ASSUME NEW c \in Callers, getValidAccessToken(c) PROVE LogoutHasReason'
  <2>1. PICK t \in Tabs, k \in 1 .. issued : SendsToken(c, t, k)
    BY <1>10, TokenSent
  <2> QED
    BY <2>1 DEF SendsToken, SendsRequest, Request, NoCall, Open
<1>11. ASSUME NEW c \in Callers, NEW t \in Tabs, Capture(c, t) PROVE LogoutHasReason'
  BY <1>11 DEF Capture, Open
<1>12. CASE UNCHANGED accountVars
  BY <1>12 DEF accountVars
<1> QED
  BY <1>1, <1>2, <1>3, <1>4, <1>5, <1>6, <1>7, <1>8, <1>9, <1>10, <1>11, <1>12 DEF AccountsNext

\* With one tab open, localStorage names a revoked token only until its answer is there.
LEMMA StoredStep ==
    ASSUME AccountsTypeOK, RequestsHaveReason, AnswerIsSecret, SentTokensReplaced, StoredIsGood,
        [AccountsNext]_accountVars
    PROVE  StoredIsGood'
<1> USE AccountsAssumption DEF AccountsTypeOK, RequestsHaveReason, AnswerIsSecret,
    SentTokensReplaced, StoredIsGood, RequestState, NoToken, accountHistory, Open, Answered
<1>1. CASE Age
  BY <1>1 DEF Age
<1>2. ASSUME NEW t \in Tabs, Revoke(t) PROVE StoredIsGood'
  BY <1>2 DEF Revoke
<1>3. ASSUME NEW t \in Tabs, Issue(t) PROVE StoredIsGood'
  BY <1>3 DEF Issue, issueToken
<1>4. ASSUME NEW t \in Tabs, RequestFails(t) PROVE StoredIsGood'
  BY <1>4 DEF RequestFails
<1>5. ASSUME NEW t \in Tabs, Load(t) PROVE StoredIsGood'
  BY <1>5 DEF Load, NoCall
<1>6. ASSUME NEW t \in Tabs, LoadDuringRefresh(t) PROVE StoredIsGood'
  BY <1>6 DEF LoadDuringRefresh, NoCall
<1>7. ASSUME NEW t \in Tabs, Login(t) PROVE StoredIsGood'
  BY <1>7 DEF Login, issueToken
<1>8. ASSUME NEW t \in Tabs, doRefresh(t) PROVE StoredIsGood'
  <2>1. CASE Answered(t)
    BY <1>8, <2>1 DEF doRefresh, NoCall, Open
  <2>2. CASE ~Answered(t)
    BY <1>8, <2>2 DEF doRefresh, NoCall, Open
  <2> QED
    BY <2>1, <2>2
<1>9. ASSUME NEW t \in Tabs, logout(t) PROVE StoredIsGood'
  BY <1>9 DEF logout
<1>10. ASSUME NEW c \in Callers, getValidAccessToken(c) PROVE StoredIsGood'
  <2>1. PICK t \in Tabs, k \in 1 .. issued : SendsToken(c, t, k)
    BY <1>10, TokenSent
  <2> QED
    BY <2>1 DEF SendsToken, SendsRequest, Request, NoCall, Open
<1>11. ASSUME NEW c \in Callers, NEW t \in Tabs, Capture(c, t) PROVE StoredIsGood'
  BY <1>11 DEF Capture, Open
<1>12. CASE UNCHANGED accountVars
  BY <1>12 DEF accountVars
<1> QED
  BY <1>1, <1>2, <1>3, <1>4, <1>5, <1>6, <1>7, <1>8, <1>9, <1>10, <1>11, <1>12 DEF AccountsNext

(* Logged-in tabs with a common pair start with everything in order. *)
LEMMA AccountsInitHolds == AccountsInit => AccountsInv
<1> SUFFICES ASSUME AccountsInit PROVE AccountsInv
  OBVIOUS
<1> USE AccountsAssumption DEF AccountsInit
<1>1. AccountsTypeOK
  BY DEF AccountsTypeOK, NoToken, NoCall
<1>2. RequestsHaveReason
  BY DEF RequestsHaveReason, NoCall
<1>3. AnswerIsSecret
  BY DEF AnswerIsSecret, Answered
<1>4. SentTokensReplaced /\ LogoutHasReason /\ StoredIsGood
  BY DEF SentTokensReplaced, LogoutHasReason, StoredIsGood
<1> QED
  BY <1>1, <1>2, <1>3, <1>4 DEF AccountsInv

\* The tabs and the server's refresh tokens: a tab is logged out against its user's will
\* only for a reason (getValidAccessToken shares one refresh among the calls of a tab,
\* doRefresh replaces the token everywhere), an answer's new pair is known to nobody
\* else, and the token in localStorage of a single tab is not revoked, for any number of
\* tabs, callers, tokens and failures.
THEOREM AccountsAreSafe == AccountsSpec => []AccountsInv
<1>1. AccountsInit => AccountsInv
  BY AccountsInitHolds
<1>2. AccountsInv /\ [AccountsNext]_accountVars => AccountsInv'
  <2> SUFFICES ASSUME AccountsInv, [AccountsNext]_accountVars PROVE AccountsInv'
    OBVIOUS
  <2>1. AccountsTypeOK' /\ RequestsHaveReason' /\ AnswerIsSecret' /\ SentTokensReplaced'
    BY AccountsTypeStep, RequestsStep, SecretStep, ReplacedStep DEF AccountsInv
  <2>2. LogoutHasReason' /\ StoredIsGood'
    BY ReasonStep, StoredStep DEF AccountsInv
  <2> QED
    BY <2>1, <2>2 DEF AccountsInv
<1> QED
  BY <1>1, <1>2, PTL DEF AccountsSpec

-----------------------------------------------------------------------------
(* DeviceDirectory. *)

\* The next row is the one after the last.
LEMMA NextRow ==
    ASSUME RowsInOrder, DirectoryTypeOK
    PROVE  Cardinality(Rows) \in Nat /\ Rows = 1 .. Cardinality(Rows)
<1>1. PICK n \in 0 .. Limits.devices : Rows = 1 .. n
  BY DEF RowsInOrder
<1>2. n \in Nat
  BY <1>1, DirectoryAssumption
<1>3. Cardinality(1 .. n) = n
  BY <1>2, FS_Interval
<1> QED
  BY <1>1, <1>2, <1>3

\* A command may hold whatever config.json holds.
LEMMA ConfigRead ==
    ASSUME DirectoryTypeOK, NEW p \in Commands
    PROVE  [command[p] EXCEPT !.step = "write", !.read = config] \in CommandState
<1>1. command[p] \in CommandState /\ config \in Configs /\ "write" \in Steps
  BY DEF DirectoryTypeOK, Steps
<1> QED
  BY <1>1 DEF CommandState

\* PairInsert gives the code of p the row d, the one after the last.
NewRow(p, d) ==
    /\ Rows' = Rows \cup {d} /\ Rows' = 1 .. d
    /\ owner'[d] = command[p].code /\ (\A e \in Rows : owner'[e] = owner[e])
    /\ command' = [command EXCEPT ![p] = [command[p] EXCEPT !.step = "inserted", !.device = d]]

\* PairInsert numbers the rows in order, and leaves the others as they are.
LEMMA RowInserted ==
    ASSUME RowsInOrder, DirectoryTypeOK, CommandsHold, NEW p \in Commands, PairInsert(p)
    PROVE  \E d \in Devices \ Rows : NewRow(p, d)
<1> DEFINE d == Cardinality(Rows) + 1
<1>1. d \in Devices /\ d \notin Rows /\ Rows \cup {d} = 1 .. d
  BY NextRow DEF PairInsert
<1>2. /\ owner' = [e \in Rows \cup {d} |-> IF e = d THEN command[p].code ELSE owner[e]]
      /\ command' = [command EXCEPT ![p].step = "inserted", ![p].device = d]
  BY DEF PairInsert
<1> HIDE DEF d
<1>3. Rows' = Rows \cup {d} /\ owner'[d] = command[p].code /\ (\A e \in Rows : owner'[e] = owner[e])
  BY <1>1, <1>2 DEF Rows
<1>4. command' = [command EXCEPT ![p] = [command[p] EXCEPT !.step = "inserted", !.device = d]]
  BY <1>2 DEF DirectoryTypeOK, CommandState
<1> QED
  BY <1>1, <1>3, <1>4 DEF NewRow

\* Every value stays in its set.
LEMMA DirectoryTypeStep ==
    ASSUME DirectoryTypeOK, RowsInOrder, CommandsHold, [DirectoryNext]_directoryVars
    PROVE  DirectoryTypeOK'
<1> USE DirectoryAssumption DEF DirectoryTypeOK, CommandState, Rows, Devices, NoDevice, Kinds,
    Steps, Configs, directoryHistory, CommandsHold
<1>1. ASSUME NEW c \in Codes, createPairCode(c) PROVE DirectoryTypeOK'
  BY <1>1 DEF createPairCode
<1>2. ASSUME NEW c \in Codes, ExpireCode(c) PROVE DirectoryTypeOK'
  BY <1>2 DEF ExpireCode
<1>3. ASSUME NEW p \in Commands, NEW c \in Codes, Run(p, "pair", c)
      PROVE  DirectoryTypeOK'
  <2>1. CASE config.text = "absent"
    BY <1>3, <2>1 DEF Run
  <2>2. CASE config.text # "absent"
    BY <1>3, <2>2 DEF Run, Ensured
  <2> QED
    BY <2>1, <2>2
<1>4. ASSUME NEW p \in Commands, Run(p, "use", Nothing) PROVE DirectoryTypeOK'
  <2>1. CASE config.text = "absent"
    BY <1>4, <2>1 DEF Run
  <2>2. CASE config.text # "absent"
    BY <1>4, <2>2 DEF Run, Ensured
  <2> QED
    BY <2>1, <2>2
<1>5. ASSUME NEW p \in Commands, PairGet(p) PROVE DirectoryTypeOK'
  <2>1. CASE code[command[p].code] # "live"
    <3>1. command' = [command EXCEPT ![p] = Ended]
      BY <1>5, <2>1 DEF PairGet
    <3> QED
      BY <1>5, <3>1 DEF PairGet, Ended, Idle
  <2>2. CASE code[command[p].code] = "live"
    <3>1. command' = [command EXCEPT ![p] = [command[p] EXCEPT !.step = "found"]]
      BY <1>5, <2>2 DEF PairGet
    <3> QED
      BY <1>5, <2>2, <3>1 DEF PairGet
  <2> QED
    BY <2>1, <2>2
<1>6. ASSUME NEW p \in Commands, PairInsert(p) PROVE DirectoryTypeOK'
  <2>1. PICK d \in Devices \ Rows : NewRow(p, d)
    BY <1>6, RowInserted
  <2> QED
    BY <1>6, <2>1 DEF PairInsert, NewRow
<1>7. ASSUME NEW p \in Commands, PairDel(p) PROVE DirectoryTypeOK'
  BY <1>7 DEF PairDel
<1>8. ASSUME NEW p \in Commands, PairOnline(p) PROVE DirectoryTypeOK'
  BY <1>8 DEF PairOnline
<1>9. ASSUME NEW p \in Commands, PairFails(p) PROVE DirectoryTypeOK'
  BY <1>9 DEF PairFails, Fault, Ended, Idle
<1>10. ASSUME NEW p \in Commands, CreateConfig(p) PROVE DirectoryTypeOK'
  <2>1. CASE command[p].kind = "pair"
    BY <1>10, <2>1 DEF CreateConfig, Config, Ensured
  <2>2. CASE command[p].kind # "pair"
    BY <1>10, <2>2 DEF CreateConfig, Config, Ensured
  <2> QED
    BY <2>1, <2>2
<1>11. ASSUME NEW p \in Commands, LoadConfig(p) PROVE DirectoryTypeOK'
  <2>1. CASE config.text = "torn"
    <3>1. command' = [command EXCEPT ![p] = Ended]
      BY <1>11, <2>1 DEF LoadConfig
    <3> QED
      BY <1>11, <3>1 DEF LoadConfig, Ended, Idle
  <2>2. CASE config.text # "torn"
    <3>1. command' = [command EXCEPT ![p] = [command[p] EXCEPT !.step = "write", !.read = config]]
      BY <1>11, <2>2 DEF LoadConfig
    <3>2. [command[p] EXCEPT !.step = "write", !.read = config] \in CommandState
      BY ConfigRead
    <3> QED
      BY <1>11, <2>2, <3>1, <3>2 DEF LoadConfig
  <2> QED
    BY <2>1, <2>2
<1>12. ASSUME NEW p \in Commands, Truncate(p) PROVE DirectoryTypeOK'
  <2>1. config' \in Configs /\ config'.token = config.token
    BY <1>12 DEF Truncate
  <2>2. command' \in [Commands -> CommandState]
    BY <1>12 DEF Truncate
  <2> QED
    BY <1>12, <2>1, <2>2 DEF Truncate
<1>13. ASSUME NEW p \in Commands, WriteConfig(p) PROVE DirectoryTypeOK'
  <2>1. CASE command[p].kind = "pair"
    BY <1>13, <2>1 DEF WriteConfig, Merged, Config, Ended, Idle
  <2>2. CASE command[p].kind # "pair"
    BY <1>13, <2>2 DEF WriteConfig, Merged, Config, Ended, Idle
  <2> QED
    BY <2>1, <2>2
<1>14. ASSUME NEW p \in Commands, KillCommand(p) PROVE DirectoryTypeOK'
  BY <1>14 DEF KillCommand, Fault, Ended, Idle
<1>15. CASE StartDaemon
  <2>1. CASE config.text = "absent"
    BY <1>15, <2>1 DEF StartDaemon, Config
  <2>2. CASE config.text # "absent"
    BY <1>15, <2>2 DEF StartDaemon
  <2> QED
    BY <2>1, <2>2
<1>16. CASE tickOnline
  BY <1>16 DEF tickOnline, Send
<1>17. CASE shutdown
  <2>1. CASE daemon.token = NoDevice
    BY <1>17, <2>1 DEF shutdown
  <2>2. CASE daemon.token # NoDevice /\ config.text # "valid"
    BY <1>17, <2>2 DEF shutdown, Send
  <2>3. CASE daemon.token # NoDevice /\ config.text = "valid"
    BY <1>17, <2>3 DEF shutdown, Send
  <2> QED
    BY <2>1, <2>2, <2>3
<1>18. CASE DaemonExits
  BY <1>18 DEF DaemonExits
<1>19. CASE KillDaemon
  BY <1>19 DEF KillDaemon, Fault
<1>20. ASSUME NEW b \in beats, heartbeat(b) PROVE DirectoryTypeOK'
  <2>1. b \in [id : Nat, device : Rows, reports : {"online", "offline"}] /\ b.device \in Rows
    BY <1>20
  <2>2. CASE b.reports = "offline"
    BY <1>20, <2>1, <2>2 DEF heartbeat
  <2>3. CASE b.reports = "online"
    BY <1>20, <2>1, <2>3 DEF heartbeat, Reporting
  <2> QED
    BY <2>2, <2>3
<1>21. ASSUME NEW b \in beats, LoseBeat(b) PROVE DirectoryTypeOK'
  BY <1>21 DEF LoseBeat, Fault
<1>22. ASSUME NEW d \in Devices, Expire(d) PROVE DirectoryTypeOK'
  BY <1>22 DEF Expire, Reporting
<1>23. ASSUME NEW d \in Devices, onSelectDevice(d) PROVE DirectoryTypeOK'
  BY <1>23 DEF onSelectDevice
<1>24. CASE UNCHANGED directoryVars
  BY <1>24 DEF directoryVars
<1> QED
  BY <1>1, <1>2, <1>3, <1>4, <1>5, <1>6, <1>7, <1>8, <1>9, <1>10, <1>11, <1>12, <1>13, <1>14, <1>15,
      <1>16, <1>17, <1>18, <1>19, <1>20, <1>21, <1>22, <1>23, <1>24 DEF DirectoryNext

\* Only PairInsert adds a row, and it is the next.
LEMMA RowsStep ==
    ASSUME DirectoryTypeOK, RowsInOrder, CommandsHold, [DirectoryNext]_directoryVars
    PROVE  RowsInOrder'
<1> USE DirectoryAssumption DEF RowsInOrder, Rows, Devices, directoryHistory
<1>1. ASSUME NEW c \in Codes, createPairCode(c) PROVE RowsInOrder'
  BY <1>1 DEF createPairCode
<1>2. ASSUME NEW c \in Codes, ExpireCode(c) PROVE RowsInOrder'
  BY <1>2 DEF ExpireCode
<1>3. ASSUME NEW p \in Commands, NEW c \in Codes, Run(p, "pair", c) PROVE RowsInOrder'
  BY <1>3 DEF Run, Idle, Ensured
<1>4. ASSUME NEW p \in Commands, Run(p, "use", Nothing) PROVE RowsInOrder'
  BY <1>4 DEF Run, Idle, Ensured
<1>5. ASSUME NEW p \in Commands, PairGet(p) PROVE RowsInOrder'
  BY <1>5 DEF PairGet, Ended, Idle
<1>6. ASSUME NEW p \in Commands, PairInsert(p) PROVE RowsInOrder'
  <2>1. PICK d \in Devices \ Rows : NewRow(p, d)
    BY <1>6, RowInserted
  <2> QED
    BY <1>6, <2>1 DEF PairInsert, NewRow
<1>7. ASSUME NEW p \in Commands, PairDel(p) PROVE RowsInOrder'
  BY <1>7 DEF PairDel
<1>8. ASSUME NEW p \in Commands, PairOnline(p) PROVE RowsInOrder'
  BY <1>8 DEF PairOnline
<1>9. ASSUME NEW p \in Commands, PairFails(p) PROVE RowsInOrder'
  BY <1>9 DEF PairFails, Fault, Ended, Idle
<1>10. ASSUME NEW p \in Commands, CreateConfig(p) PROVE RowsInOrder'
  BY <1>10 DEF CreateConfig, Config, Ensured
<1>11. ASSUME NEW p \in Commands, LoadConfig(p) PROVE RowsInOrder'
  BY <1>11 DEF LoadConfig, Ended, Idle
<1>12. ASSUME NEW p \in Commands, Truncate(p) PROVE RowsInOrder'
  BY <1>12 DEF Truncate
<1>13. ASSUME NEW p \in Commands, WriteConfig(p) PROVE RowsInOrder'
  BY <1>13 DEF WriteConfig, Merged, Config, Ended, Idle
<1>14. ASSUME NEW p \in Commands, KillCommand(p) PROVE RowsInOrder'
  BY <1>14 DEF KillCommand, Fault, Ended, Idle
<1>15. CASE StartDaemon
  BY <1>15 DEF StartDaemon, Config
<1>16. CASE tickOnline
  BY <1>16 DEF tickOnline, Send
<1>17. CASE shutdown
  BY <1>17 DEF shutdown, Send
<1>18. CASE DaemonExits
  BY <1>18 DEF DaemonExits
<1>19. CASE KillDaemon
  BY <1>19 DEF KillDaemon, Fault
<1>20. ASSUME NEW b \in beats, heartbeat(b) PROVE RowsInOrder'
  BY <1>20 DEF heartbeat, Reporting
<1>21. ASSUME NEW b \in beats, LoseBeat(b) PROVE RowsInOrder'
  BY <1>21 DEF LoseBeat, Fault
<1>22. ASSUME NEW d \in Devices, Expire(d) PROVE RowsInOrder'
  BY <1>22 DEF Expire, Reporting
<1>23. ASSUME NEW d \in Devices, onSelectDevice(d) PROVE RowsInOrder'
  BY <1>23 DEF onSelectDevice
<1>24. CASE UNCHANGED directoryVars
  BY <1>24 DEF directoryVars
<1> QED
  BY <1>1, <1>2, <1>3, <1>4, <1>5, <1>6, <1>7, <1>8, <1>9, <1>10, <1>11, <1>12, <1>13, <1>14, <1>15,
      <1>16, <1>17, <1>18, <1>19, <1>20, <1>21, <1>22, <1>23, <1>24 DEF DirectoryNext

\* A command takes its steps in order and keeps what it holds.
LEMMA CommandsStep ==
    ASSUME DirectoryTypeOK, RowsInOrder, CommandsHold, [DirectoryNext]_directoryVars
    PROVE  CommandsHold'
<1> USE DirectoryAssumption DEF CommandsHold, DirectoryTypeOK, CommandState, Rows, Devices,
    NoDevice, Kinds, Steps, Configs, directoryHistory
<1>1. ASSUME NEW c \in Codes, createPairCode(c) PROVE CommandsHold'
  BY <1>1 DEF createPairCode
<1>2. ASSUME NEW c \in Codes, ExpireCode(c) PROVE CommandsHold'
  BY <1>2 DEF ExpireCode
<1>3. ASSUME NEW p \in Commands, NEW c \in Codes, Run(p, "pair", c) PROVE CommandsHold'
  BY <1>3 DEF Run, Idle, Ensured
<1>4. ASSUME NEW p \in Commands, Run(p, "use", Nothing) PROVE CommandsHold'
  BY <1>4 DEF Run, Idle, Ensured
<1>5. ASSUME NEW p \in Commands, PairGet(p) PROVE CommandsHold'
  BY <1>5 DEF PairGet, Ended, Idle
<1>6. ASSUME NEW p \in Commands, PairInsert(p) PROVE CommandsHold'
  <2>1. PICK d \in Devices \ Rows : NewRow(p, d)
    BY <1>6, RowInserted
  <2> QED
    BY <1>6, <2>1 DEF PairInsert, NewRow
<1>7. ASSUME NEW p \in Commands, PairDel(p) PROVE CommandsHold'
  BY <1>7 DEF PairDel
<1>8. ASSUME NEW p \in Commands, PairOnline(p) PROVE CommandsHold'
  BY <1>8 DEF PairOnline
<1>9. ASSUME NEW p \in Commands, PairFails(p) PROVE CommandsHold'
  BY <1>9 DEF PairFails, Fault, Ended, Idle
<1>10. ASSUME NEW p \in Commands, CreateConfig(p) PROVE CommandsHold'
  BY <1>10 DEF CreateConfig, Config, Ensured
<1>11. ASSUME NEW p \in Commands, LoadConfig(p) PROVE CommandsHold'
  BY <1>11 DEF LoadConfig, Ended, Idle
<1>12. ASSUME NEW p \in Commands, Truncate(p) PROVE CommandsHold'
  BY <1>12 DEF Truncate
<1>13. ASSUME NEW p \in Commands, WriteConfig(p) PROVE CommandsHold'
  BY <1>13 DEF WriteConfig, Merged, Config, Ended, Idle
<1>14. ASSUME NEW p \in Commands, KillCommand(p) PROVE CommandsHold'
  BY <1>14 DEF KillCommand, Fault, Ended, Idle
<1>15. CASE StartDaemon
  BY <1>15 DEF StartDaemon, Config
<1>16. CASE tickOnline
  BY <1>16 DEF tickOnline, Send
<1>17. CASE shutdown
  BY <1>17 DEF shutdown, Send
<1>18. CASE DaemonExits
  BY <1>18 DEF DaemonExits
<1>19. CASE KillDaemon
  BY <1>19 DEF KillDaemon, Fault
<1>20. ASSUME NEW b \in beats, heartbeat(b) PROVE CommandsHold'
  BY <1>20 DEF heartbeat, Reporting
<1>21. ASSUME NEW b \in beats, LoseBeat(b) PROVE CommandsHold'
  BY <1>21 DEF LoseBeat, Fault
<1>22. ASSUME NEW d \in Devices, Expire(d) PROVE CommandsHold'
  BY <1>22 DEF Expire, Reporting
<1>23. ASSUME NEW d \in Devices, onSelectDevice(d) PROVE CommandsHold'
  BY <1>23 DEF onSelectDevice
<1>24. CASE UNCHANGED directoryVars
  BY <1>24 DEF directoryVars
<1> QED
  BY <1>1, <1>2, <1>3, <1>4, <1>5, <1>6, <1>7, <1>8, <1>9, <1>10, <1>11, <1>12, <1>13, <1>14, <1>15,
      <1>16, <1>17, <1>18, <1>19, <1>20, <1>21, <1>22, <1>23, <1>24 DEF DirectoryNext

\* A second request that finds a code before the first has deleted it sets shared.
LEMMA CodesStep ==
    ASSUME DirectoryTypeOK, RowsInOrder, CommandsHold, CodesInUse, [DirectoryNext]_directoryVars
    PROVE  CodesInUse'
<1> USE DirectoryAssumption DEF CodesInUse, CommandsHold, DirectoryTypeOK, CommandState, Rows,
    Devices, NoDevice, Kinds, Steps, Configs, directoryHistory
<1>1. ASSUME NEW c \in Codes, createPairCode(c) PROVE CodesInUse'
  BY <1>1 DEF createPairCode
<1>2. ASSUME NEW c \in Codes, ExpireCode(c) PROVE CodesInUse'
  BY <1>2 DEF ExpireCode
<1>3. ASSUME NEW p \in Commands, NEW c \in Codes, Run(p, "pair", c) PROVE CodesInUse'
  BY <1>3 DEF Run, Idle, Ensured
<1>4. ASSUME NEW p \in Commands, Run(p, "use", Nothing) PROVE CodesInUse'
  BY <1>4 DEF Run, Idle, Ensured
<1>5. ASSUME NEW p \in Commands, PairGet(p) PROVE CodesInUse'
  <2>1. CASE code[command[p].code] # "live"
    <3>1. command' = [command EXCEPT ![p] = Ended]
      BY <1>5, <2>1 DEF PairGet
    <3> QED
      BY <1>5, <3>1 DEF PairGet, Ended, Idle
  <2>2. CASE code[command[p].code] = "live"
    <3>1. command' = [command EXCEPT ![p] = [command[p] EXCEPT !.step = "found"]]
      BY <1>5, <2>2 DEF PairGet
    <3> QED
      BY <1>5, <2>2, <3>1 DEF PairGet
  <2> QED
    BY <2>1, <2>2
<1>6. ASSUME NEW p \in Commands, PairInsert(p) PROVE CodesInUse'
  <2>1. PICK d \in Devices \ Rows : NewRow(p, d)
    BY <1>6, RowInserted
  <2>2. SUFFICES ASSUME shared = 0, bound.faults = 0
                 PROVE  CodesInUse'
    BY <1>6 DEF PairInsert
  <2>3. command[p].step = "found" /\ UNCHANGED <<code, shared, bound>>
    BY <1>6 DEF PairInsert
  <2>4. \A q \in Commands : command'[q].code = command[q].code
          /\ (q # p => command'[q].step = command[q].step)
    BY <2>1 DEF NewRow
  <2>5. command'[p].step = "inserted"
    BY <2>1 DEF NewRow
  <2>6. \A q \in Commands : command'[q].step = "found" => \A e \in Rows' : owner'[e] # command'[q].code
    BY <2>1, <2>2, <2>3, <2>4, <2>5 DEF NewRow
  <2>7. \A q, o \in Commands :
          /\ command'[q].step \in {"found", "inserted"} /\ command'[o].step \in {"found", "inserted"}
          /\ command'[q].code = command'[o].code
          => q = o
    BY <2>2, <2>3, <2>4
  <2>8. \A e \in Rows' : \/ code[owner'[e]] = "gone"
                        \/ \E q \in Commands : command'[q].step = "inserted" /\ command'[q].code = owner'[e]
    BY <2>1, <2>2, <2>3, <2>4, <2>5 DEF NewRow
  <2> QED
    BY <2>3, <2>6, <2>7, <2>8
<1>7. ASSUME NEW p \in Commands, PairDel(p) PROVE CodesInUse'
  BY <1>7 DEF PairDel
<1>8. ASSUME NEW p \in Commands, PairOnline(p) PROVE CodesInUse'
  BY <1>8 DEF PairOnline
<1>9. ASSUME NEW p \in Commands, PairFails(p) PROVE CodesInUse'
  BY <1>9 DEF PairFails, Fault, Ended, Idle
<1>10. ASSUME NEW p \in Commands, CreateConfig(p) PROVE CodesInUse'
  BY <1>10 DEF CreateConfig, Config, Ensured
<1>11. ASSUME NEW p \in Commands, LoadConfig(p) PROVE CodesInUse'
  BY <1>11 DEF LoadConfig, Ended, Idle
<1>12. ASSUME NEW p \in Commands, Truncate(p) PROVE CodesInUse'
  BY <1>12 DEF Truncate
<1>13. ASSUME NEW p \in Commands, WriteConfig(p) PROVE CodesInUse'
  BY <1>13 DEF WriteConfig, Merged, Config, Ended, Idle
<1>14. ASSUME NEW p \in Commands, KillCommand(p) PROVE CodesInUse'
  BY <1>14 DEF KillCommand, Fault, Ended, Idle
<1>15. CASE StartDaemon
  BY <1>15 DEF StartDaemon, Config
<1>16. CASE tickOnline
  BY <1>16 DEF tickOnline, Send
<1>17. CASE shutdown
  BY <1>17 DEF shutdown, Send
<1>18. CASE DaemonExits
  BY <1>18 DEF DaemonExits
<1>19. CASE KillDaemon
  BY <1>19 DEF KillDaemon, Fault
<1>20. ASSUME NEW b \in beats, heartbeat(b) PROVE CodesInUse'
  BY <1>20 DEF heartbeat, Reporting
<1>21. ASSUME NEW b \in beats, LoseBeat(b) PROVE CodesInUse'
  BY <1>21 DEF LoseBeat, Fault
<1>22. ASSUME NEW d \in Devices, Expire(d) PROVE CodesInUse'
  BY <1>22 DEF Expire, Reporting
<1>23. ASSUME NEW d \in Devices, onSelectDevice(d) PROVE CodesInUse'
  BY <1>23 DEF onSelectDevice
<1>24. CASE UNCHANGED directoryVars
  BY <1>24 DEF directoryVars
<1> QED
  BY <1>1, <1>2, <1>3, <1>4, <1>5, <1>6, <1>7, <1>8, <1>9, <1>10, <1>11, <1>12, <1>13, <1>14, <1>15,
      <1>16, <1>17, <1>18, <1>19, <1>20, <1>21, <1>22, <1>23, <1>24 DEF DirectoryNext

\* The code of a new row has no other row.
LEMMA PairsOnceStep ==
    ASSUME DirectoryTypeOK, RowsInOrder, CommandsHold, CodesInUse, CodePairsOnce,
        [DirectoryNext]_directoryVars
    PROVE  CodePairsOnce'
<1> USE DirectoryAssumption DEF CodesInUse, CodePairsOnce, CommandsHold, DirectoryTypeOK,
    CommandState, Rows, Devices, NoDevice, Kinds, Steps, Configs, directoryHistory
<1>1. ASSUME NEW c \in Codes, createPairCode(c) PROVE CodePairsOnce'
  BY <1>1 DEF createPairCode
<1>2. ASSUME NEW c \in Codes, ExpireCode(c) PROVE CodePairsOnce'
  BY <1>2 DEF ExpireCode
<1>3. ASSUME NEW p \in Commands, NEW c \in Codes, Run(p, "pair", c)
      PROVE  CodePairsOnce'
  BY <1>3 DEF Run, Idle, Ensured
<1>4. ASSUME NEW p \in Commands, Run(p, "use", Nothing) PROVE CodePairsOnce'
  BY <1>4 DEF Run, Idle, Ensured
<1>5. ASSUME NEW p \in Commands, PairGet(p) PROVE CodePairsOnce'
  BY <1>5 DEF PairGet, Ended, Idle
<1>6. ASSUME NEW p \in Commands, PairInsert(p) PROVE CodePairsOnce'
  <2>1. PICK d \in Devices \ Rows : NewRow(p, d)
    BY <1>6, RowInserted
  <2> QED
    BY <1>6, <2>1 DEF PairInsert, NewRow
<1>7. ASSUME NEW p \in Commands, PairDel(p) PROVE CodePairsOnce'
  BY <1>7 DEF PairDel
<1>8. ASSUME NEW p \in Commands, PairOnline(p) PROVE CodePairsOnce'
  BY <1>8 DEF PairOnline
<1>9. ASSUME NEW p \in Commands, PairFails(p) PROVE CodePairsOnce'
  BY <1>9 DEF PairFails, Fault, Ended, Idle
<1>10. ASSUME NEW p \in Commands, CreateConfig(p) PROVE CodePairsOnce'
  BY <1>10 DEF CreateConfig, Config, Ensured
<1>11. ASSUME NEW p \in Commands, LoadConfig(p) PROVE CodePairsOnce'
  BY <1>11 DEF LoadConfig, Ended, Idle
<1>12. ASSUME NEW p \in Commands, Truncate(p) PROVE CodePairsOnce'
  BY <1>12 DEF Truncate
<1>13. ASSUME NEW p \in Commands, WriteConfig(p) PROVE CodePairsOnce'
  BY <1>13 DEF WriteConfig, Merged, Config, Ended, Idle
<1>14. ASSUME NEW p \in Commands, KillCommand(p) PROVE CodePairsOnce'
  BY <1>14 DEF KillCommand, Fault, Ended, Idle
<1>15. CASE StartDaemon
  BY <1>15 DEF StartDaemon, Config
<1>16. CASE tickOnline
  BY <1>16 DEF tickOnline, Send
<1>17. CASE shutdown
  BY <1>17 DEF shutdown, Send
<1>18. CASE DaemonExits
  BY <1>18 DEF DaemonExits
<1>19. CASE KillDaemon
  BY <1>19 DEF KillDaemon, Fault
<1>20. ASSUME NEW b \in beats, heartbeat(b) PROVE CodePairsOnce'
  BY <1>20 DEF heartbeat, Reporting
<1>21. ASSUME NEW b \in beats, LoseBeat(b) PROVE CodePairsOnce'
  BY <1>21 DEF LoseBeat, Fault
<1>22. ASSUME NEW d \in Devices, Expire(d) PROVE CodePairsOnce'
  BY <1>22 DEF Expire, Reporting
<1>23. ASSUME NEW d \in Devices, onSelectDevice(d) PROVE CodePairsOnce'
  BY <1>23 DEF onSelectDevice
<1>24. CASE UNCHANGED directoryVars
  BY <1>24 DEF directoryVars
<1> QED
  BY <1>1, <1>2, <1>3, <1>4, <1>5, <1>6, <1>7, <1>8, <1>9, <1>10, <1>11, <1>12, <1>13, <1>14, <1>15,
      <1>16, <1>17, <1>18, <1>19, <1>20, <1>21, <1>22, <1>23, <1>24 DEF DirectoryNext

\* Whoever truncates a file it has not read, or that another truncated, sets mixed.
LEMMA WriterStep ==
    ASSUME DirectoryTypeOK, RowsInOrder, CommandsHold, WriterHasSaved, ConfigKeepsSaved,
        [DirectoryNext]_directoryVars
    PROVE  WriterHasSaved'
<1> USE DirectoryAssumption DEF WriterHasSaved, ConfigKeepsSaved, CommandsHold, DirectoryTypeOK,
    CommandState, Rows, Devices, NoDevice, Kinds, Steps, Configs, directoryHistory
<1>1. ASSUME NEW c \in Codes, createPairCode(c) PROVE WriterHasSaved'
  BY <1>1 DEF createPairCode
<1>2. ASSUME NEW c \in Codes, ExpireCode(c) PROVE WriterHasSaved'
  BY <1>2 DEF ExpireCode
<1>3. ASSUME NEW p \in Commands, NEW c \in Codes, Run(p, "pair", c)
      PROVE  WriterHasSaved'
  BY <1>3 DEF Run, Idle, Ensured
<1>4. ASSUME NEW p \in Commands, Run(p, "use", Nothing) PROVE WriterHasSaved'
  BY <1>4 DEF Run, Idle, Ensured
<1>5. ASSUME NEW p \in Commands, PairGet(p) PROVE WriterHasSaved'
  BY <1>5 DEF PairGet, Ended, Idle
<1>6. ASSUME NEW p \in Commands, PairInsert(p) PROVE WriterHasSaved'
  <2>1. PICK d \in Devices \ Rows : NewRow(p, d)
    BY <1>6, RowInserted
  <2> QED
    BY <1>6, <2>1 DEF PairInsert, NewRow
<1>7. ASSUME NEW p \in Commands, PairDel(p) PROVE WriterHasSaved'
  BY <1>7 DEF PairDel
<1>8. ASSUME NEW p \in Commands, PairOnline(p) PROVE WriterHasSaved'
  BY <1>8 DEF PairOnline
<1>9. ASSUME NEW p \in Commands, PairFails(p) PROVE WriterHasSaved'
  BY <1>9 DEF PairFails, Fault, Ended, Idle
<1>10. ASSUME NEW p \in Commands, CreateConfig(p) PROVE WriterHasSaved'
  <2>1. CASE command[p].kind = "pair"
    BY <1>10, <2>1 DEF CreateConfig, Config, Ensured
  <2>2. CASE command[p].kind # "pair"
    BY <1>10, <2>2 DEF CreateConfig, Config, Ensured
  <2> QED
    BY <2>1, <2>2
<1>11. ASSUME NEW p \in Commands, LoadConfig(p) PROVE WriterHasSaved'
  <2>1. CASE config.text = "torn"
    <3>1. command' = [command EXCEPT ![p] = Ended]
      BY <1>11, <2>1 DEF LoadConfig
    <3> QED
      BY <1>11, <3>1 DEF LoadConfig, Ended, Idle
  <2>2. CASE config.text # "torn"
    <3>1. command' = [command EXCEPT ![p] = [command[p] EXCEPT !.step = "write", !.read = config]]
      BY <1>11, <2>2 DEF LoadConfig
    <3> QED
      BY <1>11, <2>2, <3>1 DEF LoadConfig
  <2> QED
    BY <2>1, <2>2
<1>12. ASSUME NEW p \in Commands, Truncate(p) PROVE WriterHasSaved'
  BY <1>12 DEF Truncate
<1>13. ASSUME NEW p \in Commands, WriteConfig(p) PROVE WriterHasSaved'
  BY <1>13 DEF WriteConfig, Merged, Config, Ended, Idle
<1>14. ASSUME NEW p \in Commands, KillCommand(p) PROVE WriterHasSaved'
  BY <1>14 DEF KillCommand, Fault, Ended, Idle
<1>15. CASE StartDaemon
  BY <1>15 DEF StartDaemon, Config
<1>16. CASE tickOnline
  BY <1>16 DEF tickOnline, Send
<1>17. CASE shutdown
  BY <1>17 DEF shutdown, Send
<1>18. CASE DaemonExits
  BY <1>18 DEF DaemonExits
<1>19. CASE KillDaemon
  BY <1>19 DEF KillDaemon, Fault
<1>20. ASSUME NEW b \in beats, heartbeat(b) PROVE WriterHasSaved'
  BY <1>20 DEF heartbeat, Reporting
<1>21. ASSUME NEW b \in beats, LoseBeat(b) PROVE WriterHasSaved'
  BY <1>21 DEF LoseBeat, Fault
<1>22. ASSUME NEW d \in Devices, Expire(d) PROVE WriterHasSaved'
  BY <1>22 DEF Expire, Reporting
<1>23. ASSUME NEW d \in Devices, onSelectDevice(d) PROVE WriterHasSaved'
  BY <1>23 DEF onSelectDevice
<1>24. CASE UNCHANGED directoryVars
  BY <1>24 DEF directoryVars
<1> QED
  BY <1>1, <1>2, <1>3, <1>4, <1>5, <1>6, <1>7, <1>8, <1>9, <1>10, <1>11, <1>12, <1>13, <1>14, <1>15,
      <1>16, <1>17, <1>18, <1>19, <1>20, <1>21, <1>22, <1>23, <1>24 DEF DirectoryNext

\* The text that is written is what was saved last, with the patch.
LEMMA SavedStep ==
    ASSUME DirectoryTypeOK, RowsInOrder, CommandsHold, WriterHasSaved, ConfigKeepsSaved,
        [DirectoryNext]_directoryVars
    PROVE  ConfigKeepsSaved'
<1> USE DirectoryAssumption DEF WriterHasSaved, ConfigKeepsSaved, CommandsHold, DirectoryTypeOK,
    CommandState, Rows, Devices, NoDevice, Kinds, Steps, Configs, directoryHistory
<1>1. ASSUME NEW c \in Codes, createPairCode(c) PROVE ConfigKeepsSaved'
  BY <1>1 DEF createPairCode
<1>2. ASSUME NEW c \in Codes, ExpireCode(c) PROVE ConfigKeepsSaved'
  BY <1>2 DEF ExpireCode
<1>3. ASSUME NEW p \in Commands, NEW c \in Codes, Run(p, "pair", c)
      PROVE  ConfigKeepsSaved'
  BY <1>3 DEF Run, Idle, Ensured
<1>4. ASSUME NEW p \in Commands, Run(p, "use", Nothing) PROVE ConfigKeepsSaved'
  BY <1>4 DEF Run, Idle, Ensured
<1>5. ASSUME NEW p \in Commands, PairGet(p) PROVE ConfigKeepsSaved'
  BY <1>5 DEF PairGet, Ended, Idle
<1>6. ASSUME NEW p \in Commands, PairInsert(p) PROVE ConfigKeepsSaved'
  <2>1. PICK d \in Devices \ Rows : NewRow(p, d)
    BY <1>6, RowInserted
  <2> QED
    BY <1>6, <2>1 DEF PairInsert, NewRow
<1>7. ASSUME NEW p \in Commands, PairDel(p) PROVE ConfigKeepsSaved'
  BY <1>7 DEF PairDel
<1>8. ASSUME NEW p \in Commands, PairOnline(p) PROVE ConfigKeepsSaved'
  BY <1>8 DEF PairOnline
<1>9. ASSUME NEW p \in Commands, PairFails(p) PROVE ConfigKeepsSaved'
  BY <1>9 DEF PairFails, Fault, Ended, Idle
<1>10. ASSUME NEW p \in Commands, CreateConfig(p) PROVE ConfigKeepsSaved'
  BY <1>10 DEF CreateConfig, Config, Ensured
<1>11. ASSUME NEW p \in Commands, LoadConfig(p) PROVE ConfigKeepsSaved'
  BY <1>11 DEF LoadConfig, Ended, Idle
<1>12. ASSUME NEW p \in Commands, Truncate(p) PROVE ConfigKeepsSaved'
  BY <1>12 DEF Truncate
<1>13. ASSUME NEW p \in Commands, WriteConfig(p) PROVE ConfigKeepsSaved'
  BY <1>13 DEF WriteConfig, Merged, Config, Ended, Idle
<1>14. ASSUME NEW p \in Commands, KillCommand(p) PROVE ConfigKeepsSaved'
  BY <1>14 DEF KillCommand, Fault, Ended, Idle
<1>15. CASE StartDaemon
  BY <1>15 DEF StartDaemon, Config
<1>16. CASE tickOnline
  BY <1>16 DEF tickOnline, Send
<1>17. CASE shutdown
  BY <1>17 DEF shutdown, Send
<1>18. CASE DaemonExits
  BY <1>18 DEF DaemonExits
<1>19. CASE KillDaemon
  BY <1>19 DEF KillDaemon, Fault
<1>20. ASSUME NEW b \in beats, heartbeat(b) PROVE ConfigKeepsSaved'
  BY <1>20 DEF heartbeat, Reporting
<1>21. ASSUME NEW b \in beats, LoseBeat(b) PROVE ConfigKeepsSaved'
  BY <1>21 DEF LoseBeat, Fault
<1>22. ASSUME NEW d \in Devices, Expire(d) PROVE ConfigKeepsSaved'
  BY <1>22 DEF Expire, Reporting
<1>23. ASSUME NEW d \in Devices, onSelectDevice(d) PROVE ConfigKeepsSaved'
  BY <1>23 DEF onSelectDevice
<1>24. CASE UNCHANGED directoryVars
  BY <1>24 DEF directoryVars
<1> QED
  BY <1>1, <1>2, <1>3, <1>4, <1>5, <1>6, <1>7, <1>8, <1>9, <1>10, <1>11, <1>12, <1>13, <1>14, <1>15,
      <1>16, <1>17, <1>18, <1>19, <1>20, <1>21, <1>22, <1>23, <1>24 DEF DirectoryNext

\* The daemon stops reporting for a device only with a report that is on its way, or with an
\* excuse.
LEMMA OnlineStep ==
    ASSUME DirectoryTypeOK, RowsInOrder, CommandsHold, OnlineExplained, WriterHasSaved,
        [DirectoryNext]_directoryVars
    PROVE  OnlineExplained'
<1> USE DirectoryAssumption DEF OnlineExplained, WriterHasSaved, CommandsHold, DirectoryTypeOK,
    CommandState, Rows, Devices, NoDevice, Kinds, Steps, Configs, directoryHistory
<1>1. ASSUME NEW c \in Codes, createPairCode(c) PROVE OnlineExplained'
  BY <1>1 DEF createPairCode
<1>2. ASSUME NEW c \in Codes, ExpireCode(c) PROVE OnlineExplained'
  BY <1>2 DEF ExpireCode
<1>3. ASSUME NEW p \in Commands, NEW c \in Codes, Run(p, "pair", c)
      PROVE  OnlineExplained'
  BY <1>3 DEF Run, Idle, Ensured
<1>4. ASSUME NEW p \in Commands, Run(p, "use", Nothing) PROVE OnlineExplained'
  BY <1>4 DEF Run, Idle, Ensured
<1>5. ASSUME NEW p \in Commands, PairGet(p) PROVE OnlineExplained'
  BY <1>5 DEF PairGet, Ended, Idle
<1>6. ASSUME NEW p \in Commands, PairInsert(p) PROVE OnlineExplained'
  <2>1. PICK d \in Devices \ Rows : NewRow(p, d)
    BY <1>6, RowInserted
  <2> QED
    BY <1>6, <2>1 DEF PairInsert, NewRow
<1>7. ASSUME NEW p \in Commands, PairDel(p) PROVE OnlineExplained'
  BY <1>7 DEF PairDel
<1>8. ASSUME NEW p \in Commands, PairOnline(p) PROVE OnlineExplained'
  BY <1>8 DEF PairOnline
<1>9. ASSUME NEW p \in Commands, PairFails(p) PROVE OnlineExplained'
  BY <1>9 DEF PairFails, Fault, Ended, Idle
<1>10. ASSUME NEW p \in Commands, CreateConfig(p) PROVE OnlineExplained'
  BY <1>10 DEF CreateConfig, Config, Ensured
<1>11. ASSUME NEW p \in Commands, LoadConfig(p) PROVE OnlineExplained'
  BY <1>11 DEF LoadConfig, Ended, Idle
<1>12. ASSUME NEW p \in Commands, Truncate(p) PROVE OnlineExplained'
  BY <1>12 DEF Truncate
<1>13. ASSUME NEW p \in Commands, WriteConfig(p) PROVE OnlineExplained'
  BY <1>13 DEF WriteConfig, Merged, Config, Ended, Idle
<1>14. ASSUME NEW p \in Commands, KillCommand(p) PROVE OnlineExplained'
  BY <1>14 DEF KillCommand, Fault, Ended, Idle
<1>15. CASE StartDaemon
  BY <1>15 DEF StartDaemon, Config
<1>16. CASE tickOnline
  BY <1>16 DEF tickOnline, Send
<1>17. CASE shutdown
  <2>1. CASE daemon.token = NoDevice
    BY <1>17, <2>1 DEF shutdown
  <2>2. CASE daemon.token # NoDevice /\ config.text # "valid"
    BY <1>17, <2>2 DEF shutdown, Send
  <2>3. CASE daemon.token # NoDevice /\ config.text = "valid"
    <3>1. CASE config.token = NoDevice
      BY <1>17, <2>3, <3>1 DEF shutdown, Send
    <3>2. CASE config.token # NoDevice
      <4>1. PICK o \in beats' : o.reports = "offline" /\ o.device = config.token
        <5> DEFINE report == [id |-> bound.beats, device |-> config.token, reports |-> "offline"]
        <5>1. beats' = beats \cup {report}
          BY <1>17, <2>3, <3>2 DEF shutdown, Send
        <5>2. report \in beats' /\ report.reports = "offline" /\ report.device = config.token
          BY <5>1
        <5> HIDE DEF report
        <5> QED
          BY <5>2
      <4>2. /\ daemon.step = "running" /\ daemon'.step = "stopping"
            /\ online' = online /\ excused' = excused
        BY <1>17, <2>3 DEF shutdown
      <4> QED
        BY <4>1, <4>2
    <3> QED
      BY <3>1, <3>2
  <2> QED
    BY <2>1, <2>2, <2>3
<1>18. CASE DaemonExits
  BY <1>18 DEF DaemonExits
<1>19. CASE KillDaemon
  BY <1>19 DEF KillDaemon, Fault
<1>20. ASSUME NEW b \in beats, heartbeat(b) PROVE OnlineExplained'
  BY <1>20 DEF heartbeat, Reporting
<1>21. ASSUME NEW b \in beats, LoseBeat(b) PROVE OnlineExplained'
  BY <1>21 DEF LoseBeat, Fault
<1>22. ASSUME NEW d \in Devices, Expire(d) PROVE OnlineExplained'
  BY <1>22 DEF Expire, Reporting
<1>23. ASSUME NEW d \in Devices, onSelectDevice(d) PROVE OnlineExplained'
  BY <1>23 DEF onSelectDevice
<1>24. CASE UNCHANGED directoryVars
  BY <1>24 DEF directoryVars
<1> QED
  BY <1>1, <1>2, <1>3, <1>4, <1>5, <1>6, <1>7, <1>8, <1>9, <1>10, <1>11, <1>12, <1>13, <1>14, <1>15,
      <1>16, <1>17, <1>18, <1>19, <1>20, <1>21, <1>22, <1>23, <1>24 DEF DirectoryNext

\* What follows from the other parts in every state.
LEMMA DirectoryFollows ==
    ASSUME DirectoryTypeOK, RowsInOrder, OnlineExplained
    PROVE  StoppedIsOffline /\ OnlyDeviceAccepted
<1>1. StoppedIsOffline
  BY DEF OnlineExplained, StoppedIsOffline
<1>2. OnlyDeviceAccepted
  <2>1. SUFFICES ASSUME Cardinality(Rows) = 1, session # NoDevice PROVE Accepts(session)
    BY DEF OnlyDeviceAccepted
  <2>2. Rows = {1}
    BY <2>1, NextRow
  <2>3. session = 1 /\ daemon.token \in {NoDevice, 1}
    BY <2>1, <2>2 DEF DirectoryTypeOK
  <2> QED
    BY <2>3 DEF Accepts
<1> QED
  BY <1>1, <1>2

(* A machine that has never been paired starts with everything in order. *)
LEMMA DirectoryInitHolds == DirectoryInit => DirectoryInv
<1> SUFFICES ASSUME DirectoryInit PROVE DirectoryInv
  OBVIOUS
<1>1. Rows = {} /\ 1 .. 0 = {}
  BY DEF DirectoryInit, Rows
<1> USE DirectoryAssumption, <1>1 DEF DirectoryInit, Idle, Config, NoDevice
<1>2. DirectoryTypeOK
  BY DEF DirectoryTypeOK, CommandState, Steps, Kinds, Configs
<1>3. RowsInOrder
  BY DEF RowsInOrder
<1>4. CommandsHold /\ CodesInUse /\ CodePairsOnce
  BY DEF CommandsHold, CodesInUse, CodePairsOnce
<1>5. WriterHasSaved /\ ConfigKeepsSaved /\ OnlineExplained
  BY DEF WriterHasSaved, ConfigKeepsSaved, OnlineExplained
<1> QED
  BY <1>2, <1>3, <1>4, <1>5, DirectoryFollows DEF DirectoryInv

\* The directory of devices, the machine's config.json and its daemon, for any number of
\* codes and commands and any bounds: a code registers one device, what a process saved
\* stays in config.json, a device shown as online after a regular stop has an excuse, and
\* the only device of a machine is accepted.
THEOREM DirectoryIsSafe == DirectorySpec => []DirectoryInv
<1> DEFINE Inductive ==
      /\ DirectoryTypeOK /\ RowsInOrder /\ CommandsHold
      /\ CodesInUse /\ CodePairsOnce
      /\ WriterHasSaved /\ ConfigKeepsSaved /\ OnlineExplained
<1>1. DirectoryInit => Inductive
  BY DirectoryInitHolds DEF DirectoryInv
<1>2. Inductive /\ [DirectoryNext]_directoryVars => Inductive'
  <2> SUFFICES ASSUME Inductive, [DirectoryNext]_directoryVars PROVE Inductive'
    OBVIOUS
  <2>1. DirectoryTypeOK' /\ RowsInOrder' /\ CommandsHold'
    BY DirectoryTypeStep, RowsStep, CommandsStep
  <2>2. CodesInUse' /\ CodePairsOnce'
    BY CodesStep, PairsOnceStep
  <2>3. WriterHasSaved' /\ ConfigKeepsSaved' /\ OnlineExplained'
    BY WriterStep, SavedStep, OnlineStep
  <2> QED
    BY <2>1, <2>2, <2>3
<1>3. Inductive => DirectoryInv
  BY DirectoryFollows DEF DirectoryInv
<1> QED
  BY <1>1, <1>2, <1>3, PTL DEF DirectorySpec


-----------------------------------------------------------------------------
(* DeviceLink: the fields of the records that the steps change.            *)

USE LinkAssumption

LinkState == [step : {"fetch", "answered", "open", "wait"}, attempt : 0 .. 2, ever : BOOLEAN,
              stream : Streams \cup {0}]
HookState == [reachable : BOOLEAN \cup {Null}, checking : BOOLEAN,
              status : {"idle", "connecting", "connected", "reconnecting", "disconnected"}]
SessionList == [sessions : ListState, patches : ListState, error : BOOLEAN, due : BOOLEAN]

\* The failure of a connection.
LEMMA LoopFields ==
    ASSUME link \in LinkState, Loop
    PROVE  /\ link' \in LinkState /\ link'.step = "wait"
           /\ link'.ever = link.ever /\ link'.stream = link.stream
           /\ hook' \in HookState /\ hook'.reachable = FALSE
<1>1. /\ link'.step = "wait" /\ link'.ever = link.ever /\ link'.stream = link.stream
      /\ link'.attempt = IF link.attempt < 2 THEN link.attempt + 1 ELSE link.attempt
      /\ link' = [step |-> link'.step, attempt |-> link'.attempt, ever |-> link'.ever,
                  stream |-> link'.stream]
  BY DEF Loop, LinkState
<1>2. link'.attempt \in 0 .. 2
  BY <1>1 DEF LinkState
<1>3. link' \in LinkState
  BY <1>1, <1>2 DEF LinkState
<1>4. hook' \in HookState /\ hook'.reachable = FALSE
  BY DEF Loop, HookState
<1> QED
  BY <1>1, <1>3, <1>4

\* The answer of the stream.
LEMMA ConnectedFields ==
    ASSUME link \in LinkState, hook \in HookState, list \in SessionList, Connected
    PROVE  /\ link' \in LinkState /\ link'.step = "open" /\ link'.ever = TRUE
           /\ link'.stream = link.stream
           /\ hook' \in HookState /\ hook'.reachable = TRUE
           /\ list' \in SessionList /\ list'.sessions = list.sessions
           /\ list'.patches = list.patches /\ list'.error = list.error
           /\ list'.due = (list.due \/ link.ever)
<1>1. link' = [link EXCEPT !.step = "open", !.attempt = 0, !.ever = TRUE]
  BY DEF Connected
<1>2. /\ link'.step = "open" /\ link'.ever = TRUE /\ link'.stream = link.stream
      /\ link'.attempt = 0
      /\ link' = [step |-> link'.step, attempt |-> link'.attempt, ever |-> link'.ever,
                  stream |-> link'.stream]
  BY <1>1 DEF LinkState
<1>7. link' \in LinkState
  <2>1. link'.stream \in Streams \cup {0} /\ link'.attempt \in 0 .. 2
    BY <1>2 DEF LinkState
  <2>2. link'.ever \in BOOLEAN
    BY <1>2
  <2> QED
    BY <1>2, <2>1, <2>2 DEF LinkState
<1>3. hook' = [hook EXCEPT !.reachable = TRUE, !.status = "connected",
                           !.checking = IF link.ever THEN hook.checking ELSE FALSE]
  BY DEF Connected, HookState
<1>4. hook' \in HookState /\ hook'.reachable = TRUE
  BY <1>3 DEF HookState
<1>5. list' = [list EXCEPT !.due = (list.due \/ link.ever)]
  BY DEF Connected
<1>6. /\ list' \in SessionList /\ list'.sessions = list.sessions
      /\ list'.patches = list.patches /\ list'.error = list.error
      /\ list'.due = (list.due \/ link.ever)
  BY <1>5 DEF SessionList
<1> QED
  BY <1>2, <1>4, <1>6, <1>7

\* Another attempt.
LEMMA FetchFields ==
    ASSUME link \in LinkState, Elapsed \/ retryNow
    PROVE  /\ link' \in LinkState /\ link'.ever = link.ever /\ link'.stream = link.stream
           /\ link'.step = IF link.step = "wait" THEN "fetch" ELSE link.step
           /\ Rendered
<1>1. CASE Elapsed
  BY <1>1 DEF Elapsed, LinkState
<1>2. ASSUME retryNow
      PROVE  /\ link' \in LinkState /\ link'.ever = link.ever /\ link'.stream = link.stream
             /\ link'.step = IF link.step = "wait" THEN "fetch" ELSE link.step
             /\ Rendered
  <2>1. link' = [link EXCEPT !.attempt = 0,
                             !.step = IF link.step = "wait" THEN "fetch" ELSE link.step]
    BY <1>2 DEF retryNow
  <2>2. /\ link'.ever = link.ever /\ link'.stream = link.stream /\ link'.attempt = 0
        /\ link'.step = IF link.step = "wait" THEN "fetch" ELSE link.step
        /\ link' = [step |-> link'.step, attempt |-> link'.attempt, ever |-> link'.ever,
                    stream |-> link'.stream]
    BY <2>1 DEF LinkState
  <2>3. link' \in LinkState
    BY <2>2 DEF LinkState
  <2> QED
    BY <1>2, <2>2, <2>3 DEF retryNow
<1> QED
  BY <1>1, <1>2

\* The daemon answers the stream.
LEMMA AnswerFields ==
    ASSUME link \in LinkState, AnswerStream
    PROVE  /\ link' \in LinkState /\ link'.ever = link.ever /\ link'.stream = link.stream + 1
           /\ link'.step = "answered" /\ link'.stream \in Streams
BY DEF AnswerStream, LinkState

USE DEF daemonVars, statusVars, listVars

Indices == /\ hub \subseteq Streams /\ serving \in Streams \cup {0}
           /\ publishing \subseteq PublishState /\ left \in Budget
           /\ phase \in {"up", "stopping", "down"}
WireType == wire \in Seq({"changed", "shutting_down"})
Health == hook \in HookState /\ store \in HookState
PanelType == /\ panel.open \in BOOLEAN /\ panel.byUser \in BOOLEAN /\ panel.auto \in BOOLEAN
             /\ panel.expand \in BOOLEAN /\ panel.close \in BOOLEAN
RequestType == request \in [Requests -> {Null} \cup ListRequest]
RestType == /\ registry \in ListState /\ meta \subseteq Sessions
            /\ history \in [gap : BOOLEAN, crossed : BOOLEAN]

\* The state of the loop has its type.
LEMMA LinkTyped ==
    ASSUME link \in LinkState, hook \in HookState, list \in SessionList, [Next]_vars
    PROVE  (link \in LinkState)'
<1>1. ASSUME NEW s \in Sessions, NEW t \in {"untitled", "renamed", Null}, ChangeRegistry(s, t)
      PROVE  (link \in LinkState)'
  BY <1>1 DEF ChangeRegistry
<1>2. ASSUME NEW s \in Sessions, SetTitle(s) PROVE (link \in LinkState)'
  BY <1>2 DEF SetTitle
<1>3. ASSUME NEW s \in Sessions, patchSession(s) PROVE (link \in LinkState)'
  BY <1>3 DEF patchSession
<1>4. ASSUME NEW p \in publishing, PublishEnds(p) PROVE (link \in LinkState)'
  BY <1>4 DEF PublishEnds
<1>5. ASSUME NEW p \in publishing, NEW i \in p.ahead, Write(p, i) PROVE (link \in LinkState)'
  BY <1>5 DEF Write
<1>6. ASSUME Shutdown PROVE (link \in LinkState)'
  BY <1>6 DEF Shutdown
<1>7. ASSUME Exit PROVE (link \in LinkState)'
  BY <1>7 DEF Exit
<1>8. ASSUME AnswerStream PROVE (link \in LinkState)'
  BY <1>8, AnswerFields
<1>9. ASSUME subscribe PROVE (link \in LinkState)'
  BY <1>9 DEF subscribe
<1>10. ASSUME Restart PROVE (link \in LinkState)'
  BY <1>10 DEF Restart
<1>11. ASSUME Connected PROVE (link \in LinkState)'
  BY <1>11, ConnectedFields
<1>12. ASSUME FetchFails PROVE (link \in LinkState)'
  BY <1>12, LoopFields DEF FetchFails
<1>13. ASSUME StreamEnds PROVE (link \in LinkState)'
  BY <1>13, LoopFields DEF StreamEnds
<1>14. ASSUME AnswerLost PROVE (link \in LinkState)'
  BY <1>14, LoopFields DEF AnswerLost
<1>15. ASSUME Elapsed PROVE (link \in LinkState)'
  BY <1>15, FetchFields
<1>16. ASSUME Deliver PROVE (link \in LinkState)'
  BY <1>16 DEF Deliver
<1>17. ASSUME Commit PROVE (link \in LinkState)'
  BY <1>17 DEF Commit
<1>18. ASSUME ListEffect PROVE (link \in LinkState)'
  BY <1>18 DEF ListEffect
<1>19. ASSUME ExpandTimer PROVE (link \in LinkState)'
  BY <1>19 DEF ExpandTimer
<1>20. ASSUME RecoveryTimer PROVE (link \in LinkState)'
  BY <1>20 DEF RecoveryTimer
<1>21. ASSUME retryNow PROVE (link \in LinkState)'
  BY <1>21, FetchFields
<1>22. ASSUME togglePanel PROVE (link \in LinkState)'
  BY <1>22 DEF togglePanel
<1>23. ASSUME refresh PROVE (link \in LinkState)'
  BY <1>23 DEF refresh
<1>24. ASSUME NEW c \in {"off", "connecting", "ready", "reconnecting", "failed"}, ChatChanges(c)
      PROVE  (link \in LinkState)'
  BY <1>24 DEF ChatChanges
<1>25. ASSUME NEW x \in Requests, AnswerList(x) PROVE (link \in LinkState)'
  BY <1>25 DEF AnswerList
<1>26. ASSUME NEW x \in Requests, ApplyList(x) PROVE (link \in LinkState)'
  BY <1>26 DEF ApplyList
<1>27. ASSUME NEW x \in Requests, ListFails(x) PROVE (link \in LinkState)'
  BY <1>27 DEF ListFails
<1>28. CASE UNCHANGED vars
  BY <1>28 DEF vars
<1> QED
  BY <1>1, <1>2, <1>3, <1>4, <1>5, <1>6, <1>7, <1>8, <1>9, <1>10, <1>11, <1>12, <1>13,
        <1>14,
     <1>15, <1>16, <1>17, <1>18, <1>19, <1>20, <1>21, <1>22, <1>23, <1>24, <1>25, <1>26, <1>27, <1>28
     DEF Next, DaemonStep, LinkStep, Page
\* What the daemon serves and writes to, and its bounds, have their types.
LEMMA IndicesTyped ==
    ASSUME Indices, link \in LinkState, [Next]_vars
    PROVE  Indices'
<1> USE DEF Indices, Spend, Budget, PublishState
<1>1. ASSUME NEW s \in Sessions, NEW t \in {"untitled", "renamed", Null}, ChangeRegistry(s, t)
      PROVE  Indices'
  BY <1>1 DEF ChangeRegistry
<1>2. ASSUME NEW s \in Sessions, SetTitle(s) PROVE Indices'
  BY <1>2 DEF SetTitle
<1>3. ASSUME NEW s \in Sessions, patchSession(s) PROVE Indices'
  BY <1>3 DEF patchSession
<1>4. ASSUME NEW p \in publishing, PublishEnds(p) PROVE Indices'
  BY <1>4 DEF PublishEnds
<1>5. ASSUME NEW p \in publishing, NEW i \in p.ahead, Write(p, i) PROVE Indices'
  <2>1. [p EXCEPT !.ahead = p.ahead \ {i}] \in PublishState
    BY DEF PublishState
  <2> QED
    BY <1>5, <2>1 DEF Write
<1>6. ASSUME Shutdown PROVE Indices'
  <2>1. [event |-> "shutting_down", id |-> 0, ahead |-> hub] \in PublishState
    BY DEF PublishState
  <2>2. left' \in Budget
    BY <1>6 DEF Shutdown
  <2> QED
    BY <1>6, <2>1, <2>2 DEF Shutdown
<1>7. ASSUME Exit PROVE Indices'
  BY <1>7 DEF Exit
<1>8. ASSUME AnswerStream PROVE Indices'
  BY <1>8, AnswerFields DEF AnswerStream
<1>9. ASSUME subscribe PROVE Indices'
  <2>1. serving \in Streams
    BY <1>9 DEF subscribe
  <2>2. \A p \in publishing : [p EXCEPT !.ahead = p.ahead \cup {serving}] \in PublishState
    BY <2>1 DEF PublishState
  <2> QED
    BY <1>9, <2>1, <2>2 DEF subscribe
<1>10. ASSUME Restart PROVE Indices'
  BY <1>10 DEF Restart
<1>11. ASSUME Connected PROVE Indices'
  BY <1>11 DEF Connected
<1>12. ASSUME FetchFails PROVE Indices'
  BY <1>12 DEF FetchFails, Loop
<1>13. ASSUME StreamEnds PROVE Indices'
  BY <1>13 DEF StreamEnds, Loop
<1>14. ASSUME AnswerLost PROVE Indices'
  BY <1>14 DEF AnswerLost, Loop
<1>15. ASSUME Elapsed PROVE Indices'
  BY <1>15 DEF Elapsed
<1>16. ASSUME Deliver PROVE Indices'
  BY <1>16 DEF Deliver
<1>17. ASSUME Commit PROVE Indices'
  BY <1>17 DEF Commit
<1>18. ASSUME ListEffect PROVE Indices'
  BY <1>18 DEF ListEffect
<1>19. ASSUME ExpandTimer PROVE Indices'
  BY <1>19 DEF ExpandTimer
<1>20. ASSUME RecoveryTimer PROVE Indices'
  BY <1>20 DEF RecoveryTimer
<1>21. ASSUME retryNow PROVE Indices'
  BY <1>21 DEF retryNow
<1>22. ASSUME togglePanel PROVE Indices'
  BY <1>22 DEF togglePanel
<1>23. ASSUME refresh PROVE Indices'
  BY <1>23 DEF refresh
<1>24. ASSUME NEW c \in {"off", "connecting", "ready", "reconnecting", "failed"}, ChatChanges(c)
      PROVE  Indices'
  BY <1>24 DEF ChatChanges
<1>25. ASSUME NEW x \in Requests, AnswerList(x) PROVE Indices'
  BY <1>25 DEF AnswerList
<1>26. ASSUME NEW x \in Requests, ApplyList(x) PROVE Indices'
  BY <1>26 DEF ApplyList
<1>27. ASSUME NEW x \in Requests, ListFails(x) PROVE Indices'
  BY <1>27 DEF ListFails
<1>28. CASE UNCHANGED vars
  BY <1>28 DEF vars
<1> QED
  BY <1>1, <1>2, <1>3, <1>4, <1>5, <1>6, <1>7, <1>8, <1>9, <1>10, <1>11, <1>12, <1>13,
        <1>14,
     <1>15, <1>16, <1>17, <1>18, <1>19, <1>20, <1>21, <1>22, <1>23, <1>24, <1>25, <1>26, <1>27, <1>28
     DEF Next, DaemonStep, LinkStep, Page
\* Only the two events are on their way.
LEMMA WireTyped ==
    ASSUME WireType, Indices, [Next]_vars
    PROVE  WireType'
<1> USE DEF WireType, Indices, PublishState
<1>1. ASSUME NEW s \in Sessions, NEW t \in {"untitled", "renamed", Null}, ChangeRegistry(s, t)
      PROVE  WireType'
  BY <1>1 DEF ChangeRegistry
<1>2. ASSUME NEW s \in Sessions, SetTitle(s) PROVE WireType'
  BY <1>2 DEF SetTitle
<1>3. ASSUME NEW s \in Sessions, patchSession(s) PROVE WireType'
  BY <1>3 DEF patchSession
<1>4. ASSUME NEW p \in publishing, PublishEnds(p) PROVE WireType'
  BY <1>4 DEF PublishEnds
<1>5. ASSUME NEW p \in publishing, NEW i \in p.ahead, Write(p, i) PROVE WireType'
  BY <1>5 DEF Write
<1>6. ASSUME Shutdown PROVE WireType'
  BY <1>6 DEF Shutdown
<1>7. ASSUME Exit PROVE WireType'
  BY <1>7 DEF Exit
<1>8. ASSUME AnswerStream PROVE WireType'
  BY <1>8 DEF AnswerStream
<1>9. ASSUME subscribe PROVE WireType'
  BY <1>9 DEF subscribe
<1>10. ASSUME Restart PROVE WireType'
  BY <1>10 DEF Restart
<1>11. ASSUME Connected PROVE WireType'
  BY <1>11 DEF Connected
<1>12. ASSUME FetchFails PROVE WireType'
  BY <1>12 DEF FetchFails, Loop
<1>13. ASSUME StreamEnds PROVE WireType'
  BY <1>13 DEF StreamEnds, Loop
<1>14. ASSUME AnswerLost PROVE WireType'
  BY <1>14 DEF AnswerLost, Loop
<1>15. ASSUME Elapsed PROVE WireType'
  BY <1>15 DEF Elapsed
<1>16. ASSUME Deliver PROVE WireType'
  BY <1>16 DEF Deliver
<1>17. ASSUME Commit PROVE WireType'
  BY <1>17 DEF Commit
<1>18. ASSUME ListEffect PROVE WireType'
  BY <1>18 DEF ListEffect
<1>19. ASSUME ExpandTimer PROVE WireType'
  BY <1>19 DEF ExpandTimer
<1>20. ASSUME RecoveryTimer PROVE WireType'
  BY <1>20 DEF RecoveryTimer
<1>21. ASSUME retryNow PROVE WireType'
  BY <1>21 DEF retryNow
<1>22. ASSUME togglePanel PROVE WireType'
  BY <1>22 DEF togglePanel
<1>23. ASSUME refresh PROVE WireType'
  BY <1>23 DEF refresh
<1>24. ASSUME NEW c \in {"off", "connecting", "ready", "reconnecting", "failed"}, ChatChanges(c)
      PROVE  WireType'
  BY <1>24 DEF ChatChanges
<1>25. ASSUME NEW x \in Requests, AnswerList(x) PROVE WireType'
  BY <1>25 DEF AnswerList
<1>26. ASSUME NEW x \in Requests, ApplyList(x) PROVE WireType'
  BY <1>26 DEF ApplyList
<1>27. ASSUME NEW x \in Requests, ListFails(x) PROVE WireType'
  BY <1>27 DEF ListFails
<1>28. CASE UNCHANGED vars
  BY <1>28 DEF vars
<1> QED
  BY <1>1, <1>2, <1>3, <1>4, <1>5, <1>6, <1>7, <1>8, <1>9, <1>10, <1>11, <1>12, <1>13,
        <1>14,
     <1>15, <1>16, <1>17, <1>18, <1>19, <1>20, <1>21, <1>22, <1>23, <1>24, <1>25, <1>26, <1>27, <1>28
     DEF Next, DaemonStep, LinkStep, Page
\* What the hook and the store say of the device has its type.
LEMMA HealthTyped ==
    ASSUME Health, link \in LinkState, list \in SessionList, [Next]_vars
    PROVE  Health'
<1> USE DEF Health
<1>1. ASSUME NEW s \in Sessions, NEW t \in {"untitled", "renamed", Null}, ChangeRegistry(s, t)
      PROVE  Health'
  BY <1>1 DEF ChangeRegistry
<1>2. ASSUME NEW s \in Sessions, SetTitle(s) PROVE Health'
  BY <1>2 DEF SetTitle
<1>3. ASSUME NEW s \in Sessions, patchSession(s) PROVE Health'
  BY <1>3 DEF patchSession
<1>4. ASSUME NEW p \in publishing, PublishEnds(p) PROVE Health'
  BY <1>4 DEF PublishEnds
<1>5. ASSUME NEW p \in publishing, NEW i \in p.ahead, Write(p, i) PROVE Health'
  BY <1>5 DEF Write
<1>6. ASSUME Shutdown PROVE Health'
  BY <1>6 DEF Shutdown
<1>7. ASSUME Exit PROVE Health'
  BY <1>7 DEF Exit
<1>8. ASSUME AnswerStream PROVE Health'
  BY <1>8 DEF AnswerStream
<1>9. ASSUME subscribe PROVE Health'
  BY <1>9 DEF subscribe
<1>10. ASSUME Restart PROVE Health'
  BY <1>10 DEF Restart
<1>11. ASSUME Connected PROVE Health'
  BY <1>11, ConnectedFields DEF Connected
<1>12. ASSUME FetchFails PROVE Health'
  BY <1>12, LoopFields DEF FetchFails
<1>13. ASSUME StreamEnds PROVE Health'
  BY <1>13, LoopFields DEF StreamEnds
<1>14. ASSUME AnswerLost PROVE Health'
  BY <1>14, LoopFields DEF AnswerLost
<1>15. ASSUME Elapsed PROVE Health'
  BY <1>15 DEF Elapsed
<1>16. ASSUME Deliver PROVE Health'
  BY <1>16 DEF Deliver, HookState
<1>17. ASSUME Commit PROVE Health'
  BY <1>17 DEF Commit
<1>18. ASSUME ListEffect PROVE Health'
  BY <1>18 DEF ListEffect
<1>19. ASSUME ExpandTimer PROVE Health'
  BY <1>19 DEF ExpandTimer
<1>20. ASSUME RecoveryTimer PROVE Health'
  BY <1>20 DEF RecoveryTimer
<1>21. ASSUME retryNow PROVE Health'
  BY <1>21 DEF retryNow
<1>22. ASSUME togglePanel PROVE Health'
  BY <1>22 DEF togglePanel
<1>23. ASSUME refresh PROVE Health'
  BY <1>23 DEF refresh
<1>24. ASSUME NEW c \in {"off", "connecting", "ready", "reconnecting", "failed"}, ChatChanges(c)
      PROVE  Health'
  BY <1>24 DEF ChatChanges
<1>25. ASSUME NEW x \in Requests, AnswerList(x) PROVE Health'
  BY <1>25 DEF AnswerList
<1>26. ASSUME NEW x \in Requests, ApplyList(x) PROVE Health'
  BY <1>26 DEF ApplyList
<1>27. ASSUME NEW x \in Requests, ListFails(x) PROVE Health'
  BY <1>27 DEF ListFails
<1>28. CASE UNCHANGED vars
  BY <1>28 DEF vars
<1> QED
  BY <1>1, <1>2, <1>3, <1>4, <1>5, <1>6, <1>7, <1>8, <1>9, <1>10, <1>11, <1>12, <1>13,
        <1>14,
     <1>15, <1>16, <1>17, <1>18, <1>19, <1>20, <1>21, <1>22, <1>23, <1>24, <1>25, <1>26, <1>27, <1>28
     DEF Next, DaemonStep, LinkStep, Page
\* The flags of the panel have their types.
LEMMA PanelTyped ==
    ASSUME PanelType, [Next]_vars
    PROVE  PanelType'
<1> USE DEF PanelType
<1>1. ASSUME NEW s \in Sessions, NEW t \in {"untitled", "renamed", Null}, ChangeRegistry(s, t)
      PROVE  PanelType'
  BY <1>1 DEF ChangeRegistry
<1>2. ASSUME NEW s \in Sessions, SetTitle(s) PROVE PanelType'
  BY <1>2 DEF SetTitle
<1>3. ASSUME NEW s \in Sessions, patchSession(s) PROVE PanelType'
  BY <1>3 DEF patchSession
<1>4. ASSUME NEW p \in publishing, PublishEnds(p) PROVE PanelType'
  BY <1>4 DEF PublishEnds
<1>5. ASSUME NEW p \in publishing, NEW i \in p.ahead, Write(p, i) PROVE PanelType'
  BY <1>5 DEF Write
<1>6. ASSUME Shutdown PROVE PanelType'
  BY <1>6 DEF Shutdown
<1>7. ASSUME Exit PROVE PanelType'
  BY <1>7 DEF Exit
<1>8. ASSUME AnswerStream PROVE PanelType'
  BY <1>8 DEF AnswerStream
<1>9. ASSUME subscribe PROVE PanelType'
  BY <1>9 DEF subscribe
<1>10. ASSUME Restart PROVE PanelType'
  BY <1>10 DEF Restart
<1>11. ASSUME Connected PROVE PanelType'
  BY <1>11 DEF Connected
<1>12. ASSUME FetchFails PROVE PanelType'
  BY <1>12 DEF FetchFails, Loop
<1>13. ASSUME StreamEnds PROVE PanelType'
  BY <1>13 DEF StreamEnds, Loop
<1>14. ASSUME AnswerLost PROVE PanelType'
  BY <1>14 DEF AnswerLost, Loop
<1>15. ASSUME Elapsed PROVE PanelType'
  BY <1>15 DEF Elapsed
<1>16. ASSUME Deliver PROVE PanelType'
  BY <1>16 DEF Deliver
<1>17. ASSUME Commit PROVE PanelType'
  BY <1>17 DEF Commit, Notified, handleTransition, isDeviceStatusFailure
<1>18. ASSUME ListEffect PROVE PanelType'
  BY <1>18 DEF ListEffect
<1>19. ASSUME ExpandTimer PROVE PanelType'
  BY <1>19 DEF ExpandTimer
<1>20. ASSUME RecoveryTimer PROVE PanelType'
  BY <1>20 DEF RecoveryTimer
<1>21. ASSUME retryNow PROVE PanelType'
  BY <1>21 DEF retryNow
<1>22. ASSUME togglePanel PROVE PanelType'
  BY <1>22 DEF togglePanel
<1>23. ASSUME refresh PROVE PanelType'
  BY <1>23 DEF refresh
<1>24. ASSUME NEW c \in {"off", "connecting", "ready", "reconnecting", "failed"}, ChatChanges(c)
      PROVE  PanelType'
  BY <1>24 DEF ChatChanges, Notified, handleTransition, isDeviceStatusFailure
<1>25. ASSUME NEW x \in Requests, AnswerList(x) PROVE PanelType'
  BY <1>25 DEF AnswerList
<1>26. ASSUME NEW x \in Requests, ApplyList(x) PROVE PanelType'
  BY <1>26 DEF ApplyList
<1>27. ASSUME NEW x \in Requests, ListFails(x) PROVE PanelType'
  BY <1>27 DEF ListFails
<1>28. CASE UNCHANGED vars
  BY <1>28 DEF vars
<1> QED
  BY <1>1, <1>2, <1>3, <1>4, <1>5, <1>6, <1>7, <1>8, <1>9, <1>10, <1>11, <1>12, <1>13,
        <1>14,
     <1>15, <1>16, <1>17, <1>18, <1>19, <1>20, <1>21, <1>22, <1>23, <1>24, <1>25, <1>26, <1>27, <1>28
     DEF Next, DaemonStep, LinkStep, Page
\* The list has its type.
LEMMA ListTyped ==
    ASSUME list \in SessionList, RequestType, link \in LinkState, hook \in HookState,
           [Next]_vars
    PROVE  (list \in SessionList)'
<1> USE DEF RequestType
<1>1. ASSUME NEW s \in Sessions, NEW t \in {"untitled", "renamed", Null}, ChangeRegistry(s, t)
      PROVE  (list \in SessionList)'
  BY <1>1 DEF ChangeRegistry
<1>2. ASSUME NEW s \in Sessions, SetTitle(s) PROVE (list \in SessionList)'
  BY <1>2 DEF SetTitle
<1>3. ASSUME NEW s \in Sessions, patchSession(s) PROVE (list \in SessionList)'
  BY <1>3 DEF patchSession, SessionList, ListState, Titles
<1>4. ASSUME NEW p \in publishing, PublishEnds(p) PROVE (list \in SessionList)'
  BY <1>4 DEF PublishEnds
<1>5. ASSUME NEW p \in publishing, NEW i \in p.ahead, Write(p, i) PROVE (list \in SessionList)'
  BY <1>5 DEF Write
<1>6. ASSUME Shutdown PROVE (list \in SessionList)'
  BY <1>6 DEF Shutdown
<1>7. ASSUME Exit PROVE (list \in SessionList)'
  BY <1>7 DEF Exit
<1>8. ASSUME AnswerStream PROVE (list \in SessionList)'
  BY <1>8 DEF AnswerStream
<1>9. ASSUME subscribe PROVE (list \in SessionList)'
  BY <1>9 DEF subscribe
<1>10. ASSUME Restart PROVE (list \in SessionList)'
  BY <1>10 DEF Restart
<1>11. ASSUME Connected PROVE (list \in SessionList)'
  BY <1>11, ConnectedFields
<1>12. ASSUME FetchFails PROVE (list \in SessionList)'
  BY <1>12 DEF FetchFails, Loop
<1>13. ASSUME StreamEnds PROVE (list \in SessionList)'
  BY <1>13 DEF StreamEnds, Loop
<1>14. ASSUME AnswerLost PROVE (list \in SessionList)'
  BY <1>14 DEF AnswerLost, Loop
<1>15. ASSUME Elapsed PROVE (list \in SessionList)'
  BY <1>15 DEF Elapsed
<1>16. ASSUME Deliver PROVE (list \in SessionList)'
  BY <1>16 DEF Deliver, SessionList
<1>17. ASSUME Commit PROVE (list \in SessionList)'
  BY <1>17 DEF Commit, SessionList
<1>18. ASSUME ListEffect PROVE (list \in SessionList)'
  BY <1>18 DEF ListEffect, SessionList
<1>19. ASSUME ExpandTimer PROVE (list \in SessionList)'
  BY <1>19 DEF ExpandTimer
<1>20. ASSUME RecoveryTimer PROVE (list \in SessionList)'
  BY <1>20 DEF RecoveryTimer
<1>21. ASSUME retryNow PROVE (list \in SessionList)'
  BY <1>21 DEF retryNow
<1>22. ASSUME togglePanel PROVE (list \in SessionList)'
  BY <1>22 DEF togglePanel
<1>23. ASSUME refresh PROVE (list \in SessionList)'
  BY <1>23 DEF refresh, SessionList, NoTitles, ListState
<1>24. ASSUME NEW c \in {"off", "connecting", "ready", "reconnecting", "failed"}, ChatChanges(c)
      PROVE  (list \in SessionList)'
  BY <1>24 DEF ChatChanges
<1>25. ASSUME NEW x \in Requests, AnswerList(x) PROVE (list \in SessionList)'
  BY <1>25 DEF AnswerList
<1>26. ASSUME NEW x \in Requests, ApplyList(x) PROVE (list \in SessionList)'
  BY <1>26 DEF ApplyList, SessionList, ListRequest, NoTitles, ListState
<1>27. ASSUME NEW x \in Requests, ListFails(x) PROVE (list \in SessionList)'
  BY <1>27 DEF ListFails, SessionList
<1>28. CASE UNCHANGED vars
  BY <1>28 DEF vars
<1> QED
  BY <1>1, <1>2, <1>3, <1>4, <1>5, <1>6, <1>7, <1>8, <1>9, <1>10, <1>11, <1>12, <1>13,
        <1>14,
     <1>15, <1>16, <1>17, <1>18, <1>19, <1>20, <1>21, <1>22, <1>23, <1>24, <1>25, <1>26, <1>27, <1>28
     DEF Next, DaemonStep, LinkStep, Page
\* The requests have their types.
LEMMA RequestTyped ==
    ASSUME RequestType, RestType, [Next]_vars
    PROVE  RequestType'
<1> USE DEF RequestType, RestType, ListRequest
<1>1. ASSUME NEW s \in Sessions, NEW t \in {"untitled", "renamed", Null}, ChangeRegistry(s, t)
      PROVE  RequestType'
  BY <1>1 DEF ChangeRegistry
<1>2. ASSUME NEW s \in Sessions, SetTitle(s) PROVE RequestType'
  BY <1>2 DEF SetTitle
<1>3. ASSUME NEW s \in Sessions, patchSession(s) PROVE RequestType'
  BY <1>3 DEF patchSession
<1>4. ASSUME NEW p \in publishing, PublishEnds(p) PROVE RequestType'
  BY <1>4 DEF PublishEnds
<1>5. ASSUME NEW p \in publishing, NEW i \in p.ahead, Write(p, i) PROVE RequestType'
  BY <1>5 DEF Write
<1>6. ASSUME Shutdown PROVE RequestType'
  BY <1>6 DEF Shutdown
<1>7. ASSUME Exit PROVE RequestType'
  BY <1>7 DEF Exit
<1>8. ASSUME AnswerStream PROVE RequestType'
  BY <1>8 DEF AnswerStream
<1>9. ASSUME subscribe PROVE RequestType'
  BY <1>9 DEF subscribe
<1>10. ASSUME Restart PROVE RequestType'
  BY <1>10 DEF Restart
<1>11. ASSUME Connected PROVE RequestType'
  BY <1>11 DEF Connected
<1>12. ASSUME FetchFails PROVE RequestType'
  BY <1>12 DEF FetchFails, Loop
<1>13. ASSUME StreamEnds PROVE RequestType'
  BY <1>13 DEF StreamEnds, Loop
<1>14. ASSUME AnswerLost PROVE RequestType'
  BY <1>14 DEF AnswerLost, Loop
<1>15. ASSUME Elapsed PROVE RequestType'
  BY <1>15 DEF Elapsed
<1>16. ASSUME Deliver PROVE RequestType'
  BY <1>16 DEF Deliver
<1>17. ASSUME Commit PROVE RequestType'
  BY <1>17 DEF Commit
<1>18. ASSUME ListEffect PROVE RequestType'
  <2>1. NewRequest(TRUE) \in ListRequest
    BY DEF NewRequest, NoTitles, ListState
  <2>2. Cancelled \in [Requests -> {Null} \cup ListRequest]
    BY DEF Cancelled
  <2> QED
    BY <1>18, <2>1, <2>2 DEF ListEffect
<1>19. ASSUME ExpandTimer PROVE RequestType'
  BY <1>19 DEF ExpandTimer
<1>20. ASSUME RecoveryTimer PROVE RequestType'
  BY <1>20 DEF RecoveryTimer
<1>21. ASSUME retryNow PROVE RequestType'
  BY <1>21 DEF retryNow
<1>22. ASSUME togglePanel PROVE RequestType'
  BY <1>22 DEF togglePanel
<1>23. ASSUME refresh PROVE RequestType'
  BY <1>23 DEF refresh, NewRequest, NoTitles, ListState
<1>24. ASSUME NEW c \in {"off", "connecting", "ready", "reconnecting", "failed"}, ChatChanges(c)
      PROVE  RequestType'
  BY <1>24 DEF ChatChanges
<1>25. ASSUME NEW x \in Requests, AnswerList(x) PROVE RequestType'
  BY <1>25 DEF AnswerList
<1>26. ASSUME NEW x \in Requests, ApplyList(x) PROVE RequestType'
  BY <1>26 DEF ApplyList
<1>27. ASSUME NEW x \in Requests, ListFails(x) PROVE RequestType'
  BY <1>27 DEF ListFails
<1>28. CASE UNCHANGED vars
  BY <1>28 DEF vars
<1> QED
  BY <1>1, <1>2, <1>3, <1>4, <1>5, <1>6, <1>7, <1>8, <1>9, <1>10, <1>11, <1>12, <1>13,
        <1>14,
     <1>15, <1>16, <1>17, <1>18, <1>19, <1>20, <1>21, <1>22, <1>23, <1>24, <1>25, <1>26, <1>27, <1>28
     DEF Next, DaemonStep, LinkStep, Page
\* The registry, the events of the chat's stream and the history have their types.
LEMMA RestTyped ==
    ASSUME RestType, [Next]_vars
    PROVE  RestType'
<1> USE DEF RestType, ListState, Titles
<1>1. ASSUME NEW s \in Sessions, NEW t \in {"untitled", "renamed", Null}, ChangeRegistry(s, t)
      PROVE  RestType'
  BY <1>1 DEF ChangeRegistry
<1>2. ASSUME NEW s \in Sessions, SetTitle(s) PROVE RestType'
  BY <1>2 DEF SetTitle
<1>3. ASSUME NEW s \in Sessions, patchSession(s) PROVE RestType'
  BY <1>3 DEF patchSession
<1>4. ASSUME NEW p \in publishing, PublishEnds(p) PROVE RestType'
  BY <1>4 DEF PublishEnds
<1>5. ASSUME NEW p \in publishing, NEW i \in p.ahead, Write(p, i) PROVE RestType'
  BY <1>5 DEF Write
<1>6. ASSUME Shutdown PROVE RestType'
  BY <1>6 DEF Shutdown
<1>7. ASSUME Exit PROVE RestType'
  BY <1>7 DEF Exit
<1>8. ASSUME AnswerStream PROVE RestType'
  BY <1>8 DEF AnswerStream
<1>9. ASSUME subscribe PROVE RestType'
  BY <1>9 DEF subscribe
<1>10. ASSUME Restart PROVE RestType'
  BY <1>10 DEF Restart
<1>11. ASSUME Connected PROVE RestType'
  BY <1>11 DEF Connected
<1>12. ASSUME FetchFails PROVE RestType'
  BY <1>12 DEF FetchFails, Loop
<1>13. ASSUME StreamEnds PROVE RestType'
  BY <1>13 DEF StreamEnds, Loop
<1>14. ASSUME AnswerLost PROVE RestType'
  BY <1>14 DEF AnswerLost, Loop
<1>15. ASSUME Elapsed PROVE RestType'
  BY <1>15 DEF Elapsed
<1>16. ASSUME Deliver PROVE RestType'
  BY <1>16 DEF Deliver
<1>17. ASSUME Commit PROVE RestType'
  BY <1>17 DEF Commit
<1>18. ASSUME ListEffect PROVE RestType'
  BY <1>18 DEF ListEffect
<1>19. ASSUME ExpandTimer PROVE RestType'
  BY <1>19 DEF ExpandTimer
<1>20. ASSUME RecoveryTimer PROVE RestType'
  BY <1>20 DEF RecoveryTimer
<1>21. ASSUME retryNow PROVE RestType'
  BY <1>21 DEF retryNow
<1>22. ASSUME togglePanel PROVE RestType'
  BY <1>22 DEF togglePanel
<1>23. ASSUME refresh PROVE RestType'
  BY <1>23 DEF refresh
<1>24. ASSUME NEW c \in {"off", "connecting", "ready", "reconnecting", "failed"}, ChatChanges(c)
      PROVE  RestType'
  BY <1>24 DEF ChatChanges
<1>25. ASSUME NEW x \in Requests, AnswerList(x) PROVE RestType'
  BY <1>25 DEF AnswerList
<1>26. ASSUME NEW x \in Requests, ApplyList(x) PROVE RestType'
  BY <1>26 DEF ApplyList
<1>27. ASSUME NEW x \in Requests, ListFails(x) PROVE RestType'
  BY <1>27 DEF ListFails
<1>28. CASE UNCHANGED vars
  BY <1>28 DEF vars
<1> QED
  BY <1>1, <1>2, <1>3, <1>4, <1>5, <1>6, <1>7, <1>8, <1>9, <1>10, <1>11, <1>12, <1>13,
        <1>14,
     <1>15, <1>16, <1>17, <1>18, <1>19, <1>20, <1>21, <1>22, <1>23, <1>24, <1>25, <1>26, <1>27, <1>28
     DEF Next, DaemonStep, LinkStep, Page
Events == {"changed", "shutting_down"}

\* What an event that arrives, and one that is read, do to the events on their way.
LEMMA Wires ==
    ASSUME NEW w \in Seq(Events)
    PROVE  /\ ToSet(<<>>) = {}
           /\ \A e \in Events : ToSet(Append(w, e)) = ToSet(w) \cup {e}
           /\ w # <<>> => /\ ToSet(Tail(w)) \subseteq ToSet(w)
                          /\ ToSet(w) = ToSet(Tail(w)) \cup {Head(w)}
                          /\ Head(w) \in Events
<1>1. ToSet(<<>>) = {}
  BY DEF ToSet
<1>2. ASSUME NEW e \in Events PROVE ToSet(Append(w, e)) = ToSet(w) \cup {e}
  <2>1. /\ Len(Append(w, e)) = Len(w) + 1
        /\ DOMAIN Append(w, e) = DOMAIN w \cup {Len(w) + 1}
        /\ Append(w, e)[Len(w) + 1] = e
        /\ \A i \in DOMAIN w : Append(w, e)[i] = w[i]
    OBVIOUS
  <2> QED
    BY <2>1 DEF ToSet
<1>3. ASSUME w # <<>>
      PROVE  ToSet(w) = ToSet(Tail(w)) \cup {Head(w)} /\ Head(w) \in Events
  <2>1. /\ Head(w) = w[1] /\ 1 \in DOMAIN w /\ w[1] \in Events
        /\ \A i \in DOMAIN Tail(w) : i + 1 \in DOMAIN w /\ Tail(w)[i] = w[i + 1]
        /\ \A i \in DOMAIN w \ {1} : i - 1 \in DOMAIN Tail(w) /\ Tail(w)[i - 1] = w[i]
    BY <1>3
  <2>2. ASSUME NEW i \in DOMAIN Tail(w) PROVE Tail(w)[i] \in ToSet(w)
    BY <2>1 DEF ToSet
  <2>3. ASSUME NEW i \in DOMAIN w PROVE w[i] \in ToSet(Tail(w)) \cup {Head(w)}
    <3>1. CASE i = 1
      BY <3>1, <2>1
    <3>2. CASE i # 1
      <4>1. i - 1 \in DOMAIN Tail(w) /\ Tail(w)[i - 1] = w[i]
        BY <3>2, <2>1
      <4> QED
        BY <4>1 DEF ToSet
    <3> QED
      BY <3>1, <3>2
  <2>4. Head(w) \in ToSet(w)
    BY <2>1 DEF ToSet
  <2>5. ToSet(Tail(w)) \subseteq ToSet(w)
    BY <2>2 DEF ToSet
  <2>6. ToSet(w) \subseteq ToSet(Tail(w)) \cup {Head(w)}
    BY <2>3 DEF ToSet
  <2> QED
    BY <2>1, <2>4, <2>5, <2>6
<1> QED
  BY <1>1, <1>2, <1>3

PanelShape(p) ==
  /\ p.open \in BOOLEAN /\ p.byUser \in BOOLEAN /\ p.auto \in BOOLEAN
  /\ p.expand \in BOOLEAN /\ p.close \in BOOLEAN
  /\ p.open /\ ~p.byUser => p.auto
  /\ p.expand => p.prev = "reconnecting"
  /\ p.open /\ ~p.byUser /\ p.prev = "ready" => p.close

\* What a change of the aggregate status does to the panel.
LEMMA PanelStep ==
    ASSUME NEW p, PanelShape(p), NEW st, NEW c
    PROVE  PanelShape(Notified(p, st, c))
BY DEF PanelShape, Notified, handleTransition, isDeviceStatusFailure

Typed == Indices /\ link \in LinkState /\ wire \in Seq(Events) /\ hook \in HookState

\* The daemon serves the stream that was answered last, or none.
LEMMA OneStreamKept ==
    ASSUME Typed, list \in SessionList, OneStream, [Next]_vars
    PROVE  OneStream'
<1> USE DEF OneStream, Typed, Indices, up
<1>1. ASSUME NEW s \in Sessions, NEW t \in {"untitled", "renamed", Null}, ChangeRegistry(s, t)
      PROVE  OneStream'
  BY <1>1 DEF ChangeRegistry
<1>2. ASSUME NEW s \in Sessions, SetTitle(s) PROVE OneStream'
  BY <1>2 DEF SetTitle
<1>3. ASSUME NEW s \in Sessions, patchSession(s) PROVE OneStream'
  BY <1>3 DEF patchSession
<1>4. ASSUME NEW p \in publishing, PublishEnds(p) PROVE OneStream'
  BY <1>4 DEF PublishEnds
<1>5. ASSUME NEW p \in publishing, NEW i \in p.ahead, Write(p, i) PROVE OneStream'
  BY <1>5 DEF Write
<1>6. ASSUME Shutdown PROVE OneStream'
  BY <1>6 DEF Shutdown
<1>7. ASSUME Exit PROVE OneStream'
  BY <1>7 DEF Exit
<1>8. ASSUME AnswerStream PROVE OneStream'
  BY <1>8, AnswerFields DEF AnswerStream
<1>9. ASSUME subscribe PROVE OneStream'
  BY <1>9 DEF subscribe
<1>10. ASSUME Restart PROVE OneStream'
  BY <1>10 DEF Restart
<1>11. ASSUME Connected PROVE OneStream'
  BY <1>11, ConnectedFields DEF Connected
<1>12. ASSUME FetchFails PROVE OneStream'
  BY <1>12, LoopFields DEF FetchFails
<1>13. ASSUME StreamEnds PROVE OneStream'
  BY <1>13, LoopFields DEF StreamEnds
<1>14. ASSUME AnswerLost PROVE OneStream'
  BY <1>14, LoopFields DEF AnswerLost
<1>15. ASSUME Elapsed PROVE OneStream'
  BY <1>15, FetchFields DEF Elapsed
<1>16. ASSUME Deliver PROVE OneStream'
  BY <1>16 DEF Deliver, HookState
<1>17. ASSUME Commit PROVE OneStream'
  BY <1>17 DEF Commit
<1>18. ASSUME ListEffect PROVE OneStream'
  BY <1>18 DEF ListEffect
<1>19. ASSUME ExpandTimer PROVE OneStream'
  BY <1>19 DEF ExpandTimer
<1>20. ASSUME RecoveryTimer PROVE OneStream'
  BY <1>20 DEF RecoveryTimer
<1>21. ASSUME retryNow PROVE OneStream'
  BY <1>21, FetchFields DEF retryNow
<1>22. ASSUME togglePanel PROVE OneStream'
  BY <1>22 DEF togglePanel
<1>23. ASSUME refresh PROVE OneStream'
  BY <1>23 DEF refresh
<1>24. ASSUME NEW c \in {"off", "connecting", "ready", "reconnecting", "failed"}, ChatChanges(c)
      PROVE  OneStream'
  BY <1>24 DEF ChatChanges
<1>25. ASSUME NEW x \in Requests, AnswerList(x) PROVE OneStream'
  BY <1>25 DEF AnswerList
<1>26. ASSUME NEW x \in Requests, ApplyList(x) PROVE OneStream'
  BY <1>26 DEF ApplyList
<1>27. ASSUME NEW x \in Requests, ListFails(x) PROVE OneStream'
  BY <1>27 DEF ListFails
<1>28. CASE UNCHANGED vars
  BY <1>28 DEF vars
<1> QED
  BY <1>1, <1>2, <1>3, <1>4, <1>5, <1>6, <1>7, <1>8, <1>9, <1>10, <1>11, <1>12, <1>13,
        <1>14,
     <1>15, <1>16, <1>17, <1>18, <1>19, <1>20, <1>21, <1>22, <1>23, <1>24, <1>25, <1>26, <1>27, <1>28
     DEF Next, DaemonStep, LinkStep, Page
\* Only a daemon that stops, or a stream that is dead, says farewell.
LEMMA FarewellKept ==
    ASSUME Typed, list \in SessionList, OneStream, FarewellIsTrue, [Next]_vars
    PROVE  FarewellIsTrue'
<1> USE DEF FarewellIsTrue
<1>1. ASSUME NEW s \in Sessions, NEW t \in {"untitled", "renamed", Null}, ChangeRegistry(s, t)
      PROVE  FarewellIsTrue'
  BY <1>1 DEF ChangeRegistry, up
<1>2. ASSUME NEW s \in Sessions, SetTitle(s) PROVE FarewellIsTrue'
  BY <1>2 DEF SetTitle
<1>3. ASSUME NEW s \in Sessions, patchSession(s) PROVE FarewellIsTrue'
  BY <1>3 DEF patchSession
<1>4. ASSUME NEW p \in publishing, PublishEnds(p) PROVE FarewellIsTrue'
  BY <1>4 DEF PublishEnds
<1>5. ASSUME NEW p \in publishing, NEW i \in p.ahead, Write(p, i) PROVE FarewellIsTrue'
  BY <1>5, Wires DEF Write, Typed, Indices, PublishState, Events
<1>6. ASSUME Shutdown PROVE FarewellIsTrue'
  BY <1>6 DEF Shutdown
<1>7. ASSUME Exit PROVE FarewellIsTrue'
  BY <1>7 DEF Exit, OneStream
<1>8. ASSUME AnswerStream PROVE FarewellIsTrue'
  BY <1>8, AnswerFields, Wires DEF AnswerStream, Typed
<1>9. ASSUME subscribe PROVE FarewellIsTrue'
  BY <1>9 DEF subscribe, Typed, Indices, PublishState
<1>10. ASSUME Restart PROVE FarewellIsTrue'
  BY <1>10 DEF Restart, OneStream, up, Typed, Indices
<1>11. ASSUME Connected PROVE FarewellIsTrue'
  BY <1>11, ConnectedFields DEF Connected, Typed
<1>12. ASSUME FetchFails PROVE FarewellIsTrue'
  BY <1>12, LoopFields DEF FetchFails, Typed
<1>13. ASSUME StreamEnds PROVE FarewellIsTrue'
  BY <1>13, LoopFields, Wires DEF StreamEnds, Typed
<1>14. ASSUME AnswerLost PROVE FarewellIsTrue'
  BY <1>14, LoopFields DEF AnswerLost, Typed
<1>15. ASSUME Elapsed PROVE FarewellIsTrue'
  BY <1>15, FetchFields DEF Elapsed, Typed
<1>16. ASSUME Deliver PROVE FarewellIsTrue'
  BY <1>16, Wires DEF Deliver, Typed
<1>17. ASSUME Commit PROVE FarewellIsTrue'
  BY <1>17 DEF Commit
<1>18. ASSUME ListEffect PROVE FarewellIsTrue'
  BY <1>18 DEF ListEffect
<1>19. ASSUME ExpandTimer PROVE FarewellIsTrue'
  BY <1>19 DEF ExpandTimer
<1>20. ASSUME RecoveryTimer PROVE FarewellIsTrue'
  BY <1>20 DEF RecoveryTimer
<1>21. ASSUME retryNow PROVE FarewellIsTrue'
  BY <1>21, FetchFields DEF retryNow, Typed
<1>22. ASSUME togglePanel PROVE FarewellIsTrue'
  BY <1>22 DEF togglePanel
<1>23. ASSUME refresh PROVE FarewellIsTrue'
  BY <1>23 DEF refresh
<1>24. ASSUME NEW c \in {"off", "connecting", "ready", "reconnecting", "failed"}, ChatChanges(c)
      PROVE  FarewellIsTrue'
  BY <1>24 DEF ChatChanges
<1>25. ASSUME NEW x \in Requests, AnswerList(x) PROVE FarewellIsTrue'
  BY <1>25 DEF AnswerList
<1>26. ASSUME NEW x \in Requests, ApplyList(x) PROVE FarewellIsTrue'
  BY <1>26 DEF ApplyList
<1>27. ASSUME NEW x \in Requests, ListFails(x) PROVE FarewellIsTrue'
  BY <1>27 DEF ListFails
<1>28. CASE UNCHANGED vars
  BY <1>28 DEF vars
<1> QED
  BY <1>1, <1>2, <1>3, <1>4, <1>5, <1>6, <1>7, <1>8, <1>9, <1>10, <1>11, <1>12, <1>13,
        <1>14,
     <1>15, <1>16, <1>17, <1>18, <1>19, <1>20, <1>21, <1>22, <1>23, <1>24, <1>25, <1>26, <1>27, <1>28
     DEF Next, DaemonStep, LinkStep, Page
\* The effect cancels the request before it, so one request counts.
LEMMA OneReadingKept ==
    ASSUME RequestType, OneReading, [Next]_vars
    PROVE  OneReading'
<1> USE DEF OneReading, Reading, RequestType, ListRequest
<1>1. ASSUME NEW s \in Sessions, NEW t \in {"untitled", "renamed", Null}, ChangeRegistry(s, t)
      PROVE  OneReading'
  BY <1>1 DEF ChangeRegistry
<1>2. ASSUME NEW s \in Sessions, SetTitle(s) PROVE OneReading'
  BY <1>2 DEF SetTitle
<1>3. ASSUME NEW s \in Sessions, patchSession(s) PROVE OneReading'
  BY <1>3 DEF patchSession
<1>4. ASSUME NEW p \in publishing, PublishEnds(p) PROVE OneReading'
  BY <1>4 DEF PublishEnds
<1>5. ASSUME NEW p \in publishing, NEW i \in p.ahead, Write(p, i) PROVE OneReading'
  BY <1>5 DEF Write
<1>6. ASSUME Shutdown PROVE OneReading'
  BY <1>6 DEF Shutdown
<1>7. ASSUME Exit PROVE OneReading'
  BY <1>7 DEF Exit
<1>8. ASSUME AnswerStream PROVE OneReading'
  BY <1>8 DEF AnswerStream
<1>9. ASSUME subscribe PROVE OneReading'
  BY <1>9 DEF subscribe
<1>10. ASSUME Restart PROVE OneReading'
  BY <1>10 DEF Restart
<1>11. ASSUME Connected PROVE OneReading'
  BY <1>11 DEF Connected
<1>12. ASSUME FetchFails PROVE OneReading'
  BY <1>12 DEF FetchFails, Loop
<1>13. ASSUME StreamEnds PROVE OneReading'
  BY <1>13 DEF StreamEnds, Loop
<1>14. ASSUME AnswerLost PROVE OneReading'
  BY <1>14 DEF AnswerLost, Loop
<1>15. ASSUME Elapsed PROVE OneReading'
  BY <1>15 DEF Elapsed
<1>16. ASSUME Deliver PROVE OneReading'
  BY <1>16 DEF Deliver
<1>17. ASSUME Commit PROVE OneReading'
  BY <1>17 DEF Commit
<1>18. ASSUME ListEffect PROVE OneReading'
  BY <1>18 DEF ListEffect, Cancelled, NewRequest
<1>19. ASSUME ExpandTimer PROVE OneReading'
  BY <1>19 DEF ExpandTimer
<1>20. ASSUME RecoveryTimer PROVE OneReading'
  BY <1>20 DEF RecoveryTimer
<1>21. ASSUME retryNow PROVE OneReading'
  BY <1>21 DEF retryNow
<1>22. ASSUME togglePanel PROVE OneReading'
  BY <1>22 DEF togglePanel
<1>23. ASSUME refresh PROVE OneReading'
  BY <1>23 DEF refresh, NewRequest
<1>24. ASSUME NEW c \in {"off", "connecting", "ready", "reconnecting", "failed"}, ChatChanges(c)
      PROVE  OneReading'
  BY <1>24 DEF ChatChanges
<1>25. ASSUME NEW x \in Requests, AnswerList(x) PROVE OneReading'
  BY <1>25 DEF AnswerList
<1>26. ASSUME NEW x \in Requests, ApplyList(x) PROVE OneReading'
  BY <1>26 DEF ApplyList
<1>27. ASSUME NEW x \in Requests, ListFails(x) PROVE OneReading'
  BY <1>27 DEF ListFails
<1>28. CASE UNCHANGED vars
  BY <1>28 DEF vars
<1> QED
  BY <1>1, <1>2, <1>3, <1>4, <1>5, <1>6, <1>7, <1>8, <1>9, <1>10, <1>11, <1>12, <1>13,
        <1>14,
     <1>15, <1>16, <1>17, <1>18, <1>19, <1>20, <1>21, <1>22, <1>23, <1>24, <1>25, <1>26, <1>27, <1>28
     DEF Next, DaemonStep, LinkStep, Page
\* A panel that opened by itself has its timer.
LEMMA PanelKept ==
    ASSUME PanelType, OpenedByItself, AutoPanelCloses, [Next]_vars
    PROVE  (OpenedByItself /\ AutoPanelCloses)'
<1> USE DEF PanelType, OpenedByItself, AutoPanelCloses
<1>1. ASSUME NEW s \in Sessions, NEW t \in {"untitled", "renamed", Null}, ChangeRegistry(s, t)
      PROVE  (OpenedByItself /\ AutoPanelCloses)'
  BY <1>1 DEF ChangeRegistry
<1>2. ASSUME NEW s \in Sessions, SetTitle(s) PROVE (OpenedByItself /\ AutoPanelCloses)'
  BY <1>2 DEF SetTitle
<1>3. ASSUME NEW s \in Sessions, patchSession(s) PROVE (OpenedByItself /\ AutoPanelCloses)'
  BY <1>3 DEF patchSession
<1>4. ASSUME NEW p \in publishing, PublishEnds(p) PROVE (OpenedByItself /\ AutoPanelCloses)'
  BY <1>4 DEF PublishEnds
<1>5. ASSUME NEW p \in publishing, NEW i \in p.ahead, Write(p, i)
      PROVE  (OpenedByItself /\ AutoPanelCloses)'
  BY <1>5 DEF Write
<1>6. ASSUME Shutdown PROVE (OpenedByItself /\ AutoPanelCloses)'
  BY <1>6 DEF Shutdown
<1>7. ASSUME Exit PROVE (OpenedByItself /\ AutoPanelCloses)'
  BY <1>7 DEF Exit
<1>8. ASSUME AnswerStream PROVE (OpenedByItself /\ AutoPanelCloses)'
  BY <1>8 DEF AnswerStream
<1>9. ASSUME subscribe PROVE (OpenedByItself /\ AutoPanelCloses)'
  BY <1>9 DEF subscribe
<1>10. ASSUME Restart PROVE (OpenedByItself /\ AutoPanelCloses)'
  BY <1>10 DEF Restart
<1>11. ASSUME Connected PROVE (OpenedByItself /\ AutoPanelCloses)'
  BY <1>11 DEF Connected
<1>12. ASSUME FetchFails PROVE (OpenedByItself /\ AutoPanelCloses)'
  BY <1>12 DEF FetchFails, Loop
<1>13. ASSUME StreamEnds PROVE (OpenedByItself /\ AutoPanelCloses)'
  BY <1>13 DEF StreamEnds, Loop
<1>14. ASSUME AnswerLost PROVE (OpenedByItself /\ AutoPanelCloses)'
  BY <1>14 DEF AnswerLost, Loop
<1>15. ASSUME Elapsed PROVE (OpenedByItself /\ AutoPanelCloses)'
  BY <1>15 DEF Elapsed
<1>16. ASSUME Deliver PROVE (OpenedByItself /\ AutoPanelCloses)'
  BY <1>16 DEF Deliver
<1>17. ASSUME Commit PROVE (OpenedByItself /\ AutoPanelCloses)'
  <2> DEFINE mid == [store EXCEPT !.reachable = hook.reachable, !.checking = hook.checking]
  <2>1. PanelShape(Notified(panel, mid, chat))
    BY PanelStep DEF PanelShape, PanelType, OpenedByItself, AutoPanelCloses
  <2>2. PanelShape(Notified(Notified(panel, mid, chat), hook, chat))
    BY <2>1, PanelStep
  <2> QED
    BY <1>17, <2>2 DEF Commit, PanelShape
<1>18. ASSUME ListEffect PROVE (OpenedByItself /\ AutoPanelCloses)'
  BY <1>18 DEF ListEffect
<1>19. ASSUME ExpandTimer PROVE (OpenedByItself /\ AutoPanelCloses)'
  BY <1>19 DEF ExpandTimer
<1>20. ASSUME RecoveryTimer PROVE (OpenedByItself /\ AutoPanelCloses)'
  BY <1>20 DEF RecoveryTimer
<1>21. ASSUME retryNow PROVE (OpenedByItself /\ AutoPanelCloses)'
  BY <1>21 DEF retryNow
<1>22. ASSUME togglePanel PROVE (OpenedByItself /\ AutoPanelCloses)'
  BY <1>22 DEF togglePanel
<1>23. ASSUME refresh PROVE (OpenedByItself /\ AutoPanelCloses)'
  BY <1>23 DEF refresh
<1>24. ASSUME NEW c \in {"off", "connecting", "ready", "reconnecting", "failed"}, ChatChanges(c)
      PROVE  (OpenedByItself /\ AutoPanelCloses)'
  <2>1. PanelShape(Notified(panel, store, c))
    BY PanelStep DEF PanelShape, PanelType, OpenedByItself, AutoPanelCloses
  <2> QED
    BY <1>24, <2>1 DEF ChatChanges, PanelShape
<1>25. ASSUME NEW x \in Requests, AnswerList(x) PROVE (OpenedByItself /\ AutoPanelCloses)'
  BY <1>25 DEF AnswerList
<1>26. ASSUME NEW x \in Requests, ApplyList(x) PROVE (OpenedByItself /\ AutoPanelCloses)'
  BY <1>26 DEF ApplyList
<1>27. ASSUME NEW x \in Requests, ListFails(x) PROVE (OpenedByItself /\ AutoPanelCloses)'
  BY <1>27 DEF ListFails
<1>28. CASE UNCHANGED vars
  BY <1>28 DEF vars
<1> QED
  BY <1>1, <1>2, <1>3, <1>4, <1>5, <1>6, <1>7, <1>8, <1>9, <1>10, <1>11, <1>12, <1>13,
        <1>14,
     <1>15, <1>16, <1>17, <1>18, <1>19, <1>20, <1>21, <1>22, <1>23, <1>24, <1>25, <1>26, <1>27, <1>28
     DEF Next, DaemonStep, LinkStep, Page
\* Where the lists, the requests and the daemon's sessions stay, so does what is read.
LEMMA SameLists ==
    ASSUME list'.sessions = list.sessions, list'.patches = list.patches,
           list'.error = list.error, UNCHANGED <<request, registry, meta>>
    PROVE  (BeingRead => BeingRead') /\ (WasRead => WasRead')
BY DEF BeingRead, WasRead, Reading, Agrees, mergeSessionList

\* The effect starts a request whose answer counts.
LEMMA NewReading ==
    ASSUME RequestType, ListEffect
    PROVE  BeingRead'
<1>1. PICK x \in Requests : /\ request[x] = Null
                            /\ request' = [Cancelled EXCEPT ![x] = NewRequest(TRUE)]
  BY DEF ListEffect
<1>2. request'[x] = NewRequest(TRUE)
  BY <1>1 DEF Cancelled
<1>3. NewRequest(TRUE) \in ListRequest
  BY DEF NewRequest, NoTitles, ListState, ListRequest
<1>4. request'[x] # Null
  BY <1>2, <1>3
<1>5. request'[x].effect /\ ~request'[x].cancelled /\ ~request'[x].answered
  BY <1>2 DEF NewRequest
<1> QED
  BY <1>4, <1>5 DEF BeingRead, Reading

\* A read that is coming stays so until the effect starts it: an event is on its way to the client
\* until it makes the list due, a stream that is dead ends, and one that ends makes it due when
\* the next one is answered.
LEMMA ComingKept ==
    ASSUME Typed, store \in HookState, list \in SessionList, RequestType, OneStream,
           FarewellIsTrue, Coming, [Next]_vars
    PROVE  (Coming \/ BeingRead)'
<1> USE DEF Coming, Rendered, up
<1>1. ASSUME NEW s \in Sessions, NEW t \in {"untitled", "renamed", Null}, ChangeRegistry(s, t)
      PROVE  (Coming \/ BeingRead)'
  BY <1>1 DEF ChangeRegistry
<1>2. ASSUME NEW s \in Sessions, SetTitle(s) PROVE (Coming \/ BeingRead)'
  BY <1>2 DEF SetTitle
<1>3. ASSUME NEW s \in Sessions, patchSession(s) PROVE (Coming \/ BeingRead)'
  BY <1>3 DEF patchSession, SessionList
<1>4. ASSUME NEW p \in publishing, PublishEnds(p) PROVE (Coming \/ BeingRead)'
  BY <1>4 DEF PublishEnds
<1>5. ASSUME NEW p \in publishing, NEW i \in p.ahead, Write(p, i) PROVE (Coming \/ BeingRead)'
  <2> DEFINE q == [p EXCEPT !.ahead = p.ahead \ {i}]
  <2>1. p \in PublishState /\ q.event = p.event /\ q.ahead = p.ahead \ {i}
    BY DEF Typed, Indices, PublishState
  <2>2. /\ publishing' = (publishing \ {p}) \cup {q}
        /\ wire' = IF i = link.stream /\ link.step \in {"answered", "open"} THEN Append(wire, p.event) ELSE wire
        /\ UNCHANGED <<phase, serving, link, hook, store, list>>
    BY <1>5 DEF Write
  <2>3. ToSet(wire) \subseteq ToSet(wire') /\ (wire' # wire => p.event \in ToSet(wire'))
    BY <2>1, <2>2, Wires DEF Typed, PublishState, Events
  <2>4. CASE \E r \in publishing : r.event = "changed" /\ link.stream \in r.ahead
    <3>1. PICK r \in publishing : r.event = "changed" /\ link.stream \in r.ahead
      BY <2>4
    <3>2. CASE r # p
      BY <3>1, <3>2, <2>2, <2>3
    <3>3. CASE r = p /\ i # link.stream
      BY <3>1, <3>3, <2>1, <2>2, <2>3
    <3>4. CASE r = p /\ i = link.stream /\ link.step \in {"answered", "open"}
      <4>1. ToSet(wire') = ToSet(wire) \cup {"changed"}
        BY <3>1, <3>4, <2>2, Wires DEF Typed, Events
      <4> QED
        BY <3>4, <4>1, <2>2
    <3>5. CASE link.step \notin {"answered", "open"}
      BY <3>5, <2>2, <2>3
    <3> QED
      BY <3>2, <3>3, <3>4, <3>5
  <2> QED
    BY <2>2, <2>3, <2>4
<1>6. ASSUME Shutdown PROVE (Coming \/ BeingRead)'
  BY <1>6 DEF Shutdown
<1>7. ASSUME Exit PROVE (Coming \/ BeingRead)'
  BY <1>7 DEF Exit, OneStream, Typed, Indices
<1>8. ASSUME AnswerStream PROVE (Coming \/ BeingRead)'
  BY <1>8, AnswerFields, Wires DEF AnswerStream, Typed
<1>9. ASSUME subscribe PROVE (Coming \/ BeingRead)'
  BY <1>9 DEF subscribe, Typed, Indices, PublishState
<1>10. ASSUME Restart PROVE (Coming \/ BeingRead)'
  BY <1>10 DEF Restart, OneStream, up, Typed, Indices
<1>11. ASSUME Connected PROVE (Coming \/ BeingRead)'
  BY <1>11, ConnectedFields DEF Connected, Typed
<1>12. ASSUME FetchFails PROVE (Coming \/ BeingRead)'
  BY <1>12, LoopFields DEF FetchFails, Typed
<1>13. ASSUME StreamEnds PROVE (Coming \/ BeingRead)'
  BY <1>13, LoopFields, Wires DEF StreamEnds, Typed
<1>14. ASSUME AnswerLost PROVE (Coming \/ BeingRead)'
  BY <1>14, LoopFields DEF AnswerLost, Typed
<1>15. ASSUME Elapsed PROVE (Coming \/ BeingRead)'
  BY <1>15, FetchFields DEF Elapsed, Typed, OneStream
<1>16. ASSUME Deliver PROVE (Coming \/ BeingRead)'
  BY <1>16, Wires DEF Deliver, Typed, FarewellIsTrue, SessionList, HookState
<1>17. ASSUME Commit PROVE (Coming \/ BeingRead)'
  BY <1>17 DEF Commit, SessionList
<1>18. ASSUME ListEffect PROVE (Coming \/ BeingRead)'
  BY <1>18, NewReading
<1>19. ASSUME ExpandTimer PROVE (Coming \/ BeingRead)'
  BY <1>19 DEF ExpandTimer
<1>20. ASSUME RecoveryTimer PROVE (Coming \/ BeingRead)'
  BY <1>20 DEF RecoveryTimer
<1>21. ASSUME retryNow PROVE (Coming \/ BeingRead)'
  BY <1>21, FetchFields DEF retryNow, Typed, OneStream
<1>22. ASSUME togglePanel PROVE (Coming \/ BeingRead)'
  BY <1>22 DEF togglePanel
<1>23. ASSUME refresh PROVE (Coming \/ BeingRead)'
  BY <1>23 DEF refresh, SessionList
<1>24. ASSUME NEW c \in {"off", "connecting", "ready", "reconnecting", "failed"}, ChatChanges(c)
      PROVE  (Coming \/ BeingRead)'
  BY <1>24 DEF ChatChanges
<1>25. ASSUME NEW x \in Requests, AnswerList(x) PROVE (Coming \/ BeingRead)'
  BY <1>25 DEF AnswerList
<1>26. ASSUME NEW x \in Requests, ApplyList(x) PROVE (Coming \/ BeingRead)'
  BY <1>26 DEF ApplyList, SessionList
<1>27. ASSUME NEW x \in Requests, ListFails(x) PROVE (Coming \/ BeingRead)'
  BY <1>27 DEF ListFails, SessionList
<1>28. CASE UNCHANGED vars
  BY <1>28 DEF vars
<1> QED
  BY <1>1, <1>2, <1>3, <1>4, <1>5, <1>6, <1>7, <1>8, <1>9, <1>10, <1>11, <1>12, <1>13,
        <1>14,
     <1>15, <1>16, <1>17, <1>18, <1>19, <1>20, <1>21, <1>22, <1>23, <1>24, <1>25, <1>26, <1>27, <1>28
     DEF Next, DaemonStep, LinkStep, Page
Read == history.gap \/ history.crossed \/ BeingRead \/ WasRead

\* Without one, only a change of the registry makes a list old, and it is announced on the
\* client's stream, falls in the gap, or is read when the client is connected.
LEMMA ReadKept ==
    ASSUME Typed, list \in SessionList, RequestType, RestType, OneStream, OneReading, Read,
           [Next]_vars
    PROVE  (Coming \/ Read)'
<1> USE DEF Read, RestType
<1>1. ASSUME NEW s \in Sessions, NEW t \in {"untitled", "renamed", Null}, ChangeRegistry(s, t)
      PROVE  (Coming \/ Read)'
  <2> DEFINE NewEvent == [event |-> "changed", id |-> left["changes"], ahead |-> hub]
  <2>1. publishing' = publishing \cup {NewEvent}
    BY <1>1 DEF ChangeRegistry
  <2>2. history'.gap = (history.gap \/ Missed)
    BY <1>1 DEF ChangeRegistry
  <2>3. CASE Missed
    BY <2>2, <2>3
  <2>4. ASSUME ~Missed PROVE Coming'
    <3>1. CASE link.stream \in hub
      <4>1. serving = link.stream /\ link.stream # 0 /\ link.stream \in Streams
        BY <3>1 DEF OneStream, Typed, Indices
      <4>2. CASE link.step \in {"answered", "open"}
        <5>1. publishing' = publishing \cup {NewEvent} /\ NewEvent.event = "changed" /\ NewEvent.ahead = hub
          BY <2>1
        <5>2. link' = link
          BY <1>1 DEF ChangeRegistry
        <5> HIDE DEF NewEvent
        <5> QED
          BY <3>1, <4>2, <5>1, <5>2 DEF Coming
      <4>3. CASE link.step \in {"fetch", "wait"}
        BY <1>1, <4>1, <4>3 DEF ChangeRegistry, Coming, OneStream
      <4> QED
        BY <4>2, <4>3 DEF Typed, LinkState
    <3>2. CASE link.stream \notin hub
      <4>1. link.ever /\ serving = 0 /\ UNCHANGED <<link, serving>>
        BY <1>1, <2>4, <3>2 DEF ChangeRegistry, Missed
      <4> QED
        BY <4>1 DEF Coming, OneStream, Typed, LinkState
    <3> QED
      BY <3>1, <3>2
  <2> QED
    BY <2>3, <2>4
<1>2. ASSUME NEW s \in Sessions, SetTitle(s) PROVE (Coming \/ Read)'
  BY <1>2 DEF SetTitle, BeingRead, WasRead, Reading, Agrees, mergeSessionList, ListState
<1>3. ASSUME NEW s \in Sessions, patchSession(s) PROVE (Coming \/ Read)'
  <2>1. SUFFICES ASSUME ~history'.crossed PROVE Read'
    OBVIOUS
  <2>2. /\ ~history.crossed /\ history'.gap = history.gap
        /\ registry[s] \in {"titled", Null}
        /\ \A x \in Requests : request[x] # Null /\ request[x].answered => request[x].sessions[s] = "titled"
    BY <1>3, <2>1 DEF patchSession
  <2>3. /\ s \in meta /\ meta' = meta \ {s} /\ UNCHANGED <<registry, request>>
        /\ list'.sessions = list.sessions /\ list'.error = list.error
        /\ list'.patches = [list.patches EXCEPT ![s] = "titled"]
    BY <1>3 DEF patchSession, SessionList
  <2>4. ASSUME NEW x \in Requests, request[x] # Null, request[x].answered, Agrees(request[x].sessions)
        PROVE  Agrees(request[x].sessions)'
    BY <2>2, <2>3, <2>4 DEF Agrees
  <2>5. BeingRead => BeingRead'
    BY <2>3, <2>4 DEF BeingRead, Reading
  <2>6. list.patches \in ListState /\ list.sessions \in ListState
    BY DEF SessionList
  <2>7. ASSUME Agrees(mergeSessionList) PROVE Agrees(mergeSessionList)'
    <3>1. \A t \in Sessions \ {s} : mergeSessionList'[t] = mergeSessionList[t]
      BY <2>3, <2>6 DEF mergeSessionList, ListState
    <3>2. mergeSessionList'[s] = IF list.sessions[s] # Null THEN "titled" ELSE Null
      BY <2>3, <2>6 DEF mergeSessionList, ListState, Titles
    <3>3. mergeSessionList[s] # Null <=> list.sessions[s] # Null
      BY DEF mergeSessionList
    <3>4. mergeSessionList'[s] = registry[s]
      BY <2>2, <2>7, <3>2, <3>3 DEF Agrees, Titles
    <3> QED
      BY <2>3, <2>7, <3>1, <3>4 DEF Agrees
  <2>8. WasRead => WasRead'
    BY <2>3, <2>7 DEF WasRead, Reading
  <2> QED
    BY <2>2, <2>5, <2>8
<1>4. ASSUME NEW p \in publishing, PublishEnds(p) PROVE (Coming \/ Read)'
  BY <1>4, SameLists DEF PublishEnds
<1>5. ASSUME NEW p \in publishing, NEW i \in p.ahead, Write(p, i) PROVE (Coming \/ Read)'
  BY <1>5, SameLists DEF Write
<1>6. ASSUME Shutdown PROVE (Coming \/ Read)'
  BY <1>6, SameLists DEF Shutdown
<1>7. ASSUME Exit PROVE (Coming \/ Read)'
  BY <1>7, SameLists DEF Exit
<1>8. ASSUME AnswerStream PROVE (Coming \/ Read)'
  BY <1>8, SameLists DEF AnswerStream
<1>9. ASSUME subscribe PROVE (Coming \/ Read)'
  BY <1>9, SameLists DEF subscribe
<1>10. ASSUME Restart PROVE (Coming \/ Read)'
  BY <1>10, SameLists DEF Restart
<1>11. ASSUME Connected PROVE (Coming \/ Read)'
  BY <1>11, ConnectedFields, SameLists DEF Connected
<1>12. ASSUME FetchFails PROVE (Coming \/ Read)'
  BY <1>12, SameLists DEF FetchFails
<1>13. ASSUME StreamEnds PROVE (Coming \/ Read)'
  BY <1>13, SameLists DEF StreamEnds
<1>14. ASSUME AnswerLost PROVE (Coming \/ Read)'
  BY <1>14, SameLists DEF AnswerLost
<1>15. ASSUME Elapsed PROVE (Coming \/ Read)'
  BY <1>15, SameLists DEF Elapsed
<1>16. ASSUME Deliver PROVE (Coming \/ Read)'
  BY <1>16, SameLists DEF Deliver, SessionList
<1>17. ASSUME Commit PROVE (Coming \/ Read)'
  BY <1>17, SameLists DEF Commit, SessionList
<1>18. ASSUME ListEffect PROVE (Coming \/ Read)'
  BY <1>18, NewReading
<1>19. ASSUME ExpandTimer PROVE (Coming \/ Read)'
  BY <1>19, SameLists DEF ExpandTimer
<1>20. ASSUME RecoveryTimer PROVE (Coming \/ Read)'
  BY <1>20, SameLists DEF RecoveryTimer
<1>21. ASSUME retryNow PROVE (Coming \/ Read)'
  BY <1>21, SameLists DEF retryNow
<1>22. ASSUME togglePanel PROVE (Coming \/ Read)'
  BY <1>22, SameLists DEF togglePanel
<1>23. ASSUME refresh PROVE (Coming \/ Read)'
  <2>1. PICK x \in Requests : request[x] = Null /\ request' = [request EXCEPT ![x] = NewRequest(FALSE)]
    BY <1>23 DEF refresh
  <2>2. request'[x] = NewRequest(FALSE) /\ \A y \in Requests \ {x} : request'[y] = request[y]
    BY <2>1 DEF RequestType
  <2>3. NewRequest(FALSE) \in ListRequest
    BY DEF NewRequest, NoTitles, ListState, ListRequest
  <2>9. request'[x] # Null
    BY <2>2, <2>3
  <2>4. request'[x] # Null /\ ~request'[x].effect
    BY <2>2, <2>9 DEF NewRequest
  <2>5. UNCHANGED <<registry, meta, history>>
    BY <1>23 DEF refresh
  <2>6. \A y \in Requests : Reading(y)' <=> Reading(y)
    BY <2>1, <2>2, <2>4 DEF Reading
  <2>7. ASSUME BeingRead PROVE BeingRead'
    <3>1. PICK y \in Requests : Reading(y) /\ (request[y].answered => Agrees(request[y].sessions))
      BY <2>7 DEF BeingRead
    <3>2. y # x
      BY <2>1, <3>1 DEF Reading
    <3>3. request'[y].answered => Agrees(request[y].sessions)'
      BY <2>2, <2>5, <3>1, <3>2 DEF Agrees
    <3> QED
      BY <2>6, <3>1, <3>3 DEF BeingRead
  <2>8. WasRead => WasRead'
    BY <2>4, <2>6 DEF WasRead
  <2> QED
    BY <2>5, <2>7, <2>8
<1>24. ASSUME NEW c \in {"off", "connecting", "ready", "reconnecting", "failed"}, ChatChanges(c)
      PROVE  (Coming \/ Read)'
  BY <1>24, SameLists DEF ChatChanges
<1>25. ASSUME NEW x \in Requests, AnswerList(x) PROVE (Coming \/ Read)'
  <2>1. request'[x].answered /\ request'[x].sessions = registry /\ request'[x] # Null
        /\ request[x] # Null /\ request'[x].effect = request[x].effect
        /\ request'[x].cancelled = request[x].cancelled
    <3>1. [request[x] EXCEPT !.answered = TRUE, !.sessions = registry] \in ListRequest
      BY <1>25 DEF AnswerList, RequestType, ListRequest
    <3> QED
      BY <1>25, <3>1 DEF AnswerList, RequestType, ListRequest
  <2>2. \A y \in Requests \ {x} : request'[y] = request[y]
    BY <1>25 DEF AnswerList, RequestType
  <2>3. UNCHANGED <<registry, meta, list, history>>
    BY <1>25 DEF AnswerList
  <2>4. \A y \in Requests : Reading(y)' <=> Reading(y)
    BY <2>1, <2>2 DEF Reading
  <2>5. Agrees(request[x].sessions)'
    BY <2>1, <2>3 DEF Agrees
  <2>6. ASSUME BeingRead PROVE BeingRead'
    <3>1. PICK y \in Requests : Reading(y) /\ (request[y].answered => Agrees(request[y].sessions))
      BY <2>6 DEF BeingRead
    <3>2. CASE y = x
      BY <2>4, <2>5, <3>1, <3>2 DEF BeingRead
    <3>3. CASE y # x
      <4>1. request'[y].answered => Agrees(request[y].sessions)'
        BY <2>2, <2>3, <3>1, <3>3 DEF Agrees
      <4> QED
        BY <2>4, <3>1, <4>1 DEF BeingRead
    <3> QED
      BY <3>2, <3>3
  <2>7. WasRead => WasRead'
    BY <2>1, <2>2, <2>3, <2>4 DEF WasRead, Agrees, mergeSessionList
  <2> QED
    BY <2>3, <2>6, <2>7
<1>26. ASSUME NEW x \in Requests, ApplyList(x) PROVE (Coming \/ Read)'
  <2>1. SUFFICES ASSUME ~history'.crossed PROVE Read'
    OBVIOUS
  <2>2. /\ request[x] # Null /\ request[x].answered /\ request[x].effect /\ ~history.crossed
        /\ history'.gap = history.gap
        /\ \A y \in Requests \ {x} : request[y] # Null => request[y].effect
    BY <1>26, <2>1 DEF ApplyList
  <2>3. /\ request'[x] = Null /\ \A y \in Requests \ {x} : request'[y] = request[y]
        /\ UNCHANGED <<registry, meta>>
    BY <1>26 DEF ApplyList, RequestType
  <2>4. CASE request[x].cancelled
    <3>1. list' = list
      BY <1>26, <2>4 DEF ApplyList
    <3>2. BeingRead => BeingRead'
      BY <2>3, <2>4, <3>1 DEF BeingRead, Reading, Agrees
    <3>3. WasRead => WasRead'
      BY <2>2, <2>3, <3>1 DEF WasRead, Reading, Agrees, mergeSessionList
    <3> QED
      BY <2>2, <3>2, <3>3
  <2>5. CASE ~request[x].cancelled
    <3>1. /\ list'.sessions = request[x].sessions /\ list'.patches = NoTitles
      BY <1>26, <2>5 DEF ApplyList, SessionList
    <3>2. Reading(x)
      BY <2>2, <2>5 DEF Reading
    <3>3. Agrees(request[x].sessions) \/ history.gap
      BY <2>2, <3>2 DEF OneReading, BeingRead, WasRead
    <3>4. mergeSessionList' = request[x].sessions
      BY <3>1, <2>2 DEF mergeSessionList, NoTitles, RequestType, ListRequest, ListState
    <3>5. ~\E y \in Requests : Reading(y)'
      BY <2>3, <3>2 DEF OneReading, Reading
    <3>6. Agrees(request[x].sessions) => Agrees(mergeSessionList)'
      BY <2>3, <3>4 DEF Agrees
    <3> QED
      BY <2>2, <3>3, <3>5, <3>6 DEF WasRead
  <2> QED
    BY <2>4, <2>5
<1>27. ASSUME NEW x \in Requests, ListFails(x) PROVE (Coming \/ Read)'
  <2>1. /\ request[x] # Null /\ request'[x] = Null
        /\ \A y \in Requests \ {x} : request'[y] = request[y]
        /\ UNCHANGED <<registry, meta, history>>
    BY <1>27 DEF ListFails, RequestType
  <2>2. CASE request[x].cancelled
    <3>1. list' = list /\ request[x].effect
      BY <1>27, <2>1, <2>2 DEF ListFails, OneReading
    <3>2. BeingRead => BeingRead'
      BY <2>1, <2>2, <3>1 DEF BeingRead, Reading, Agrees
    <3>3. WasRead => WasRead'
      BY <2>1, <3>1 DEF WasRead, Reading, Agrees, mergeSessionList
    <3> QED
      BY <2>1, <3>2, <3>3
  <2>3. CASE ~request[x].cancelled
    <3>1. list'.error
      BY <1>27, <2>3 DEF ListFails, SessionList
    <3>2. CASE \E y \in Requests : Reading(y)'
      <4>1. PICK y \in Requests : Reading(y)'
        BY <3>2
      <4>2. y # x /\ request'[y] = request[y] /\ Reading(y)
        BY <2>1, <4>1 DEF Reading
      <4>3. BeingRead /\ request[y].answered => Agrees(request[y].sessions)
        BY <4>2 DEF BeingRead, OneReading
      <4>4. BeingRead => BeingRead'
        BY <2>1, <4>1, <4>2, <4>3 DEF BeingRead, Agrees
      <4> QED
        BY <2>1, <4>2, <4>4 DEF WasRead
    <3>3. CASE ~\E y \in Requests : Reading(y)'
      BY <3>1, <3>3 DEF WasRead
    <3> QED
      BY <3>2, <3>3
  <2> QED
    BY <2>2, <2>3
<1>28. CASE UNCHANGED vars
  BY <1>28, SameLists DEF vars
<1> QED
  BY <1>1, <1>2, <1>3, <1>4, <1>5, <1>6, <1>7, <1>8, <1>9, <1>10, <1>11, <1>12, <1>13,
        <1>14,
     <1>15, <1>16, <1>17, <1>18, <1>19, <1>20, <1>21, <1>22, <1>23, <1>24, <1>25, <1>26, <1>27, <1>28
     DEF Next, DaemonStep, LinkStep, Page
-----------------------------------------------------------------------------
(* DeviceLink: the theorem.                                                *)

\* When nothing is coming and no request is under way, the last read was the daemon's list.
LEMMA ListFollows ==
    ASSUME TypeOK, OneStream, ChangesReachList
    PROVE  ListIsCurrent
<1>1. SUFFICES ASSUME link.step = "open", phase = "up", Rendered, link.stream \in hub, wire = <<>>,
                      meta = {}, publishing = {}, ~list.due, ~list.error,
                      \A x \in Requests : request[x] = Null, ~history.gap, ~history.crossed
               PROVE  mergeSessionList = registry
  BY DEF ListIsCurrent
<1>2. serving = link.stream
  BY <1>1 DEF OneStream
<1>3. ToSet(wire) = {}
  BY <1>1 DEF ToSet
<1>4. ~(store.reachable = FALSE /\ hook.reachable = TRUE)
  BY <1>1 DEF Rendered
<1>5. ~Coming
  BY <1>1, <1>2, <1>3, <1>4 DEF Coming
<1>6. Agrees(mergeSessionList)
  BY <1>1, <1>5 DEF ChangesReachList, BeingRead, WasRead, Reading
<1>7. \A s \in Sessions : mergeSessionList[s] = registry[s]
  BY <1>1, <1>6 DEF Agrees
<1> QED
  BY <1>7 DEF mergeSessionList, TypeOK, ListState

\* The parts of the type invariant.
LEMMA Typing ==
    TypeOK => /\ Typed /\ Health /\ PanelType /\ RequestType /\ RestType
              /\ list \in SessionList
BY DEF TypeOK, Typed, Indices, LinkState, HookState, Health, PanelType, RequestType,
      RestType,
       SessionList, Events

LEMMA LinkInit == Init => LinkInv
<1> SUFFICES ASSUME Init PROVE LinkInv
  OBVIOUS
<1>1. TypeOK
  <2>1. registry \in ListState /\ list \in [sessions : ListState, patches : ListState, error : BOOLEAN, due : BOOLEAN]
    BY DEF Init, NoTitles, ListState
  <2>2. link \in [step : {"fetch", "answered", "open", "wait"}, attempt : 0 .. 2, ever : BOOLEAN,
                  stream : Streams \cup {0}]
    BY DEF Init
  <2>3. request \in [Requests -> {Null} \cup ListRequest]
    BY DEF Init
  <2> QED
    BY <2>1, <2>2, <2>3 DEF Init, TypeOK
<1>2. OneStream /\ FarewellIsTrue /\ OneReading
  BY DEF Init, OneStream, FarewellIsTrue, OneReading, Reading, ToSet
<1>3. ChangesReachList
  BY DEF Init, ChangesReachList, Coming
<1>4. OpenedByItself /\ AutoPanelCloses
  BY DEF Init, OpenedByItself, AutoPanelCloses
<1> QED
  BY <1>1, <1>2, <1>3, <1>4, ListFollows DEF LinkInv

LEMMA LinkNext == LinkInv /\ [Next]_vars => LinkInv'
<1> SUFFICES ASSUME LinkInv, [Next]_vars PROVE LinkInv'
  OBVIOUS
<1>1. /\ TypeOK /\ OneStream /\ FarewellIsTrue /\ OneReading /\ ChangesReachList
      /\ OpenedByItself /\ AutoPanelCloses
  BY DEF LinkInv
<1>2. Typed /\ Health /\ PanelType /\ RequestType /\ RestType /\ list \in SessionList
  BY <1>1, Typing
<1>3. /\ Indices /\ link \in LinkState /\ hook \in HookState /\ store \in HookState
      /\ WireType
  BY <1>2 DEF Typed, Health, Events, WireType
<1>4. Indices' /\ link' \in LinkState /\ WireType'
  <2>1. Indices'
    BY <1>3, IndicesTyped
  <2>2. link' \in LinkState
    BY <1>2, <1>3, LinkTyped
  <2>3. WireType'
    BY <1>3, WireTyped
  <2> QED
    BY <2>1, <2>2, <2>3
<1>5. Health' /\ PanelType' /\ list' \in SessionList /\ RequestType'
  <2>1. Health'
    BY <1>2, <1>3, HealthTyped
  <2>2. PanelType'
    BY <1>2, PanelTyped
  <2>3. list' \in SessionList
    BY <1>2, <1>3, ListTyped
  <2>4. RequestType'
    BY <1>2, RequestTyped
  <2> QED
    BY <2>1, <2>2, <2>3, <2>4
<1>6. RestType'
  BY <1>2, RestTyped
<1>7. TypeOK'
  BY <1>4, <1>5, <1>6
     DEF TypeOK, Indices, WireType, Health, PanelType, RequestType, RestType, LinkState,
         HookState, SessionList
<1>8. OneStream' /\ FarewellIsTrue'
  BY <1>1, <1>2, OneStreamKept, FarewellKept
<1>9. OneReading'
  BY <1>1, <1>2, OneReadingKept
<1>10. (OpenedByItself /\ AutoPanelCloses)'
  BY <1>1, <1>2, PanelKept
<1>11. ChangesReachList'
  <2>1. CASE Coming
    BY <1>1, <1>2, <1>3, <2>1, ComingKept DEF ChangesReachList
  <2>2. CASE Read
    BY <1>1, <1>2, <2>2, ReadKept DEF ChangesReachList, Read
  <2> QED
    BY <1>1, <2>1, <2>2 DEF ChangesReachList, Read
<1>12. ListIsCurrent'
  BY <1>7, <1>8, <1>11, ListFollows, PTL
<1> QED
  BY <1>7, <1>8, <1>9, <1>10, <1>11, <1>12 DEF LinkInv

\* The daemon serves the stream that was answered last or none, a farewell is only said by a
\* daemon that stops, one request at a time counts, every change that is announced reaches the
\* list, so that a list at rest is the daemon's, and a panel that opened by itself closes.
THEOREM LinkIsSafe == FairSpec => []LinkInv
<1> QED
  BY LinkInit, LinkNext, PTL DEF FairSpec, Spec

=============================================================================
