------------------------------ MODULE Accounts ------------------------------
(***************************************************************************)
(* User accounts: the refresh tokens of the server (auth-service.ts) and   *)
(* the browser tabs that share them through localStorage (use-auth.tsx).   *)
(*                                                                         *)
(* A token stands for the pair of an access token and its refresh token,   *)
(* which are issued together.  An access token is old when a day or less   *)
(* of its week is left; only then does getValidAccessToken refresh it.     *)
(* A caller of getValidAccessToken has the function of one render of its   *)
(* tab, and with it the auth of that render.                               *)
(***************************************************************************)
EXTENDS Naturals, FiniteSets

CONSTANTS Tokens,    \* 1 .. the number of pairs the server may issue
          Tabs,      \* browser tabs
          Callers,   \* components that ask for a token
          MaxAges,   \* bound: times at which all tokens become old
          MaxFaults, \* bound: requests that fail
          None

\* A request for a new pair: the token sent, how far it is, and the answer.
RequestState == [token : Tokens,
                 step : {"sent", "revoked", "answered", "refused", "failed"},
                 new : Tokens \cup {None}]

ASSUME AccountsAssumption ==
  /\ Tokens \subseteq Nat \ {0}
  /\ None \notin Tokens \cup {0} \cup Tabs \cup RequestState
  /\ MaxAges \in Nat /\ MaxFaults \in Nat

VARIABLES
  issued,    \* server: refresh_tokens, as the number of rows
  revoked,   \* server: those that are revoked
  old,       \* tokens whose access token is to be refreshed
  stored,    \* localStorage: auth, or NoToken
  auth,      \* tab -> its auth state, or NoToken; None for a tab that is not open
  refreshing,\* tab -> its refreshingRef: the request, or None
  caller,    \* caller -> what it does
  ages, faults,
  sent,      \* history: the tokens each tab has sent to be refreshed,
  stale,     \* those a function older than the tab's last render sent,
  loggedOut  \* those for which it was logged out because they were refused

accountVars == <<issued, revoked, old, stored, auth, refreshing, caller, ages, faults,
                 sent, stale, loggedOut>>
accountHistory == <<sent, stale, loggedOut>>

NoToken == 0
NoCall == [tab |-> None, seen |-> None, step |-> "idle"]

AccountsInit ==
  /\ issued = 0 /\ revoked = {} /\ old = {}
  /\ stored = NoToken
  /\ auth = [t \in Tabs |-> None] /\ refreshing = [t \in Tabs |-> None]
  /\ caller = [c \in Callers |-> NoCall]
  /\ ages = 0 /\ faults = 0
  /\ sent = [t \in Tabs |-> {}] /\ stale = [t \in Tabs |-> {}]
  /\ loggedOut = [t \in Tabs |-> {}]

-----------------------------------------------------------------------------
(* The server. *)

\* issueToken
issueToken == issued + 1 \in Tokens /\ issued' = issued + 1

\* A day before the end of its life the access token counts as old.
Age ==
  /\ ages < MaxAges /\ ages' = ages + 1
  /\ old' = 1 .. issued
  /\ UNCHANGED <<issued, revoked, stored, auth, refreshing, caller, faults, accountHistory>>

\* refreshAccessToken, the test of the old token and its revocation
Revoke(t) ==
  LET r == refreshing[t] IN
  /\ r # None /\ r.step = "sent"
  /\ \/ /\ r.token \in revoked
        /\ refreshing' = [refreshing EXCEPT ![t].step = "refused"]
        /\ UNCHANGED revoked
     \/ /\ r.token \notin revoked
        /\ revoked' = revoked \cup {r.token}
        /\ refreshing' = [refreshing EXCEPT ![t].step = "revoked"]
  /\ UNCHANGED <<issued, old, stored, auth, caller, ages, faults, accountHistory>>

\* refreshAccessToken, the new pair
Issue(t) ==
  /\ refreshing[t] # None /\ refreshing[t].step = "revoked"
  /\ issueToken
  /\ refreshing' = [refreshing EXCEPT ![t] = [token |-> @.token, step |-> "answered", new |-> issued + 1]]
  /\ UNCHANGED <<revoked, old, stored, auth, caller, ages, faults, accountHistory>>

\* The request or its answer is lost, or the server fails between its two writes.
RequestFails(t) ==
  /\ refreshing[t] # None /\ refreshing[t].step # "refused"
  /\ faults < MaxFaults /\ faults' = faults + 1
  /\ refreshing' = [refreshing EXCEPT ![t].step = "failed"]
  /\ UNCHANGED <<issued, revoked, old, stored, auth, caller, ages, accountHistory>>

-----------------------------------------------------------------------------
(* The tabs. *)

Open(t) == auth[t] # None

\* AuthProvider of a new tab, or of one that is reloaded; its pending calls are gone.
Load(t) ==
  /\ refreshing[t] = None
  /\ auth' = [auth EXCEPT ![t] = stored]
  /\ caller' = [c \in Callers |-> IF caller[c].tab = t THEN NoCall ELSE caller[c]]
  /\ UNCHANGED <<issued, revoked, old, stored, refreshing, ages, faults, accountHistory>>

\* A reload while a refresh is under way: its answer has no reader, and the server may
\* or may not have revoked the token that localStorage still holds.
LoadDuringRefresh(t) ==
  /\ refreshing[t] # None
  /\ faults < MaxFaults /\ faults' = faults + 1
  /\ refreshing' = [refreshing EXCEPT ![t] = None]
  /\ auth' = [auth EXCEPT ![t] = stored]
  /\ caller' = [c \in Callers |-> IF caller[c].tab = t THEN NoCall ELSE caller[c]]
  /\ revoked' \in {revoked, revoked \cup {refreshing[t].token}}
  /\ UNCHANGED <<issued, old, stored, ages, accountHistory>>

\* login and register, then setAuth
Login(t) ==
  /\ auth[t] = NoToken
  /\ issueToken
  /\ auth' = [auth EXCEPT ![t] = issued + 1] /\ stored' = issued + 1
  /\ UNCHANGED <<revoked, old, refreshing, caller, ages, faults, accountHistory>>

\* A component keeps the getValidAccessToken of a render, across its own awaits.
Capture(c, t) ==
  /\ caller[c].step = "idle" /\ Open(t) /\ auth[t] # NoToken
  /\ caller' = [caller EXCEPT ![c] = [tab |-> t, seen |-> auth[t], step |-> "captured"]]
  /\ UNCHANGED <<issued, revoked, old, stored, auth, refreshing, ages, faults, accountHistory>>

Request(token) == [token |-> token, step |-> "sent", new |-> None]

\* Faulty getValidAccessToken: it does not look for a refresh under way.  The one that
\* is then forgotten has revoked the token of the second.
GetTokenUnshared(c) ==
  LET t == caller[c].tab seen == caller[c].seen IN
  /\ caller[c].step = "captured"
  /\ \/ /\ seen \notin old
        /\ caller' = [caller EXCEPT ![c] = NoCall]
        /\ UNCHANGED <<refreshing, accountHistory>>
     \/ /\ seen \in old
        /\ refreshing' = [refreshing EXCEPT ![t] = Request(seen)]
        /\ caller' = [caller EXCEPT ![c].step = "waiting"]
        /\ sent' = [sent EXCEPT ![t] = @ \cup {seen}]
        /\ UNCHANGED <<stale, loggedOut>>
  /\ UNCHANGED <<issued, revoked, old, stored, auth, ages, faults>>

\* getValidAccessToken up to its await.  stale: the function is older than
\* the tab's last render.
getValidAccessToken(c) ==
  LET t == caller[c].tab seen == caller[c].seen IN
  /\ caller[c].step = "captured"
  /\ \/ /\ seen \notin old
        /\ caller' = [caller EXCEPT ![c] = NoCall]
        /\ UNCHANGED <<refreshing, accountHistory>>
     \/ /\ seen \in old /\ refreshing[t] # None
        /\ caller' = [caller EXCEPT ![c].step = "waiting"]
        /\ UNCHANGED <<refreshing, accountHistory>>
     \/ /\ seen \in old /\ refreshing[t] = None
        /\ refreshing' = [refreshing EXCEPT ![t] = Request(seen)]
        /\ caller' = [caller EXCEPT ![c].step = "waiting"]
        /\ sent' = [sent EXCEPT ![t] = @ \cup {seen}]
        /\ stale' = [stale EXCEPT ![t] = IF seen = auth[t] THEN @ ELSE @ \cup {seen}]
        /\ UNCHANGED loggedOut
  /\ UNCHANGED <<issued, revoked, old, stored, auth, ages, faults>>

\* doRefresh after its await: setAuth, or logout, which clears localStorage for all tabs.
doRefresh(t) ==
  LET r == refreshing[t] IN
  /\ r # None /\ r.step \in {"answered", "refused", "failed"}
  /\ refreshing' = [refreshing EXCEPT ![t] = None]
  /\ caller' = [c \in Callers |-> IF caller[c].tab = t /\ caller[c].step = "waiting" THEN NoCall
                                                                                    ELSE caller[c]]
  /\ \/ /\ r.step = "answered"
        /\ auth' = [auth EXCEPT ![t] = r.new] /\ stored' = r.new
        /\ UNCHANGED accountHistory
     \/ /\ r.step # "answered"
        /\ auth' = [auth EXCEPT ![t] = NoToken] /\ stored' = NoToken
        /\ loggedOut' = IF r.step = "refused" THEN [loggedOut EXCEPT ![t] = @ \cup {r.token}]
                                              ELSE loggedOut
        /\ UNCHANGED <<sent, stale>>
  /\ UNCHANGED <<issued, revoked, old, ages, faults>>

\* logout by the user; a refresh under way goes on, and its answer logs in again.
logout(t) ==
  /\ Open(t) /\ auth[t] # NoToken
  /\ auth' = [auth EXCEPT ![t] = NoToken] /\ stored' = NoToken
  /\ UNCHANGED <<issued, revoked, old, refreshing, caller, ages, faults, accountHistory>>

-----------------------------------------------------------------------------

AccountsNext ==
  \/ Age
  \/ \E t \in Tabs : Revoke(t) \/ Issue(t) \/ RequestFails(t) \/ Load(t) \/ LoadDuringRefresh(t)
                       \/ Login(t) \/ doRefresh(t) \/ logout(t)
  \/ \E c \in Callers : getValidAccessToken(c) \/ \E t \in Tabs : Capture(c, t)

AccountsSpec == AccountsInit /\ [][AccountsNext]_accountVars

-----------------------------------------------------------------------------

AccountsTypeOK ==
  /\ issued \in Nat /\ 1 .. issued \subseteq Tokens
  /\ revoked \subseteq 1 .. issued /\ old \subseteq 1 .. issued
  /\ stored \in 0 .. issued
  /\ auth \in [Tabs -> 0 .. issued \cup {None}]
  /\ refreshing \in [Tabs -> RequestState \cup {None}]
  /\ caller \in [Callers -> [tab : Tabs \cup {None}, seen : Tokens \cup {None},
                             step : {"idle", "captured", "waiting"}]]
  /\ ages \in 0 .. MaxAges /\ faults \in 0 .. MaxFaults
  /\ sent \in [Tabs -> SUBSET (1 .. issued)] /\ stale \in [Tabs -> SUBSET Tokens]
  /\ loggedOut \in [Tabs -> SUBSET Tokens]

\* Why the server may refuse token r to tab t: a function of an earlier render sent it,
\* another tab did, or a request has failed.
Reason(t, r) ==
  \/ r \in stale[t]
  \/ \E u \in Tabs \ {t} : r \in sent[u]
  \/ faults > 0

\* A tab is logged out against its user's will only when a request has failed, when
\* another tab has used the token that both had from localStorage, or when a function of
\* an earlier render sent a token that the tab had already replaced: the calls of one
\* render share one refresh, and the token it brings is good for the next.
LogoutHasReason ==
  \A t \in Tabs : \A r \in loggedOut[t] : Reason(t, r)

\* Only an open tab refreshes or calls, with tokens that were issued to it; a request is
\* refused, or about to be, for a reason.
RequestsHaveReason ==
  /\ \A c \in Callers : caller[c].step # "idle" =>
        caller[c].tab \in Tabs /\ Open(caller[c].tab) /\ caller[c].seen \in 1 .. issued
  /\ \A t \in Tabs : refreshing[t] # None =>
        LET r == refreshing[t] IN
        /\ Open(t) /\ r.token \in sent[t]
        /\ r.step = "refused" \/ (r.step = "sent" /\ r.token \in revoked) => Reason(t, r.token)

\* The new pair of an answer on its way is known to nobody else.
Answered(t) == refreshing[t] # None /\ refreshing[t].step = "answered"
AnswerIsSecret ==
  \A t \in Tabs : Answered(t) =>
    LET n == refreshing[t].new IN
    /\ n \in (1 .. issued) \ (revoked \cup {stored})
    /\ \A u \in Tabs : auth[u] # n /\ n \notin sent[u]
    /\ \A u \in Tabs \ {t} : Answered(u) => refreshing[u].new # n
    /\ \A c \in Callers : caller[c].step # "idle" => caller[c].seen # n

\* As long as no request fails, a revoked token was sent by a tab, and a tab never gets a
\* token back that it has sent and has its answer for.
SentTokensReplaced ==
  faults = 0 =>
    /\ \A r \in revoked : \E t \in Tabs : r \in sent[t]
    /\ \A t \in Tabs : \A r \in sent[t] \ stale[t] :
          \/ refreshing[t] # None /\ refreshing[t].token = r
          \/ auth[t] # r /\ stored # r

\* As long as at most one tab is open and nothing fails, localStorage keeps no token that
\* is revoked, once the refresh that revoked it is over.
StoredIsGood ==
  /\ faults = 0
  /\ \A t, u \in Tabs : Open(t) /\ Open(u) => t = u
  => \/ stored \notin revoked
     \/ \E t \in Tabs : refreshing[t] # None /\ refreshing[t].step \in {"revoked", "answered"}

AccountsInv ==
  /\ AccountsTypeOK
  /\ RequestsHaveReason /\ AnswerIsSecret /\ SentTokensReplaced
  /\ LogoutHasReason /\ StoredIsGood
=============================================================================
