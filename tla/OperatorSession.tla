--------------------------- MODULE OperatorSession --------------------------
(***************************************************************************)
(* Logging in and out: the OAuth broker of backend/app/auth_routes.py, the *)
(* state and session of backend/app/security.py, and the browser's side,   *)
(* frontend/src/auth.ts and App.tsx.                                       *)
(*                                                                         *)
(* A flow is one visit to Google's page: the state of a click on "sign in" *)
(* or "reconnect", the callback with a code, and the return to the SPA     *)
(* with a token or an error in the fragment.  A state is consumed nowhere: *)
(* the browser may go back to Google's page with it, which is a flow and a *)
(* code of its own, and may send a callback's URL again.  Tabs have flows  *)
(* and sessions of their own and share the stored refresh token.           *)
(* Signatures hold by assumption: a state is the time it was made, and a   *)
(* session token the flow that made it.  A unit of time is longer than a   *)
(* callback.                                                               *)
(***************************************************************************)
EXTENDS Integers

CONSTANTS
  Tab,
  StateTTL,     \* STATE_TTL_SECONDS
  SessionTTL,   \* jwt_ttl_hours
  MaxFlows,     \* bound: visits to Google's page
  MaxTime,      \* bound: the clock
  MaxMishaps    \* bound: failed calls, callbacks sent again, revocations

(* What the lifetimes and the bounds are taken from.                       *)
SessionConstants ==
  /\ StateTTL \in Nat /\ SessionTTL \in Nat \ {0}
  /\ MaxFlows \in Nat /\ MaxTime \in Nat /\ MaxMishaps \in Nat

Flow    == 1..MaxFlows
None    == 0
Account == {"operator", "other"}
Never   == -1

VARIABLES
  now,
  stage,     \* where each flow is
  tab,       \* the tab of each flow
  prompt,    \* "select_account" for login, "consent" for reconnect
  account,   \* who consented
  made,      \* when the state was made
  used,      \* Google: the code was exchanged
  refresh,   \* whether the exchange returned a refresh token
  minted,    \* when the session token was minted
  granted,   \* Google: the accounts that have a grant
  dead,      \* Google: the flows whose refresh token is no longer good
  stored,    \* the flow whose refresh token is in the secret store
  token,     \* sessionStorage of each tab: the flow that minted the token
  session,   \* App's session state of each tab; "away" while not on the SPA
  flows, mishaps

vars == <<now, stage, tab, prompt, account, made, used, refresh, minted, granted, dead,
          stored, token, session, flows, mishaps>>
flowData == <<tab, prompt, made>>
google   == <<account, used, refresh, granted, dead>>
browser  == <<token, session>>

Returned == {"token", "error", "unauthorized"}
InCallback == {"callback", "check", "store", "mint"}

TypeOK ==
  /\ now \in 0..MaxTime
  /\ stage \in [Flow -> {"none", "google", "crashed", "done"} \union InCallback \union Returned]
  /\ tab \in [Flow -> Tab]
  /\ prompt \in [Flow -> {"select_account", "consent"}]
  /\ account \in [Flow -> Account]
  /\ made \in [Flow -> 0..MaxTime] /\ minted \in [Flow -> 0..MaxTime \union {Never}]
  /\ used \in [Flow -> BOOLEAN] /\ refresh \in [Flow -> BOOLEAN]
  /\ granted \subseteq Account /\ dead \subseteq Flow
  /\ stored \in Flow \union {None}
  /\ token \in [Tab -> Flow \union {None}]
  /\ session \in [Tab -> {"away", "anonymous", "checking", "authed"}]
  /\ flows \in 0..MaxFlows /\ mishaps \in 0..MaxMishaps

Init ==
  /\ now = 0
  /\ stage = [f \in Flow |-> "none"]
  /\ tab \in {[f \in Flow |-> t] : t \in Tab}
  /\ prompt = [f \in Flow |-> "select_account"]
  /\ account = [f \in Flow |-> "other"]
  /\ made = [f \in Flow |-> 0] /\ minted = [f \in Flow |-> Never]
  /\ used = [f \in Flow |-> FALSE] /\ refresh = [f \in Flow |-> FALSE]
  /\ granted = {} /\ dead = {} /\ stored = None
  /\ token = [t \in Tab |-> None]
  /\ session = [t \in Tab |-> "anonymous"]
  /\ flows = 0 /\ mishaps = 0

Mishap == mishaps < MaxMishaps /\ mishaps' = mishaps + 1
Goto(f, label) == stage' = [stage EXCEPT ![f] = label]
-----------------------------------------------------------------------------
(* The login link of an anonymous tab, or the reconnect link of the        *)
(* settings; both leave the SPA for _authorize_redirect.                   *)
Click(t) ==
  /\ flows < MaxFlows
  /\ \/ session[t] = "anonymous" /\ prompt' = [prompt EXCEPT ![flows + 1] = "select_account"]
     \/ session[t] = "authed" /\ prompt' = [prompt EXCEPT ![flows + 1] = "consent"]
  /\ flows' = flows + 1
  /\ Goto(flows + 1, "google")
  /\ tab' = [tab EXCEPT ![flows + 1] = t]
  /\ made' = [made EXCEPT ![flows + 1] = now]
  /\ session' = [session EXCEPT ![t] = "away"]
  /\ UNCHANGED <<now, google, minted, stored, token, mishaps>>

(* The browser goes back to Google's page within the tab: the same prompt  *)
(* and state, and a consent of its own.                                    *)
Quiet(t) == \A f \in Flow : tab[f] = t => stage[f] \in {"none", "done", "crashed"}

Revisit(f) ==
  /\ flows < MaxFlows
  /\ stage[f] # "none" /\ Quiet(tab[f])
  /\ flows' = flows + 1
  /\ Goto(flows + 1, "google")
  /\ tab' = [tab EXCEPT ![flows + 1] = tab[f]]
  /\ prompt' = [prompt EXCEPT ![flows + 1] = prompt[f]]
  /\ made' = [made EXCEPT ![flows + 1] = made[f]]
  /\ session' = [session EXCEPT ![tab[f]] = "away"]
  /\ UNCHANGED <<now, google, minted, stored, token, mishaps>>

(* Google's consent screen sends the browser to the callback, with a code  *)
(* for the account picked or with an error.                                *)
Consent(f) ==
  /\ stage[f] = "google"
  /\ \/ \E a \in Account : account' = [account EXCEPT ![f] = a] /\ Goto(f, "callback")
     \/ Goto(f, "error") /\ UNCHANGED account
  /\ UNCHANGED <<now, flowData, used, refresh, granted, dead, minted, stored, browser,
                 flows, mishaps>>

(* The browser sends the callback's URL once more (reload, back).          *)
Resend(f) ==
  /\ stage[f] # "none" /\ Quiet(tab[f])
  /\ Mishap
  /\ Goto(f, "callback")
  /\ session' = [session EXCEPT ![tab[f]] = "away"]
  /\ UNCHANGED <<now, flowData, google, minted, stored, token, flows>>

(* Faulty: a state never expires.                                          *)
VerifyStateNoAge(f) == TRUE

VerifyState(f) == 0 <= now - made[f] /\ now - made[f] <= StateTTL

(* Google exchanges a code once, and issues a refresh token on a first     *)
(* grant or a forced consent.                                              *)
Exchanged(f) ==
  /\ ~used[f]
  /\ used' = [used EXCEPT ![f] = TRUE]
  /\ granted' = granted \union {account[f]}
  /\ refresh' = [refresh EXCEPT ![f] = prompt[f] = "consent" \/ account[f] \notin granted]

(* callback, to the token exchange: an invalid state, a code refused, or   *)
(* an exchange that failed or whose answer was lost send the error back.   *)
ExchangeCode(f) ==
  /\ stage[f] = "callback"
  /\ \/ VerifyState(f) /\ Exchanged(f) /\ Goto(f, "check") /\ UNCHANGED mishaps
     \/ /\ ~VerifyState(f) \/ used[f]
        /\ Goto(f, "error") /\ UNCHANGED <<used, granted, refresh, mishaps>>
     \/ /\ VerifyState(f) /\ Mishap /\ Goto(f, "error")
        /\ Exchanged(f) \/ UNCHANGED <<used, granted, refresh>>
  /\ UNCHANGED <<now, flowData, account, dead, minted, stored, browser, flows>>

(* Faulty: the refresh token is stored before the account is looked at.    *)
CheckEmailLate(f) ==
  /\ stage[f] = "check"
  /\ stored' = IF refresh[f] THEN f ELSE stored
  /\ Goto(f, IF account[f] = "operator" THEN "mint" ELSE "unauthorized")
  /\ UNCHANGED <<now, flowData, google, minted, browser, flows, mishaps>>

(* Only the configured operator passes; nothing is stored for others.      *)
CheckEmail(f) ==
  /\ stage[f] = "check"
  /\ Goto(f, IF account[f] = "operator" THEN "store" ELSE "unauthorized")
  /\ UNCHANGED <<now, flowData, google, minted, stored, browser, flows, mishaps>>

(* Faulty: "keep the stored one" also when there is a new one.             *)
StoreTokenOnce(f) ==
  /\ stage[f] = "store"
  /\ \/ /\ stored' = IF refresh[f] /\ stored = None THEN f ELSE stored
        /\ Goto(f, "mint") /\ UNCHANGED mishaps
     \/ refresh[f] /\ Mishap /\ Goto(f, "crashed") /\ stored' \in {stored, f}
  /\ UNCHANGED <<now, flowData, google, minted, browser, flows>>

(* store.set when the answer has a refresh token; a failure, before or     *)
(* after its effect, is a 500.                                             *)
StoreToken(f) ==
  /\ stage[f] = "store"
  /\ \/ /\ stored' = IF refresh[f] THEN f ELSE stored
        /\ Goto(f, "mint") /\ UNCHANGED mishaps
     \/ refresh[f] /\ Mishap /\ Goto(f, "crashed") /\ stored' \in {stored, f}
  /\ UNCHANGED <<now, flowData, google, minted, browser, flows>>

(* mint_session_jwt, and the redirect with the token.                      *)
Mint(f) ==
  /\ stage[f] = "mint"
  /\ minted' = [minted EXCEPT ![f] = now]
  /\ Goto(f, "token")
  /\ UNCHANGED <<now, flowData, google, stored, browser, flows, mishaps>>
-----------------------------------------------------------------------------
(* App's first state.                                                      *)
Loaded(tok) == IF tok = None THEN "anonymous" ELSE "checking"

(* consumeFragment, then the first render: a token replaces the stored     *)
(* one, an error leaves it.                                                *)
Return(f) ==
  /\ stage[f] \in Returned
  /\ LET tok == IF stage[f] = "token" THEN f ELSE token[tab[f]]
     IN  /\ token' = [token EXCEPT ![tab[f]] = tok]
         /\ session' = [session EXCEPT ![tab[f]] = Loaded(tok)]
  /\ Goto(f, "done")
  /\ UNCHANGED <<now, flowData, google, minted, stored, flows, mishaps>>

(* The tab opens the SPA again, abandoning nothing under way.              *)
Reload(t) ==
  /\ Quiet(t)
  /\ session' = [session EXCEPT ![t] = Loaded(token[t])]
  /\ UNCHANGED <<now, stage, flowData, google, minted, stored, token, flows, mishaps>>

(* require_operator: a token of ours that has not expired.                 *)
RequireOperator(t) == token[t] # None /\ now < minted[token[t]] + SessionTTL

(* authFetch: a 401 clears the token.  /api/me decides the first view; no  *)
(* answer shows the login and keeps the token.                             *)
Me(t) ==
  /\ session[t] = "checking"
  /\ \/ /\ RequireOperator(t)
        /\ session' = [session EXCEPT ![t] = "authed"] /\ UNCHANGED <<token, mishaps>>
     \/ /\ ~RequireOperator(t)
        /\ session' = [session EXCEPT ![t] = "anonymous"]
        /\ token' = [token EXCEPT ![t] = None] /\ UNCHANGED mishaps
     \/ Mishap /\ session' = [session EXCEPT ![t] = "anonymous"] /\ UNCHANGED token
  /\ UNCHANGED <<now, stage, flowData, google, minted, stored, flows>>

(* Any other call of an open dashboard: the view stays as it is.           *)
ApiRefused(t) ==
  /\ session[t] = "authed" /\ ~RequireOperator(t)
  /\ token' = [token EXCEPT ![t] = None]
  /\ UNCHANGED <<now, stage, flowData, google, minted, stored, session, flows, mishaps>>

(* logout: the browser's token only.                                       *)
Logout(t) ==
  /\ session[t] = "authed"
  /\ token' = [token EXCEPT ![t] = None]
  /\ session' = [session EXCEPT ![t] = "anonymous"]
  /\ UNCHANGED <<now, stage, flowData, google, minted, stored, flows, mishaps>>

(* A callback, from the exchange to the session, is short.                 *)
NoCallback == \A f \in Flow : stage[f] \notin {"check", "store", "mint"}

Tick ==
  /\ now < MaxTime /\ NoCallback
  /\ now' = now + 1
  /\ UNCHANGED <<stage, flowData, google, minted, stored, browser, flows, mishaps>>

(* The refresh tokens issued so far expire, or are revoked together with   *)
(* the operator's grant.                                                   *)
Revoke ==
  /\ NoCallback /\ Mishap
  /\ dead' = {f \in Flow : used[f]}
  /\ granted' \in {granted, granted \ {"operator"}}
  /\ UNCHANGED <<now, stage, flowData, account, used, refresh, minted, stored, browser, flows>>
-----------------------------------------------------------------------------
Next ==
  \/ \E f \in Flow : \/ Revisit(f) \/ Consent(f) \/ Resend(f) \/ ExchangeCode(f)
                     \/ CheckEmail(f) \/ StoreToken(f) \/ Mint(f) \/ Return(f)
  \/ \E t \in Tab : Click(t) \/ Reload(t) \/ Me(t) \/ ApiRefused(t) \/ Logout(t)
  \/ Tick \/ Revoke

Spec == Init /\ [][Next]_vars
-----------------------------------------------------------------------------
(* Whatever is sent again or visited again, and in whichever tab, a        *)
(* request the guard lets through goes back to a click of the operator no  *)
(* longer ago than the lifetimes of the state and of the session together, *)
(* although nothing remembers which states have had their session.         *)
AccessIsRecent ==
  \A t \in Tab : RequireOperator(t) =>
    LET f == token[t]
    IN  account[f] = "operator" /\ now - made[f] < StateTTL + SessionTTL

(* "nothing stored for rejected logins" and "absent on repeat grants -     *)
(* keep the stored one": the stored refresh token is one the operator's    *)
(* own flow returned.  Google gives it with the first grant and not again, *)
(* so once the operator has granted access it is stored, unless the flow   *)
(* that was given it has brought no session: a login never succeeds        *)
(* without the grant it used up.                                           *)
RefreshTokenKept ==
  /\ stored # None => account[stored] = "operator" /\ refresh[stored]
  /\ "operator" \in granted /\ stored = None =>
       \E f \in Flow : account[f] = "operator" /\ refresh[f] /\ minted[f] = Never

(* "Forced re-consent -> Google reissues the refresh token": after a       *)
(* reconnect that came back with a session the stored token is a good one, *)
(* whatever became of the earlier ones (a grant lost on its way to the     *)
(* store, a token that expired or was revoked), until tokens die again.    *)
ReconnectRepairs ==
  \A f \in Flow : prompt[f] = "consent" /\ minted[f] # Never /\ f \notin dead =>
    stored # None /\ stored \notin dead
=============================================================================
