------------------------------- MODULE SignIn -------------------------------
(***************************************************************************)
(* Signing in to the site in several tabs of one browser (oidc.ts, the     *)
(* interaction routes of accountApi.ts and routes/login/+page.svelte).     *)
(*                                                                         *)
(* session_start leaves the state of its flow in one cookie of the browser *)
(* and sends the tab to the provider, which asks for a password unless the *)
(* browser has a provider session; the callback compares the cookie with   *)
(* what came back, exchanges the code and stores a site session.  The tabs *)
(* share the cookies, so their flows meet.  Passwords and the limits on    *)
(* guessing them are left out (module AuthLimit), and what an admin does   *)
(* to an account meanwhile is in module Account.                           *)
(***************************************************************************)
EXTENDS Naturals, FiniteSets

CONSTANTS
  Tabs,        \* tabs of the browser
  Users,       \* accounts whose passwords are typed in it
  MaxFlows,    \* bound: sign-ins started
  Disturbances \* BOOLEAN: whether time-outs, expiries and lost answers happen

Nobody == "nobody"

NoFlow == 0            \* no flow, session or cookie

ASSUME SignInAssumption == Nobody \notin Users

VARIABLES
  tab,        \* where each tab is, the flow it follows, the session it is ending
  flows,      \* per flow: its tab, result of its login, the code's account and session
  cookies,    \* the flow in fbz_auth, the row of web_sessions in fbz_session
  provider,   \* the provider's session of this browser: number and account
  web_sessions, \* rows, by the flow that made them
  ended,      \* history: provider sessions that were ended
  disturbed,  \* history: flows another one got in the way of, or time, or a fault
  raced       \* history: flows whose code was exchanged but not stored at a logout

svars == <<tab, flows, cookies, provider, web_sessions, ended, disturbed, raced>>

Go(t, place) == tab' = [tab EXCEPT ![t].at = place]
Flow(t) == tab[t].flow

NewFlow(t) == [tab |-> t, login |-> Nobody, account |-> Nobody, sid |-> NoFlow, code |-> "none"]

SInit ==
  /\ tab = [t \in Tabs |-> [at |-> "out", flow |-> NoFlow, ending |-> NoFlow]]
  /\ flows = <<>> /\ web_sessions = <<>>
  /\ cookies = [auth |-> NoFlow, session |-> NoFlow]
  /\ provider = [sid |-> NoFlow, account |-> Nobody, next |-> 1]
  /\ ended = {} /\ disturbed = {} /\ raced = {}

-----------------------------------------------------------------------------
(* The site's side. *)

(* Set-Cookie in an answer of flow f that reaches the browser: another     *)
(* flow's cookie is gone.                                                  *)
SetAuth(value, f) ==
  /\ cookies' = [cookies EXCEPT !.auth = value]
  /\ disturbed' = disturbed \cup ({cookies.auth} \ {f, NoFlow})

(* session_start, from a link, "Start again", or the login page without a  *)
(* uid.  What the tab did before is abandoned.                             *)
session_start(t) ==
  LET f == Cardinality(DOMAIN flows) + 1 IN
  /\ tab[t].at \in {"out", "login", "failed", "home"} /\ f <= MaxFlows
  /\ flows' = [g \in DOMAIN flows \cup {f} |-> IF g = f THEN NewFlow(t) ELSE flows[g]]
  /\ tab' = [tab EXCEPT ![t] = [at |-> "auth", flow |-> f, ending |-> NoFlow]]
  /\ SetAuth(f, f)
  /\ UNCHANGED <<provider, web_sessions, ended, raced>>

(* The callback first compares the cookie's state with the query's. *)
StateFits(t) == cookies.auth = Flow(t)

CallbackRefused(t) ==
  /\ tab[t].at = "callback" /\ ~StateFits(t)
  /\ Go(t, "failed")
  /\ SetAuth(NoFlow, Flow(t))
  /\ UNCHANGED <<flows, provider, web_sessions, ended, raced>>

(* The code is exchanged once, while its provider session lives. *)
CodeAccepted(f) == flows[f].code = "issued" /\ flows[f].sid \notin ended

ExchangeCode(t) ==
  /\ tab[t].at = "callback" /\ StateFits(t)
  /\ Go(t, IF CodeAccepted(Flow(t)) THEN "storing" ELSE "refused")
  /\ flows' = [flows EXCEPT ![Flow(t)].code = "used"]
  /\ UNCHANGED <<cookies, provider, web_sessions, ended, disturbed, raced>>

(* The token endpoint does not answer in ten seconds, or not with a token. *)
ExchangeFails(t) ==
  /\ Disturbances /\ tab[t].at = "callback" /\ StateFits(t)
  /\ Go(t, "refused")
  /\ flows' = [flows EXCEPT ![Flow(t)].code = "used"]
  /\ disturbed' = disturbed \cup {Flow(t)}
  /\ UNCHANGED <<cookies, provider, web_sessions, ended, raced>>

ExchangeRefused(t) ==
  /\ tab[t].at = "refused"
  /\ Go(t, "failed")
  /\ SetAuth(NoFlow, Flow(t))
  /\ UNCHANGED <<flows, provider, web_sessions, ended, raced>>

StoreSession(t) ==
  LET f == Flow(t) IN
  /\ tab[t].at = "storing"
  /\ Go(t, "stored")
  /\ web_sessions' = [g \in DOMAIN web_sessions \cup {f} |->
       IF g = f THEN [id_user |-> flows[f].account, sid |-> flows[f].sid] ELSE web_sessions[g]]
  /\ UNCHANGED <<flows, cookies, provider, ended, disturbed, raced>>

(* The answer sets both cookies and redirects to the flow's own return. *)
SignedIn(t) ==
  /\ tab[t].at = "stored"
  /\ Go(t, "home")
  /\ cookies' = [auth |-> NoFlow, session |-> Flow(t)]
  /\ disturbed' = disturbed \cup ({cookies.auth} \ {Flow(t), NoFlow})
  /\ UNCHANGED <<flows, provider, web_sessions, ended, raced>>

(* insertOne fails, or the answer is lost: an error page, no cookie. *)
CallbackFails(t) ==
  /\ Disturbances /\ tab[t].at \in {"storing", "stored"}
  /\ Go(t, "failed")
  /\ disturbed' = disturbed \cup {Flow(t)}
  /\ UNCHANGED <<flows, cookies, provider, web_sessions, ended, raced>>

(* session_logout; the client goes on to the provider's end_session. *)
session_logout(t) ==
  /\ tab[t].at = "home"
  /\ Go(t, "ending")
  /\ web_sessions' = [f \in DOMAIN web_sessions \ {cookies.session} |-> web_sessions[f]]
  /\ cookies' = [cookies EXCEPT !.session = NoFlow]
  /\ UNCHANGED <<flows, provider, ended, disturbed, raced>>

-----------------------------------------------------------------------------
(* The provider's side. *)

Issued(f, session) ==
  [flows EXCEPT ![f].code = "issued", ![f].account = session.account, ![f].sid = session.sid]

(* With a session of an account, /auth answers with a code at once, else   *)
(* with an interaction, which the browser follows to /login?uid.           *)
Authorize(t) ==
  /\ tab[t].at = "auth"
  /\ IF provider.account # Nobody
     THEN Go(t, "callback") /\ flows' = Issued(Flow(t), provider)
     ELSE Go(t, "login") /\ UNCHANGED flows
  /\ UNCHANGED <<cookies, provider, web_sessions, ended, disturbed, raced>>

(* The form of the login page.  A wrong password leaves it as it is; a     *)
(* lost answer lets the user try again, as somebody else perhaps.          *)
PostLogin(t, user) ==
  /\ tab[t].at = "login"
  /\ flows' = [flows EXCEPT ![Flow(t)].login = user]
  /\ \/ Go(t, "resume")
     \/ Disturbances /\ UNCHANGED tab
  /\ UNCHANGED <<cookies, provider, web_sessions, ended, disturbed, raced>>

InteractionExpires(t) ==
  /\ Disturbances /\ tab[t].at = "login"
  /\ Go(t, "failed") /\ disturbed' = disturbed \cup {Flow(t)}
  /\ UNCHANGED <<flows, cookies, provider, web_sessions, ended, raced>>

(* The provider finishes the login: the session is this account's, a new   *)
(* one when it was somebody else's or nobody's.                            *)
Resume(t) ==
  LET user == flows[Flow(t)].login
      session == IF provider.account = user THEN provider
                 ELSE [sid |-> provider.next, account |-> user, next |-> provider.next + 1]
  IN
  /\ tab[t].at = "resume"
  /\ provider' = session
  /\ flows' = Issued(Flow(t), session)
  /\ Go(t, "callback")
  /\ UNCHANGED <<cookies, web_sessions, ended, disturbed, raced>>

(* Ten minutes for the cookie, one for the code. *)
FlowExpires(f) ==
  /\ Disturbances
  /\ \/ cookies.auth = f /\ cookies' = [cookies EXCEPT !.auth = NoFlow] /\ UNCHANGED flows
     \/ flows[f].code = "issued" /\ flows' = [flows EXCEPT ![f].code = "expired"]
        /\ UNCHANGED cookies
  /\ disturbed' = disturbed \cup {f}
  /\ UNCHANGED <<tab, provider, web_sessions, ended, raced>>

(* The rows that go with a provider session. *)
CookiesRow(sid) == {cookies.session}
RowsOf(sid) == {f \in DOMAIN web_sessions : web_sessions[f].sid = sid}

(* /session/end, after session_logout or from the webmail: the provider's  *)
(* session goes, then the middleware deletes its site sessions.            *)
end_session(t) ==
  /\ tab[t].at \in {"ending", "home"} /\ provider.account # Nobody
  /\ tab' = [tab EXCEPT ![t].at = "ended", ![t].ending = provider.sid]
  /\ provider' = [provider EXCEPT !.account = Nobody]
  /\ ended' = ended \cup {provider.sid}
  /\ disturbed' = disturbed \cup {f \in DOMAIN flows : flows[f].sid = provider.sid}
  /\ UNCHANGED <<flows, cookies, web_sessions, raced>>

DeleteBySid(t) ==
  /\ tab[t].at = "ended"
  /\ Go(t, "out")
  /\ web_sessions' = [f \in DOMAIN web_sessions \ RowsOf(tab[t].ending) |-> web_sessions[f]]
  /\ cookies' = [cookies EXCEPT !.session = NoFlow]
  /\ raced' = raced \cup {Flow(u) : u \in {v \in Tabs : tab[v].at = "storing"}}
  /\ UNCHANGED <<flows, provider, ended, disturbed>>

NothingToEnd(t) ==
  /\ tab[t].at = "ending" /\ provider.account = Nobody
  /\ Go(t, "out")
  /\ UNCHANGED <<flows, cookies, provider, web_sessions, ended, disturbed, raced>>

SNext ==
  \/ \E t \in Tabs :
       \/ session_start(t) \/ Authorize(t) \/ Resume(t) \/ InteractionExpires(t)
       \/ \E user \in Users : PostLogin(t, user)
       \/ CallbackRefused(t) \/ ExchangeCode(t) \/ ExchangeFails(t) \/ ExchangeRefused(t)
       \/ StoreSession(t) \/ SignedIn(t) \/ CallbackFails(t)
       \/ session_logout(t) \/ end_session(t) \/ DeleteBySid(t) \/ NothingToEnd(t)
  \/ \E f \in DOMAIN flows : FlowExpires(f)

SSpec == SInit /\ [][SNext]_svars

-----------------------------------------------------------------------------
(* A session is the account's that logged in to its flow, or the one the   *)
(* provider already knew in this browser.                                  *)
SessionsProven ==
  \A f \in DOMAIN web_sessions :
    \E g \in DOMAIN flows :
      /\ flows[g].login = web_sessions[f].id_user
      /\ flows[g].sid = web_sessions[f].sid

(* A sign-in fails only for a reason: a flow of another tab, a time-out, a *)
(* logout or a fault.                                                      *)
FailuresExplained ==
  \A t \in Tabs : tab[t].at = "failed" => Flow(t) \in disturbed

(* After a logout at the provider the browser keeps no row of its session, *)
(* except from a callback that was between its exchange and its insert.    *)
LogoutEnds ==
  (\A t \in Tabs : tab[t].at # "ended") =>
    \A f \in DOMAIN web_sessions : web_sessions[f].sid \in ended => f \in raced

(* Sign-ins in several tabs fail only for a reason, belong to who signed   *)
(* in, and end together (session_callback, provider.use).                  *)
SignInsTrue == SessionsProven /\ FailuresExplained /\ LogoutEnds
=============================================================================
