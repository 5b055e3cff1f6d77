------------------------------ MODULE Account -------------------------------
(***************************************************************************)
(* One account after sign-up (accounts.ts, oidc.ts): its external address, *)
(* its mail redirect, the bounces of redirected mail, the admin's changes, *)
(* its deletion, and the sessions of its browsers.                         *)
(*                                                                         *)
(* The settings live in MongoDB, the redirect script and the mailbox at    *)
(* Stalwart.  Every operation on the account holds the lock account:<id>   *)
(* to its end, so one at a time is under way; signing in holds no lock.    *)
(* Each call to MongoDB or Stalwart is a step that may fail with its       *)
(* effect or without it, and the process may die between two steps.        *)
(***************************************************************************)
EXTENDS Naturals, FiniteSets

CONSTANTS
  Addresses,   \* external addresses
  Contested,   \* the addresses another account may verify too
  Browsers,    \* browsers that sign in with this account
  MaxBounces,  \* MAIL_REDIRECT_MAX_BOUNCES
  TokenLife,   \* MAIL_ACCESS_TOKEN_TTL_SECONDS, in ticks
  Margin,      \* the 60 s delete_after adds to it, in ticks
  MaxJobs,     \* bound: operations in a behaviour
  Faults,      \* which of "crash", "db", "stalwart" may happen
  MaxFaults    \* bound: faults in a behaviour

NoAddress == "none"
Off == [to |-> NoAddress, keep |-> FALSE]   \* no script

ASSUME AccountAssumption ==
  /\ NoAddress \notin Addresses /\ Contested \subseteq Addresses
  /\ {MaxBounces, TokenLife, Margin} \subseteq Nat \ {0} /\ MaxJobs \in Nat /\ MaxFaults \in Nat

VARIABLES
  user,      \* the document of users; status "gone" once it is deleted
  script,    \* the active Sieve script at Stalwart: Off, or where it redirects
  mailbox,   \* the account at Stalwart: "on", "off" (may not authenticate), "gone"
  job,       \* the operation that holds the lock
  taken,     \* addresses another account has
  signin,    \* where each browser's sign-in is
  sessions,  \* browsers with a row in web_sessions
  grants,    \* browsers with documents in oidc, a refresh token for mail among them
  mail,      \* ticks the signing of a mail token may take yet, and ticks one has to live
  budget,    \* operations and faults left
  proven,    \* history: addresses this user proved to own
  replaced,  \* history: addresses this user gave up
  doubt,     \* history: a call that touched the redirect failed and was not made good
  old        \* history: how far a sign-in was when sessions were last ended, since its last check

stores == <<user, script, mailbox>>
web == <<signin, sessions, grants, old, mail>>
past == <<proven, replaced, doubt>>
vars == <<stores, job, taken, web, budget, past>>

Free == [op |-> "free"]
Exists == user.status # "gone"

(* sieve_redirect_script, or null. *)
ScriptOf(u) == IF u.enabled /\ u.external # NoAddress
               THEN [to |-> u.external, keep |-> u.keep] ELSE Off

Init ==
  /\ user = [status |-> "active", left |-> 0, external |-> NoAddress,
             enabled |-> FALSE, keep |-> TRUE, bounces |-> 0]
  /\ script = Off /\ mailbox = "on" /\ job = Free /\ taken = {}
  /\ signin = [b \in Browsers |-> "out"] /\ sessions = {} /\ grants = {}
  /\ mail = [signing |-> 0, live |-> 0]
  /\ budget = [jobs |-> MaxJobs, faults |-> MaxFaults]
  /\ proven = {} /\ replaced = {} /\ doubt = FALSE
  /\ old = [b \in Browsers |-> "out"]

Fault(what) ==
  /\ what \in Faults /\ budget.faults > 0
  /\ budget' = [budget EXCEPT !.faults = @ - 1]
Goto(place) == job' = [job EXCEPT !.at = place]
Done == job' = Free

-----------------------------------------------------------------------------
(* Taking the lock.                                                        *)

(* Mutant of with_current_user: a user being deleted is still served. *)
AnyUser(active) == Exists /\ (active => user.status # "disabled")

(* with_current_user: the user is read again under the lock. *)
with_current_user(active) ==
  /\ Exists /\ user.status # "deleting"
  /\ active => user.status = "active"

Start(op, arg, at) ==
  /\ job = Free /\ budget.jobs > 0
  /\ job' = [op |-> op, arg |-> arg, at |-> at, was |-> user]
  /\ budget' = [budget EXCEPT !.jobs = @ - 1]
  /\ UNCHANGED <<stores, taken, web, past>>

me_email_verify(a) ==
  with_current_user(TRUE) /\ Start("verify", a, "code")

me_email_remove ==
  /\ with_current_user(TRUE) /\ user.external # NoAddress
  /\ Start("remove", NoAddress, IF user.enabled THEN "sync" ELSE "write")

me_redirect_update(on, keep) ==
  /\ with_current_user(TRUE)
  /\ on => user.external # NoAddress
  /\ Start("redirect", [enabled |-> on, keep |-> keep], "sync")

redirect_bounce_register(a) ==
  with_current_user(TRUE) /\ Start("bounce", a, "count")

user_update(status) ==
  with_current_user(FALSE) /\ Start("status", status, "mailbox")

user_delete ==
  Exists /\ user.status # "deleting" /\ Start("status", "deleting", "mailbox")

(* The worker takes the lock without a budget: it runs once a minute.      *)
user_deletions_finish ==
  /\ job = Free /\ Exists /\ user.status = "deleting" /\ user.left = 0
  /\ job' = [op |-> "finish", arg |-> NoAddress, at |-> "destroy", was |-> user]
  /\ UNCHANGED <<stores, taken, web, budget, past>>

Less(n) == IF n = 0 THEN 0 ELSE n - 1

(* Time passes for delete_after (user.left) and for mail tokens.  What the *)
(* margin is for: a token is signed within it.                             *)
Tick ==
  /\ user.left + mail.signing + mail.live > 0 /\ mail.signing # 1
  /\ user' = [user EXCEPT !.left = Less(@)]
  /\ mail' = [signing |-> Less(mail.signing), live |-> Less(mail.live)]
  /\ UNCHANGED <<script, mailbox, job, taken, signin, sessions, grants, old, budget, past>>

-----------------------------------------------------------------------------
(* Address and redirect.                                                   *)

(* What the operation wants the document to be. *)
Planned ==
  CASE job.op = "verify"   -> [job.was EXCEPT !.external = job.arg, !.bounces = 0]
    [] job.op = "remove"   -> [job.was EXCEPT !.external = NoAddress,
                                              !.enabled = FALSE, !.bounces = 0]
    [] job.op = "redirect" -> [job.was EXCEPT !.enabled = job.arg.enabled,
                                              !.keep = job.arg.keep, !.bounces = 0]
    [] job.op = "bounce"   -> [job.was EXCEPT !.enabled = FALSE]

(* Mutant of CodeChecked: the answer of code_check is not looked at. *)
CodeAnyhow ==
  /\ job.op = "verify" /\ job.at = "code" /\ Goto("free")
  /\ (proven' = proven \cup {job.arg} \/ UNCHANGED proven)
  /\ UNCHANGED <<stores, taken, web, budget, replaced, doubt>>

(* code_check, whose own steps are in module EmailCodes. *)
CodeChecked ==
  /\ job.op = "verify" /\ job.at = "code"
  /\ \/ Goto("free") /\ proven' = proven \cup {job.arg}
     \/ Done /\ UNCHANGED proven
  /\ UNCHANGED <<stores, taken, web, budget, replaced, doubt>>

(* external_email_free: an early answer, the unique index decides. *)
AddressFree ==
  /\ job.op = "verify" /\ job.at = "free"
  /\ IF job.arg \in taken THEN Done ELSE Goto(IF job.was.enabled THEN "sync" ELSE "write")
  /\ UNCHANGED <<stores, taken, web, budget, past>>

(* The bounce counts only against the address and redirect of now. *)
CountBounce ==
  LET u == [user EXCEPT !.bounces = @ + 1]
  IN
  /\ job.op = "bounce" /\ job.at = "count"
  /\ \/ /\ ~(user.external = job.arg /\ user.enabled)
        /\ Done /\ UNCHANGED <<user, budget>>
     \/ /\ user.external = job.arg /\ user.enabled
        /\ user' = u /\ UNCHANGED budget
        /\ IF u.bounces < MaxBounces THEN Done
           ELSE job' = [job EXCEPT !.at = "sync", !.was = u]
     \/ /\ Fault("db") /\ Done
        /\ \/ UNCHANGED user
           \/ user.external = job.arg /\ user.enabled /\ user' = u
  /\ UNCHANGED <<script, mailbox, taken, web, past>>

(* redirect_sync, before the database is written; 502 when it fails. *)
SyncScript ==
  /\ job # Free /\ job.at = "sync"
  /\ \/ script' = ScriptOf(Planned) /\ Goto("write") /\ UNCHANGED <<budget, doubt>>
     \/ /\ Fault("stalwart") /\ Done /\ doubt' = TRUE
        /\ (script' = ScriptOf(Planned) \/ UNCHANGED script)
  /\ UNCHANGED <<user, mailbox, taken, web, proven, replaced>>

(* What a finished write means for the histories. *)
Recorded ==
  replaced' = IF Planned.external = job.was.external THEN replaced
              ELSE (replaced \cup {job.was.external}) \ {Planned.external}

(* Mutant of Undoes: nothing is put back. *)
NeverUndoes == FALSE

(* Whether the script is put back when the write fails. *)
Undoes == job.op \in {"remove", "redirect"} \/ (job.op = "verify" /\ job.was.enabled)

Rejected(applied) ==
  /\ IF Undoes THEN job' = [op |-> job.op, arg |-> applied, at |-> "undo", was |-> job.was]
     ELSE Done
  /\ doubt' = (doubt \/ job.op = "bounce" \/ applied)

(* users.updateOne, under the unique index on the address. *)
WriteSettings ==
  /\ job # Free /\ job.at = "write" /\ job.op \in {"verify", "remove", "redirect", "bounce"}
  /\ \/ /\ ~(job.op = "verify" /\ job.arg \in taken)
        /\ user' = Planned /\ Recorded /\ Done
        /\ doubt' = (doubt /\ ~(job.op \in {"redirect", "bounce"} \/ job.was.enabled))
        /\ UNCHANGED budget
     \/ /\ job.op = "verify" /\ job.arg \in taken
        /\ Rejected(FALSE) /\ UNCHANGED <<user, budget, replaced>>
     \/ /\ Fault("db")
        /\ \/ Rejected(FALSE) /\ UNCHANGED <<user, replaced>>
           \/ /\ ~(job.op = "verify" /\ job.arg \in taken)
              /\ user' = Planned /\ Recorded /\ Rejected(TRUE)
  /\ UNCHANGED <<script, mailbox, taken, web, proven>>

(* The catch: the script of before is installed again. *)
PutBack ==
  /\ job # Free /\ job.at = "undo"
  /\ \/ script' = ScriptOf(job.was) /\ doubt' = job.arg /\ UNCHANGED budget
     \/ /\ Fault("stalwart") /\ doubt' = TRUE
        /\ (script' = ScriptOf(job.was) \/ UNCHANGED script)
  /\ Done
  /\ UNCHANGED <<user, mailbox, taken, web, proven, replaced>>

(* Another account verifies the address: the index lets one have it. *)
OtherTakes(a) ==
  /\ a \in Contested \ taken /\ (Exists => user.external # a)
  /\ taken' = taken \cup {a}
  /\ UNCHANGED <<stores, job, web, budget, past>>

-----------------------------------------------------------------------------
(* The admin and the deletion worker.                                      *)

(* stalwart_account_update: withdraws or gives back authentication. *)
SetMailbox ==
  LET switch == mailbox' = IF job.arg = "active" THEN "on" ELSE "off"
  IN
  /\ job # Free /\ job.at = "mailbox"
  /\ \/ switch /\ Goto("write") /\ UNCHANGED budget
     \/ Fault("stalwart") /\ Done /\ (switch \/ UNCHANGED mailbox)
  /\ UNCHANGED <<user, script, taken, web, past>>

Wait(status) == IF status = "deleting" THEN TokenLife + Margin ELSE 0

SetStatus ==
  LET set == user' = [user EXCEPT !.status = job.arg, !.left = Wait(job.arg)]
  IN
  /\ job # Free /\ job.op = "status" /\ job.at = "write"
  /\ \/ /\ set /\ UNCHANGED budget
        /\ IF job.arg = "active" THEN Done ELSE Goto("both")
     \/ Fault("db") /\ Done /\ (set \/ UNCHANGED user)
  /\ UNCHANGED <<script, mailbox, taken, web, past>>

(* user_sessions_end: two deleteMany at once, and the lock is kept until    *)
(* both have settled, which a failure of one may cut short in the code.    *)
Settled(this, other) ==
  /\ job # Free /\ job.at \in {"both", this}
  /\ IF job.at = "both" THEN Goto(other) ELSE Done

EndWebSessions ==
  /\ Settled("web", "oidc")
  /\ \/ sessions' = {} /\ old' = signin /\ UNCHANGED budget
     \/ Fault("db") /\ UNCHANGED <<sessions, old>>
  /\ UNCHANGED <<stores, taken, signin, grants, mail, past>>

EndGrants ==
  /\ Settled("oidc", "web")
  /\ \/ grants' = {} /\ UNCHANGED budget
     \/ Fault("db") /\ UNCHANGED grants
  /\ UNCHANGED <<stores, taken, signin, sessions, old, mail, past>>

(* Mutant of DestroyMailbox: a mailbox that is gone already is an error. *)
DestroyOnce ==
  LET destroy == mailbox' = "gone" /\ script' = Off
  IN
  /\ job # Free /\ job.at = "destroy"
  /\ \/ mailbox # "gone" /\ destroy /\ Goto("erase") /\ UNCHANGED budget
     \/ mailbox = "gone" /\ Done /\ UNCHANGED <<mailbox, script, budget>>
     \/ Fault("stalwart") /\ Done /\ (destroy \/ UNCHANGED <<mailbox, script>>)
  /\ UNCHANGED <<user, taken, web, past>>

(* stalwart_account_destroy; a repetition finds nothing and succeeds. *)
DestroyMailbox ==
  LET destroy == mailbox' = "gone" /\ script' = Off
  IN
  /\ job # Free /\ job.at = "destroy"
  /\ \/ destroy /\ Goto("erase") /\ UNCHANGED budget
     \/ Fault("stalwart") /\ Done /\ (destroy \/ UNCHANGED <<mailbox, script>>)
  /\ UNCHANGED <<user, taken, web, past>>

EraseUser ==
  LET erase == user' = [user EXCEPT !.status = "gone"]
  IN
  /\ job # Free /\ job.at = "erase"
  /\ \/ erase /\ UNCHANGED budget
     \/ Fault("db") /\ (erase \/ UNCHANGED user)
  /\ Done
  /\ UNCHANGED <<script, mailbox, taken, web, past>>

-----------------------------------------------------------------------------
(* Signing in: /login, the provider's /auth, the callback, logout.         *)

Active == Exists /\ user.status = "active"
Reach(b, place) == signin' = [signin EXCEPT ![b] = place]
(* An ending before a check that saw an active user is of no account. *)
Fresh(b, checked) == old' = IF checked /\ Active THEN [old EXCEPT ![b] = "out"] ELSE old

(* user_login_verify, then interactionResult. *)
Login(b) ==
  /\ signin[b] = "out" /\ Active
  /\ Reach(b, "confirmed") /\ Fresh(b, TRUE)
  /\ UNCHANGED <<stores, job, taken, sessions, grants, mail, budget, past>>

(* findAccount for the resumed /auth; then its documents are upserted.     *)
FindAccount(b) ==
  /\ signin[b] = "confirmed"
  /\ Reach(b, IF Active THEN "found" ELSE "out") /\ Fresh(b, Active)
  /\ UNCHANGED <<stores, job, taken, sessions, grants, mail, budget, past>>

SaveGrant(b) ==
  /\ signin[b] = "found"
  /\ Reach(b, "code") /\ grants' = grants \cup {b}
  /\ UNCHANGED <<stores, job, taken, sessions, old, mail, budget, past>>

(* Mutant of ExchangeCode: the user is not asked for again. *)
ExchangeAnyCode(b) ==
  /\ signin[b] = "code"
  /\ Reach(b, IF b \in grants THEN "claims" ELSE "out")
  /\ UNCHANGED <<stores, job, taken, sessions, grants, old, mail, budget, past>>

(* session_callback: the code is exchanged at the token endpoint, which    *)
(* asks for the code's document and findAccount again.                     *)
ExchangeCode(b) ==
  /\ signin[b] = "code"
  /\ Reach(b, IF b \in grants /\ Active THEN "claims" ELSE "out")
  /\ Fresh(b, b \in grants /\ Active)
  /\ UNCHANGED <<stores, job, taken, sessions, grants, mail, budget, past>>

InsertSession(b) ==
  /\ signin[b] = "claims"
  /\ Reach(b, "in") /\ sessions' = sessions \cup {b}
  /\ UNCHANGED <<stores, job, taken, grants, old, mail, budget, past>>

(* session_logout deletes the row; the provider's end_session the rest.    *)
Logout(b) ==
  /\ signin[b] = "in"
  /\ Reach(b, "out")
  /\ sessions' = sessions \ {b} /\ grants' = grants \ {b}
  /\ UNCHANGED <<stores, job, taken, old, mail, budget, past>>

(* web_session_user: who is served. *)
SignedIn(b) == b \in sessions /\ Active

(* A mail token, for a code or a refresh token: extraTokenClaims asks for  *)
(* the user, then the token is signed.                                     *)
extraTokenClaims(b) ==
  /\ b \in grants /\ Active /\ mail.signing = 0
  /\ mail' = [mail EXCEPT !.signing = Margin]
  /\ UNCHANGED <<stores, job, taken, signin, sessions, grants, old, budget, past>>

SignMailToken ==
  /\ mail.signing > 0
  /\ mail' = [signing |-> 0, live |-> TokenLife]
  /\ UNCHANGED <<stores, job, taken, signin, sessions, grants, old, budget, past>>

Crash ==
  /\ Fault("crash") /\ job # Free /\ Done
  /\ doubt' = (doubt \/ job.at \in {"sync", "write", "undo"})
  /\ signin' = [b \in Browsers |-> IF signin[b] = "in" THEN "in" ELSE "out"]
  /\ mail' = [mail EXCEPT !.signing = 0]
  /\ UNCHANGED <<stores, taken, sessions, grants, old, proven, replaced>>

JobStep ==
  \/ CodeChecked \/ AddressFree \/ CountBounce \/ SyncScript \/ WriteSettings
  \/ PutBack \/ SetMailbox \/ SetStatus \/ EndWebSessions \/ EndGrants
  \/ DestroyMailbox \/ EraseUser

Next ==
  \/ \E a \in Addresses :
       me_email_verify(a) \/ redirect_bounce_register(a) \/ OtherTakes(a)
  \/ me_email_remove
  \/ \E on, keep \in BOOLEAN : me_redirect_update(on, keep)
  \/ \E status \in {"active", "disabled"} : user_update(status)
  \/ user_delete \/ user_deletions_finish \/ Tick
  \/ JobStep
  \/ \E b \in Browsers :
       Login(b) \/ FindAccount(b) \/ SaveGrant(b) \/ ExchangeCode(b)
         \/ InsertSession(b) \/ Logout(b) \/ extraTokenClaims(b)
  \/ SignMailToken \/ Crash

Spec == Init /\ [][Next]_vars

(* Promises settle, the clock goes on, and the worker runs once a minute;  *)
(* that faults are finitely many is the bound MaxFaults.                   *)
FairSpec ==
  /\ Spec
  /\ WF_vars(JobStep) /\ WF_vars(SignMailToken)
  /\ WF_vars(Tick) /\ WF_vars(user_deletions_finish)

-----------------------------------------------------------------------------
(* Properties.                                                             *)

(* Stalwart forwards only to an address whose owner gave back its code,    *)
(* also after failed updates, undone ones, bounces and crashes.            *)
ForwardsOnlyProven == script # Off => script.to \in proven

(* "The redirect follows the new address before the database says so, so   *)
(* mail never goes to a stale one" (accounts.ts): Stalwart never forwards  *)
(* to an address the account gave up.                                      *)
NeverStale == script # Off => script.to \notin replaced

(* Between operations the script is the one the database describes, unless *)
(* a failed call was not made good; the next change of the redirect that   *)
(* succeeds makes it good.                                                 *)
ScriptMatches == Exists /\ job = Free /\ ~doubt /\ mailbox # "gone" => script = ScriptOf(user)

(* A session that survives an ending of all sessions belongs to a sign-in  *)
(* that had passed its last check of the user but not yet its last insert. *)
SurvivorsRaced ==
  \A b \in Browsers : SignedIn(b) => old[b] \in {"out", "claims"}

(* Through the lock, no operation brings back a user queued for deletion.  *)
(* "Destroy after every previously issued mail JWT has expired": Stalwart  *)
(* would provision the name again from a token that outlives its mailbox,  *)
(* and one may be in the making while its user is queued for deletion.     *)
DeletionIsFinal ==
  [][/\ user.status = "deleting" => user'.status \in {"deleting", "gone"}
     /\ mailbox' = "gone" => mail'.live = 0 /\ mail'.signing = 0]_vars

(* A queued deletion is carried out, restarts and failures notwithstanding.*)
DeletionEnds == (user.status = "deleting") ~> (user.status = "gone")
=============================================================================
