--------------------------- MODULE Account_proofs ---------------------------
(***************************************************************************)
(* Safety of Account for every set of addresses and browsers, every limit  *)
(* of bounces, all lifetimes of mail tokens and every choice of faults.    *)
(***************************************************************************)
EXTENDS Account, TLAPS

Settings == {"verify", "remove", "redirect", "bounce"}
Stages == {"out", "confirmed", "found", "code", "claims", "in"}

User == [status : {"active", "disabled", "deleting", "gone"}, left : Nat,
         external : Addresses \cup {NoAddress}, enabled : BOOLEAN, keep : BOOLEAN,
         bounces : Nat]

Scripts == [to : Addresses, keep : BOOLEAN] \cup {Off}

(* Where an operation may be suspended. *)
Steps(op) ==
  CASE op = "verify"   -> {"code", "free", "sync", "write", "undo"}
    [] op = "remove"   -> {"sync", "write", "undo"}
    [] op = "redirect" -> {"sync", "write", "undo"}
    [] op = "bounce"   -> {"count", "sync", "write"}
    [] op = "status"   -> {"mailbox", "write", "both", "web", "oidc"}
    [] op = "finish"   -> {"destroy", "erase"}

Shaped == job = [op |-> job.op, arg |-> job.arg, at |-> job.at, was |-> job.was]

(* What the operation brings: the redirect wanted, an address, a status, or *)
(* at the undoing whether the rejected write was applied.                  *)
ArgTyped ==
  /\ job.op \in {"verify", "bounce"} /\ job.at # "undo" => job.arg \in Addresses
  /\ job.op = "redirect" /\ job.at # "undo" =>
       job.arg.enabled \in BOOLEAN /\ job.arg.keep \in BOOLEAN
  /\ job.op = "status" => job.arg \in {"active", "disabled", "deleting"}
  /\ job.at = "undo" => job.arg \in BOOLEAN

JobTyped ==
  job # Free =>
    /\ Shaped /\ job.op \in Settings \cup {"status", "finish"}
    /\ job.at \in Steps(job.op) /\ job.was \in User /\ ArgTyped

AccountTyped ==
  /\ user \in User /\ script \in Scripts
  /\ mailbox \in {"on", "off", "gone"} /\ doubt \in BOOLEAN
  /\ JobTyped

(* What the lock fixes: the status while an operation has it.              *)
StatusInv ==
  /\ job.op \in Settings =>
       user.status = "active" /\ job.was.status = "active" /\ job.was.left = 0
  /\ job.op = "status" =>
       user.status \in IF job.at \in {"mailbox", "write"} THEN {"active", "disabled"}
                       ELSE {"active", "disabled", "deleting"}
  /\ job.op = "finish" => user.status = "deleting" /\ user.left = 0
  /\ mailbox = "gone" => user.status \in {"deleting", "gone"}
  /\ mailbox = "gone" \/ user.status # "deleting" => user.left = 0
  /\ job # Free => Exists

(* A mail token that may still be signed or used is outlived by the wait   *)
(* for the deletion.                                                       *)
TokenInv ==
  /\ mail \in [signing : Nat, live : Nat]
  /\ mail.signing =< Margin /\ mail.live =< TokenLife
  /\ user.status = "deleting" =>
       /\ mail.live =< user.left
       /\ mail.signing > 0 => mail.signing + TokenLife =< user.left
  /\ user.status = "gone" => mail.live = 0 /\ mail.signing = 0

Known(a) == a # NoAddress => a \in proven

(* Every address from which a script may be made is proven.                *)
ProvenInv ==
  /\ Known(user.external) /\ Known(script.to)
  /\ job # Free => Known(job.was.external)
  /\ job.op = "verify" /\ job.at \in {"free", "sync", "write"} => job.arg \in proven

(* The document the operation read is still the one in the database.       *)
Agrees ==
  /\ user.external = job.was.external
  /\ user.enabled = job.was.enabled /\ user.keep = job.was.keep

(* The operation has not touched the script since it took the lock.        *)
Untouched == job.op \notin Settings \/ job.at \in {"code", "free", "count", "sync"}

Synced == job.op \in {"redirect", "bounce"} \/ job.was.enabled

ScriptInv ==
  /\ Untouched /\ Exists /\ ~doubt /\ mailbox # "gone" => script = ScriptOf(user)
  /\ job.op \in Settings /\ (job.at = "undo" => ~job.arg) => Agrees
  /\ job.op \in Settings /\ job.at = "write" =>
       IF Synced THEN script = ScriptOf(Planned) ELSE ~doubt => script = ScriptOf(user)

(* A row of web_sessions is that of a browser whose sign-in has ended.     *)
SessionInv ==
  /\ signin \in [Browsers -> Stages] /\ old \in [Browsers -> Stages]
  /\ \A b \in sessions : b \in Browsers /\ signin[b] = "in" /\ old[b] \in {"out", "claims"}
  /\ \A b \in Browsers : signin[b] = "claims" => old[b] \in {"out", "claims"}

RedirectInv == AccountTyped /\ StatusInv /\ ProvenInv /\ ScriptInv
AccountInv == RedirectInv /\ TokenInv /\ SessionInv

USE AccountAssumption

-----------------------------------------------------------------------------
(* Sessions.                                                               *)

LEMMA ReachFacts ==
  ASSUME SessionInv, NEW b \in Browsers, NEW place \in Stages, Reach(b, place)
  PROVE  /\ signin' \in [Browsers -> Stages] /\ signin'[b] = place
         /\ \A c \in Browsers : c # b => signin'[c] = signin[c]
BY DEF SessionInv, Reach

LEMMA FreshFacts ==
  ASSUME SessionInv, NEW b \in Browsers, NEW checked \in BOOLEAN, Fresh(b, checked)
  PROVE  /\ old' \in [Browsers -> Stages]
         /\ \A c \in Browsers : c # b => old'[c] = old[c]
         /\ old'[b] = IF checked /\ Active THEN "out" ELSE old[b]
<1>1. "out" \in Stages
  BY DEF Stages
<1> QED
  BY <1>1 DEF SessionInv, Fresh

(* A sign-in reaches "claims" only by a check that saw an active user.     *)
LEMMA BrowserKeepsSessions ==
  ASSUME SessionInv, NEW b \in Browsers,
         Login(b) \/ FindAccount(b) \/ SaveGrant(b) \/ ExchangeCode(b)
           \/ InsertSession(b) \/ Logout(b)
  PROVE  SessionInv'
<1>1. CASE Login(b)
  <2>1. Reach(b, "confirmed") /\ Fresh(b, TRUE) /\ UNCHANGED sessions /\ signin[b] = "out"
    BY <1>1 DEF Login
  <2>2. "confirmed" \in Stages
    BY DEF Stages
  <2>3. /\ signin' \in [Browsers -> Stages] /\ signin'[b] = "confirmed"
        /\ \A c \in Browsers : c # b => signin'[c] = signin[c]
    BY <2>1, <2>2, ReachFacts
  <2>4. /\ old' \in [Browsers -> Stages]
        /\ \A c \in Browsers : c # b => old'[c] = old[c]
    BY <2>1, FreshFacts
  <2> QED
    BY <2>1, <2>3, <2>4 DEF SessionInv
<1>2. CASE FindAccount(b)
  <2>1. PICK place \in {"found", "out"} : Reach(b, place)
    BY <1>2 DEF FindAccount
  <2>2. place \in Stages
    BY DEF Stages
  <2>3. /\ signin' \in [Browsers -> Stages] /\ signin'[b] = place
        /\ \A c \in Browsers : c # b => signin'[c] = signin[c]
    BY <2>1, <2>2, ReachFacts
  <2>4. Fresh(b, Active) /\ UNCHANGED sessions /\ signin[b] = "confirmed" /\ Active \in BOOLEAN
    BY <1>2 DEF FindAccount, Active
  <2>5. /\ old' \in [Browsers -> Stages]
        /\ \A c \in Browsers : c # b => old'[c] = old[c]
    BY <2>4, FreshFacts
  <2> QED
    BY <2>3, <2>4, <2>5 DEF SessionInv
<1>3. CASE SaveGrant(b)
  <2>1. Reach(b, "code") /\ UNCHANGED <<sessions, old>> /\ signin[b] = "found"
    BY <1>3 DEF SaveGrant
  <2>2. "code" \in Stages
    BY DEF Stages
  <2>3. /\ signin' \in [Browsers -> Stages] /\ signin'[b] = "code"
        /\ \A c \in Browsers : c # b => signin'[c] = signin[c]
    BY <2>1, <2>2, ReachFacts
  <2> QED
    BY <2>1, <2>3 DEF SessionInv
<1>4. CASE ExchangeCode(b)
  <2>1. PICK seen \in BOOLEAN : seen = (b \in grants /\ Active)
    OBVIOUS
  <2>2. /\ Reach(b, IF seen THEN "claims" ELSE "out") /\ Fresh(b, seen)
        /\ UNCHANGED sessions /\ signin[b] = "code"
    BY <1>4, <2>1 DEF ExchangeCode
  <2>3. PICK place \in Stages : place = IF seen THEN "claims" ELSE "out"
    BY DEF Stages
  <2>4. /\ signin' \in [Browsers -> Stages] /\ signin'[b] = place
        /\ \A c \in Browsers : c # b => signin'[c] = signin[c]
    BY <2>2, <2>3, ReachFacts
  <2>5. /\ old' \in [Browsers -> Stages]
        /\ \A c \in Browsers : c # b => old'[c] = old[c]
        /\ seen => old'[b] = "out"
    BY <2>1, <2>2, FreshFacts
  <2> QED
    BY <2>2, <2>3, <2>4, <2>5 DEF SessionInv
<1>5. CASE InsertSession(b)
  <2>1. /\ Reach(b, "in") /\ UNCHANGED old /\ signin[b] = "claims"
        /\ sessions' = sessions \cup {b}
    BY <1>5 DEF InsertSession
  <2>2. "in" \in Stages
    BY DEF Stages
  <2>3. /\ signin' \in [Browsers -> Stages] /\ signin'[b] = "in"
        /\ \A c \in Browsers : c # b => signin'[c] = signin[c]
    BY <2>1, <2>2, ReachFacts
  <2> QED
    BY <2>1, <2>3 DEF SessionInv
<1>6. CASE Logout(b)
  <2>1. Reach(b, "out") /\ UNCHANGED old /\ sessions' = sessions \ {b}
    BY <1>6 DEF Logout
  <2>2. "out" \in Stages
    BY DEF Stages
  <2>3. /\ signin' \in [Browsers -> Stages] /\ signin'[b] = "out"
        /\ \A c \in Browsers : c # b => signin'[c] = signin[c]
    BY <2>1, <2>2, ReachFacts
  <2> QED
    BY <2>1, <2>3 DEF SessionInv
<1> QED
  BY <1>1, <1>2, <1>3, <1>4, <1>5, <1>6

LEMMA SessionStep ==
  ASSUME SessionInv, [Next]_vars
  PROVE  SessionInv'
<1>1. CASE EndWebSessions
  <2>1. CASE sessions' = {} /\ old' = signin /\ UNCHANGED signin
    BY <2>1 DEF SessionInv
  <2>2. CASE UNCHANGED <<sessions, old, signin>>
    BY <2>2 DEF SessionInv
  <2> QED
    BY <1>1, <2>1, <2>2 DEF EndWebSessions
<1>2. CASE Crash
  <2>1. /\ signin' = [b \in Browsers |-> IF signin[b] = "in" THEN "in" ELSE "out"]
        /\ UNCHANGED <<sessions, old>>
    BY <1>2 DEF Crash
  <2> QED
    BY <2>1 DEF SessionInv, Stages
<1>3. CASE UNCHANGED <<sessions, old, signin>>
  BY <1>3 DEF SessionInv
<1>4. \/ \E b \in Browsers : Login(b) \/ FindAccount(b) \/ SaveGrant(b) \/ ExchangeCode(b)
                              \/ InsertSession(b) \/ Logout(b)
      \/ EndWebSessions \/ Crash \/ UNCHANGED <<sessions, old, signin>>
  <2>1. CASE JobStep
    BY <2>1 DEF JobStep, CodeChecked, AddressFree, CountBounce, SyncScript, WriteSettings,
       PutBack, SetMailbox, SetStatus, EndGrants, DestroyMailbox, EraseUser, web
  <2>2. CASE ~JobStep
    BY <2>2 DEF Next, vars, web, me_email_verify, redirect_bounce_register, OtherTakes,
       me_email_remove, me_redirect_update, user_update, user_delete, Start,
       user_deletions_finish, Tick, extraTokenClaims, SignMailToken
  <2> QED
    BY <2>1, <2>2
<1> QED
  BY <1>1, <1>2, <1>3, <1>4, BrowserKeepsSessions

-----------------------------------------------------------------------------
(* Documents, operations and what they plan.                               *)

LEMMA ScriptOfFacts ==
  ASSUME NEW u \in User
  PROVE  /\ ScriptOf(u) \in Scripts
         /\ ScriptOf(u).to \in {NoAddress, u.external}
         /\ ~u.enabled => ScriptOf(u) = Off
BY DEF ScriptOf, User, Off, Scripts

(* Two documents that agree on address and redirect have the same script.  *)
LEMMA SameScript ==
  ASSUME NEW u, NEW v, u.external = v.external, u.enabled = v.enabled, u.keep = v.keep
  PROVE  ScriptOf(u) = ScriptOf(v)
BY DEF ScriptOf

LEMMA FreeOp ==
  /\ job = Free => job.op = "free"
  /\ "free" \notin Settings \cup {"status", "finish"}
BY DEF Free, Settings

LEMMA GotoFacts ==
  ASSUME JobTyped, job # Free, NEW place, Goto(place)
  PROVE  /\ job' = [op |-> job.op, arg |-> job.arg, at |-> place, was |-> job.was]
         /\ job'.op = job.op /\ job'.arg = job.arg /\ job'.at = place
         /\ job'.was = job.was /\ Shaped' /\ job' # Free
<1>1. PICK op, arg, at, was : job = [op |-> op, arg |-> arg, at |-> at, was |-> was]
  BY DEF JobTyped, Shaped
<1>2. /\ job.op = op /\ job.arg = arg /\ job.was = was
      /\ op \in Settings \cup {"status", "finish"}
  BY <1>1 DEF JobTyped
<1>3. job' = [op |-> op, arg |-> arg, at |-> place, was |-> was]
  BY <1>1 DEF Goto
<1>4. job'.op = op /\ job'.arg = arg /\ job'.at = place /\ job'.was = was
  BY <1>3
<1>5. job' # Free
  BY <1>2, <1>4 DEF Free, Settings
<1> QED
  BY <1>2, <1>3, <1>4, <1>5 DEF Shaped

LEMMA StartFacts ==
  ASSUME NEW o \in Settings \cup {"status", "finish"}, NEW a, NEW place,
         job' = [op |-> o, arg |-> a, at |-> place, was |-> user]
  PROVE  /\ job'.op = o /\ job'.arg = a /\ job'.at = place /\ job'.was = user
         /\ Shaped' /\ job' # Free
<1>1. job'.op = o /\ job'.arg = a /\ job'.at = place /\ job'.was = user
  OBVIOUS
<1>2. job' # Free
  BY <1>1 DEF Free, Settings
<1> QED
  BY <1>1, <1>2 DEF Shaped

(* An operation starts with the document as it is.                         *)
LEMMA JobStarts ==
  ASSUME RedirectInv, NEW o \in Settings \cup {"status", "finish"}, NEW a, NEW place,
         job = Free, job' = [op |-> o, arg |-> a, at |-> place, was |-> user],
         UNCHANGED <<user, script, mailbox, proven, doubt>>,
         Exists, place \in Steps(o), ArgTyped',
         o \in Settings => /\ user.status = "active" /\ place # "undo"
                           /\ place = "write" => o \in {"verify", "remove"} /\ ~user.enabled,
         o = "verify" => place = "code",
         o = "status" => place = "mailbox" /\ user.status \in {"active", "disabled"},
         o = "finish" => user.status = "deleting" /\ user.left = 0
  PROVE  RedirectInv'
<1>1. /\ job'.op = o /\ job'.arg = a /\ job'.at = place /\ job'.was = user
      /\ Shaped' /\ job' # Free
  BY StartFacts
<1>2. AccountTyped'
  BY <1>1 DEF RedirectInv, AccountTyped, JobTyped
<1>3. StatusInv'
  BY <1>1 DEF RedirectInv, StatusInv, Exists, Settings
<1>4. ProvenInv'
  BY <1>1 DEF RedirectInv, ProvenInv, Known
<1>5. Agrees'
  BY <1>1 DEF Agrees
<1>6. script # ScriptOf(user) => doubt \/ mailbox = "gone"
  BY FreeOp DEF RedirectInv, ScriptInv, Untouched
<1>7. ScriptInv'
  <2>1. (Untouched /\ Exists /\ ~doubt /\ mailbox # "gone" => script = ScriptOf(user))'
    BY <1>6
  <2>2. o \in Settings => mailbox # "gone"
    BY DEF RedirectInv, StatusInv
  <2>3. (job.op \in Settings /\ job.at = "write" =>
          IF Synced THEN script = ScriptOf(Planned) ELSE ~doubt => script = ScriptOf(user))'
    <3> SUFFICES ASSUME o \in Settings, place = "write"
                 PROVE  ~Synced' /\ (~doubt => script = ScriptOf(user))
      BY <1>1
    <3> QED
      BY <1>1, <1>6, <2>2 DEF Synced
  <2> QED
    BY <1>5, <2>1, <2>3 DEF ScriptInv
<1> QED
  BY <1>2, <1>3, <1>4, <1>7 DEF RedirectInv

(* An operation ends.                                                      *)
LEMMA JobEnds ==
  ASSUME RedirectInv, Done,
         user' \in User, script' \in Scripts, mailbox' \in {"on", "off", "gone"},
         doubt' \in BOOLEAN, Known(user.external)', Known(script.to)',
         mailbox' = "gone" => user'.status \in {"deleting", "gone"},
         mailbox' = "gone" \/ user'.status # "deleting" => user'.left = 0,
         Exists' /\ ~doubt' /\ mailbox' # "gone" => (script = ScriptOf(user))'
  PROVE  RedirectInv'
<1>1. job' = Free /\ job'.op = "free"
  BY DEF Done, Free
<1>2. AccountTyped'
  BY <1>1 DEF AccountTyped, JobTyped, Scripts
<1>3. StatusInv'
  BY <1>1 DEF StatusInv, Settings
<1>4. ProvenInv'
  BY <1>1 DEF ProvenInv
<1>5. ScriptInv'
  BY <1>1 DEF ScriptInv, Settings
<1> QED
  BY <1>2, <1>3, <1>4, <1>5 DEF RedirectInv

LEMMA StartKeeps ==
  ASSUME RedirectInv, NEW o, NEW a, NEW place, Start(o, a, place), Exists,
         o \in Settings \cup {"status", "finish"}, place \in Steps(o),
         o \in {"verify", "bounce"} => a \in Addresses,
         o = "redirect" => a.enabled \in BOOLEAN /\ a.keep \in BOOLEAN,
         o = "status" => a \in {"active", "disabled", "deleting"},
         o \in Settings => /\ user.status = "active"
                           /\ place = "write" => o \in {"verify", "remove"} /\ ~user.enabled,
         o = "verify" => place = "code",
         o = "status" => place = "mailbox" /\ user.status \in {"active", "disabled"},
         o # "finish", place # "undo"
  PROVE  RedirectInv'
<1>1. /\ job = Free /\ job' = [op |-> o, arg |-> a, at |-> place, was |-> user]
      /\ UNCHANGED <<user, script, mailbox, proven, doubt>>
  BY DEF Start, stores, past
<1>2. job'.op = o /\ job'.arg = a /\ job'.at = place
  BY <1>1
<1>3. ArgTyped'
  BY <1>2 DEF ArgTyped
<1> QED
  BY <1>1, <1>3, JobStarts

LEMMA StartsKeep ==
  ASSUME RedirectInv,
         \/ \E a \in Addresses : me_email_verify(a) \/ redirect_bounce_register(a)
         \/ me_email_remove
         \/ \E on, keep \in BOOLEAN : me_redirect_update(on, keep)
         \/ \E status \in {"active", "disabled"} : user_update(status)
         \/ user_delete
  PROVE  RedirectInv'
<1>1. user.status \in {"active", "disabled", "deleting", "gone"} /\ user.enabled \in BOOLEAN
  BY DEF RedirectInv, AccountTyped, User
<1>2. ASSUME NEW a \in Addresses, me_email_verify(a) PROVE RedirectInv'
  <2>1. Exists /\ user.status = "active" /\ Start("verify", a, "code")
    BY <1>2 DEF me_email_verify, with_current_user
  <2> QED
    BY <2>1, StartKeeps DEF Settings, Steps
<1>3. ASSUME NEW a \in Addresses, redirect_bounce_register(a) PROVE RedirectInv'
  <2>1. Exists /\ user.status = "active" /\ Start("bounce", a, "count")
    BY <1>3 DEF redirect_bounce_register, with_current_user
  <2> QED
    BY <2>1, StartKeeps DEF Settings, Steps
<1>4. CASE me_email_remove
  <2>1. PICK place \in {"sync", "write"} : place = IF user.enabled THEN "sync" ELSE "write"
    OBVIOUS
  <2>2. Exists /\ user.status = "active" /\ Start("remove", NoAddress, place)
    BY <1>4, <2>1 DEF me_email_remove, with_current_user
  <2>3. place = "write" => ~user.enabled
    BY <2>1
  <2>4. place \in Steps("remove") /\ place # "undo"
    BY DEF Steps
  <2> QED
    BY <2>2, <2>3, <2>4, StartKeeps DEF Settings
<1>5. ASSUME NEW on \in BOOLEAN, NEW keep \in BOOLEAN, me_redirect_update(on, keep)
      PROVE  RedirectInv'
  <2>1. PICK a : a = [enabled |-> on, keep |-> keep]
    OBVIOUS
  <2>2. Exists /\ user.status = "active" /\ Start("redirect", a, "sync")
    BY <1>5, <2>1 DEF me_redirect_update, with_current_user
  <2>3. a.enabled \in BOOLEAN /\ a.keep \in BOOLEAN
    BY <2>1
  <2> QED
    BY <2>2, <2>3, StartKeeps DEF Settings, Steps
<1>6. ASSUME NEW status \in {"active", "disabled"}, user_update(status) PROVE RedirectInv'
  <2>1. Exists /\ user.status \in {"active", "disabled"} /\ Start("status", status, "mailbox")
    BY <1>1, <1>6 DEF user_update, with_current_user, Exists
  <2> QED
    BY <2>1, StartKeeps DEF Settings, Steps
<1>7. CASE user_delete
  <2>1. Exists /\ user.status \in {"active", "disabled"} /\ Start("status", "deleting", "mailbox")
    BY <1>1, <1>7 DEF user_delete, Exists
  <2> QED
    BY <2>1, StartKeeps DEF Settings, Steps
<1> QED
  BY <1>2, <1>3, <1>4, <1>5, <1>6, <1>7

LEMMA FinishStartKeeps ==
  ASSUME RedirectInv, user_deletions_finish
  PROVE  RedirectInv'
<1>1. /\ job = Free /\ Exists /\ user.status = "deleting" /\ user.left = 0
      /\ job' = [op |-> "finish", arg |-> NoAddress, at |-> "destroy", was |-> user]
      /\ UNCHANGED <<user, script, mailbox, proven, doubt>>
  BY DEF user_deletions_finish, stores, past
<1>2. job'.op = "finish" /\ job'.arg = NoAddress /\ job'.at = "destroy"
  BY <1>1
<1>3. ArgTyped'
  BY <1>2 DEF ArgTyped
<1> QED
  BY <1>1, <1>3, JobStarts DEF Settings, Steps

(* The clock.                                                              *)
LEMMA LessFacts ==
  ASSUME NEW n \in Nat
  PROVE  Less(n) \in Nat /\ (n = 0 => Less(n) = 0) /\ (n > 0 => Less(n) = n - 1)
BY DEF Less

LEMMA TickKeeps ==
  ASSUME RedirectInv, Tick
  PROVE  RedirectInv'
<1>1. PICK u \in User : u = user
  BY DEF RedirectInv, AccountTyped
<1>2. user' = [u EXCEPT !.left = Less(u.left)]
  BY <1>1 DEF Tick
<1>3. u.left \in Nat
  BY DEF User
<1>4. PICK n \in Nat : n = Less(u.left) /\ (u.left = 0 => n = 0)
  BY <1>3, LessFacts
<1>5. user' = [u EXCEPT !.left = n]
  BY <1>2, <1>4
<1>6. /\ user' \in User /\ user'.status = u.status /\ user'.left = n
      /\ user'.external = u.external /\ user'.enabled = u.enabled /\ user'.keep = u.keep
  BY <1>5 DEF User
<1>7. UNCHANGED <<script, mailbox, job, proven, doubt>>
  BY DEF Tick, past
<1>8. ScriptOf(user') = ScriptOf(user)
  BY <1>1, <1>6 DEF ScriptOf
<1>9. AccountTyped'
  BY <1>6, <1>7 DEF RedirectInv, AccountTyped, JobTyped, Shaped, ArgTyped
<1>10. StatusInv'
  BY <1>1, <1>4, <1>6, <1>7 DEF RedirectInv, StatusInv, Exists
<1>11. ProvenInv'
  BY <1>1, <1>6, <1>7 DEF RedirectInv, ProvenInv, Known
<1>12. Agrees <=> Agrees'
  BY <1>1, <1>6, <1>7 DEF Agrees
<1>13. Exists' <=> Exists
  BY <1>1, <1>6 DEF Exists
<1>14. ScriptInv'
  <2>1. ScriptOf(Planned)' = ScriptOf(Planned) /\ (Untouched' <=> Untouched) /\ (Synced' <=> Synced)
    BY <1>7 DEF Planned, ScriptOf, Untouched, Synced
  <2> QED
    BY <1>7, <1>8, <1>12, <1>13, <2>1 DEF RedirectInv, ScriptInv
<1> QED
  BY <1>9, <1>10, <1>11, <1>14 DEF RedirectInv

-----------------------------------------------------------------------------
(* The steps of an operation.                                              *)

LEMMA SettingsFacts ==
  ASSUME RedirectInv, job.op \in Settings
  PROVE  /\ job # Free /\ Exists /\ user.status = "active" /\ mailbox # "gone"
         /\ user.left = 0 /\ job.at \in Steps(job.op) /\ job.was \in User
BY FreeOp DEF RedirectInv, StatusInv, Exists, AccountTyped, JobTyped

LEMMA JobMoves ==
  ASSUME RedirectInv, job # Free, NEW place, Goto(place), UNCHANGED user,
         place \in Steps(job.op), place # "undo", job.at # "undo",
         script' \in Scripts, Known(script.to)', doubt' \in BOOLEAN,
         mailbox' \in {"on", "off", "gone"},
         mailbox' = "gone" => user.status \in {"deleting", "gone"} /\ user.left = 0,
         proven \subseteq proven',
         job.op = "verify" /\ place \in {"free", "sync", "write"} => job.arg \in proven',
         job.op = "status" /\ place \in {"mailbox", "write"} =>
           user.status \in {"active", "disabled"},
         ScriptInv'
  PROVE  RedirectInv'
<1>1. /\ job'.op = job.op /\ job'.arg = job.arg /\ job'.at = place
      /\ job'.was = job.was /\ Shaped' /\ job' # Free
  BY GotoFacts DEF RedirectInv, AccountTyped
<1>2. ArgTyped'
  BY <1>1 DEF RedirectInv, AccountTyped, JobTyped, ArgTyped
<1>3. AccountTyped'
  BY <1>1, <1>2 DEF RedirectInv, AccountTyped, JobTyped, Scripts
<1>4. StatusInv'
  BY <1>1 DEF RedirectInv, StatusInv, Exists
<1>5. ProvenInv'
  BY <1>1 DEF RedirectInv, ProvenInv, Known
<1> QED
  BY <1>3, <1>4, <1>5 DEF RedirectInv

LEMMA CodeKeeps ==
  ASSUME RedirectInv, CodeChecked
  PROVE  RedirectInv'
<1>1. /\ job.op = "verify" /\ job.at = "code" /\ job.op \in Settings
      /\ UNCHANGED <<user, script, mailbox, doubt>>
  BY DEF CodeChecked, stores, Settings
<1>2. /\ job # Free /\ Exists /\ mailbox # "gone" /\ user.left = 0 /\ user.status = "active"
  BY <1>1, SettingsFacts
<1>3. ~doubt => script = ScriptOf(user)
  BY <1>1, <1>2 DEF RedirectInv, ScriptInv, Untouched
<1>4. CASE Goto("free") /\ proven' = proven \cup {job.arg}
  <2>1. /\ job'.op = job.op /\ job'.arg = job.arg /\ job'.at = "free" /\ job'.was = job.was
    BY <1>2, <1>4, GotoFacts DEF RedirectInv, AccountTyped
  <2>2. ScriptInv'
    BY <1>1, <1>2, <1>3, <2>1 DEF RedirectInv, ScriptInv, Agrees
  <2>3. "free" \in Steps(job.op)
    BY <1>1 DEF Steps
  <2> QED
    BY <1>1, <1>2, <1>4, <2>2, <2>3, JobMoves
       DEF RedirectInv, AccountTyped, Scripts, ProvenInv, Known
<1>5. CASE Done /\ UNCHANGED proven
  BY <1>1, <1>2, <1>3, <1>5, JobEnds
     DEF RedirectInv, AccountTyped, Scripts, ProvenInv, Known, StatusInv
<1> QED
  BY <1>4, <1>5 DEF CodeChecked

LEMMA AddressFreeKeeps ==
  ASSUME RedirectInv, AddressFree
  PROVE  RedirectInv'
<1>1. /\ job.op = "verify" /\ job.at = "free" /\ job.op \in Settings
      /\ UNCHANGED <<user, script, mailbox, doubt, proven>>
  BY DEF AddressFree, stores, past, Settings
<1>2. /\ job # Free /\ Exists /\ mailbox # "gone" /\ user.left = 0 /\ user.status = "active"
  BY <1>1, SettingsFacts
<1>3. ~doubt => script = ScriptOf(user)
  BY <1>1, <1>2 DEF RedirectInv, ScriptInv, Untouched
<1>4. CASE Done
  BY <1>1, <1>2, <1>3, <1>4, JobEnds
     DEF RedirectInv, AccountTyped, Scripts, ProvenInv, Known, StatusInv
<1>5. CASE Goto(IF job.was.enabled THEN "sync" ELSE "write")
  <2>1. PICK place \in {"sync", "write"} :
          Goto(place) /\ (place = "write" => ~job.was.enabled)
    BY <1>5
  <2>2. /\ job'.op = job.op /\ job'.arg = job.arg /\ job'.at = place /\ job'.was = job.was
    BY <1>2, <2>1, GotoFacts DEF RedirectInv, AccountTyped
  <2>3. place = "write" => ~Synced'
    BY <1>1, <2>1, <2>2 DEF Synced
  <2>4. ScriptInv'
    BY <1>1, <1>2, <1>3, <2>2, <2>3 DEF RedirectInv, ScriptInv, Agrees
  <2>5. place \in Steps(job.op)
    BY <1>1 DEF Steps
  <2> QED
    BY <1>1, <1>2, <2>1, <2>4, <2>5, JobMoves
       DEF RedirectInv, AccountTyped, Scripts, ProvenInv, Known
<1> QED
  BY <1>4, <1>5 DEF AddressFree

LEMMA CountBounceKeeps ==
  ASSUME RedirectInv, CountBounce
  PROVE  RedirectInv'
<1>1. /\ job.op = "bounce" /\ job.at = "count" /\ job.op \in Settings
      /\ UNCHANGED <<script, mailbox, doubt, proven>>
  BY DEF CountBounce, past, Settings
<1>2. /\ job # Free /\ Exists /\ mailbox # "gone" /\ user.left = 0 /\ user.status = "active"
  BY <1>1, SettingsFacts
<1>3. ~doubt => script = ScriptOf(user)
  BY <1>1, <1>2 DEF RedirectInv, ScriptInv, Untouched
<1>4. PICK u \in User : u = user
  BY DEF RedirectInv, AccountTyped
<1>5. PICK v : v = [u EXCEPT !.bounces = u.bounces + 1]
  OBVIOUS
<1>6. /\ v \in User /\ v.status = u.status /\ v.left = u.left /\ v.external = u.external
      /\ v.enabled = u.enabled /\ v.keep = u.keep
  BY <1>5 DEF User
<1>7. ScriptOf(v) = ScriptOf(user)
  BY <1>4, <1>6 DEF ScriptOf
<1>8. CASE Done /\ (user' = user \/ user' = v)
  BY <1>1, <1>2, <1>3, <1>4, <1>6, <1>7, <1>8, JobEnds
     DEF RedirectInv, AccountTyped, Scripts, ProvenInv, Known, StatusInv
<1>9. CASE user' = v /\ job' = [job EXCEPT !.at = "sync", !.was = v]
  <2>1. job' = [op |-> job.op, arg |-> job.arg, at |-> "sync", was |-> v]
    <3>1. PICK op, arg, at, was : job = [op |-> op, arg |-> arg, at |-> at, was |-> was]
      BY <1>2 DEF RedirectInv, AccountTyped, JobTyped, Shaped
    <3> QED
      BY <1>9, <3>1
  <2>2. /\ job'.op = job.op /\ job'.arg = job.arg /\ job'.at = "sync" /\ job'.was = v
        /\ Shaped'
    BY <2>1 DEF Shaped
  <2>3. job' # Free
    BY <1>1, <2>2 DEF Free
  <2>4. AccountTyped'
    <3>1. ArgTyped'
      BY <1>1, <1>2, <2>2 DEF RedirectInv, AccountTyped, JobTyped, ArgTyped
    <3>2. "sync" \in Steps(job.op)
      BY <1>1 DEF Steps
    <3> QED
      BY <1>1, <1>6, <1>9, <2>2, <3>1, <3>2 DEF RedirectInv, AccountTyped, JobTyped
  <2>5. StatusInv'
    BY <1>1, <1>2, <1>4, <1>6, <1>9, <2>2 DEF StatusInv, Exists
  <2>6. ProvenInv'
    BY <1>1, <1>4, <1>6, <1>9, <2>2 DEF RedirectInv, ProvenInv, Known
  <2>7. ScriptInv'
    BY <1>1, <1>3, <1>7, <1>9, <2>2 DEF ScriptInv, Agrees
  <2> QED
    BY <2>4, <2>5, <2>6, <2>7 DEF RedirectInv
<1> QED
  BY <1>4, <1>5, <1>8, <1>9 DEF CountBounce

(* Which operations reach a place.                                         *)
LEMMA PlaceOps ==
  ASSUME RedirectInv, job # Free
  PROVE  /\ job.at \in {"sync", "undo"} => job.op \in Settings
         /\ job.at = "undo" => job.op # "bounce"
         /\ job.at \in {"mailbox", "both", "web", "oidc"} => job.op = "status"
         /\ job.at \in {"destroy", "erase"} => job.op = "finish"
BY DEF RedirectInv, AccountTyped, JobTyped, Steps, Settings

LEMMA PlannedFacts ==
  ASSUME RedirectInv, job.op \in Settings, job.at \in {"sync", "write"}
  PROVE  /\ Planned \in User /\ Planned.status = "active" /\ Planned.left = 0
         /\ Known(Planned.external)
         /\ ~Synced => ~Planned.enabled
<1>1. job # Free /\ job.was \in User /\ ArgTyped
  BY SettingsFacts DEF RedirectInv, AccountTyped, JobTyped
<1>2. PICK w \in User : w = job.was
  BY <1>1
<1>3. w.status = "active" /\ w.left = 0 /\ Known(w.external)
  BY <1>1, <1>2 DEF RedirectInv, StatusInv, ProvenInv
<1>4. PICK a : a = job.arg
  OBVIOUS
<1>5. CASE job.op = "verify"
  <2>1. a \in Addresses /\ a \in proven
    BY <1>1, <1>4, <1>5 DEF ArgTyped, RedirectInv, ProvenInv
  <2>2. Planned = [w EXCEPT !.external = a, !.bounces = 0]
    BY <1>2, <1>4, <1>5 DEF Planned
  <2>3. PICK p : p = [w EXCEPT !.external = a, !.bounces = 0]
    OBVIOUS
  <2>4. /\ p \in User /\ p.status = "active" /\ p.left = 0 /\ p.external = a
        /\ p.enabled = w.enabled
    BY <1>3, <2>1, <2>3 DEF User
  <2> QED
    BY <1>2, <2>1, <2>2, <2>3, <2>4 DEF Known, Synced
<1>6. CASE job.op = "remove"
  <2>2. Planned = [w EXCEPT !.external = NoAddress, !.enabled = FALSE, !.bounces = 0]
    BY <1>2, <1>6 DEF Planned
  <2>3. PICK p : p = [w EXCEPT !.external = NoAddress, !.enabled = FALSE, !.bounces = 0]
    OBVIOUS
  <2>4. /\ p \in User /\ p.status = "active" /\ p.left = 0 /\ p.external = NoAddress
        /\ ~p.enabled
    BY <1>3, <2>3 DEF User
  <2> QED
    BY <2>2, <2>3, <2>4 DEF Known
<1>7. CASE job.op = "redirect"
  <2>1. a.enabled \in BOOLEAN /\ a.keep \in BOOLEAN
    BY <1>1, <1>4, <1>7 DEF ArgTyped
  <2>2. Planned = [w EXCEPT !.enabled = a.enabled, !.keep = a.keep, !.bounces = 0]
    BY <1>2, <1>4, <1>7 DEF Planned
  <2>3. PICK p : p = [w EXCEPT !.enabled = a.enabled, !.keep = a.keep, !.bounces = 0]
    OBVIOUS
  <2>4. /\ p \in User /\ p.status = "active" /\ p.left = 0 /\ p.external = w.external
    BY <1>3, <2>1, <2>3 DEF User
  <2> QED
    BY <1>3, <1>7, <2>2, <2>3, <2>4 DEF Synced
<1>8. CASE job.op = "bounce"
  <2>2. Planned = [w EXCEPT !.enabled = FALSE]
    BY <1>2, <1>8 DEF Planned
  <2>3. PICK p : p = [w EXCEPT !.enabled = FALSE]
    OBVIOUS
  <2>4. /\ p \in User /\ p.status = "active" /\ p.left = 0 /\ p.external = w.external
        /\ ~p.enabled
    BY <1>3, <2>3 DEF User
  <2> QED
    BY <1>3, <2>2, <2>3, <2>4
<1> QED
  BY <1>5, <1>6, <1>7, <1>8 DEF Settings

LEMMA SyncKeeps ==
  ASSUME RedirectInv, SyncScript
  PROVE  RedirectInv'
<1>1. /\ job # Free /\ job.at = "sync" /\ job.op \in Settings
      /\ UNCHANGED <<user, mailbox, proven>>
  BY PlaceOps DEF SyncScript
<1>2. /\ Exists /\ mailbox # "gone" /\ user.left = 0 /\ user.status = "active"
  BY <1>1, SettingsFacts
<1>3. Planned \in User /\ Known(Planned.external)
  BY <1>1, PlannedFacts
<1>4. PICK p \in User : p = Planned
  BY <1>3
<1>5. ScriptOf(p) \in Scripts /\ ScriptOf(p).to \in {NoAddress, p.external}
  BY ScriptOfFacts
<1>6. script' \in Scripts /\ Known(script.to)'
  <2>1. CASE UNCHANGED script
    BY <1>1, <2>1 DEF RedirectInv, AccountTyped, Scripts, ProvenInv, Known
  <2>2. CASE script' = ScriptOf(p)
    BY <1>1, <1>3, <1>4, <1>5, <2>2 DEF Known
  <2> QED
    BY <1>4, <2>1, <2>2 DEF SyncScript
<1>7. CASE script' = ScriptOf(Planned) /\ Goto("write") /\ UNCHANGED doubt
  <2>1. /\ job'.op = job.op /\ job'.arg = job.arg /\ job'.at = "write" /\ job'.was = job.was
    BY <1>1, <1>7, GotoFacts DEF RedirectInv, AccountTyped
  <2>2. Planned' = Planned /\ (Synced' <=> Synced)
    BY <2>1 DEF Planned, Synced
  <2>4. script' = ScriptOf(Planned')
    BY <1>7, <2>2
  <2>5. (script = ScriptOf(Planned))'
    BY <2>4 DEF ScriptOf
  <2>6. ~Synced => ScriptOf(Planned) = Off
    BY <1>1, <1>4, PlannedFacts, ScriptOfFacts
  <2>7. ~Synced => ScriptOf(user) = Off
    BY <1>1 DEF RedirectInv, ScriptInv, Agrees, Synced, ScriptOf
  <2>8. ~Synced' => (script = ScriptOf(user))'
    BY <1>1, <1>7, <2>2, <2>6, <2>7 DEF ScriptOf
  <2>9. ScriptInv'
    BY <1>1, <2>1, <2>5, <2>8 DEF RedirectInv, ScriptInv, Agrees, Untouched
  <2>10. "write" \in Steps(job.op)
    BY <1>1 DEF Steps, Settings
  <2> QED
    BY <1>1, <1>2, <1>6, <1>7, <2>9, <2>10, JobMoves
       DEF RedirectInv, AccountTyped, ProvenInv, Settings
<1>8. CASE Done /\ doubt' = TRUE
  BY <1>1, <1>2, <1>6, <1>8, JobEnds
     DEF RedirectInv, AccountTyped, ProvenInv, Known, StatusInv
<1> QED
  BY <1>7, <1>8 DEF SyncScript

(* A rejected write is undone, or it left the script as it was.            *)
LEMMA RejectedKeeps ==
  ASSUME RedirectInv, job.op \in Settings, job.at = "write", NEW applied \in BOOLEAN,
         Rejected(applied), UNCHANGED <<script, mailbox, proven>>,
         IF applied THEN user' = Planned ELSE UNCHANGED user
  PROVE  RedirectInv'
<1>1. /\ job # Free /\ Exists /\ mailbox # "gone" /\ user.left = 0 /\ user.status = "active"
  BY SettingsFacts
<1>2. Planned \in User /\ Planned.status = "active" /\ Planned.left = 0 /\ Known(Planned.external)
  BY PlannedFacts
<1>3. user' \in User /\ user'.status = "active" /\ user'.left = 0 /\ Known(user.external)'
  <2>1. CASE applied
    BY <1>2, <2>1 DEF Known
  <2>2. CASE ~applied
    BY <1>1, <2>2 DEF RedirectInv, AccountTyped, ProvenInv, Known
  <2> QED
    BY <2>1, <2>2
<1>4. doubt' = (doubt \/ job.op = "bounce" \/ applied) /\ doubt' \in BOOLEAN
  BY DEF Rejected
<1>5. CASE Undoes
  <2>1. job' = [op |-> job.op, arg |-> applied, at |-> "undo", was |-> job.was]
    BY <1>5 DEF Rejected
  <2>2. /\ job'.op = job.op /\ job'.arg = applied /\ job'.at = "undo" /\ job'.was = job.was
        /\ Shaped'
    BY <2>1 DEF Shaped
  <2>3. job.op \in {"verify", "remove", "redirect"}
    BY <1>5 DEF Undoes
  <2>4. job' # Free
    BY <2>2, <2>3 DEF Free
  <2>5. "undo" \in Steps(job.op)
    BY <2>3 DEF Steps
  <2>6. ArgTyped'
    BY <2>2, <2>3 DEF ArgTyped
  <2>7. AccountTyped'
    BY <1>1, <1>3, <1>4, <2>2, <2>5, <2>6 DEF RedirectInv, AccountTyped, JobTyped
  <2>8. StatusInv'
    BY <1>1, <1>3, <2>2, <2>3 DEF RedirectInv, StatusInv, Exists
  <2>9. ProvenInv'
    BY <1>1, <1>3, <2>2 DEF RedirectInv, ProvenInv, Known
  <2>10. ~applied => Agrees'
    BY <2>2 DEF RedirectInv, ScriptInv, Agrees
  <2>11. ScriptInv'
    BY <2>2, <2>3, <2>10 DEF ScriptInv, Untouched, Settings
  <2> QED
    BY <2>7, <2>8, <2>9, <2>11 DEF RedirectInv
<1>6. CASE ~Undoes
  <2>1. Done
    BY <1>6 DEF Rejected
  <2>2. job.op \in {"verify", "bounce"} /\ (job.op = "verify" => ~job.was.enabled)
    BY <1>6 DEF Undoes, Settings
  <2>3. ~doubt' => script = ScriptOf(user) /\ UNCHANGED user
    BY <1>4, <2>2 DEF RedirectInv, ScriptInv, Synced
  <2>4. Exists' /\ ~doubt' /\ mailbox' # "gone" => (script = ScriptOf(user))'
    BY <2>3
  <2> QED
    BY <1>1, <1>3, <1>4, <2>1, <2>4, JobEnds
       DEF RedirectInv, AccountTyped, Scripts, ProvenInv, Known
<1> QED
  BY <1>5, <1>6

LEMMA WriteKeeps ==
  ASSUME RedirectInv, WriteSettings
  PROVE  RedirectInv'
<1>1. /\ job # Free /\ job.at = "write" /\ job.op \in Settings
      /\ UNCHANGED <<script, mailbox, proven>>
  BY DEF WriteSettings, Settings
<1>2. CASE /\ user' = Planned /\ Done
           /\ doubt' = (doubt /\ ~(job.op \in {"redirect", "bounce"} \/ job.was.enabled))
  <2>1. /\ Exists /\ mailbox # "gone" /\ user.left = 0 /\ user.status = "active"
    BY <1>1, SettingsFacts
  <2>2. /\ Planned \in User /\ Planned.status = "active" /\ Planned.left = 0
        /\ Known(Planned.external) /\ (~Synced => ~Planned.enabled)
    BY <1>1, PlannedFacts
  <2>3. ~doubt' => ~doubt \/ Synced
    BY <1>2 DEF Synced
  <2>4. CASE Synced
    <3>1. script' = ScriptOf(user')
      BY <1>1, <1>2, <2>4 DEF RedirectInv, ScriptInv
    <3>2. (script = ScriptOf(user))'
      BY <3>1 DEF ScriptOf
    <3> QED
      BY <1>1, <1>2, <2>1, <2>2, <3>2, JobEnds
         DEF RedirectInv, AccountTyped, Scripts, ProvenInv, Known
  <2>5. CASE ~Synced
    <3>1. Agrees /\ ~job.was.enabled
      BY <1>1, <2>5 DEF RedirectInv, ScriptInv, Synced
    <3>2. ScriptOf(user) = Off
      BY <3>1 DEF Agrees, ScriptOf
    <3>3. ~doubt => script = Off
      BY <1>1, <2>5, <3>2 DEF RedirectInv, ScriptInv
    <3>4. ScriptOf(Planned) = Off
      BY <2>2, <2>5 DEF ScriptOf
    <3>5. ~doubt' => (script = ScriptOf(user))'
      BY <1>1, <1>2, <2>3, <2>5, <3>3, <3>4 DEF ScriptOf
    <3> QED
      BY <1>1, <1>2, <2>1, <2>2, <3>5, JobEnds
         DEF RedirectInv, AccountTyped, Scripts, ProvenInv, Known
  <2> QED
    BY <2>4, <2>5
<1>3. CASE Rejected(FALSE) /\ UNCHANGED user
  BY <1>1, <1>3, RejectedKeeps
<1>4. CASE Rejected(TRUE) /\ user' = Planned
  BY <1>1, <1>4, RejectedKeeps
<1> QED
  BY <1>2, <1>3, <1>4 DEF WriteSettings

LEMMA PutBackKeeps ==
  ASSUME RedirectInv, PutBack
  PROVE  RedirectInv'
<1>1. /\ job # Free /\ job.at = "undo" /\ job.op \in Settings /\ Done
      /\ UNCHANGED <<user, mailbox, proven>>
  BY PlaceOps DEF PutBack
<1>2. /\ Exists /\ mailbox # "gone" /\ user.left = 0 /\ user.status = "active"
      /\ job.was \in User
  BY <1>1, SettingsFacts
<1>3. job.arg \in BOOLEAN /\ Known(job.was.external)
  BY <1>1 DEF RedirectInv, AccountTyped, JobTyped, ArgTyped, ProvenInv
<1>4. PICK w \in User : w = job.was
  BY <1>2
<1>5. ScriptOf(w) \in Scripts /\ ScriptOf(w).to \in {NoAddress, w.external}
  BY ScriptOfFacts
<1>6. script' \in Scripts /\ Known(script.to)'
  <2>1. CASE UNCHANGED script
    BY <1>1, <2>1 DEF RedirectInv, AccountTyped, Scripts, ProvenInv, Known
  <2>2. CASE script' = ScriptOf(w)
    BY <1>1, <1>3, <1>4, <1>5, <2>2 DEF Known
  <2> QED
    BY <1>4, <2>1, <2>2 DEF PutBack
<1>7. doubt' \in BOOLEAN /\ (~doubt' => ~job.arg /\ script' = ScriptOf(job.was))
  BY <1>3 DEF PutBack
<1>8. ~job.arg => ScriptOf(job.was) = ScriptOf(user)
  BY <1>1 DEF RedirectInv, ScriptInv, Agrees, ScriptOf
<1>9. ~doubt' => (script = ScriptOf(user))'
  BY <1>1, <1>7, <1>8 DEF ScriptOf
<1> QED
  BY <1>1, <1>2, <1>6, <1>7, <1>9, JobEnds
     DEF RedirectInv, AccountTyped, Scripts, ProvenInv, Known

(* An operation on the status or the deletion leaves the redirect alone.   *)
LEMMA StatusMoves ==
  ASSUME RedirectInv, job # Free, job.op \notin Settings, NEW place, Goto(place),
         UNCHANGED <<user, script, doubt, proven>>, place \in Steps(job.op), place # "undo",
         mailbox' \in {"on", "off", "gone"},
         mailbox' = "gone" => user.status \in {"deleting", "gone"} /\ user.left = 0,
         mailbox = "gone" => mailbox' = "gone",
         job.op = "status" /\ place \in {"mailbox", "write"} =>
           user.status \in {"active", "disabled"}
  PROVE  RedirectInv'
<1>1. /\ job'.op = job.op /\ job'.arg = job.arg /\ job'.at = place /\ job'.was = job.was
  BY GotoFacts DEF RedirectInv, AccountTyped
<1>2. ScriptInv'
  <2>1. Exists' <=> Exists
    BY DEF Exists
  <2>2. Exists /\ ~doubt /\ mailbox # "gone" => script = ScriptOf(user)
    BY DEF RedirectInv, ScriptInv, Untouched
  <2>3. (Untouched /\ Exists /\ ~doubt /\ mailbox # "gone" => script = ScriptOf(user))'
    BY <2>1, <2>2
  <2> QED
    BY <1>1, <2>3 DEF ScriptInv
<1>3. job.at # "undo"
  BY PlaceOps
<1>4. job.op # "verify"
  BY DEF Settings
<1> QED
  BY <1>2, <1>3, <1>4, JobMoves
     DEF RedirectInv, AccountTyped, Scripts, ProvenInv, Known

LEMMA SetMailboxKeeps ==
  ASSUME RedirectInv, SetMailbox
  PROVE  RedirectInv'
<1>1. /\ job # Free /\ job.at = "mailbox" /\ job.op = "status"
      /\ UNCHANGED <<user, script, proven, doubt>>
  BY PlaceOps DEF SetMailbox, past
<1>2. user.status \in {"active", "disabled"} /\ Exists /\ mailbox # "gone" /\ user.left = 0
  BY <1>1 DEF RedirectInv, StatusInv
<1>3. mailbox' \in {"on", "off"}
  BY <1>2 DEF SetMailbox, RedirectInv, AccountTyped
<1>4. job.op \notin Settings
  BY <1>1 DEF Settings
<1>5. ~doubt => script = ScriptOf(user)
  BY <1>1, <1>2, <1>4 DEF RedirectInv, ScriptInv, Untouched
<1>6. CASE Goto("write")
  <2>1. "write" \in Steps(job.op)
    BY <1>1 DEF Steps
  <2> QED
    BY <1>1, <1>2, <1>3, <1>4, <1>6, <2>1, StatusMoves
<1>7. CASE Done
  BY <1>1, <1>2, <1>3, <1>5, <1>7, JobEnds
     DEF RedirectInv, AccountTyped, Scripts, ProvenInv, Known
<1> QED
  BY <1>6, <1>7 DEF SetMailbox

LEMMA WaitFacts ==
  ASSUME NEW status
  PROVE  /\ Wait(status) \in Nat
         /\ status = "deleting" => Wait(status) = TokenLife + Margin
         /\ status # "deleting" => Wait(status) = 0
BY DEF Wait

LEMMA SetStatusShape ==
  ASSUME RedirectInv, SetStatus
  PROVE  /\ job # Free /\ job.op = "status" /\ job.op \notin Settings
         /\ user.status \in {"active", "disabled"} /\ Exists /\ mailbox # "gone"
         /\ user.left = 0 /\ UNCHANGED <<script, mailbox, proven, doubt>>
         /\ user' \in User /\ ScriptOf(user)' = ScriptOf(user)
         /\ user'.external = user.external
         /\ \/ /\ user'.status \in {"active", "disabled", "deleting"}
               /\ user'.left = Wait(user'.status)
            \/ user' = user
<1>1. /\ job # Free /\ job.at = "write" /\ job.op = "status" /\ job.op \notin Settings
      /\ UNCHANGED <<script, mailbox, proven, doubt>>
  BY DEF SetStatus, past, Settings
<1>2. user.status \in {"active", "disabled"} /\ Exists /\ mailbox # "gone" /\ user.left = 0
  BY <1>1 DEF RedirectInv, StatusInv
<1>3. PICK u \in User : u = user
  BY DEF RedirectInv, AccountTyped
<1>4. PICK s \in {"active", "disabled", "deleting"} : s = job.arg
  BY <1>1 DEF RedirectInv, AccountTyped, JobTyped, ArgTyped
<1>5. PICK n \in Nat : n = Wait(s)
  BY WaitFacts
<1>6. CASE user' = [user EXCEPT !.status = job.arg, !.left = Wait(job.arg)]
  <2>1. PICK v : v = [u EXCEPT !.status = s, !.left = n]
    OBVIOUS
  <2>2. user' = v
    BY <1>3, <1>4, <1>5, <1>6, <2>1
  <2>3. /\ v \in User /\ v.status = s /\ v.left = n /\ v.external = u.external
        /\ v.enabled = u.enabled /\ v.keep = u.keep
    BY <2>1 DEF User
  <2>4. ScriptOf(user)' = ScriptOf(user)
    BY <1>3, <2>2, <2>3 DEF ScriptOf
  <2> QED
    BY <1>1, <1>2, <1>3, <1>5, <2>2, <2>3, <2>4
<1>7. CASE user' = user
  BY <1>1, <1>2, <1>3, <1>7 DEF ScriptOf
<1> QED
  BY <1>6, <1>7 DEF SetStatus

LEMMA SetStatusKeeps ==
  ASSUME RedirectInv, SetStatus
  PROVE  RedirectInv'
<1>1. /\ job # Free /\ job.op = "status" /\ job.op \notin Settings
      /\ user.status \in {"active", "disabled"} /\ Exists /\ mailbox # "gone"
      /\ user.left = 0 /\ UNCHANGED <<script, mailbox, proven, doubt>>
      /\ user' \in User /\ ScriptOf(user)' = ScriptOf(user)
      /\ user'.external = user.external
      /\ user'.status \in {"active", "disabled", "deleting"}
      /\ user'.status # "deleting" => user'.left = 0
  BY SetStatusShape, WaitFacts
<1>2. ~doubt => script = ScriptOf(user)
  BY <1>1 DEF RedirectInv, ScriptInv, Untouched
<1>3. ~doubt' => (script = ScriptOf(user))'
  BY <1>1, <1>2
<1>4. CASE Done
  BY <1>1, <1>3, <1>4, JobEnds
     DEF RedirectInv, AccountTyped, Scripts, ProvenInv, Known
<1>5. CASE Goto("both")
  <2>1. /\ job'.op = job.op /\ job'.arg = job.arg /\ job'.at = "both" /\ job'.was = job.was
        /\ Shaped' /\ job' # Free
    BY <1>1, <1>5, GotoFacts DEF RedirectInv, AccountTyped
  <2>2. "both" \in Steps(job.op)
    BY <1>1 DEF Steps
  <2>3. ArgTyped'
    BY <1>1, <2>1 DEF RedirectInv, AccountTyped, JobTyped, ArgTyped
  <2>4. AccountTyped'
    BY <1>1, <2>1, <2>2, <2>3 DEF RedirectInv, AccountTyped, JobTyped
  <2>5. StatusInv'
    BY <1>1, <2>1 DEF StatusInv, Exists
  <2>6. ProvenInv'
    BY <1>1, <2>1 DEF RedirectInv, ProvenInv, Known
  <2>7. ScriptInv'
    BY <1>1, <1>3, <2>1 DEF ScriptInv
  <2> QED
    BY <2>4, <2>5, <2>6, <2>7 DEF RedirectInv
<1> QED
  BY <1>4, <1>5 DEF SetStatus

LEMMA SettledKeeps ==
  ASSUME RedirectInv, EndWebSessions \/ EndGrants
  PROVE  RedirectInv'
<1>1. /\ job # Free /\ job.at \in {"both", "web", "oidc"} /\ job.op = "status"
      /\ UNCHANGED <<user, script, mailbox, proven, doubt>>
  BY PlaceOps DEF EndWebSessions, EndGrants, Settled, stores, past
<1>2. job.op \notin Settings
  BY <1>1 DEF Settings
<1>3. /\ user.status \in {"active", "disabled", "deleting"} /\ Exists
      /\ mailbox = "gone" => user.left = 0 /\ user.status = "deleting"
      /\ mailbox = "gone" \/ user.status # "deleting" => user.left = 0
  BY <1>1 DEF RedirectInv, StatusInv
<1>4. Exists /\ ~doubt /\ mailbox # "gone" => script = ScriptOf(user)
  BY <1>2 DEF RedirectInv, ScriptInv, Untouched
<1>5. CASE Done
  BY <1>1, <1>3, <1>4, <1>5, JobEnds
     DEF RedirectInv, AccountTyped, Scripts, ProvenInv, Known
<1>6. CASE Goto("web") \/ Goto("oidc")
  <2>1. PICK place \in {"web", "oidc"} : Goto(place)
    BY <1>6
  <2>2. place \in Steps(job.op)
    BY <1>1 DEF Steps
  <2> QED
    BY <1>1, <1>2, <1>3, <2>1, <2>2, StatusMoves DEF RedirectInv, AccountTyped
<1> QED
  BY <1>5, <1>6 DEF EndWebSessions, EndGrants, Settled

LEMMA DestroyMailboxKeeps ==
  ASSUME RedirectInv, DestroyMailbox
  PROVE  RedirectInv'
<1>1. /\ job # Free /\ job.at = "destroy" /\ job.op = "finish"
      /\ UNCHANGED <<user, proven, doubt>>
  BY PlaceOps DEF DestroyMailbox, past
<1>2. user.status = "deleting" /\ user.left = 0 /\ Exists
  BY <1>1 DEF RedirectInv, StatusInv
<1>3. job.op \notin Settings
  BY <1>1 DEF Settings
<1>4. Off \in Scripts /\ Off.to = NoAddress
  BY DEF Off, Scripts
<1>5. \/ mailbox' = "gone" /\ script' = Off
      \/ UNCHANGED <<mailbox, script>>
  BY DEF DestroyMailbox
<1>6. script' \in Scripts /\ Known(script.to)' /\ mailbox' \in {"on", "off", "gone"}
  BY <1>1, <1>4, <1>5 DEF RedirectInv, AccountTyped, Scripts, ProvenInv, Known
<1>7. Exists /\ ~doubt /\ mailbox' # "gone" => script' = ScriptOf(user)
  BY <1>3, <1>5 DEF RedirectInv, ScriptInv, Untouched
<1>8. Exists' /\ ~doubt' /\ mailbox' # "gone" => (script = ScriptOf(user))'
  BY <1>1, <1>2, <1>7 DEF ScriptOf
<1>9. CASE Done
  BY <1>1, <1>2, <1>6, <1>8, <1>9, JobEnds
     DEF RedirectInv, AccountTyped, ProvenInv, Known
<1>10. CASE Goto("erase")
  <2>1. /\ job'.op = job.op /\ job'.arg = job.arg /\ job'.at = "erase" /\ job'.was = job.was
    BY <1>1, <1>10, GotoFacts DEF RedirectInv, AccountTyped
  <2>2. ScriptInv'
    BY <1>1, <1>3, <1>8, <2>1 DEF ScriptInv
  <2>3. "erase" \in Steps(job.op)
    BY <1>1 DEF Steps
  <2> QED
    BY <1>1, <1>2, <1>6, <1>10, <2>2, <2>3, JobMoves DEF RedirectInv, AccountTyped
<1> QED
  BY <1>9, <1>10 DEF DestroyMailbox

LEMMA EraseKeeps ==
  ASSUME RedirectInv, EraseUser
  PROVE  /\ RedirectInv' /\ user.status = "deleting" /\ user.left = 0
         /\ user'.status \in {"deleting", "gone"} /\ user'.left = 0
<1>1. /\ job # Free /\ job.at = "erase" /\ job.op = "finish" /\ Done
      /\ UNCHANGED <<script, mailbox, proven, doubt>>
  BY PlaceOps DEF EraseUser, past
<1>2. user.status = "deleting" /\ user.left = 0 /\ Exists
  BY <1>1 DEF RedirectInv, StatusInv
<1>3. job.op \notin Settings
  BY <1>1 DEF Settings
<1>4. PICK u \in User : u = user
  BY DEF RedirectInv, AccountTyped
<1>5. PICK v : v = [u EXCEPT !.status = "gone"]
  OBVIOUS
<1>6. /\ v \in User /\ v.status = "gone" /\ v.left = u.left /\ v.external = u.external
  BY <1>5 DEF User
<1>7. user' = v \/ user' = user
  BY <1>4, <1>5 DEF EraseUser
<1>8. Exists /\ ~doubt /\ mailbox # "gone" => script = ScriptOf(user)
  BY <1>3 DEF RedirectInv, ScriptInv, Untouched
<1>9. Exists' /\ ~doubt' /\ mailbox' # "gone" => (script = ScriptOf(user))'
  BY <1>1, <1>2, <1>6, <1>7, <1>8 DEF Exists
<1>10. RedirectInv'
  BY <1>1, <1>2, <1>4, <1>6, <1>7, <1>9, JobEnds
     DEF RedirectInv, AccountTyped, Scripts, ProvenInv, Known
<1> QED
  BY <1>2, <1>4, <1>6, <1>7, <1>10

LEMMA CrashKeeps ==
  ASSUME RedirectInv, Crash
  PROVE  RedirectInv'
<1>1. /\ job # Free /\ Done /\ UNCHANGED <<user, script, mailbox, proven>>
      /\ doubt' = (doubt \/ job.at \in {"sync", "write", "undo"})
  BY DEF Crash, stores
<1>2. Untouched \/ job.at \in {"sync", "write", "undo"}
  BY <1>1 DEF RedirectInv, AccountTyped, JobTyped, Untouched, Steps, Settings
<1>3. Exists /\ ~doubt' /\ mailbox # "gone" => script = ScriptOf(user)
  BY <1>1, <1>2 DEF RedirectInv, ScriptInv
<1> QED
  BY <1>1, <1>3, JobEnds
     DEF RedirectInv, AccountTyped, Scripts, ProvenInv, Known, StatusInv

LEMMA RedirectStep ==
  ASSUME RedirectInv, [Next]_vars
  PROVE  RedirectInv'
<1>1. CASE \/ \E a \in Addresses : me_email_verify(a) \/ redirect_bounce_register(a)
           \/ me_email_remove
           \/ \E on, keep \in BOOLEAN : me_redirect_update(on, keep)
           \/ \E status \in {"active", "disabled"} : user_update(status)
           \/ user_delete
  BY <1>1, StartsKeep
<1>2. CASE user_deletions_finish \/ Tick \/ Crash
  BY <1>2, FinishStartKeeps, TickKeeps, CrashKeeps
<1>3. CASE JobStep
  BY <1>3, CodeKeeps, AddressFreeKeeps, CountBounceKeeps, SyncKeeps, WriteKeeps,
     PutBackKeeps, SetMailboxKeeps, SetStatusKeeps, SettledKeeps, DestroyMailboxKeeps,
     EraseKeeps DEF JobStep
<1>4. CASE UNCHANGED <<stores, job, past>>
  <2>1. UNCHANGED <<user, script, mailbox, job, proven, doubt>>
    BY <1>4 DEF stores, past
  <2>2. AccountTyped'
    BY <2>1 DEF RedirectInv, AccountTyped, JobTyped, Shaped, ArgTyped
  <2>3. StatusInv' /\ ProvenInv'
    BY <2>1 DEF RedirectInv, StatusInv, Exists, ProvenInv, Known
  <2>4. ScriptInv'
    <3>1. /\ (Untouched' <=> Untouched) /\ (Exists' <=> Exists) /\ (Agrees' <=> Agrees)
          /\ (Synced' <=> Synced)
      BY <2>1 DEF Untouched, Exists, Agrees, Synced
    <3>2. ScriptOf(user)' = ScriptOf(user) /\ ScriptOf(Planned)' = ScriptOf(Planned)
      BY <2>1 DEF ScriptOf, Planned
    <3> QED
      BY <2>1, <3>1, <3>2 DEF RedirectInv, ScriptInv
  <2> QED
    BY <2>2, <2>3, <2>4 DEF RedirectInv
<1>5. CASE \/ \E a \in Addresses : OtherTakes(a)
           \/ \E b \in Browsers :
                Login(b) \/ FindAccount(b) \/ SaveGrant(b) \/ ExchangeCode(b)
                  \/ InsertSession(b) \/ Logout(b) \/ extraTokenClaims(b)
           \/ SignMailToken \/ UNCHANGED vars
  <2>1. UNCHANGED <<stores, job, past>>
    BY <1>5 DEF OtherTakes, Login, FindAccount, SaveGrant, ExchangeCode, InsertSession,
       Logout, extraTokenClaims, SignMailToken, vars
  <2> QED
    BY <1>4, <2>1
<1> QED
  BY <1>1, <1>2, <1>3, <1>5 DEF Next

-----------------------------------------------------------------------------
(* Mail tokens and the deletion.                                           *)

(* Who changes the status, or the time left to a deletion.                 *)
LEMMA UserStep ==
  ASSUME RedirectInv, [Next]_vars
  PROVE  \/ user'.status = user.status /\ user'.left = user.left
         \/ Tick \/ SetStatus \/ EraseUser
<1>1. CASE CountBounce
  <2>1. PICK u \in User : u = user
    BY DEF RedirectInv, AccountTyped
  <2>2. user' = [u EXCEPT !.bounces = u.bounces + 1] \/ user' = user
    BY <1>1, <2>1 DEF CountBounce
  <2> QED
    BY <2>1, <2>2 DEF User
<1>2. CASE WriteSettings
  <2>1. job.op \in Settings /\ job.at = "write" /\ (user' = Planned \/ user' = user)
    BY <1>2 DEF WriteSettings, Settings
  <2>2. Planned.status = user.status /\ Planned.left = user.left
    BY <2>1, PlannedFacts, SettingsFacts
  <2> QED
    BY <2>1, <2>2
<1>3. CASE JobStep /\ ~CountBounce /\ ~WriteSettings /\ ~SetStatus /\ ~EraseUser
  <2>1. UNCHANGED user
    BY <1>3 DEF JobStep, CodeChecked, AddressFree, SyncScript, PutBack, SetMailbox,
       EndWebSessions, EndGrants, DestroyMailbox, stores
  <2> QED
    BY <2>1
<1>4. CASE ~JobStep /\ ~Tick
  <2>1. UNCHANGED user
    BY <1>4 DEF Next, vars, stores, me_email_verify, redirect_bounce_register, OtherTakes,
       me_email_remove, me_redirect_update, user_update, user_delete, Start,
       user_deletions_finish, Login, FindAccount, SaveGrant, ExchangeCode, InsertSession,
       Logout, extraTokenClaims, SignMailToken, Crash
  <2> QED
    BY <2>1
<1> QED
  BY <1>1, <1>2, <1>3, <1>4 DEF JobStep

(* Who changes the mail tokens.                                            *)
LEMMA MailStep ==
  ASSUME [Next]_vars
  PROVE  \/ UNCHANGED mail
         \/ Tick \/ SignMailToken \/ Crash \/ \E b \in Browsers : extraTokenClaims(b)
<1>1. CASE JobStep
  BY <1>1 DEF JobStep, CodeChecked, AddressFree, CountBounce, SyncScript, WriteSettings,
     PutBack, SetMailbox, SetStatus, EndWebSessions, EndGrants, DestroyMailbox, EraseUser, web
<1>2. CASE ~JobStep
  BY <1>2 DEF Next, vars, web, me_email_verify, redirect_bounce_register, OtherTakes,
     me_email_remove, me_redirect_update, user_update, user_delete, Start,
     user_deletions_finish, Login, FindAccount, SaveGrant, ExchangeCode, InsertSession, Logout
<1> QED
  BY <1>1, <1>2

LEMMA TokenStep ==
  ASSUME RedirectInv, TokenInv, [Next]_vars
  PROVE  TokenInv'
<1>1. /\ Margin \in Nat \ {0} /\ TokenLife \in Nat \ {0}
      /\ mail.signing \in Nat /\ mail.live \in Nat /\ user.left \in Nat
      /\ user.status \in {"active", "disabled", "deleting", "gone"}
  BY DEF TokenInv, RedirectInv, AccountTyped, User
<1>2. CASE Tick
  <2>1. /\ mail' = [signing |-> Less(mail.signing), live |-> Less(mail.live)]
        /\ user' = [user EXCEPT !.left = Less(user.left)] /\ mail.signing # 1
    BY <1>2 DEF Tick
  <2>2. user'.left = Less(user.left) /\ user'.status = user.status
    <3>1. PICK u \in User : u = user
      BY DEF RedirectInv, AccountTyped
    <3>2. PICK n : n = Less(u.left)
      OBVIOUS
    <3>3. user' = [u EXCEPT !.left = n]
      BY <2>1, <3>1, <3>2
    <3> QED
      BY <3>1, <3>2, <3>3 DEF User
  <2>3. mail'.signing = Less(mail.signing) /\ mail'.live = Less(mail.live)
    BY <2>1
  <2>4. /\ mail'.signing \in Nat /\ mail'.live \in Nat
        /\ mail'.signing = IF mail.signing = 0 THEN 0 ELSE mail.signing - 1
        /\ mail'.live = IF mail.live = 0 THEN 0 ELSE mail.live - 1
        /\ user'.left = IF user.left = 0 THEN 0 ELSE user.left - 1
    BY <1>1, <2>2, <2>3 DEF Less
  <2>5. mail' \in [signing : Nat, live : Nat]
    BY <2>1, <2>3, <2>4
  <2> QED
    BY <1>1, <2>1, <2>2, <2>4, <2>5 DEF TokenInv
<1>3. CASE SignMailToken
  <2>1. mail.signing > 0 /\ mail' = [signing |-> 0, live |-> TokenLife] /\ UNCHANGED user
    BY <1>3 DEF SignMailToken, stores
  <2> QED
    BY <1>1, <2>1 DEF TokenInv
<1>4. CASE Crash
  <2>1. mail' = [mail EXCEPT !.signing = 0] /\ UNCHANGED user
    BY <1>4 DEF Crash, stores
  <2>2. PICK m \in [signing : Nat, live : Nat] : m = mail
    BY DEF TokenInv
  <2>3. mail' \in [signing : Nat, live : Nat] /\ mail'.signing = 0 /\ mail'.live = mail.live
    BY <2>1, <2>2
  <2> QED
    BY <1>1, <2>1, <2>3 DEF TokenInv
<1>5. ASSUME NEW b \in Browsers, extraTokenClaims(b)
      PROVE  TokenInv'
  <2>1. mail' = [mail EXCEPT !.signing = Margin] /\ UNCHANGED user /\ user.status = "active"
    BY <1>5 DEF extraTokenClaims, stores, Active
  <2>2. PICK m \in [signing : Nat, live : Nat] : m = mail
    BY DEF TokenInv
  <2>3. mail' \in [signing : Nat, live : Nat] /\ mail'.signing = Margin /\ mail'.live = mail.live
    BY <1>1, <2>1, <2>2
  <2> QED
    BY <1>1, <2>1, <2>3 DEF TokenInv
<1>6. CASE UNCHANGED mail /\ SetStatus
  <2>1. \/ /\ user'.status \in {"active", "disabled", "deleting"}
           /\ user'.left = Wait(user'.status)
        \/ user' = user
    BY <1>6, SetStatusShape
  <2>2. user'.status = "deleting" =>
          user'.left = TokenLife + Margin \/ user' = user
    BY <2>1, WaitFacts
  <2>3. user'.status = "gone" => user' = user
    BY <2>1
  <2> QED
    BY <1>1, <1>6, <2>2, <2>3 DEF TokenInv
<1>7. CASE UNCHANGED mail /\ EraseUser
  <2>1. /\ user.status = "deleting" /\ user.left = 0
        /\ user'.status \in {"deleting", "gone"} /\ user'.left = 0
    BY <1>7, EraseKeeps
  <2>2. mail.live = 0 /\ mail.signing = 0
    BY <1>1, <2>1 DEF TokenInv
  <2> QED
    BY <1>1, <1>7, <2>1, <2>2 DEF TokenInv
<1>8. CASE UNCHANGED mail /\ user'.status = user.status /\ user'.left = user.left
  BY <1>8 DEF TokenInv
<1> QED
  BY <1>2, <1>3, <1>4, <1>5, <1>6, <1>7, <1>8, MailStep, UserStep

-----------------------------------------------------------------------------
(* The inductive invariant and what follows.                               *)

LEMMA InitAccount ==
  ASSUME Init
  PROVE  AccountInv
<1>1. user \in User /\ user.status = "active" /\ user.left = 0 /\ user.external = NoAddress
      /\ user.enabled = FALSE
  BY DEF Init, User
<1>2. script = Off /\ Off \in Scripts /\ Off.to = NoAddress /\ mailbox = "on"
  BY DEF Init, Off, Scripts
<1>3. job = Free /\ job.op = "free" /\ doubt = FALSE
  BY DEF Init, Free
<1>4. AccountTyped
  BY <1>1, <1>2, <1>3 DEF AccountTyped, JobTyped, Scripts
<1>5. StatusInv
  BY <1>1, <1>2, <1>3 DEF StatusInv, Settings
<1>6. ProvenInv
  BY <1>1, <1>2, <1>3 DEF ProvenInv, Known
<1>7. ScriptOf(user) = Off
  BY <1>1 DEF ScriptOf
<1>8. ScriptInv
  BY <1>2, <1>3, <1>7 DEF ScriptInv, Settings
<1>9. TokenInv
  BY <1>1 DEF Init, TokenInv
<1>10. SessionInv
  BY DEF Init, SessionInv, Stages
<1> QED
  BY <1>4, <1>5, <1>6, <1>8, <1>9, <1>10 DEF AccountInv, RedirectInv

LEMMA AccountAlways == Spec => []AccountInv
<1>1. AccountInv /\ [Next]_vars => AccountInv'
  BY RedirectStep, TokenStep, SessionStep DEF AccountInv
<1> QED
  BY <1>1, InitAccount, PTL DEF Spec

(* Stalwart forwards only to an address whose owner gave back its code,    *)
(* also after failed updates, undone ones, bounces and crashes.            *)
THEOREM ForwardsOnlyProvenHolds == Spec => []ForwardsOnlyProven
<1>1. AccountInv => ForwardsOnlyProven
  <2> SUFFICES ASSUME AccountInv, script # Off PROVE script.to \in proven
    BY DEF ForwardsOnlyProven
  <2>1. script.to \in Addresses
    BY DEF AccountInv, RedirectInv, AccountTyped, Scripts
  <2> QED
    BY <2>1 DEF AccountInv, RedirectInv, ProvenInv, Known
<1> QED
  BY <1>1, AccountAlways, PTL

(* Between operations the script is the one the database describes, unless *)
(* a failed call was not made good.                                        *)
THEOREM ScriptMatchesHolds == Spec => []ScriptMatches
<1>1. AccountInv => ScriptMatches
  BY FreeOp DEF AccountInv, RedirectInv, ScriptInv, Untouched, ScriptMatches
<1> QED
  BY <1>1, AccountAlways, PTL

(* A session that survives an ending of all sessions belongs to a sign-in  *)
(* that had passed its last check of the user but not yet its last insert. *)
THEOREM SurvivorsRacedHolds == Spec => []SurvivorsRaced
<1>1. AccountInv => SurvivorsRaced
  BY DEF AccountInv, SessionInv, SurvivorsRaced, SignedIn
<1> QED
  BY <1>1, AccountAlways, PTL

(* A user queued for deletion stays so until it is gone, and its mailbox   *)
(* goes only when no mail token for it is valid or being signed any more.  *)
THEOREM DeletionIsFinalHolds == Spec => DeletionIsFinal
<1>1. ASSUME AccountInv, AccountInv', [Next]_vars
      PROVE  [/\ user.status = "deleting" => user'.status \in {"deleting", "gone"}
              /\ mailbox' = "gone" => mail'.live = 0 /\ mail'.signing = 0]_vars
  <2>1. user.status = "deleting" => user'.status \in {"deleting", "gone"}
    <3>1. CASE Tick
      <4>1. PICK u \in User : u = user
        BY <1>1 DEF AccountInv, RedirectInv, AccountTyped
      <4>2. PICK n : n = Less(u.left)
        OBVIOUS
      <4>3. user' = [u EXCEPT !.left = n]
        BY <3>1, <4>1, <4>2 DEF Tick
      <4> QED
        BY <4>1, <4>3 DEF User
    <3>2. CASE SetStatus
      BY <1>1, <3>2, SetStatusShape DEF AccountInv
    <3>3. CASE EraseUser
      BY <1>1, <3>3, EraseKeeps DEF AccountInv
    <3> QED
      BY <1>1, <3>1, <3>2, <3>3, UserStep DEF AccountInv
  <2>2. mailbox' = "gone" => mail'.live = 0 /\ mail'.signing = 0
    <3> SUFFICES ASSUME mailbox' = "gone" PROVE mail'.live = 0 /\ mail'.signing = 0
      OBVIOUS
    <3>1. user'.status \in {"deleting", "gone"} /\ user'.left = 0
      BY <1>1 DEF AccountInv, RedirectInv, StatusInv
    <3>2. mail'.signing \in Nat /\ mail'.live \in Nat /\ TokenLife \in Nat \ {0}
      BY <1>1 DEF AccountInv, TokenInv
    <3> QED
      BY <1>1, <3>1, <3>2 DEF AccountInv, TokenInv
  <2> QED
    BY <2>1, <2>2
<1>2. AccountInv /\ AccountInv' /\ [Next]_vars =>
        [/\ user.status = "deleting" => user'.status \in {"deleting", "gone"}
         /\ mailbox' = "gone" => mail'.live = 0 /\ mail'.signing = 0]_vars
  BY <1>1
<1> QED
  BY <1>2, AccountAlways, PTL DEF Spec, DeletionIsFinal
=============================================================================
