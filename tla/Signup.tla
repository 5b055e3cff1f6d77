------------------------------- MODULE Signup -------------------------------
(***************************************************************************)
(* Invites, sign-up and the administration of users (accounts.ts).         *)
(*                                                                         *)
(* A sign-up spends an invite, a username and an address in MongoDB and    *)
(* makes a mailbox at Stalwart, in an order that lets each step be undone. *)
(* It holds no account lock: other sign-ups, the admin, the deletion       *)
(* worker and the clock act between any two of its calls.  Each call to    *)
(* MongoDB or Stalwart is one step.  A call that fails may have had its    *)
(* effect ("db", "stalwart" in Faults), and the process may die ("crash"). *)
(***************************************************************************)
EXTENDS Naturals, FiniteSets

CONSTANTS
  Signups,      \* attempts; an attempt also names the id_user and the mailbox it makes
  Invites,      \* invites that exist, by the code in their link
  Code,         \* the invite an attempt brings
  Username,     \* the name it asks for
  Address,      \* the external address it brings, or NoOne
  MaxAdmin,     \* bound: admin operations in a behaviour
  Faults,       \* which of "crash", "db", "stalwart" may happen
  MaxFaults     \* bound: faults of one kind in a behaviour

NoOne == "no one"

ASSUME SignupAssumption ==
  /\ IsFiniteSet(Signups) /\ NoOne \notin Signups
  /\ Code \in [Signups -> Invites]
  /\ DOMAIN Username = Signups /\ DOMAIN Address = Signups
  /\ MaxAdmin \in Nat /\ MaxFaults \in Nat

VARIABLES
  invites,    \* the invites collection
  users,      \* the users collection, by id_user
  mailboxes,  \* accounts at Stalwart: whether they may authenticate, by maker
  pc,         \* where each sign-up is suspended
  admin,      \* per user: the operation that holds its account lock
  budget,     \* admin operations left
  failed,     \* history: how often each kind of fault has happened
  torn,       \* history: users an admin operation left half changed, or met half made
  strays      \* history: mailboxes nobody knows the id of any more

vars == <<invites, users, mailboxes, pc, admin, budget, failed, torn, strays>>
history == <<failed, torn, strays>>

(* An invite is used when used_by # NoOne.  No two reservations share a    *)
(* reserved_until, so reserved names the attempt; lapsed: it has passed.   *)
Idle == [op |-> "none", at |-> "none", linked |-> FALSE]

Goto(s, place) == pc' = [pc EXCEPT ![s] = place]
Without(f, x) == [y \in DOMAIN f \ {x} |-> f[y]]
With(f, x, v) == [y \in DOMAIN f \cup {x} |-> IF y = x THEN v ELSE f[y]]
SetUser(s, record) == users' = [users EXCEPT ![s] = record]
SetInvite(i, record) == invites' = [invites EXCEPT ![i] = record]

Fault(what) ==
  /\ what \in Faults /\ failed[what] < MaxFaults
  /\ failed' = [failed EXCEPT ![what] = @ + 1]

(* A call that fails: with its effect on the store, or without.            *)
Fails(what, effect, store) ==
  /\ Fault(what)
  /\ effect \/ UNCHANGED store

(* A call of sign-up s that goes on at one place, or throws to another.    *)
Call(s, what, effect, store, next, error) ==
  \/ effect /\ Goto(s, next) /\ UNCHANGED failed
  \/ Fails(what, effect, store) /\ Goto(s, error)

invite_status(i) ==
  IF invites[i].used_by # NoOne THEN "used"
  ELSE IF invites[i].revoked THEN "revoked"
  ELSE IF invites[i].expired THEN "expired" ELSE "active"

NameFree(s) == \A u \in DOMAIN users : Username[u] # Username[s]
external_email_free(s) ==
  Address[s] = NoOne \/ \A u \in DOMAIN users : Address[u] # Address[s]

Init ==
  /\ invites = [i \in Invites |-> [used_by |-> NoOne, revoked |-> FALSE,
                 expired |-> FALSE, reserved |-> NoOne, lapsed |-> FALSE]]
  /\ users = <<>> /\ mailboxes = <<>>
  /\ pc = [s \in Signups |-> "idle"]
  /\ admin = [s \in Signups |-> Idle]
  /\ budget = MaxAdmin
  /\ failed = [what \in Faults |-> 0] /\ torn = {} /\ strays = {}

-----------------------------------------------------------------------------
(* Signing up.                                                             *)

(* Input checks and invite_find_usable. *)
Preview(s) ==
  /\ pc[s] = "idle"
  /\ Goto(s, IF invite_status(Code[s]) = "active" THEN "checking" ELSE "refused")
  /\ UNCHANGED <<invites, users, mailboxes, admin, budget, history>>

(* username_taken, external_email_free, code_check, password_hash.  They   *)
(* refuse early; the unique indexes decide when the user is inserted.      *)
CheckFree(s) ==
  /\ pc[s] = "checking"
  /\ \/ NameFree(s) /\ external_email_free(s) /\ Goto(s, "reserving")
     \/ ~(NameFree(s) /\ external_email_free(s)) /\ Goto(s, "refused")
     \/ Address[s] # NoOne /\ Goto(s, "refused")
  /\ UNCHANGED <<invites, users, mailboxes, admin, budget, history>>

(* The filter of invite_reserve. *)
Reservable(i) ==
  /\ invite_status(i) = "active"
  /\ invites[i].reserved = NoOne \/ invites[i].lapsed

invite_reserve(s) ==
  LET hold == SetInvite(Code[s], [invites[Code[s]] EXCEPT !.reserved = s, !.lapsed = FALSE])
  IN
  /\ pc[s] = "reserving"
  /\ IF Reservable(Code[s]) THEN Call(s, "db", hold, invites, "inserting", "refused")
     ELSE Goto(s, "refused") /\ UNCHANGED <<invites, failed>>
  /\ UNCHANGED <<users, mailboxes, admin, budget, torn, strays>>

(* users.insertOne with status "disabled", under two unique indexes. *)
InsertUser(s) ==
  LET insert == users' = With(users, s, [status |-> "disabled", linked |-> FALSE, due |-> FALSE])
  IN
  /\ pc[s] = "inserting"
  /\ IF NameFree(s) /\ external_email_free(s)
     THEN Call(s, "db", insert, users, "creating", "releasing")
     ELSE Goto(s, "releasing") /\ UNCHANGED <<users, failed>>
  /\ UNCHANGED <<invites, mailboxes, admin, budget, torn, strays>>

(* stalwart_account_create.  Stalwart refuses a name that exists; without  *)
(* an answer the handler never learns the mailbox's id.                    *)
CreateMailbox(s) ==
  /\ pc[s] = "creating"
  /\ IF \A m \in DOMAIN mailboxes : Username[m] # Username[s]
     THEN /\ Call(s, "stalwart", mailboxes' = With(mailboxes, s, TRUE), mailboxes,
                  "finalizing", "resetting")
          /\ strays' = IF pc'[s] = "resetting" THEN strays \cup {s} ELSE strays
     ELSE Goto(s, "resetting") /\ UNCHANGED <<mailboxes, failed, strays>>
  /\ UNCHANGED <<invites, users, admin, budget, torn>>

(* The filter that finalizes an invite: the reservation is still ours. *)
Owns(s) ==
  LET i == invites[Code[s]]
  IN  i.used_by = NoOne /\ ~i.revoked /\ i.reserved = s

Finalize(s) ==
  LET spend == SetInvite(Code[s], [invites[Code[s]] EXCEPT !.used_by = s, !.reserved = NoOne])
  IN
  /\ pc[s] = "finalizing"
  /\ IF Owns(s) THEN Call(s, "db", spend, invites, "activating", "destroying")
     ELSE Goto(s, "destroying") /\ UNCHANGED <<invites, failed>>
  /\ UNCHANGED <<users, mailboxes, admin, budget, torn, strays>>

(* users.updateOne({ id_user }), whatever status the user has by now. *)
Activate(s) ==
  LET write == IF s \in DOMAIN users
               THEN SetUser(s, [users[s] EXCEPT !.status = "active", !.linked = TRUE])
               ELSE UNCHANGED users
  IN
  /\ pc[s] = "activating"
  /\ Call(s, "db", write, users, "done", "destroying")
  /\ UNCHANGED <<invites, mailboxes, admin, budget, torn, strays>>

(* Mutant of DestroyMailbox: the rollback goes on when Stalwart fails. *)
DestroyMailboxOrGoOn(s) ==
  /\ pc[s] = "destroying"
  /\ Call(s, "stalwart", mailboxes' = Without(mailboxes, s), mailboxes, "resetting", "resetting")
  /\ UNCHANGED <<invites, users, admin, budget, torn, strays>>

(* The rollback of a made mailbox; if it fails, the user stays disabled    *)
(* and keeps its name (502).                                               *)
DestroyMailbox(s) ==
  /\ pc[s] = "destroying"
  /\ Call(s, "stalwart", mailboxes' = Without(mailboxes, s), mailboxes, "resetting", "kept")
  /\ UNCHANGED <<invites, users, admin, budget, torn, strays>>

(* Mutant of ResetInvite: the filter on used_by is missing. *)
ResetAnyInvite(s) ==
  /\ pc[s] = "resetting"
  /\ Call(s, "db", SetInvite(Code[s], [invites[Code[s]] EXCEPT !.used_by = NoOne]),
          invites, "deleting", "error")
  /\ UNCHANGED <<users, mailboxes, admin, budget, torn, strays>>

(* The invite becomes unused again if this user had it; an error here      *)
(* leaves the rest of the rollback undone.                                 *)
ResetInvite(s) ==
  LET reset == IF invites[Code[s]].used_by = s
               THEN SetInvite(Code[s], [invites[Code[s]] EXCEPT !.used_by = NoOne])
               ELSE UNCHANGED invites
  IN
  /\ pc[s] = "resetting"
  /\ Call(s, "db", reset, invites, "deleting", "error")
  /\ UNCHANGED <<users, mailboxes, admin, budget, torn, strays>>

(* users.deleteOne; a failure is logged and swallowed. *)
DeleteUser(s) ==
  /\ pc[s] = "deleting"
  /\ Call(s, "db", users' = Without(users, s), users, "releasing", "releasing")
  /\ UNCHANGED <<invites, mailboxes, admin, budget, torn, strays>>

(* invite_release: by the invite's id, whoever's reservation it is. *)
invite_release(s) ==
  LET i     == invites[Code[s]]
      clear == IF i.used_by # NoOne THEN UNCHANGED invites
               ELSE SetInvite(Code[s], [i EXCEPT !.reserved = NoOne, !.lapsed = FALSE])
  IN
  /\ pc[s] = "releasing"
  /\ Call(s, "db", clear, invites, "refused", "refused")
  /\ UNCHANGED <<users, mailboxes, admin, budget, torn, strays>>

-----------------------------------------------------------------------------
(* The admin, the deletion worker and the clock.                           *)

(* invite_revoke: only while it is unused. *)
invite_revoke(i) ==
  /\ invites[i].used_by = NoOne /\ ~invites[i].revoked
  /\ SetInvite(i, [invites[i] EXCEPT !.revoked = TRUE])
  /\ UNCHANGED <<users, mailboxes, pc, admin, budget, history>>

Expire(i) ==
  /\ ~invites[i].expired
  /\ SetInvite(i, [invites[i] EXCEPT !.expired = TRUE])
  /\ UNCHANGED <<users, mailboxes, pc, admin, budget, history>>

(* reserved_until passes while the attempt is still at work. *)
Lapse(i) ==
  /\ invites[i].reserved # NoOne /\ ~invites[i].lapsed
  /\ SetInvite(i, [invites[i] EXCEPT !.lapsed = TRUE])
  /\ UNCHANGED <<users, mailboxes, pc, admin, budget, history>>

InFlight == {"creating", "finalizing", "activating", "destroying",
             "resetting", "deleting", "releasing"}

(* An operation takes the account lock and reads the user. *)
Lock(s, op) ==
  admin' = [admin EXCEPT ![s] = [op |-> op, linked |-> users[s].linked,
              at |-> IF users[s].linked THEN "stalwart" ELSE "write"]]
Unlock(s) == admin' = [admin EXCEPT ![s] = Idle]

(* user_update and user_delete. *)
Take(s, op) ==
  /\ s \in DOMAIN users /\ admin[s] = Idle /\ budget > 0
  /\ users[s].status # "deleting"
  /\ Lock(s, op)
  /\ budget' = budget - 1
  /\ torn' = IF pc[s] \in InFlight THEN torn \cup {s} ELSE torn
  /\ UNCHANGED <<invites, users, mailboxes, pc, failed, strays>>

(* stalwart_account_update: enabled or not; 502 when it fails. *)
AdminMailbox(s) ==
  LET switch == /\ s \in DOMAIN mailboxes
                /\ mailboxes' = [mailboxes EXCEPT ![s] = (admin[s].op = "active")]
  IN
  /\ admin[s].at = "stalwart" /\ admin[s].op # "finish"
  /\ \/ switch /\ admin' = [admin EXCEPT ![s].at = "write"] /\ UNCHANGED <<torn, failed>>
     \/ s \notin DOMAIN mailboxes /\ Unlock(s) /\ UNCHANGED <<mailboxes, torn, failed>>
     \/ Fails("stalwart", switch, mailboxes) /\ Unlock(s) /\ torn' = torn \cup {s}
  /\ UNCHANGED <<invites, users, pc, budget, strays>>

(* Then the status, in the database.  What user_sessions_end does is in    *)
(* module Account.                                                        *)
AdminStatus(s) ==
  LET write == IF s \in DOMAIN users
               THEN SetUser(s, [users[s] EXCEPT !.status = admin[s].op])
               ELSE UNCHANGED users
  IN
  /\ admin[s].at = "write" /\ admin[s].op # "finish"
  /\ \/ write /\ UNCHANGED <<torn, failed>>
     \/ Fails("db", write, users) /\ torn' = torn \cup {s}
  /\ Unlock(s)
  /\ UNCHANGED <<invites, mailboxes, pc, budget, strays>>

(* delete_after passes: MAIL_ACCESS_TOKEN_TTL_SECONDS + 60 s, by which     *)
(* time the sign-up of this user has ended.                                *)
DeadlinePasses(s) ==
  /\ s \in DOMAIN users /\ users[s].status = "deleting" /\ ~users[s].due
  /\ pc[s] \notin InFlight
  /\ SetUser(s, [users[s] EXCEPT !.due = TRUE])
  /\ UNCHANGED <<invites, mailboxes, pc, admin, budget, history>>

(* user_deletions_finish: under the lock, the mailbox and then the user.   *)
FinishTake(s) ==
  /\ s \in DOMAIN users /\ users[s].status = "deleting" /\ users[s].due
  /\ admin[s] = Idle
  /\ Lock(s, "finish")
  /\ UNCHANGED <<invites, users, mailboxes, pc, budget, history>>

FinishMailbox(s) ==
  LET destroy == mailboxes' = Without(mailboxes, s)
  IN
  /\ admin[s].at = "stalwart" /\ admin[s].op = "finish"
  /\ \/ destroy /\ admin' = [admin EXCEPT ![s].at = "write"] /\ UNCHANGED failed
     \/ Fails("stalwart", destroy, mailboxes) /\ Unlock(s)
  /\ UNCHANGED <<invites, users, pc, budget, torn, strays>>

FinishUser(s) ==
  LET delete == users' = Without(users, s)
  IN
  /\ admin[s].at = "write" /\ admin[s].op = "finish"
  /\ \/ delete /\ UNCHANGED failed
     \/ Fails("db", delete, users)
  /\ strays' = IF ~admin[s].linked THEN strays \cup {s} ELSE strays
  /\ Unlock(s)
  /\ UNCHANGED <<invites, mailboxes, pc, budget, torn>>

(* The process dies: sign-ups and admin operations stop where they are. *)
Crash ==
  /\ Fault("crash")
  /\ pc' = [s \in Signups |-> IF pc[s] \in {"idle", "refused", "done", "kept", "error"}
                              THEN pc[s] ELSE "lost"]
  /\ torn' = torn \cup {s \in Signups : admin[s] # Idle}
  /\ admin' = [s \in Signups |-> Idle]
  /\ UNCHANGED <<invites, users, mailboxes, budget, strays>>

SignupStep(s) ==
  \/ Preview(s) \/ CheckFree(s) \/ invite_reserve(s) \/ InsertUser(s)
  \/ CreateMailbox(s) \/ Finalize(s) \/ Activate(s) \/ DestroyMailbox(s)
  \/ ResetInvite(s) \/ DeleteUser(s) \/ invite_release(s)

AdminStep(s) ==
  \/ \E op \in {"active", "disabled", "deleting"} : Take(s, op)
  \/ AdminMailbox(s) \/ AdminStatus(s)
  \/ DeadlinePasses(s) \/ FinishTake(s) \/ FinishMailbox(s) \/ FinishUser(s)

Next ==
  \/ \E s \in Signups : SignupStep(s) \/ AdminStep(s)
  \/ \E i \in Invites : invite_revoke(i) \/ Expire(i) \/ Lapse(i)
  \/ Crash

Spec == Init /\ [][Next]_vars

-----------------------------------------------------------------------------
(* Properties.                                                             *)

(* A single-use invite (MAIL_PLAN.md): a sign-up that was answered 201 is  *)
(* and stays the one its invite names, so no second one ever succeeds with *)
(* it, whatever lapses, fails, is rolled back or is released meanwhile.    *)
InviteSpentOnce == \A s \in Signups : pc[s] = "done" => invites[Code[s]].used_by = s

(* A rollback or a deletion removes the mailbox before it frees the name.  *)
(* Only a creation without an answer, and the deletion of a user that      *)
(* never learnt its mailbox's id, leave a mailbox that no user accounts    *)
(* for: its name can then never be signed up again.  A user the admin      *)
(* suspended or queued for deletion cannot authenticate for mail, unless   *)
(* the change was cut short or raced with the user's own sign-up.          *)
MailboxExplained ==
  /\ \A m \in DOMAIN mailboxes \ strays : \E u \in DOMAIN users : Username[u] = Username[m]
  /\ \A s \in (DOMAIN users \cap DOMAIN mailboxes) \ torn :
       users[s].linked /\ users[s].status # "active" /\ admin[s] = Idle => ~mailboxes[s]

(* "Remove an already-created mailbox before releasing its username and    *)
(* invite" (accounts.ts): a mailbox's name is held by a user.              *)
MailboxKeepsName ==
  \A m \in DOMAIN mailboxes : \E u \in DOMAIN users : Username[u] = Username[m]
=============================================================================
