------------------------------ MODULE NewSenders ------------------------------
(***************************************************************************)
(* The list of new senders (accounts.ts, stalwart.ts): Stalwart throttles  *)
(* the mail of the addresses on it, and the API makes it match the young   *)
(* accounts, at boot, by a timer and after each signup.                    *)
(*                                                                         *)
(* The synchronisations run one after the other.  Each reads the users,    *)
(* then the list, then sends the difference, with calls between which      *)
(* accounts come, age and go; any call may fail.                           *)
(***************************************************************************)
EXTENDS Integers, Sequences, SequencesExt

CONSTANTS
  Names,      \* usernames, each of which is an address
  Days,       \* MAIL_NEW_SENDER_DAYS
  MaxNow,     \* bound on the clock
  MaxSteps,   \* bound: signups, deletions and turns of the timer
  Fails       \* BOOLEAN: calls may fail, and the process die

(* Number(..) || 14: never zero. *)
ASSUME SendersAssumption == Days \in Nat /\ Days > 0

VARIABLES
  users,      \* by name: where the account is, and when it was created
  senders,    \* the list at Stalwart
  runs,       \* new_senders_running: synchronisations under way and waiting
  now, n_steps,
  changed,    \* history: names that changed since the last run that came through looked
  failed      \* history: names no run has seen to since one failed them

nvars == <<users, senders, runs, now, n_steps, changed, failed>>
world == <<now, n_steps>>

NoUser == [at |-> "none", created |-> 0]
Counted == n_steps < MaxSteps /\ n_steps' = n_steps + 1

(* "missed" is history: names that changed since the run looked.           *)
Run == [at |-> "waiting", now |-> now, wanted |-> {}, current |-> {}, missed |-> {}]

NInit ==
  /\ users = [n \in Names |-> NoUser] /\ senders = {}
  /\ now = 0 /\ n_steps = 0 /\ changed = {} /\ failed = {}
  /\ runs = <<Run>>

(* A name changes under the runs that have read the users.                 *)
Unseen(n) == [i \in DOMAIN runs |->
  IF runs[i].at = "waiting" THEN runs[i] ELSE [runs[i] EXCEPT !.missed = @ \cup {n}]]

Becomes(n, user) ==
  /\ users' = [users EXCEPT ![n] = user]
  /\ changed' = changed \cup {n}

-----------------------------------------------------------------------------
(* Accounts come and go.                                                   *)

(* The user is inserted without a mailbox. *)
SignupInserts(n) ==
  /\ Counted
  /\ users[n] = NoUser
  /\ Becomes(n, [at |-> "inserted", created |-> now])
  /\ runs' = Unseen(n)
  /\ UNCHANGED <<senders, now, failed>>

(* The user gets its mailbox's id, and a run is queued.  When the answer   *)
(* to that write is lost, the signup is rolled back instead.               *)
SignupActivates(n) ==
  /\ users[n].at = "inserted"
  /\ \/ Becomes(n, [users[n] EXCEPT !.at = "active"]) /\ runs' = Append(Unseen(n), Run)
     \/ Fails /\ Becomes(n, [users[n] EXCEPT !.at = "written"]) /\ runs' = Unseen(n)
  /\ UNCHANGED <<senders, world, failed>>

SignupRollsBack(n) ==
  /\ Fails /\ users[n].at \in {"inserted", "written"}
  /\ Becomes(n, NoUser) /\ runs' = Unseen(n)
  /\ UNCHANGED <<senders, world, failed>>

user_delete(n) ==
  /\ Counted
  /\ users[n].at = "active"
  /\ Becomes(n, [users[n] EXCEPT !.at = "deleting"])
  /\ runs' = Unseen(n)
  /\ UNCHANGED <<senders, now, failed>>

user_deletions_finish(n) ==
  /\ users[n].at = "deleting"
  /\ Becomes(n, NoUser) /\ runs' = Unseen(n)
  /\ UNCHANGED <<senders, world, failed>>

(* A run's cutoff is taken when it is queued: who ages after that has aged *)
(* after it looked.                                                        *)
Tick ==
  LET aging == {n \in Names : users[n].created = now + 1 - Days}
  IN
  /\ now < MaxNow
  /\ now' = now + 1
  /\ runs' = [i \in DOMAIN runs |-> [runs[i] EXCEPT !.missed = @ \cup aging]]
  /\ changed' = changed \cup aging
  /\ UNCHANGED <<users, senders, n_steps, failed>>

-----------------------------------------------------------------------------
(* Synchronisation.                                                        *)

(* The timer; the promise chain takes as many runs as there are.           *)
sync_new_senders ==
  /\ Counted
  /\ runs' = Append(runs, Run)
  /\ UNCHANGED <<users, senders, now, changed, failed>>

(* Mutant of MyTurn: runs do not wait for each other. *)
AnyTurn(i) == i \in DOMAIN runs

MyTurn(i) == i = 1

(* created: { $gt: cutoff }, status not "deleting", with a mailbox.        *)
Young(cutoff) ==
  {n \in Names : users[n].at \in {"written", "active"} /\ users[n].created > cutoff}

Goes(i, run) == runs' = [runs EXCEPT ![i] = run]

ReadUsers(i) ==
  /\ MyTurn(i) /\ runs[i].at = "waiting"
  /\ Goes(i, [runs[i] EXCEPT !.at = "users", !.wanted = Young(runs[i].now - Days)])
  /\ UNCHANGED <<users, senders, world, changed, failed>>

stalwart_new_senders_get(i) ==
  /\ MyTurn(i) /\ runs[i].at = "users"
  /\ Goes(i, [runs[i] EXCEPT !.at = "list", !.current = senders])
  /\ UNCHANGED <<users, senders, world, changed, failed>>

Additions(r) == r.wanted \ r.current
Removals(r) == r.current \ r.wanted

(* One request makes all changes and reloads the list. *)
stalwart_new_senders_change(i) ==
  /\ MyTurn(i) /\ runs[i].at = "list"
  /\ senders' = (senders \cup Additions(runs[i])) \ Removals(runs[i])
  /\ changed' = runs[i].missed /\ failed' = failed \cap runs[i].missed
  /\ runs' = RemoveAt(runs, i)
  /\ UNCHANGED <<users, world>>

(* A call fails; the request for the changes may have made some of them.   *)
RunFails(i) ==
  /\ Fails
  /\ MyTurn(i)
  /\ IF runs[i].at # "list" THEN UNCHANGED senders
     ELSE \E add \in SUBSET Additions(runs[i]), remove \in SUBSET Removals(runs[i]) :
            senders' = (senders \cup add) \ remove
  /\ failed' = Names
  /\ runs' = RemoveAt(runs, i)
  /\ UNCHANGED <<users, world, changed>>

(* The process dies; a signup under way stays as it is, and the next boot  *)
(* queues a run.                                                           *)
NCrash ==
  /\ Fails
  /\ runs' = <<Run>>
  /\ UNCHANGED <<users, senders, world, changed, failed>>

NNext ==
  \/ \E n \in Names :
       \/ SignupInserts(n) \/ SignupActivates(n) \/ SignupRollsBack(n)
       \/ user_delete(n) \/ user_deletions_finish(n)
  \/ Tick \/ sync_new_senders \/ NCrash
  \/ \E i \in DOMAIN runs :
       \/ ReadUsers(i) \/ stalwart_new_senders_get(i)
       \/ stalwart_new_senders_change(i) \/ RunFails(i)

NSpec == NInit /\ [][NNext]_nvars

-----------------------------------------------------------------------------
(* What the admin is shown of an account. *)
new_sender(n) == users[n].at = "active" /\ users[n].created > now - Days

Owed(n) == \E i \in DOMAIN runs : n \notin runs[i].missed

(***************************************************************************)
(* Property.  "Until the next periodic sync puts them on the list, the     *)
(* account only has the regular limits": a new account that is not on the  *)
(* list has a run to come that will put it there, restarts included, or    *)
(* one failed; so nothing that overlaps with a run takes it off again.  An *)
(* address stays on the list beyond that time only when it changed after   *)
(* the last run that came through had looked, or one failed since.         *)
(***************************************************************************)
NewSendersHeld ==
  /\ \A n \in Names : new_sender(n) /\ n \notin senders => Owed(n) \/ n \in failed
  /\ senders \ Young(now - Days) \subseteq changed \cup failed
=============================================================================
