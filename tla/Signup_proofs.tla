--------------------------- MODULE Signup_proofs ----------------------------
(***************************************************************************)
(* Safety of Signup for every set of attempts, invites and names, every    *)
(* number of admin operations and every choice of faults.                  *)
(***************************************************************************)
EXTENDS Signup, TLAPS

Fresh == {"idle", "checking", "reserving", "inserting"}
Ended == {"done", "kept", "refused", "error", "lost"}

Invite == [used_by : Signups \cup {NoOne}, revoked : BOOLEAN, expired : BOOLEAN,
           reserved : Signups \cup {NoOne}, lapsed : BOOLEAN]
User == [status : {"active", "disabled", "deleting"}, linked : BOOLEAN, due : BOOLEAN]
Job == [op : {"active", "disabled", "deleting", "finish"},
        at : {"stalwart", "write"}, linked : BOOLEAN]

SignupTyped ==
  /\ invites \in [Invites -> Invite]
  /\ DOMAIN users \subseteq Signups /\ users \in [DOMAIN users -> User]
  /\ DOMAIN mailboxes \subseteq Signups /\ mailboxes \in [DOMAIN mailboxes -> BOOLEAN]
  /\ pc \in [Signups -> Fresh \cup InFlight \cup Ended]
  /\ admin \in [Signups -> Job \cup {Idle}]
  /\ torn \subseteq Signups /\ strays \subseteq Signups

(* The invite names a sign-up from Finalize on.                            *)
SpentInv ==
  \A s \in Signups : pc[s] \in {"activating", "done"} => invites[Code[s]].used_by = s

(* How far a sign-up is, and what of its user and mailbox exists: up to     *)
(* Activate the user is nobody the deletion worker could take away, and    *)
(* the rollback frees the name only once the mailbox is gone.              *)
ProgressInv(s) ==
  /\ pc[s] \in Fresh => s \notin DOMAIN users
  /\ pc[s] \in Fresh \cup {"creating"} => s \notin DOMAIN mailboxes
  /\ pc[s] \in {"creating", "finalizing", "activating"} =>
       s \in DOMAIN users /\ ~users[s].linked
  /\ pc[s] \in {"resetting", "deleting"} => (s \in DOMAIN mailboxes => s \in strays)
  /\ pc[s] \in InFlight => (s \in DOMAIN users => ~users[s].due)
  /\ s \in DOMAIN mailboxes => s \in strays \/ s \in DOMAIN users

(* What an operation that holds the lock may count on.                     *)
AdminInv(s) ==
  /\ admin[s].at = "stalwart" => admin[s].linked
  /\ admin[s].op = "finish" => pc[s] \in Ended
  /\ admin[s].op = "finish" /\ admin[s].at = "write" /\ admin[s].linked =>
       s \notin DOMAIN mailboxes
  /\ admin[s] # Idle /\ s \notin torn =>
       pc[s] \in Ended /\ s \in DOMAIN users /\ (admin[s].linked <=> users[s].linked)
  /\ admin[s] # Idle /\ admin[s].linked /\ s \in DOMAIN mailboxes \ torn =>
       /\ admin[s].op = "finish" => ~mailboxes[s]
       /\ admin[s].op # "finish" /\ admin[s].at = "write" =>
            (mailboxes[s] <=> admin[s].op = "active")

(* A user that may not use mail has a mailbox that is off.                 *)
SwitchInv(s) ==
  s \in (DOMAIN users \cap DOMAIN mailboxes) \ torn =>
    (users[s].linked /\ users[s].status # "active" /\ admin[s] = Idle => ~mailboxes[s])

UserInv(s) == ProgressInv(s) /\ AdminInv(s) /\ SwitchInv(s)
SignupInv == SignupTyped /\ SpentInv /\ \A s \in Signups : UserInv(s)

USE SignupAssumption

-----------------------------------------------------------------------------
(* Documents and mailboxes that come and go.                               *)

LEMMA WithTyped ==
  ASSUME NEW S, NEW T, NEW f, DOMAIN f \subseteq S, f \in [DOMAIN f -> T],
         NEW x \in S, NEW v \in T
  PROVE  /\ DOMAIN With(f, x, v) \subseteq S
         /\ With(f, x, v) \in [DOMAIN With(f, x, v) -> T]
BY DEF With

LEMMA WithoutTyped ==
  ASSUME NEW S, NEW T, NEW f, DOMAIN f \subseteq S, f \in [DOMAIN f -> T], NEW x
  PROVE  /\ DOMAIN Without(f, x) \subseteq S
         /\ Without(f, x) \in [DOMAIN Without(f, x) -> T]
BY DEF Without

LEMMA GotoTyped ==
  ASSUME SignupTyped, NEW s \in Signups,
         NEW place \in Fresh \cup InFlight \cup Ended, Goto(s, place)
  PROVE  pc' \in [Signups -> Fresh \cup InFlight \cup Ended] /\ pc'[s] = place
BY DEF SignupTyped, Goto

LEMMA SetInviteTyped ==
  ASSUME SignupTyped, NEW i \in Invites, NEW record \in Invite, SetInvite(i, record)
  PROVE  invites' \in [Invites -> Invite]
BY DEF SignupTyped, SetInvite

LEMMA SetUserTyped ==
  ASSUME SignupTyped, NEW s \in DOMAIN users, NEW record \in User, SetUser(s, record)
  PROVE  /\ DOMAIN users' = DOMAIN users
         /\ users' \in [DOMAIN users' -> User]
         /\ users'[s] = record
         /\ \A u \in DOMAIN users : u # s => users'[u] = users[u]
<1>1. /\ DOMAIN users' = DOMAIN users /\ users'[s] = record
      /\ \A u \in DOMAIN users : u # s => users'[u] = users[u]
      /\ users' = [u \in DOMAIN users |-> users'[u]]
  BY DEF SignupTyped, SetUser
<1>2. \A u \in DOMAIN users : users'[u] \in User
  BY <1>1 DEF SignupTyped
<1> QED
  BY <1>1, <1>2

LEMMA LockTyped ==
  ASSUME SignupTyped, NEW s \in DOMAIN users, NEW op \in {"active", "disabled", "deleting", "finish"},
         Lock(s, op)
  PROVE  /\ admin' \in [Signups -> Job \cup {Idle}]
         /\ admin'[s].op = op /\ admin'[s] # Idle
         /\ admin'[s].linked <=> users[s].linked
         /\ admin'[s].at = IF users[s].linked THEN "stalwart" ELSE "write"
         /\ \A t \in Signups : t # s => admin'[t] = admin[t]
<1>1. users[s] \in User /\ s \in Signups
  BY DEF SignupTyped
<1>2. PICK job : job = [op |-> op, linked |-> users[s].linked,
                        at |-> IF users[s].linked THEN "stalwart" ELSE "write"]
  OBVIOUS
<1>3. job \in Job
  BY <1>1, <1>2 DEF Job, User
<1>4. admin' = [admin EXCEPT ![s] = job]
  BY <1>2 DEF Lock
<1>5. admin'[s] = job
  BY <1>1, <1>4 DEF SignupTyped
<1>6. job # Idle
  BY <1>2 DEF Idle
<1> QED
  BY <1>1, <1>2, <1>3, <1>4, <1>5, <1>6 DEF SignupTyped

LEMMA UnlockTyped ==
  ASSUME SignupTyped, NEW s \in Signups, Unlock(s)
  PROVE  /\ admin' \in [Signups -> Job \cup {Idle}] /\ admin'[s] = Idle
         /\ \A t \in Signups : t # s => admin'[t] = admin[t]
BY DEF SignupTyped, Unlock

(* The places of a sign-up are different, and so are the kinds of a job.   *)
LEMMA PlacesApart ==
  /\ Fresh \cap InFlight = {} /\ Fresh \cap Ended = {} /\ InFlight \cap Ended = {}
  /\ Idle.op = "none" /\ Idle.at = "none"
BY DEF Fresh, InFlight, Ended, Idle

-----------------------------------------------------------------------------
(* A step leaves the users of other sign-ups alone.                        *)

Same(s) ==
  /\ s \in DOMAIN users' <=> s \in DOMAIN users
  /\ s \in DOMAIN users => users'[s] = users[s]
  /\ s \in DOMAIN mailboxes' <=> s \in DOMAIN mailboxes
  /\ s \in DOMAIN mailboxes => mailboxes'[s] = mailboxes[s]
  /\ pc'[s] = pc[s] /\ admin'[s] = admin[s]
  /\ s \in torn' <=> s \in torn
  /\ s \in strays' <=> s \in strays

LEMMA Frame ==
  ASSUME NEW s \in Signups, UserInv(s), Same(s)
  PROVE  UserInv(s)'
<1>1. ProgressInv(s)'
  BY DEF UserInv, ProgressInv, Same
<1>2. AdminInv(s)'
  BY DEF UserInv, AdminInv, Same
<1>3. SwitchInv(s)'
  BY DEF UserInv, SwitchInv, Same
<1> QED
  BY <1>1, <1>2, <1>3 DEF UserInv

LEMMA FrameOthers ==
  ASSUME NEW s \in Signups, SignupInv, UserInv(s)',
         \A t \in Signups \ {s} : Same(t)
  PROVE  \A t \in Signups : UserInv(t)'
<1> SUFFICES ASSUME NEW t \in Signups, t # s PROVE UserInv(t)'
  OBVIOUS
<1> QED
  BY Frame DEF SignupInv

(* What a step of sign-up s has to show.                                   *)
Kept(s) == SignupTyped' /\ UserInv(s)' /\ \A t \in Signups \ {s} : Same(t)

(* Steps before the user exists, and those on the invite alone.            *)
LEMMA OnlyMoves ==
  ASSUME SignupInv, NEW s \in Signups, NEW place \in Fresh \cup InFlight \cup Ended,
         Goto(s, place), UNCHANGED <<users, mailboxes, admin, torn, strays>>,
         invites' \in [Invites -> Invite],
         ProgressInv(s)', pc[s] \notin Ended
  PROVE  Kept(s)
<1>1. pc' \in [Signups -> Fresh \cup InFlight \cup Ended] /\ pc'[s] = place
      /\ \A t \in Signups \ {s} : pc'[t] = pc[t]
  BY GotoTyped DEF SignupInv, SignupTyped, Goto
<1>2. SignupTyped'
  BY <1>1 DEF SignupInv, SignupTyped
<1>3. \A t \in Signups \ {s} : Same(t)
  BY <1>1 DEF Same
<1>4. UserInv(s)
  BY DEF SignupInv
<1>5. AdminInv(s)'
  BY <1>1, <1>4 DEF UserInv, AdminInv
<1>6. SwitchInv(s)'
  BY <1>4 DEF UserInv, SwitchInv
<1> QED
  BY <1>2, <1>3, <1>5, <1>6 DEF Kept, UserInv

LEMMA InviteTyped ==
  ASSUME SignupInv, NEW s \in Signups
  PROVE  /\ Code[s] \in Invites /\ invites[Code[s]] \in Invite
         /\ \A used, reserved \in Signups \cup {NoOne}, b \in BOOLEAN :
              /\ [invites[Code[s]] EXCEPT !.reserved = reserved, !.lapsed = b] \in Invite
              /\ [invites[Code[s]] EXCEPT !.used_by = used, !.reserved = reserved] \in Invite
              /\ [invites[Code[s]] EXCEPT !.used_by = used] \in Invite
<1>1. /\ Code[s] \in Invites /\ invites[Code[s]] \in Invite
  BY DEF SignupInv, SignupTyped
<1>2. PICK i \in Invite : i = invites[Code[s]]
  BY <1>1
<1>3. ASSUME NEW used \in Signups \cup {NoOne}, NEW reserved \in Signups \cup {NoOne},
             NEW b \in BOOLEAN
      PROVE  /\ [i EXCEPT !.reserved = reserved, !.lapsed = b] \in Invite
             /\ [i EXCEPT !.used_by = used, !.reserved = reserved] \in Invite
             /\ [i EXCEPT !.used_by = used] \in Invite
  BY DEF Invite
<1> QED
  BY <1>1, <1>2, <1>3

LEMMA PreviewKeeps ==
  ASSUME SignupInv, NEW s \in Signups, Preview(s)
  PROVE  Kept(s)
<1>1. PICK place \in {"checking", "refused"} : Goto(s, place)
  BY DEF Preview
<1>2. place \in Fresh \cup InFlight \cup Ended /\ pc[s] \in Fresh
  BY DEF Preview, Fresh, Ended
<1>3. pc'[s] = place
  BY <1>1, <1>2, GotoTyped DEF SignupInv
<1>4. UNCHANGED <<invites, users, mailboxes, admin, torn, strays>>
  BY DEF Preview, history
<1>5. ProgressInv(s)'
  BY <1>2, <1>3, <1>4, PlacesApart DEF SignupInv, UserInv, ProgressInv, Fresh, InFlight
<1> QED
  BY <1>1, <1>2, <1>4, <1>5, OnlyMoves, PlacesApart DEF SignupInv, SignupTyped

LEMMA CheckFreeKeeps ==
  ASSUME SignupInv, NEW s \in Signups, CheckFree(s)
  PROVE  Kept(s)
<1>1. PICK place \in {"reserving", "refused"} : Goto(s, place)
  BY DEF CheckFree
<1>2. place \in Fresh \cup InFlight \cup Ended /\ pc[s] \in Fresh
  BY DEF CheckFree, Fresh, Ended
<1>3. pc'[s] = place
  BY <1>1, <1>2, GotoTyped DEF SignupInv
<1>4. UNCHANGED <<invites, users, mailboxes, admin, torn, strays>>
  BY DEF CheckFree, history
<1>5. ProgressInv(s)'
  BY <1>2, <1>3, <1>4, PlacesApart DEF SignupInv, UserInv, ProgressInv, Fresh, InFlight
<1> QED
  BY <1>1, <1>2, <1>4, <1>5, OnlyMoves, PlacesApart DEF SignupInv, SignupTyped

LEMMA ReserveKeeps ==
  ASSUME SignupInv, NEW s \in Signups, invite_reserve(s)
  PROVE  Kept(s)
<1>1. PICK place \in {"inserting", "refused"} : Goto(s, place)
  BY DEF invite_reserve, Call
<1>2. place \in Fresh \cup InFlight \cup Ended /\ pc[s] \in Fresh
  BY DEF invite_reserve, Fresh, Ended
<1>3. pc'[s] = place
  BY <1>1, <1>2, GotoTyped DEF SignupInv
<1>4. UNCHANGED <<users, mailboxes, admin, torn, strays>>
  BY DEF invite_reserve
<1>5. ProgressInv(s)'
  BY <1>2, <1>3, <1>4, PlacesApart DEF SignupInv, UserInv, ProgressInv, Fresh, InFlight
<1>6. \/ SetInvite(Code[s], [invites[Code[s]] EXCEPT !.reserved = s, !.lapsed = FALSE])
      \/ UNCHANGED invites
  BY DEF invite_reserve, Call, Fails
<1>7. invites' \in [Invites -> Invite]
  BY <1>6, InviteTyped, SetInviteTyped DEF SignupInv, SignupTyped
<1> QED
  BY <1>1, <1>2, <1>4, <1>5, <1>7, OnlyMoves, PlacesApart DEF SignupInv

LEMMA FinalizeKeeps ==
  ASSUME SignupInv, NEW s \in Signups, Finalize(s)
  PROVE  Kept(s)
<1>1. PICK place \in {"activating", "destroying"} : Goto(s, place)
  BY DEF Finalize, Call
<1>2. place \in Fresh \cup InFlight \cup Ended /\ pc[s] \in InFlight /\ pc[s] = "finalizing"
  BY DEF Finalize, InFlight
<1>3. pc'[s] = place
  BY <1>1, <1>2, GotoTyped DEF SignupInv
<1>4. UNCHANGED <<users, mailboxes, admin, torn, strays>>
  BY DEF Finalize
<1>5. ProgressInv(s)'
  BY <1>2, <1>3, <1>4, PlacesApart DEF SignupInv, UserInv, ProgressInv, Fresh, InFlight
<1>6. \/ SetInvite(Code[s], [invites[Code[s]] EXCEPT !.used_by = s, !.reserved = NoOne])
      \/ UNCHANGED invites
  BY DEF Finalize, Call, Fails
<1>7. invites' \in [Invites -> Invite]
  BY <1>6, InviteTyped, SetInviteTyped DEF SignupInv, SignupTyped
<1> QED
  BY <1>1, <1>2, <1>4, <1>5, <1>7, OnlyMoves, PlacesApart DEF SignupInv

LEMMA ResetKeeps ==
  ASSUME SignupInv, NEW s \in Signups, ResetInvite(s)
  PROVE  Kept(s)
<1>1. PICK place \in {"deleting", "error"} : Goto(s, place)
  BY DEF ResetInvite, Call
<1>2. place \in Fresh \cup InFlight \cup Ended /\ pc[s] \in InFlight /\ pc[s] = "resetting"
  BY DEF ResetInvite, InFlight, Ended
<1>3. pc'[s] = place
  BY <1>1, <1>2, GotoTyped DEF SignupInv
<1>4. UNCHANGED <<users, mailboxes, admin, torn, strays>>
  BY DEF ResetInvite
<1>5. ProgressInv(s)'
  BY <1>2, <1>3, <1>4, PlacesApart DEF SignupInv, UserInv, ProgressInv, Fresh, InFlight
<1>6. \/ SetInvite(Code[s], [invites[Code[s]] EXCEPT !.used_by = NoOne])
      \/ UNCHANGED invites
  BY DEF ResetInvite, Call, Fails
<1>7. invites' \in [Invites -> Invite]
  BY <1>6, InviteTyped, SetInviteTyped DEF SignupInv, SignupTyped
<1> QED
  BY <1>1, <1>2, <1>4, <1>5, <1>7, OnlyMoves, PlacesApart DEF SignupInv

LEMMA ReleaseKeeps ==
  ASSUME SignupInv, NEW s \in Signups, invite_release(s)
  PROVE  Kept(s)
<1>1. Goto(s, "refused")
  BY DEF invite_release, Call
<1>2. "refused" \in Fresh \cup InFlight \cup Ended /\ pc[s] \in InFlight
  BY DEF invite_release, InFlight, Ended
<1>3. pc'[s] = "refused"
  BY <1>1, <1>2, GotoTyped DEF SignupInv
<1>4. UNCHANGED <<users, mailboxes, admin, torn, strays>>
  BY DEF invite_release
<1>5. ProgressInv(s)'
  BY <1>2, <1>3, <1>4, PlacesApart DEF SignupInv, UserInv, ProgressInv, Fresh, InFlight
<1>6. \/ SetInvite(Code[s], [invites[Code[s]] EXCEPT !.reserved = NoOne, !.lapsed = FALSE])
      \/ UNCHANGED invites
  BY DEF invite_release, Call, Fails
<1>7. invites' \in [Invites -> Invite]
  BY <1>6, InviteTyped, SetInviteTyped DEF SignupInv, SignupTyped
<1> QED
  BY <1>1, <1>2, <1>4, <1>5, <1>7, OnlyMoves, PlacesApart DEF SignupInv

LEMMA InsertKeeps ==
  ASSUME SignupInv, NEW s \in Signups, InsertUser(s)
  PROVE  Kept(s)
<1> DEFINE record == [status |-> "disabled", linked |-> FALSE, due |-> FALSE]
<1>1. /\ pc[s] = "inserting" /\ pc[s] \in Fresh /\ s \notin DOMAIN users
      /\ s \notin DOMAIN mailboxes /\ UNCHANGED <<invites, mailboxes, admin, torn, strays>>
  BY DEF InsertUser, SignupInv, UserInv, ProgressInv, Fresh
<1>2. \/ users' = With(users, s, record) /\ (Goto(s, "creating") \/ Goto(s, "releasing"))
      \/ UNCHANGED users /\ Goto(s, "releasing")
  BY DEF InsertUser, Call, Fails
<1>3. CASE UNCHANGED users /\ Goto(s, "releasing")
  <2>1. pc'[s] = "releasing" /\ "releasing" \in Fresh \cup InFlight \cup Ended
    BY <1>3, GotoTyped DEF SignupInv, InFlight
  <2>2. ProgressInv(s)'
    BY <1>1, <1>3, <2>1 DEF ProgressInv, Fresh
  <2> QED
    BY <1>1, <1>3, <2>1, <2>2, OnlyMoves, PlacesApart DEF SignupInv, SignupTyped
<1>4. CASE /\ users' = With(users, s, record)
           /\ Goto(s, "creating") \/ Goto(s, "releasing")
  <2>1. PICK place \in {"creating", "releasing"} : Goto(s, place)
    BY <1>4
  <2>2. place \in Fresh \cup InFlight \cup Ended
    BY DEF InFlight
  <2>3. /\ pc' \in [Signups -> Fresh \cup InFlight \cup Ended] /\ pc'[s] = place
        /\ \A t \in Signups \ {s} : pc'[t] = pc[t]
    BY <2>1, <2>2, GotoTyped DEF SignupInv, SignupTyped, Goto
  <2>4. record \in User
    BY DEF User
  <2>5. PICK r : r = record
    OBVIOUS
  <2>6. /\ DOMAIN users' = DOMAIN users \cup {s} /\ users'[s] = r
        /\ \A u \in DOMAIN users : u # s => users'[u] = users[u]
    <3> HIDE DEF record
    <3>1. /\ DOMAIN With(users, s, record) = DOMAIN users \cup {s}
          /\ With(users, s, record)[s] = record
          /\ \A u \in DOMAIN users : u # s => With(users, s, record)[u] = users[u]
      BY DEF With
    <3> QED
      BY <1>4, <2>5, <3>1
  <2>7. DOMAIN users' \subseteq Signups /\ users' \in [DOMAIN users' -> User]
    <3> HIDE DEF record
    <3>1. DOMAIN users \subseteq Signups /\ users \in [DOMAIN users -> User]
      BY DEF SignupInv, SignupTyped
    <3> QED
      BY <1>4, <2>4, <3>1, WithTyped
  <2>8. SignupTyped'
    BY <1>1, <2>3, <2>7 DEF SignupInv, SignupTyped
  <2>9. \A t \in Signups \ {s} : Same(t)
    BY <1>1, <2>3, <2>6 DEF Same
  <2>10. r.linked = FALSE /\ r.due = FALSE
    BY <2>5
  <2>11. ProgressInv(s)'
    BY <1>1, <2>3, <2>6, <2>10, <2>2 DEF ProgressInv, Fresh, InFlight
  <2>12. (admin[s] = Idle \/ s \in torn) /\ admin[s].op # "finish"
    BY <1>1, PlacesApart DEF SignupInv, UserInv, AdminInv
  <2>13. admin[s].at = "stalwart" => admin[s].linked
    BY DEF SignupInv, UserInv, AdminInv
  <2>14. AdminInv(s)'
    BY <1>1, <2>12, <2>13 DEF AdminInv
  <2>15. SwitchInv(s)'
    BY <1>1 DEF SwitchInv
  <2> QED
    BY <2>8, <2>9, <2>11, <2>14, <2>15 DEF Kept, UserInv
<1> QED
  BY <1>2, <1>3, <1>4

LEMMA CreateKeeps ==
  ASSUME SignupInv, NEW s \in Signups, CreateMailbox(s)
  PROVE  Kept(s)
<1>1. /\ pc[s] = "creating" /\ pc[s] \in InFlight
      /\ s \in DOMAIN users /\ ~users[s].linked /\ ~users[s].due
      /\ s \notin DOMAIN mailboxes /\ UNCHANGED <<invites, users, admin, torn>>
  BY DEF CreateMailbox, SignupInv, UserInv, ProgressInv, InFlight
<1>2. PICK place \in {"finalizing", "resetting"} : Goto(s, place)
  BY DEF CreateMailbox, Call
<1>3. place \in Fresh \cup InFlight \cup Ended /\ place \in InFlight
      /\ place \notin Fresh \cup {"creating"}
  BY DEF InFlight, Fresh
<1>4. /\ pc' \in [Signups -> Fresh \cup InFlight \cup Ended] /\ pc'[s] = place
      /\ \A t \in Signups \ {s} : pc'[t] = pc[t]
  BY <1>2, <1>3, GotoTyped DEF SignupInv, SignupTyped, Goto
<1>5. \/ mailboxes' = With(mailboxes, s, TRUE)
      \/ UNCHANGED mailboxes
  BY DEF CreateMailbox, Call, Fails
<1>6. /\ strays' = strays \/ strays' = strays \cup {s}
      /\ mailboxes' # mailboxes /\ place = "resetting" => s \in strays'
  BY <1>4 DEF CreateMailbox
<1>7. /\ DOMAIN mailboxes' \subseteq Signups /\ mailboxes' \in [DOMAIN mailboxes' -> BOOLEAN]
      /\ DOMAIN mailboxes' \subseteq DOMAIN mailboxes \cup {s}
      /\ DOMAIN mailboxes \subseteq DOMAIN mailboxes'
      /\ \A m \in DOMAIN mailboxes : m # s => mailboxes'[m] = mailboxes[m]
  <2>1. DOMAIN mailboxes \subseteq Signups /\ mailboxes \in [DOMAIN mailboxes -> BOOLEAN]
    BY DEF SignupInv, SignupTyped
  <2>2. CASE UNCHANGED mailboxes
    BY <2>1, <2>2
  <2>3. CASE mailboxes' = With(mailboxes, s, TRUE)
    <3>1. DOMAIN mailboxes' \subseteq Signups /\ mailboxes' \in [DOMAIN mailboxes' -> BOOLEAN]
      BY <2>1, <2>3, WithTyped
    <3>2. /\ DOMAIN With(mailboxes, s, TRUE) = DOMAIN mailboxes \cup {s}
          /\ \A m \in DOMAIN mailboxes : m # s => With(mailboxes, s, TRUE)[m] = mailboxes[m]
      BY DEF With
    <3> QED
      BY <2>3, <3>1, <3>2
  <2> QED
    BY <1>5, <2>2, <2>3
<1>8. SignupTyped'
  BY <1>1, <1>4, <1>6, <1>7 DEF SignupInv, SignupTyped
<1>9. \A t \in Signups \ {s} : Same(t)
  BY <1>1, <1>4, <1>6, <1>7 DEF Same
<1>10. ProgressInv(s)'
  <2>1. place = "resetting" => (s \in DOMAIN mailboxes' => s \in strays')
    BY <1>1, <1>6
  <2> QED
    BY <1>1, <1>2, <1>3, <1>4, <2>1 DEF ProgressInv
<1>11. (admin[s] = Idle \/ s \in torn) /\ admin[s].op # "finish"
  BY <1>1, PlacesApart DEF SignupInv, UserInv, AdminInv
<1>12. admin[s].at = "stalwart" => admin[s].linked
  BY DEF SignupInv, UserInv, AdminInv
<1>13. AdminInv(s)'
  BY <1>1, <1>11, <1>12 DEF AdminInv
<1>14. SwitchInv(s)'
  BY <1>1 DEF SwitchInv
<1> QED
  BY <1>8, <1>9, <1>10, <1>13, <1>14 DEF Kept, UserInv

(* A call that may remove the mailbox of s, and one that may remove s.     *)
LEMMA MailboxGoes ==
  ASSUME SignupInv, NEW s \in Signups,
         mailboxes' = Without(mailboxes, s) \/ UNCHANGED mailboxes
  PROVE  /\ DOMAIN mailboxes' \subseteq Signups /\ mailboxes' \in [DOMAIN mailboxes' -> BOOLEAN]
         /\ DOMAIN mailboxes' \subseteq DOMAIN mailboxes
         /\ DOMAIN mailboxes \ {s} \subseteq DOMAIN mailboxes'
         /\ mailboxes' = Without(mailboxes, s) => s \notin DOMAIN mailboxes'
         /\ \A m \in DOMAIN mailboxes' : mailboxes'[m] = mailboxes[m]
<1>1. DOMAIN mailboxes \subseteq Signups /\ mailboxes \in [DOMAIN mailboxes -> BOOLEAN]
  BY DEF SignupInv, SignupTyped
<1>2. CASE UNCHANGED mailboxes
  BY <1>1, <1>2 DEF Without
<1>3. CASE mailboxes' = Without(mailboxes, s)
  <2>1. DOMAIN mailboxes' \subseteq Signups /\ mailboxes' \in [DOMAIN mailboxes' -> BOOLEAN]
    BY <1>1, <1>3, WithoutTyped
  <2> QED
    BY <1>3, <2>1 DEF Without
<1> QED
  BY <1>2, <1>3

LEMMA UserGoes ==
  ASSUME SignupInv, NEW s \in Signups,
         users' = Without(users, s) \/ UNCHANGED users
  PROVE  /\ DOMAIN users' \subseteq Signups /\ users' \in [DOMAIN users' -> User]
         /\ DOMAIN users' \subseteq DOMAIN users
         /\ DOMAIN users \ {s} \subseteq DOMAIN users'
         /\ \A u \in DOMAIN users' : users'[u] = users[u]
<1>1. DOMAIN users \subseteq Signups /\ users \in [DOMAIN users -> User]
  BY DEF SignupInv, SignupTyped
<1>2. CASE UNCHANGED users
  BY <1>1, <1>2
<1>3. CASE users' = Without(users, s)
  <2>1. DOMAIN users' \subseteq Signups /\ users' \in [DOMAIN users' -> User]
    BY <1>1, <1>3, WithoutTyped
  <2> QED
    BY <1>3, <2>1 DEF Without
<1> QED
  BY <1>2, <1>3

(* While the sign-up goes on, an operation that holds the lock is marked.  *)
LEMMA InFlightAdmin ==
  ASSUME SignupInv, NEW s \in Signups, pc[s] \notin Ended
  PROVE  /\ admin[s] = Idle \/ s \in torn
         /\ admin[s].op # "finish"
         /\ admin[s].at = "stalwart" => admin[s].linked
BY DEF SignupInv, UserInv, AdminInv

LEMMA ActivateKeeps ==
  ASSUME SignupInv, NEW s \in Signups, Activate(s)
  PROVE  Kept(s)
<1>1. /\ pc[s] = "activating" /\ pc[s] \in InFlight /\ pc[s] \notin Ended
      /\ s \in DOMAIN users /\ ~users[s].due
      /\ UNCHANGED <<invites, mailboxes, admin, torn, strays>>
  BY PlacesApart DEF Activate, SignupInv, UserInv, ProgressInv, InFlight, Ended
<1>2. PICK place \in {"done", "destroying"} : Goto(s, place)
  BY DEF Activate, Call
<1>3. place \in Fresh \cup InFlight \cup Ended
  BY DEF InFlight, Ended
<1>4. /\ pc' \in [Signups -> Fresh \cup InFlight \cup Ended] /\ pc'[s] = place
      /\ \A t \in Signups \ {s} : pc'[t] = pc[t]
  BY <1>2, <1>3, GotoTyped DEF SignupInv, SignupTyped, Goto
<1>5. PICK u \in User : u = users[s]
  BY <1>1 DEF SignupInv, SignupTyped
<1>6. PICK r : r = [u EXCEPT !.status = "active", !.linked = TRUE]
  OBVIOUS
<1>7. r \in User /\ r.status = "active" /\ r.linked = TRUE /\ r.due = u.due
  BY <1>6 DEF User
<1>8. SetUser(s, r) \/ UNCHANGED users
  BY <1>1, <1>5, <1>6 DEF Activate, Call, Fails
<1>9. /\ DOMAIN users' = DOMAIN users /\ users' \in [DOMAIN users' -> User]
      /\ users'[s] = r \/ users'[s] = users[s]
      /\ \A v \in DOMAIN users : v # s => users'[v] = users[v]
  BY <1>1, <1>7, <1>8, SetUserTyped DEF SignupInv, SignupTyped
<1>10. SignupTyped'
  BY <1>1, <1>4, <1>9 DEF SignupInv, SignupTyped
<1>11. \A t \in Signups \ {s} : Same(t)
  BY <1>1, <1>4, <1>9 DEF Same
<1>12. ProgressInv(s)'
  BY <1>1, <1>4, <1>5, <1>7, <1>9 DEF ProgressInv, Fresh
<1>13. AdminInv(s)'
  BY <1>1, InFlightAdmin DEF AdminInv
<1>14. SwitchInv(s)'
  <2>1. SwitchInv(s)
    BY DEF SignupInv, UserInv
  <2> QED
    BY <1>1, <1>7, <1>9, <2>1 DEF SwitchInv
<1> QED
  BY <1>10, <1>11, <1>12, <1>13, <1>14 DEF Kept, UserInv

LEMMA DestroyKeeps ==
  ASSUME SignupInv, NEW s \in Signups, DestroyMailbox(s)
  PROVE  Kept(s)
<1>1. /\ pc[s] = "destroying" /\ pc[s] \in InFlight /\ pc[s] \notin Ended
      /\ UNCHANGED <<invites, users, admin, torn, strays>>
  BY PlacesApart DEF DestroyMailbox, InFlight, Ended
<1>2. PICK place \in {"resetting", "kept"} :
        /\ Goto(s, place)
        /\ mailboxes' = Without(mailboxes, s) \/ (place = "kept" /\ UNCHANGED mailboxes)
  BY DEF DestroyMailbox, Call, Fails
<1>3. place \in Fresh \cup InFlight \cup Ended
  BY DEF InFlight, Ended
<1>4. /\ pc' \in [Signups -> Fresh \cup InFlight \cup Ended] /\ pc'[s] = place
      /\ \A t \in Signups \ {s} : pc'[t] = pc[t]
  BY <1>2, <1>3, GotoTyped DEF SignupInv, SignupTyped, Goto
<1>5. /\ DOMAIN mailboxes' \subseteq Signups /\ mailboxes' \in [DOMAIN mailboxes' -> BOOLEAN]
      /\ DOMAIN mailboxes' \subseteq DOMAIN mailboxes
      /\ DOMAIN mailboxes \ {s} \subseteq DOMAIN mailboxes'
      /\ place = "resetting" => s \notin DOMAIN mailboxes'
      /\ \A m \in DOMAIN mailboxes' : mailboxes'[m] = mailboxes[m]
  BY <1>2, MailboxGoes
<1>6. SignupTyped'
  BY <1>1, <1>4, <1>5 DEF SignupInv, SignupTyped
<1>7. \A t \in Signups \ {s} : Same(t)
  BY <1>1, <1>4, <1>5 DEF Same
<1>8. ProgressInv(s)'
  <2>1. ProgressInv(s)
    BY DEF SignupInv, UserInv
  <2> QED
    BY <1>1, <1>4, <1>5, <2>1 DEF ProgressInv, Fresh, InFlight
<1>9. AdminInv(s)'
  BY <1>1, InFlightAdmin DEF AdminInv
<1>10. SwitchInv(s)'
  <2>1. SwitchInv(s)
    BY DEF SignupInv, UserInv
  <2> QED
    BY <1>1, <1>5, <2>1 DEF SwitchInv
<1> QED
  BY <1>6, <1>7, <1>8, <1>9, <1>10 DEF Kept, UserInv

LEMMA DeleteKeeps ==
  ASSUME SignupInv, NEW s \in Signups, DeleteUser(s)
  PROVE  Kept(s)
<1>1. /\ pc[s] = "deleting" /\ pc[s] \in InFlight /\ pc[s] \notin Ended
      /\ UNCHANGED <<invites, mailboxes, admin, torn, strays>>
  BY PlacesApart DEF DeleteUser, InFlight, Ended
<1>2. /\ Goto(s, "releasing")
      /\ users' = Without(users, s) \/ UNCHANGED users
  BY DEF DeleteUser, Call, Fails
<1>3. "releasing" \in Fresh \cup InFlight \cup Ended
  BY DEF InFlight
<1>4. /\ pc' \in [Signups -> Fresh \cup InFlight \cup Ended] /\ pc'[s] = "releasing"
      /\ \A t \in Signups \ {s} : pc'[t] = pc[t]
  BY <1>2, <1>3, GotoTyped DEF SignupInv, SignupTyped, Goto
<1>5. /\ DOMAIN users' \subseteq Signups /\ users' \in [DOMAIN users' -> User]
      /\ DOMAIN users' \subseteq DOMAIN users
      /\ DOMAIN users \ {s} \subseteq DOMAIN users'
      /\ \A u \in DOMAIN users' : users'[u] = users[u]
  BY <1>2, UserGoes
<1>6. SignupTyped'
  BY <1>1, <1>4, <1>5 DEF SignupInv, SignupTyped
<1>7. \A t \in Signups \ {s} : Same(t)
  BY <1>1, <1>4, <1>5 DEF Same
<1>8. ProgressInv(s)'
  <2>1. ProgressInv(s)
    BY DEF SignupInv, UserInv
  <2> QED
    BY <1>1, <1>4, <1>5, <2>1 DEF ProgressInv, Fresh, InFlight
<1>9. AdminInv(s)'
  BY <1>1, InFlightAdmin DEF AdminInv
<1>10. SwitchInv(s)'
  <2>1. SwitchInv(s)
    BY DEF SignupInv, UserInv
  <2> QED
    BY <1>1, <1>5, <2>1 DEF SwitchInv
<1> QED
  BY <1>6, <1>7, <1>8, <1>9, <1>10 DEF Kept, UserInv

-----------------------------------------------------------------------------
(* The admin, the deletion worker and the clock.                           *)

LEMMA TakeKeeps ==
  ASSUME SignupInv, NEW s \in Signups,
         NEW op \in {"active", "disabled", "deleting"}, Take(s, op)
  PROVE  Kept(s)
<1>1. /\ s \in DOMAIN users /\ admin[s] = Idle
      /\ Lock(s, op)
      /\ torn' = IF pc[s] \in InFlight THEN torn \cup {s} ELSE torn
      /\ UNCHANGED <<invites, users, mailboxes, pc, strays>>
  BY DEF Take
<1>2. /\ admin' \in [Signups -> Job \cup {Idle}] /\ admin'[s].op = op /\ admin'[s] # Idle
      /\ admin'[s].linked <=> users[s].linked
      /\ admin'[s].at = IF users[s].linked THEN "stalwart" ELSE "write"
      /\ \A t \in Signups : t # s => admin'[t] = admin[t]
  BY <1>1, LockTyped DEF SignupInv
<1>3. SignupTyped'
  BY <1>1, <1>2 DEF SignupInv, SignupTyped
<1>4. \A t \in Signups \ {s} : Same(t)
  BY <1>1, <1>2 DEF Same
<1>5. ProgressInv(s)'
  BY <1>1 DEF SignupInv, UserInv, ProgressInv
<1>6. s \notin torn' => pc[s] \in Ended
  <2>1. pc[s] \notin Fresh
    BY <1>1 DEF SignupInv, UserInv, ProgressInv
  <2> QED
    BY <1>1, <2>1 DEF SignupInv, SignupTyped
<1>7. op # "finish"
  OBVIOUS
<1>8. AdminInv(s)'
  BY <1>1, <1>2, <1>6, <1>7 DEF AdminInv
<1>9. SwitchInv(s)'
  BY <1>2 DEF SwitchInv
<1> QED
  BY <1>3, <1>4, <1>5, <1>8, <1>9 DEF Kept, UserInv

LEMMA FinishTakeKeeps ==
  ASSUME SignupInv, NEW s \in Signups, FinishTake(s)
  PROVE  Kept(s)
<1>1. /\ s \in DOMAIN users /\ admin[s] = Idle
      /\ users[s].status = "deleting" /\ users[s].due
      /\ Lock(s, "finish")
      /\ UNCHANGED <<invites, users, mailboxes, pc, torn, strays>>
  BY DEF FinishTake, history
<1>2. /\ admin' \in [Signups -> Job \cup {Idle}] /\ admin'[s].op = "finish" /\ admin'[s] # Idle
      /\ admin'[s].linked <=> users[s].linked
      /\ admin'[s].at = IF users[s].linked THEN "stalwart" ELSE "write"
      /\ \A t \in Signups : t # s => admin'[t] = admin[t]
  BY <1>1, LockTyped DEF SignupInv
<1>3. SignupTyped'
  BY <1>1, <1>2 DEF SignupInv, SignupTyped
<1>4. \A t \in Signups \ {s} : Same(t)
  BY <1>1, <1>2 DEF Same
<1>5. ProgressInv(s)'
  BY <1>1 DEF SignupInv, UserInv, ProgressInv
<1>6. pc[s] \in Ended
  <2>1. pc[s] \notin Fresh /\ pc[s] \notin InFlight
    BY <1>1 DEF SignupInv, UserInv, ProgressInv
  <2> QED
    BY <2>1 DEF SignupInv, SignupTyped
<1>7. users[s].linked /\ s \in DOMAIN mailboxes \ torn => ~mailboxes[s]
  <2>1. SwitchInv(s)
    BY DEF SignupInv, UserInv
  <2> QED
    BY <1>1, <2>1 DEF SwitchInv
<1>8. AdminInv(s)'
  BY <1>1, <1>2, <1>6, <1>7 DEF AdminInv
<1>9. SwitchInv(s)'
  BY <1>2 DEF SwitchInv
<1> QED
  BY <1>3, <1>4, <1>5, <1>8, <1>9 DEF Kept, UserInv

LEMMA DeadlineKeeps ==
  ASSUME SignupInv, NEW s \in Signups, DeadlinePasses(s)
  PROVE  Kept(s)
<1>1. /\ s \in DOMAIN users /\ pc[s] \notin InFlight
      /\ SetUser(s, [users[s] EXCEPT !.due = TRUE])
      /\ UNCHANGED <<invites, mailboxes, pc, admin, torn, strays>>
  BY DEF DeadlinePasses, history
<1>2. PICK u \in User : u = users[s]
  BY <1>1 DEF SignupInv, SignupTyped
<1>3. PICK r : r = [u EXCEPT !.due = TRUE]
  OBVIOUS
<1>4. r \in User /\ r.status = u.status /\ r.linked = u.linked
  BY <1>3 DEF User
<1>5. /\ DOMAIN users' = DOMAIN users /\ users' \in [DOMAIN users' -> User]
      /\ users'[s] = r
      /\ \A v \in DOMAIN users : v # s => users'[v] = users[v]
  BY <1>1, <1>2, <1>3, <1>4, SetUserTyped DEF SignupInv
<1>6. SignupTyped'
  BY <1>1, <1>5 DEF SignupInv, SignupTyped
<1>7. \A t \in Signups \ {s} : Same(t)
  BY <1>1, <1>5 DEF Same
<1>8. ProgressInv(s)'
  BY <1>1, <1>2, <1>4, <1>5 DEF SignupInv, UserInv, ProgressInv, InFlight
<1>9. AdminInv(s)'
  <2>1. AdminInv(s)
    BY DEF SignupInv, UserInv
  <2>2. users'[s].linked = users[s].linked
    BY <1>2, <1>4, <1>5
  <2> QED
    BY <1>1, <1>5, <2>1, <2>2 DEF AdminInv
<1>10. SwitchInv(s)'
  <2>1. SwitchInv(s)
    BY DEF SignupInv, UserInv
  <2>2. users'[s].linked = users[s].linked /\ users'[s].status = users[s].status
    BY <1>2, <1>4, <1>5
  <2> QED
    BY <1>1, <1>5, <2>1, <2>2 DEF SwitchInv
<1> QED
  BY <1>6, <1>7, <1>8, <1>9, <1>10 DEF Kept, UserInv

(* An operation that has the lock.                                         *)
LEMMA JobFacts ==
  ASSUME SignupInv, NEW s \in Signups, admin[s].at \in {"stalwart", "write"}
  PROVE  /\ admin[s] \in Job /\ admin[s] # Idle
         /\ \A job \in Job : job = [admin[s] EXCEPT !.at = "write"] =>
              job.op = admin[s].op /\ job.at = "write" /\ job.linked = admin[s].linked
<1>1. admin[s] \in Job \cup {Idle}
  BY DEF SignupInv, SignupTyped
<1>2. admin[s] # Idle
  BY PlacesApart
<1>3. PICK a \in Job : a = admin[s]
  BY <1>1, <1>2
<1>4. ASSUME NEW job, job = [a EXCEPT !.at = "write"]
      PROVE  job.op = a.op /\ job.at = "write" /\ job.linked = a.linked
  BY <1>4 DEF Job
<1> QED
  BY <1>2, <1>3, <1>4

LEMMA NextCall ==
  ASSUME SignupInv, NEW s \in Signups, admin[s].at \in {"stalwart", "write"},
         admin' = [admin EXCEPT ![s].at = "write"]
  PROVE  /\ admin' \in [Signups -> Job \cup {Idle}]
         /\ admin'[s].op = admin[s].op /\ admin'[s].at = "write"
         /\ admin'[s].linked = admin[s].linked /\ admin'[s] # Idle
         /\ \A t \in Signups : t # s => admin'[t] = admin[t]
<1>1. PICK a \in Job : a = admin[s]
  BY JobFacts
<1>2. PICK job : job = [a EXCEPT !.at = "write"]
  OBVIOUS
<1>3. job \in Job /\ job.op = a.op /\ job.at = "write" /\ job.linked = a.linked
  BY <1>2 DEF Job
<1>4. admin' = [admin EXCEPT ![s] = job]
  BY <1>1, <1>2
<1>5. job # Idle
  BY <1>3, PlacesApart
<1> QED
  BY <1>1, <1>3, <1>4, <1>5 DEF SignupInv, SignupTyped

LEMMA AdminMailboxKeeps ==
  ASSUME SignupInv, NEW s \in Signups, AdminMailbox(s)
  PROVE  Kept(s)
<1> DEFINE on == admin[s].op = "active"
           switch == s \in DOMAIN mailboxes /\ mailboxes' = [mailboxes EXCEPT ![s] = on]
<1>1. /\ admin[s].at = "stalwart" /\ admin[s].op # "finish" /\ admin[s].linked
      /\ UNCHANGED <<invites, users, pc, strays>>
  BY DEF AdminMailbox, SignupInv, UserInv, AdminInv
<1>2. \/ switch /\ admin' = [admin EXCEPT ![s].at = "write"] /\ UNCHANGED torn
      \/ s \notin DOMAIN mailboxes /\ Unlock(s) /\ UNCHANGED <<mailboxes, torn>>
      \/ (switch \/ UNCHANGED mailboxes) /\ Unlock(s) /\ torn' = torn \cup {s}
  BY DEF AdminMailbox, Fails
<1>3. /\ admin' \in [Signups -> Job \cup {Idle}]
      /\ \A t \in Signups : t # s => admin'[t] = admin[t]
  BY <1>1, <1>2, NextCall, UnlockTyped DEF SignupInv
<1>4. DOMAIN mailboxes \subseteq Signups /\ mailboxes \in [DOMAIN mailboxes -> BOOLEAN]
  BY DEF SignupInv, SignupTyped
<1>5. on \in BOOLEAN
  OBVIOUS
<1>6. switch \/ UNCHANGED mailboxes
  BY <1>2
<1>7. /\ DOMAIN mailboxes' = DOMAIN mailboxes /\ mailboxes' \in [DOMAIN mailboxes' -> BOOLEAN]
      /\ \A m \in DOMAIN mailboxes : m # s => mailboxes'[m] = mailboxes[m]
      /\ switch => (mailboxes'[s] <=> on)
  <2>1. CASE UNCHANGED mailboxes
    <3>1. switch => mailboxes[s] = on
      BY <1>4, <1>5, <2>1
    <3> QED
      BY <1>4, <2>1, <3>1
  <2>2. CASE switch
    BY <1>4, <1>5, <2>2
  <2> QED
    BY <1>6, <2>1, <2>2
<1>8. torn \subseteq torn' /\ torn' \subseteq torn \cup {s}
  BY <1>2
<1>9. SignupTyped'
  BY <1>1, <1>3, <1>7, <1>8 DEF SignupInv, SignupTyped
<1>10. \A t \in Signups \ {s} : Same(t)
  BY <1>1, <1>3, <1>7, <1>8 DEF Same
<1>11. ProgressInv(s)'
  BY <1>1, <1>7 DEF SignupInv, UserInv, ProgressInv
<1>12. UserInv(s)
  BY DEF SignupInv
<1>13. CASE switch /\ admin' = [admin EXCEPT ![s].at = "write"] /\ UNCHANGED torn
  <2>1. /\ admin'[s].op = admin[s].op /\ admin'[s].at = "write"
        /\ admin'[s].linked = admin[s].linked /\ admin'[s] # Idle /\ admin[s] # Idle
    BY <1>1, <1>13, NextCall, JobFacts
  <2>2. AdminInv(s)
    BY <1>12 DEF UserInv
  <2>3. mailboxes'[s] <=> admin'[s].op = "active"
    BY <1>7, <1>13, <2>1
  <2>4. AdminInv(s)'
    BY <1>1, <1>7, <1>13, <2>1, <2>2, <2>3 DEF AdminInv
  <2>5. SwitchInv(s)'
    BY <2>1 DEF SwitchInv
  <2> QED
    BY <1>9, <1>10, <1>11, <2>4, <2>5 DEF Kept, UserInv
<1>14. CASE Unlock(s) /\ (s \in torn' \/ s \notin DOMAIN mailboxes')
  <2>1. admin'[s] = Idle
    BY <1>14, UnlockTyped DEF SignupInv
  <2>2. AdminInv(s)'
    BY <2>1, PlacesApart DEF AdminInv
  <2>3. SwitchInv(s)'
    BY <1>14 DEF SwitchInv
  <2> QED
    BY <1>9, <1>10, <1>11, <2>2, <2>3 DEF Kept, UserInv
<1> QED
  BY <1>2, <1>7, <1>13, <1>14

LEMMA AdminStatusKeeps ==
  ASSUME SignupInv, NEW s \in Signups, AdminStatus(s)
  PROVE  Kept(s)
<1>1. /\ admin[s].at = "write" /\ admin[s].op # "finish"
      /\ Unlock(s) /\ UNCHANGED <<invites, mailboxes, pc, strays>>
      /\ torn' = torn \/ torn' = torn \cup {s}
  BY DEF AdminStatus, Fails
<1>2. /\ admin' \in [Signups -> Job \cup {Idle}] /\ admin'[s] = Idle
      /\ \A t \in Signups : t # s => admin'[t] = admin[t]
  BY <1>1, UnlockTyped DEF SignupInv
<1>3. PICK job \in Job : job = admin[s] /\ job # Idle
  BY <1>1, JobFacts
<1>4. /\ DOMAIN users' = DOMAIN users /\ users' \in [DOMAIN users' -> User]
      /\ \A u \in DOMAIN users : u # s => users'[u] = users[u]
      /\ s \in DOMAIN users =>
           users'[s].linked = users[s].linked /\ users'[s].due = users[s].due
      /\ s \in DOMAIN users /\ s \notin torn' => users'[s].status = job.op
  <2>1. CASE s \notin DOMAIN users \/ UNCHANGED users
    <3>1. UNCHANGED users
      BY <2>1 DEF AdminStatus, Fails
    <3>2. s \in DOMAIN users => s \in torn' \/ users' = [users EXCEPT ![s] =
            [users[s] EXCEPT !.status = admin[s].op]]
      BY DEF AdminStatus, Fails, SetUser
    <3>3. s \in DOMAIN users /\ s \notin torn' => users'[s].status = job.op
      <4> SUFFICES ASSUME s \in DOMAIN users, s \notin torn' PROVE users'[s].status = job.op
        OBVIOUS
      <4>1. PICK u \in User : u = users[s]
        BY DEF SignupInv, SignupTyped
      <4>2. PICK r : r = [u EXCEPT !.status = job.op]
        OBVIOUS
      <4>3. r.status = job.op
        BY <4>2 DEF User
      <4>4. users' = [users EXCEPT ![s] = r]
        BY <1>3, <3>2, <4>1, <4>2
      <4> QED
        BY <4>3, <4>4
    <3> QED
      BY <3>1, <3>3 DEF SignupInv, SignupTyped
  <2>2. CASE s \in DOMAIN users /\ SetUser(s, [users[s] EXCEPT !.status = admin[s].op])
    <3>1. PICK u \in User : u = users[s]
      BY <2>2 DEF SignupInv, SignupTyped
    <3>2. PICK r : r = [u EXCEPT !.status = job.op]
      OBVIOUS
    <3>3. job.op \in {"active", "disabled", "deleting"}
      BY <1>1, <1>3 DEF Job
    <3>4. r \in User /\ r.status = job.op /\ r.linked = u.linked /\ r.due = u.due
      BY <3>2, <3>3 DEF User
    <3>5. SetUser(s, r)
      BY <1>3, <2>2, <3>1, <3>2
    <3>6. /\ DOMAIN users' = DOMAIN users /\ users' \in [DOMAIN users' -> User]
          /\ users'[s] = r
          /\ \A v \in DOMAIN users : v # s => users'[v] = users[v]
      BY <2>2, <3>4, <3>5, SetUserTyped DEF SignupInv
    <3> QED
      BY <3>1, <3>4, <3>6
  <2> QED
    BY <2>1, <2>2 DEF AdminStatus, Fails
<1>5. SignupTyped'
  BY <1>1, <1>2, <1>4 DEF SignupInv, SignupTyped
<1>6. \A t \in Signups \ {s} : Same(t)
  BY <1>1, <1>2, <1>4 DEF Same
<1>7. ProgressInv(s)'
  BY <1>1, <1>4 DEF SignupInv, UserInv, ProgressInv
<1>8. AdminInv(s)'
  BY <1>2, PlacesApart DEF AdminInv
<1>9. SwitchInv(s)'
  <2>1. AdminInv(s)
    BY DEF SignupInv, UserInv
  <2> QED
    BY <1>1, <1>3, <1>4, <2>1 DEF SwitchInv, AdminInv
<1> QED
  BY <1>5, <1>6, <1>7, <1>8, <1>9 DEF Kept, UserInv

LEMMA FinishMailboxKeeps ==
  ASSUME SignupInv, NEW s \in Signups, FinishMailbox(s)
  PROVE  Kept(s)
<1>1. /\ admin[s].at = "stalwart" /\ admin[s].op = "finish" /\ pc[s] \in Ended
      /\ UNCHANGED <<invites, users, pc, torn, strays>>
  BY DEF FinishMailbox, SignupInv, UserInv, AdminInv
<1>2. \/ mailboxes' = Without(mailboxes, s) /\ admin' = [admin EXCEPT ![s].at = "write"]
      \/ (mailboxes' = Without(mailboxes, s) \/ UNCHANGED mailboxes) /\ Unlock(s)
  BY DEF FinishMailbox, Fails
<1>3. /\ admin' \in [Signups -> Job \cup {Idle}]
      /\ \A t \in Signups : t # s => admin'[t] = admin[t]
  BY <1>1, <1>2, NextCall, UnlockTyped DEF SignupInv
<1>4. /\ DOMAIN mailboxes' \subseteq Signups /\ mailboxes' \in [DOMAIN mailboxes' -> BOOLEAN]
      /\ DOMAIN mailboxes' \subseteq DOMAIN mailboxes
      /\ DOMAIN mailboxes \ {s} \subseteq DOMAIN mailboxes'
      /\ mailboxes' = Without(mailboxes, s) => s \notin DOMAIN mailboxes'
      /\ \A m \in DOMAIN mailboxes' : mailboxes'[m] = mailboxes[m]
  BY <1>2, MailboxGoes
<1>5. SignupTyped'
  BY <1>1, <1>3, <1>4 DEF SignupInv, SignupTyped
<1>6. \A t \in Signups \ {s} : Same(t)
  BY <1>1, <1>3, <1>4 DEF Same
<1>7. ProgressInv(s)'
  BY <1>1, <1>4 DEF SignupInv, UserInv, ProgressInv
<1>8. AdminInv(s) /\ admin[s] # Idle
  BY <1>1, JobFacts DEF SignupInv, UserInv
<1>9. CASE mailboxes' = Without(mailboxes, s) /\ admin' = [admin EXCEPT ![s].at = "write"]
  <2>1. /\ admin'[s].op = admin[s].op /\ admin'[s].at = "write"
        /\ admin'[s].linked = admin[s].linked /\ admin'[s] # Idle
    BY <1>1, <1>9, NextCall
  <2>2. AdminInv(s)'
    BY <1>1, <1>4, <1>8, <1>9, <2>1 DEF AdminInv
  <2>3. SwitchInv(s)'
    BY <2>1 DEF SwitchInv
  <2> QED
    BY <1>5, <1>6, <1>7, <2>2, <2>3 DEF Kept, UserInv
<1>10. CASE Unlock(s)
  <2>1. admin'[s] = Idle
    BY <1>10, UnlockTyped DEF SignupInv
  <2>2. AdminInv(s)'
    BY <2>1, PlacesApart DEF AdminInv
  <2>3. SwitchInv(s)'
    BY <1>1, <1>4, <1>8 DEF SwitchInv, AdminInv
  <2> QED
    BY <1>5, <1>6, <1>7, <2>2, <2>3 DEF Kept, UserInv
<1> QED
  BY <1>2, <1>9, <1>10

LEMMA FinishUserKeeps ==
  ASSUME SignupInv, NEW s \in Signups, FinishUser(s)
  PROVE  Kept(s)
<1>1. /\ admin[s].at = "write" /\ admin[s].op = "finish" /\ pc[s] \in Ended
      /\ Unlock(s) /\ UNCHANGED <<invites, mailboxes, pc, torn>>
      /\ strays' = IF ~admin[s].linked THEN strays \cup {s} ELSE strays
  BY DEF FinishUser, SignupInv, UserInv, AdminInv
<1>2. users' = Without(users, s) \/ UNCHANGED users
  BY DEF FinishUser, Fails
<1>3. /\ admin' \in [Signups -> Job \cup {Idle}] /\ admin'[s] = Idle
      /\ \A t \in Signups : t # s => admin'[t] = admin[t]
  BY <1>1, UnlockTyped DEF SignupInv
<1>4. /\ DOMAIN users' \subseteq Signups /\ users' \in [DOMAIN users' -> User]
      /\ DOMAIN users' \subseteq DOMAIN users
      /\ DOMAIN users \ {s} \subseteq DOMAIN users'
      /\ \A u \in DOMAIN users' : users'[u] = users[u]
  BY <1>2, UserGoes
<1>5. SignupTyped'
  BY <1>1, <1>3, <1>4 DEF SignupInv, SignupTyped
<1>6. \A t \in Signups \ {s} : Same(t)
  BY <1>1, <1>3, <1>4 DEF Same
<1>7. AdminInv(s) /\ admin[s] # Idle
  BY <1>1, JobFacts DEF SignupInv, UserInv
<1>8. ProgressInv(s)'
  <2>1. s \in DOMAIN mailboxes => s \in strays'
    BY <1>1, <1>7 DEF AdminInv
  <2>2. pc[s] \notin Fresh /\ pc[s] \notin InFlight
    BY <1>1, PlacesApart
  <2> QED
    BY <1>1, <2>1, <2>2 DEF ProgressInv, InFlight, SignupInv, UserInv
<1>9. AdminInv(s)'
  BY <1>3, PlacesApart DEF AdminInv
<1>10. SwitchInv(s)'
  BY <1>1, <1>4, <1>7 DEF SwitchInv, AdminInv
<1> QED
  BY <1>5, <1>6, <1>8, <1>9, <1>10 DEF Kept, UserInv

LEMMA CrashKeeps ==
  ASSUME SignupInv, Crash
  PROVE  SignupTyped' /\ \A s \in Signups : UserInv(s)'
<1>1. /\ pc' = [s \in Signups |-> IF pc[s] \in {"idle", "refused", "done", "kept", "error"}
                                  THEN pc[s] ELSE "lost"]
      /\ torn' = torn \cup {s \in Signups : admin[s] # Idle}
      /\ admin' = [s \in Signups |-> Idle]
      /\ UNCHANGED <<invites, users, mailboxes, strays>>
  BY DEF Crash
<1>2. \A s \in Signups : pc'[s] \in Ended \/ (pc'[s] = pc[s] /\ pc[s] = "idle")
  BY <1>1 DEF Ended
<1>3. SignupTyped'
  <2>1. pc' \in [Signups -> Fresh \cup InFlight \cup Ended]
    BY <1>1 DEF Fresh, Ended
  <2> QED
    BY <1>1, <2>1 DEF SignupInv, SignupTyped
<1>4. ASSUME NEW s \in Signups PROVE UserInv(s)'
  <2>1. UserInv(s)
    BY DEF SignupInv
  <2>2. ProgressInv(s)'
    <3>1. CASE pc'[s] \in Ended
      <4>1. pc'[s] \notin Fresh /\ pc'[s] \notin InFlight
        BY <3>1, PlacesApart
      <4> QED
        BY <1>1, <2>1, <4>1 DEF UserInv, ProgressInv, InFlight
    <3>2. CASE pc'[s] = pc[s] /\ pc[s] = "idle"
      BY <1>1, <2>1, <3>2 DEF UserInv, ProgressInv
    <3> QED
      BY <1>2, <3>1, <3>2
  <2>3. AdminInv(s)'
    BY <1>1, PlacesApart DEF AdminInv
  <2>4. SwitchInv(s)'
    BY <1>1, <2>1 DEF UserInv, SwitchInv
  <2> QED
    BY <2>2, <2>3, <2>4 DEF UserInv
<1> QED
  BY <1>3, <1>4

(* The clock and the admin may change an invite, but not who has used it.  *)
InviteStep(i) == invite_revoke(i) \/ Expire(i) \/ Lapse(i)

LEMMA InviteStepKeeps ==
  ASSUME SignupInv, NEW i \in Invites, InviteStep(i)
  PROVE  /\ SignupTyped' /\ (\A s \in Signups : UserInv(s)') /\ UNCHANGED pc
         /\ \A j \in Invites : invites'[j].used_by = invites[j].used_by
<1>1. PICK v \in Invite : v = invites[i]
  BY DEF SignupInv, SignupTyped
<1>2. PICK w \in Invite : SetInvite(i, w) /\ w.used_by = v.used_by
  <2>1. CASE invite_revoke(i)
    <3>1. PICK w : w = [v EXCEPT !.revoked = TRUE]
      OBVIOUS
    <3>2. w \in Invite /\ w.used_by = v.used_by
      BY <3>1 DEF Invite
    <3> QED
      BY <1>1, <2>1, <3>1, <3>2 DEF invite_revoke
  <2>2. CASE Expire(i)
    <3>1. PICK w : w = [v EXCEPT !.expired = TRUE]
      OBVIOUS
    <3>2. w \in Invite /\ w.used_by = v.used_by
      BY <3>1 DEF Invite
    <3> QED
      BY <1>1, <2>2, <3>1, <3>2 DEF Expire
  <2>3. CASE Lapse(i)
    <3>1. PICK w : w = [v EXCEPT !.lapsed = TRUE]
      OBVIOUS
    <3>2. w \in Invite /\ w.used_by = v.used_by
      BY <3>1 DEF Invite
    <3> QED
      BY <1>1, <2>3, <3>1, <3>2 DEF Lapse
  <2> QED
    BY <2>1, <2>2, <2>3 DEF InviteStep
<1>3. UNCHANGED <<users, mailboxes, pc, admin, torn, strays>>
  BY DEF InviteStep, invite_revoke, Expire, Lapse, history
<1>4. invites' \in [Invites -> Invite]
  BY <1>2, SetInviteTyped DEF SignupInv
<1>5. SignupTyped'
  BY <1>3, <1>4 DEF SignupInv, SignupTyped
<1>6. \A s \in Signups : Same(s)
  BY <1>3 DEF Same
<1>7. \A s \in Signups : UserInv(s)'
  BY <1>6, Frame DEF SignupInv
<1>8. \A j \in Invites : invites'[j].used_by = invites[j].used_by
  BY <1>1, <1>2 DEF SetInvite, SignupInv, SignupTyped
<1> QED
  BY <1>3, <1>5, <1>7, <1>8

-----------------------------------------------------------------------------
(* Who has used an invite.                                                 *)

UsersOfInvitesKept == \A i \in Invites : invites'[i].used_by = invites[i].used_by

LEMMA SpentFrame ==
  ASSUME SignupInv, UsersOfInvitesKept,
         \A s \in Signups : pc'[s] \in {"activating", "done"} => pc[s] \in {"activating", "done"}
  PROVE  SpentInv'
<1> SUFFICES ASSUME NEW s \in Signups, pc'[s] \in {"activating", "done"}
             PROVE  invites'[Code[s]].used_by = s
  BY DEF SpentInv
<1>1. Code[s] \in Invites
  OBVIOUS
<1> QED
  BY <1>1 DEF SignupInv, SpentInv, UsersOfInvitesKept

LEMMA MovedTo ==
  ASSUME SignupInv, NEW s \in Signups, NEW place, Goto(s, place)
  PROVE  pc'[s] = place /\ \A t \in Signups \ {s} : pc'[t] = pc[t]
BY DEF SignupInv, SignupTyped, Goto

LEMMA ReserveKeepsUsed ==
  ASSUME SignupInv, NEW s \in Signups, invite_reserve(s) \/ invite_release(s)
  PROVE  UsersOfInvitesKept
<1>1. PICK v \in Invite : v = invites[Code[s]]
  BY DEF SignupInv, SignupTyped
<1>2. CASE UNCHANGED invites
  BY <1>2 DEF UsersOfInvitesKept
<1>3. ASSUME NEW who \in {s, NoOne},
             SetInvite(Code[s], [invites[Code[s]] EXCEPT !.reserved = who, !.lapsed = FALSE])
      PROVE  UsersOfInvitesKept
  <2>1. PICK w : w = [v EXCEPT !.reserved = who, !.lapsed = FALSE]
    OBVIOUS
  <2>2. w.used_by = v.used_by
    BY <2>1 DEF Invite
  <2>3. invites' = [invites EXCEPT ![Code[s]] = w]
    BY <1>1, <1>3, <2>1 DEF SetInvite
  <2> QED
    BY <1>1, <2>2, <2>3 DEF UsersOfInvitesKept, SignupInv, SignupTyped
<1>4. \/ UNCHANGED invites
      \/ SetInvite(Code[s], [invites[Code[s]] EXCEPT !.reserved = s, !.lapsed = FALSE])
      \/ SetInvite(Code[s], [invites[Code[s]] EXCEPT !.reserved = NoOne, !.lapsed = FALSE])
  BY DEF invite_reserve, invite_release, Call, Fails
<1> QED
  BY <1>2, <1>3, <1>4

LEMMA FinalizeSpends ==
  ASSUME SignupInv, NEW s \in Signups, Finalize(s)
  PROVE  SpentInv'
<1>1. PICK v \in Invite : v = invites[Code[s]]
  BY DEF SignupInv, SignupTyped
<1>2. CASE SetInvite(Code[s], [invites[Code[s]] EXCEPT !.used_by = s, !.reserved = NoOne])
           /\ Owns(s)
  <2>1. PICK w : w = [v EXCEPT !.used_by = s, !.reserved = NoOne]
    OBVIOUS
  <2>2. w.used_by = s
    BY <2>1 DEF Invite
  <2>3. invites' = [invites EXCEPT ![Code[s]] = w]
    BY <1>1, <1>2, <2>1 DEF SetInvite
  <2>4. /\ invites'[Code[s]].used_by = s
        /\ \A i \in Invites : i # Code[s] => invites'[i] = invites[i]
    BY <2>2, <2>3 DEF SignupInv, SignupTyped
  <2>5. invites[Code[s]].used_by = NoOne
    BY <1>2 DEF Owns
  <2>6. \A t \in Signups \ {s} : pc'[t] = pc[t]
    BY MovedTo DEF Finalize, Call
  <2>7. ASSUME NEW t \in Signups, pc'[t] \in {"activating", "done"}
        PROVE  invites'[Code[t]].used_by = t
    <3>1. CASE t = s
      BY <2>4, <3>1
    <3>2. CASE t # s
      <4>1. invites[Code[t]].used_by = t
        BY <2>6, <2>7, <3>2 DEF SignupInv, SpentInv
      <4>2. Code[t] # Code[s]
        BY <2>5, <4>1
      <4> QED
        BY <2>4, <4>1, <4>2
    <3> QED
      BY <3>1, <3>2
  <2> QED
    BY <2>7 DEF SpentInv
<1>3. CASE UNCHANGED invites /\ Goto(s, "destroying")
  <2>1. pc'[s] = "destroying" /\ \A t \in Signups \ {s} : pc'[t] = pc[t]
    BY <1>3, MovedTo
  <2> QED
    BY <1>3, <2>1, SpentFrame DEF UsersOfInvitesKept
<1>4. \/ /\ SetInvite(Code[s], [invites[Code[s]] EXCEPT !.used_by = s, !.reserved = NoOne])
         /\ Owns(s)
      \/ UNCHANGED invites /\ Goto(s, "destroying")
  BY DEF Finalize, Call, Fails
<1> QED
  BY <1>2, <1>3, <1>4

(* The filter on used_by: only its own user is taken off an invite.        *)
LEMMA ResetSpares ==
  ASSUME SignupInv, NEW s \in Signups, ResetInvite(s)
  PROVE  SpentInv'
<1>1. PICK place \in {"deleting", "error"} : Goto(s, place)
  BY DEF ResetInvite, Call
<1>2. pc'[s] = place /\ \A t \in Signups \ {s} : pc'[t] = pc[t]
  BY <1>1, MovedTo
<1>3. CASE UNCHANGED invites
  BY <1>2, <1>3, SpentFrame DEF UsersOfInvitesKept
<1>4. CASE /\ invites[Code[s]].used_by = s
           /\ SetInvite(Code[s], [invites[Code[s]] EXCEPT !.used_by = NoOne])
  <2>1. \A i \in Invites : i # Code[s] => invites'[i] = invites[i]
    BY <1>4 DEF SetInvite, SignupInv, SignupTyped
  <2>2. ASSUME NEW t \in Signups, pc'[t] \in {"activating", "done"}
        PROVE  invites'[Code[t]].used_by = t
    <3>1. t # s /\ pc[t] \in {"activating", "done"}
      BY <1>2, <2>2
    <3>2. invites[Code[t]].used_by = t
      BY <3>1 DEF SignupInv, SpentInv
    <3>3. Code[t] # Code[s]
      BY <1>4, <3>1, <3>2
    <3> QED
      BY <2>1, <3>2, <3>3
  <2> QED
    BY <2>2 DEF SpentInv
<1> QED
  BY <1>3, <1>4 DEF ResetInvite, Call, Fails

LEMMA SignupSpends ==
  ASSUME SignupInv, NEW s \in Signups, SignupStep(s)
  PROVE  SpentInv'
<1>1. CASE Preview(s) \/ CheckFree(s)
  <2>1. UNCHANGED invites
    BY <1>1 DEF Preview, CheckFree
  <2>2. PICK place \in {"checking", "reserving", "refused"} : Goto(s, place)
    BY <1>1 DEF Preview, CheckFree
  <2> QED
    BY <2>1, <2>2, MovedTo, SpentFrame DEF UsersOfInvitesKept
<1>2. CASE invite_reserve(s) \/ invite_release(s)
  <2>1. PICK place \in {"inserting", "refused"} : Goto(s, place)
    BY <1>2 DEF invite_reserve, invite_release, Call
  <2> QED
    BY <1>2, <2>1, MovedTo, SpentFrame, ReserveKeepsUsed
<1>3. CASE InsertUser(s) \/ CreateMailbox(s) \/ DestroyMailbox(s) \/ DeleteUser(s)
  <2>1. UNCHANGED invites
    BY <1>3 DEF InsertUser, CreateMailbox, DestroyMailbox, DeleteUser
  <2>2. PICK place \in {"creating", "releasing", "finalizing", "resetting", "kept"} :
          Goto(s, place)
    BY <1>3 DEF InsertUser, CreateMailbox, DestroyMailbox, DeleteUser, Call
  <2> QED
    BY <2>1, <2>2, MovedTo, SpentFrame DEF UsersOfInvitesKept
<1>4. CASE Activate(s)
  <2>1. UNCHANGED invites /\ pc[s] = "activating"
    BY <1>4 DEF Activate
  <2>2. PICK place : Goto(s, place)
    BY <1>4 DEF Activate, Call
  <2> QED
    BY <2>1, <2>2, MovedTo, SpentFrame DEF UsersOfInvitesKept
<1> QED
  BY <1>1, <1>2, <1>3, <1>4, FinalizeSpends, ResetSpares DEF SignupStep

-----------------------------------------------------------------------------
(* The inductive invariant and what follows.                               *)

LEMMA InitSignup ==
  ASSUME Init
  PROVE  SignupInv
<1>1. SignupTyped
  <2>1. [used_by |-> NoOne, revoked |-> FALSE, expired |-> FALSE,
         reserved |-> NoOne, lapsed |-> FALSE] \in Invite
    BY DEF Invite
  <2>2. DOMAIN users = {} /\ DOMAIN mailboxes = {}
    BY DEF Init
  <2>3. users \in [DOMAIN users -> User] /\ mailboxes \in [DOMAIN mailboxes -> BOOLEAN]
    BY <2>2 DEF Init
  <2>4. "idle" \in Fresh
    BY DEF Fresh
  <2> QED
    BY <2>1, <2>2, <2>3, <2>4 DEF Init, SignupTyped
<1>2. SpentInv
  BY DEF Init, SpentInv
<1>3. ASSUME NEW s \in Signups PROVE UserInv(s)
  <2>1. /\ s \notin DOMAIN users /\ s \notin DOMAIN mailboxes
        /\ pc[s] = "idle" /\ admin[s] = Idle
    BY DEF Init
  <2>2. pc[s] \notin InFlight
    BY <2>1 DEF InFlight
  <2> QED
    BY <2>1, <2>2, PlacesApart DEF UserInv, ProgressInv, AdminInv, SwitchInv
<1> QED
  BY <1>1, <1>2, <1>3 DEF SignupInv

LEMMA StepSignup ==
  ASSUME SignupInv, [Next]_vars
  PROVE  SignupInv'
<1>1. ASSUME NEW s \in Signups, SignupStep(s)
      PROVE  SignupInv'
  <2>1. Kept(s)
    BY <1>1, PreviewKeeps, CheckFreeKeeps, ReserveKeeps, InsertKeeps, CreateKeeps,
       FinalizeKeeps, ActivateKeeps, DestroyKeeps, ResetKeeps, DeleteKeeps, ReleaseKeeps
       DEF SignupStep
  <2>2. SpentInv'
    BY <1>1, SignupSpends
  <2> QED
    BY <2>1, <2>2, FrameOthers DEF Kept, SignupInv
<1>2. ASSUME NEW s \in Signups, AdminStep(s)
      PROVE  SignupInv'
  <2>1. Kept(s)
    BY <1>2, TakeKeeps, AdminMailboxKeeps, AdminStatusKeeps, DeadlineKeeps,
       FinishTakeKeeps, FinishMailboxKeeps, FinishUserKeeps DEF AdminStep
  <2>2. UNCHANGED <<invites, pc>>
    BY <1>2 DEF AdminStep, Take, AdminMailbox, AdminStatus, DeadlinePasses, FinishTake,
                FinishMailbox, FinishUser
  <2>3. SpentInv'
    BY <2>2, SpentFrame DEF UsersOfInvitesKept
  <2> QED
    BY <2>1, <2>3, FrameOthers DEF Kept, SignupInv
<1>3. ASSUME NEW i \in Invites, InviteStep(i)
      PROVE  SignupInv'
  <2>1. SpentInv'
    BY <1>3, InviteStepKeeps, SpentFrame DEF UsersOfInvitesKept
  <2> QED
    BY <1>3, <2>1, InviteStepKeeps DEF SignupInv
<1>4. CASE Crash
  <2>1. UNCHANGED invites
    BY <1>4 DEF Crash
  <2>2. \A s \in Signups : pc'[s] \in {"activating", "done"} => pc[s] \in {"activating", "done"}
    BY <1>4 DEF Crash
  <2>3. SpentInv'
    BY <2>1, <2>2, SpentFrame DEF UsersOfInvitesKept
  <2> QED
    BY <1>4, <2>3, CrashKeeps DEF SignupInv
<1>5. CASE UNCHANGED vars
  <2>1. \A s \in Signups : Same(s)
    BY <1>5 DEF vars, Same
  <2>2. \A s \in Signups : UserInv(s)'
    BY <2>1, Frame DEF SignupInv
  <2>3. SignupTyped' /\ SpentInv'
    BY <1>5 DEF vars, SignupInv, SignupTyped, SpentInv
  <2> QED
    BY <2>2, <2>3 DEF SignupInv
<1> QED
  BY <1>1, <1>2, <1>3, <1>4, <1>5 DEF Next, InviteStep

LEMMA SignupAlways == Spec => []SignupInv
BY InitSignup, StepSignup, PTL DEF Spec

(* A sign-up answered 201 stays the one its invite names, whatever lapses, *)
(* fails, is rolled back, released or revoked meanwhile: an invite makes   *)
(* at most one account (accounts.ts).                                      *)
THEOREM InviteSpentOnceHolds == Spec => []InviteSpentOnce
<1>1. SignupInv => InviteSpentOnce
  BY DEF SignupInv, SpentInv, InviteSpentOnce
<1> QED
  BY <1>1, SignupAlways, PTL

(* A rollback or a deletion removes the mailbox before it frees the name,  *)
(* and a suspended user's mailbox is off, apart from the cases named torn  *)
(* and strays (accounts.ts).                                               *)
THEOREM MailboxExplainedHolds == Spec => []MailboxExplained
<1>1. SignupInv => MailboxExplained
  <2> HAVE SignupInv
  <2>1. ASSUME NEW m \in DOMAIN mailboxes \ strays
        PROVE  \E u \in DOMAIN users : Username[u] = Username[m]
    <3>1. m \in DOMAIN users
      BY DEF SignupInv, SignupTyped, UserInv, ProgressInv
    <3> QED
      BY <3>1
  <2>2. ASSUME NEW s \in (DOMAIN users \cap DOMAIN mailboxes) \ torn
        PROVE  users[s].linked /\ users[s].status # "active" /\ admin[s] = Idle => ~mailboxes[s]
    <3>1. s \in Signups
      BY DEF SignupInv, SignupTyped
    <3> QED
      BY <3>1 DEF SignupInv, UserInv, SwitchInv
  <2> QED
    BY <2>1, <2>2 DEF MailboxExplained
<1> QED
  BY <1>1, SignupAlways, PTL
=============================================================================
