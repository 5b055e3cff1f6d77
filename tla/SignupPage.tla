----------------------------- MODULE SignupPage -----------------------------
(***************************************************************************)
(* The sign-up form (routes/signup/+page.svelte, CodeInput.svelte) and the *)
(* routes it calls (public_routes of accountApi.ts).  Checks of a username *)
(* run while the user types on, and their answers arrive in any order; the *)
(* code typed belongs to an address the user may change.  One of the calls *)
(* below `busy` is under way at a time, but its answer may be lost after   *)
(* the server acted.  What a sign-up does inside is module Signup, and     *)
(* what codes do EmailCodes.                                               *)
(***************************************************************************)
EXTENDS Integers, FiniteSets

CONSTANTS
  Names, Short, Refused, \* what may be typed; shorter than three; invalid or reserved
  Addresses, Linked,     \* external addresses; those of other accounts
  InviteEmail,           \* addresses the invite may have been mailed to, or Null
  MaxNames,              \* bounds: names typed, what the user does besides,
  MaxSteps, MaxSends,    \* and codes sent
  CallsFail,
  Null

NoCode == -1   \* fewer than four digits

VARIABLES
  page,    \* the form
  asking,  \* availability checks on their way: name and answer, by number
  call,    \* the call that made the form busy, or Null
  server,  \* taken usernames, the invite, its codes and its account
  p_steps, \* bounds: names typed and user actions besides so far
  unsure   \* history: the calls whose answer was lost after the server acted

pvars == <<page, asking, call, server, p_steps, unsure>>

preVerified == page.info # Null /\ page.address # "" /\ page.info.email = page.address
awaitingCode == page.address # "" /\ ~preVerified /\ page.codeSentTo = page.address
needsVerify == page.address # "" /\ ~preVerified /\ ~awaitingCode

accountReady ==
  page.availability # Null /\ page.availability.available /\ page.passwordsFit

canSubmit ==
  /\ accountReady /\ page.agreed /\ ~page.busy
  /\ IF needsVerify THEN ~page.cooldown ELSE (awaitingCode => page.code # NoCode)

Fields == page.info # Null /\ page.created = Null /\ ~page.busy
NameTyped == Fields /\ p_steps.names < MaxNames /\ p_steps' = [p_steps EXCEPT !.names = @ + 1]
UserActs == Fields /\ p_steps.other < MaxSteps /\ p_steps' = [p_steps EXCEPT !.other = @ + 1]

Over == [name |-> "", at |-> "over", available |-> FALSE]
Sent(kind) == [kind |-> kind, at |-> "sent", answer |-> Null]

(* Null is not a value of any of these. *)
Calls ==
  [kind : {"load", "send", "create"}, at : {"sent", "answered"},
   answer : {Null, "valid", "invite_invalid", "verified", "email_taken", "sent", "server_error",
             "code_cooldown", "code_limit", "username_taken", "code_invalid", "created",
             "mailbox_failed"}]
Accounts ==
  [username : Names \cup {""}, address : Addresses \cup InviteEmail \cup {""}]
SignupAssumption == Null \notin Calls \cup Accounts

PInit ==
  /\ page = [info |-> Null, loadError |-> FALSE, username |-> "", availability |-> Null,
             timer |-> Null, passwordsFit |-> FALSE, agreed |-> FALSE, address |-> "",
             codeSentTo |-> "", code |-> NoCode, cooldown |-> FALSE, busy |-> FALSE,
             created |-> Null]
  /\ asking = <<>> /\ call = Sent("load") /\ p_steps = [names |-> 0, other |-> 0] /\ unsure = {}
  /\ \E email \in InviteEmail, invite \in {"active", "gone"} :
       server = [taken |-> {}, invite |-> invite, email |-> email, sends |-> 0,
                 live |-> Null, cooling |-> FALSE, account |-> Null]

-----------------------------------------------------------------------------
(* What the user does. *)

(* A keystroke forgets the last answer and starts the 350 ms timer anew. *)
usernameChanged(name) ==
  /\ NameTyped /\ name # page.username
  /\ page' = [page EXCEPT !.username = name, !.availability = Null,
                          !.timer = IF name \in Short THEN Null ELSE name]
  /\ UNCHANGED <<asking, call, server, unsure>>

TypeAddress(address) ==
  /\ UserActs /\ address # page.address
  /\ page' = [page EXCEPT !.address = address]
  /\ UNCHANGED <<asking, call, server, unsure>>

(* Both passwords, and the box of the rules. *)
TypePasswords ==
  /\ Fields /\ ~(page.passwordsFit /\ page.agreed)
  /\ page' = [page EXCEPT !.passwordsFit = TRUE, !.agreed = TRUE]
  /\ UNCHANGED <<asking, call, server, p_steps, unsure>>

(* The digits of code n, or of none that was sent (0). *)
TypeCode(code) ==
  /\ UserActs /\ awaitingCode /\ code # page.code
  /\ page' = [page EXCEPT !.code = code]
  /\ UNCHANGED <<asking, call, server, unsure>>

Busy(request) ==
  /\ call' = request
  /\ page' = [page EXCEPT !.busy = TRUE]
  /\ UNCHANGED <<asking, server, unsure>>

(* The submit button, or "Resend code". *)
sendCode ==
  /\ UserActs
  /\ \/ canSubmit /\ needsVerify
     \/ awaitingCode /\ ~page.cooldown
  /\ Busy(Sent("send"))

createAccount ==
  /\ UserActs /\ canSubmit /\ ~needsVerify
  /\ Busy(Sent("create"))

-----------------------------------------------------------------------------
(* Timers of the page. *)

checkAvailability ==
  /\ page.timer # Null /\ page.created = Null
  /\ asking' = [n \in 1..Cardinality(DOMAIN asking) + 1 |->
                  IF n \in DOMAIN asking THEN asking[n]
                  ELSE [name |-> page.timer, at |-> "sent", available |-> FALSE]]
  /\ page' = [page EXCEPT !.timer = Null]
  /\ UNCHANGED <<call, server, p_steps, unsure>>

CooldownEnds ==
  /\ page.cooldown
  /\ page' = [page EXCEPT !.cooldown = FALSE]
  /\ UNCHANGED <<asking, call, server, p_steps, unsure>>

-----------------------------------------------------------------------------
(* The server.  An answer carries what was true when it was made. *)

NameFree(name) == name \notin Refused \cup server.taken

GetAvailable(n) ==
  /\ asking[n].at = "sent"
  /\ asking' = [asking EXCEPT ![n].at = "answered", ![n].available = NameFree(asking[n].name)]
  /\ UNCHANGED <<page, call, server, p_steps, unsure>>

Answered(answer) == call' = [call EXCEPT !.at = "answered", !.answer = answer]

GetInvite ==
  /\ call # Null /\ call.kind = "load" /\ call.at = "sent"
  /\ Answered(IF server.invite = "active" THEN "valid" ELSE "invite_invalid")
  /\ UNCHANGED <<page, asking, server, p_steps, unsure>>

(* signup_email_code; code_send replaces the code that was live.  mail_send *)
(* may throw after that.                                                    *)
PostEmailCode ==
  /\ call # Null /\ call.kind = "send" /\ call.at = "sent"
  /\ \/ /\ server.invite # "active" /\ Answered("invite_invalid")
        /\ UNCHANGED server
     \/ /\ server.invite = "active" /\ page.address = server.email
        /\ Answered("verified") /\ UNCHANGED server
     \/ /\ server.invite = "active" /\ page.address # server.email
        /\ page.address \in Linked /\ Answered("email_taken") /\ UNCHANGED server
     \/ /\ server.invite = "active" /\ page.address \notin Linked \cup {server.email}
        /\ \/ server.cooling /\ Answered("code_cooldown") /\ UNCHANGED server
           \/ /\ ~server.cooling /\ server.sends < MaxSends
              /\ server' = [server EXCEPT !.sends = @ + 1, !.cooling = TRUE,
                   !.live = [address |-> page.address, code |-> server.sends + 1]]
              /\ \/ Answered("sent")
                 \/ CallsFail /\ Answered("server_error")
           \/ /\ ~server.cooling /\ server.sends = MaxSends
              /\ Answered("code_limit") /\ UNCHANGED server
  /\ unsure' = IF call'.answer = "server_error" THEN unsure \cup {"send"} ELSE unsure
  /\ UNCHANGED <<page, asking, p_steps>>

CodeFits ==
  /\ server.live # Null
  /\ server.live.address = page.address /\ server.live.code = page.code

NeedsCode == page.address \notin {"", server.email}

(* signup: the code is used up before the invite and the name are taken,   *)
(* and stays used when a later step fails.                                 *)
PostSignup ==
  LET used == IF NeedsCode THEN [server EXCEPT !.live = Null] ELSE server
  IN
  /\ call # Null /\ call.kind = "create" /\ call.at = "sent"
  /\ \/ server.invite # "active" /\ Answered("invite_invalid") /\ UNCHANGED server
     \/ server.invite = "active" /\ ~NameFree(page.username)
        /\ Answered("username_taken") /\ UNCHANGED server
     \/ server.invite = "active" /\ NameFree(page.username)
        /\ \/ page.address \in Linked /\ Answered("email_taken") /\ UNCHANGED server
           \/ /\ page.address \notin Linked /\ NeedsCode /\ ~CodeFits
              /\ Answered("code_invalid") /\ UNCHANGED server
           \/ /\ page.address \notin Linked /\ NeedsCode => CodeFits
              /\ \/ /\ server' = [used EXCEPT !.invite = "gone",
                         !.account = [username |-> page.username, address |-> page.address]]
                    /\ Answered("created")
                 \/ CallsFail /\ server' = used /\ Answered("mailbox_failed")
  /\ UNCHANGED <<page, asking, p_steps, unsure>>

(* Others: a name is taken, a code expires or is burned, a cooldown ends.  *)
Meanwhile ==
  /\ \/ \E name \in Names \ (Short \cup server.taken) :
          server.account = Null /\ server' = [server EXCEPT !.taken = @ \cup {name}]
     \/ server.live # Null /\ server' = [server EXCEPT !.live = Null]
     \/ server.cooling /\ server' = [server EXCEPT !.cooling = FALSE]
  /\ UNCHANGED <<page, asking, call, p_steps, unsure>>

-----------------------------------------------------------------------------
(* Answers. *)

AnyName(name) == TRUE

(* The answer counts only while its name is still the one typed. *)
Concerns(name) == page.username = name

AvailabilityArrives(n) ==
  /\ asking[n].at = "answered"
  /\ asking' = [asking EXCEPT ![n] = Over]
  /\ page' = IF Concerns(asking[n].name)
             THEN [page EXCEPT !.availability =
                     [name |-> asking[n].name, available |-> asking[n].available]]
             ELSE page
  /\ UNCHANGED <<call, server, p_steps, unsure>>

InviteArrives ==
  /\ call # Null /\ call.kind = "load" /\ call.at = "answered"
  /\ page' = IF call.answer = "valid"
             THEN [page EXCEPT !.info = [email |-> server.email],
                     !.address = IF server.email = Null THEN "" ELSE server.email]
             ELSE [page EXCEPT !.loadError = TRUE]
  /\ call' = Null
  /\ UNCHANGED <<asking, server, p_steps, unsure>>

CodeAnswerArrives ==
  /\ call # Null /\ call.kind = "send" /\ call.at = "answered"
  /\ page' = CASE call.answer = "sent" ->
                    [page EXCEPT !.codeSentTo = page.address, !.code = NoCode,
                                 !.cooldown = TRUE, !.busy = FALSE]
               [] call.answer = "code_cooldown" ->
                    [page EXCEPT !.cooldown = TRUE, !.busy = FALSE]
               [] OTHER -> [page EXCEPT !.busy = FALSE]
  /\ call' = Null
  /\ unsure' = IF call.answer = "sent" THEN unsure \ {"send"} ELSE unsure
  /\ UNCHANGED <<asking, server, p_steps>>

(* A new account, or a code the server did not accept. *)
SignupAnswerArrives ==
  /\ call # Null /\ call.kind = "create" /\ call.at = "answered"
  /\ page' = CASE call.answer = "created" ->
                    [page EXCEPT !.created = server.account, !.passwordsFit = FALSE,
                                 !.busy = FALSE]
               [] call.answer = "code_invalid" -> [page EXCEPT !.code = NoCode, !.busy = FALSE]
               [] OTHER -> [page EXCEPT !.busy = FALSE]
  /\ call' = Null
  /\ UNCHANGED <<asking, server, p_steps, unsure>>

(* The request, or its answer, is lost: an error that says nothing of what *)
(* the server did.                                                         *)
CallLost ==
  /\ CallsFail /\ call # Null
  /\ page' = IF call.kind = "load" THEN [page EXCEPT !.loadError = TRUE]
             ELSE [page EXCEPT !.busy = FALSE]
  /\ call' = Null
  /\ unsure' = IF call.answer \in {"sent", "created"} THEN unsure \cup {call.kind} ELSE unsure
  /\ UNCHANGED <<asking, server, p_steps>>

AvailabilityLost(n) ==
  /\ CallsFail /\ asking[n].at # "over"
  /\ asking' = [asking EXCEPT ![n] = Over]
  /\ UNCHANGED <<page, call, server, p_steps, unsure>>

PNext ==
  \/ \E name \in Names : usernameChanged(name)
  \/ \E address \in Addresses \cup {""} : TypeAddress(address)
  \/ \E code \in 0..MaxSends : TypeCode(code)
  \/ TypePasswords \/ sendCode \/ createAccount
  \/ checkAvailability \/ CooldownEnds \/ Meanwhile
  \/ \E n \in DOMAIN asking :
       GetAvailable(n) \/ AvailabilityArrives(n) \/ AvailabilityLost(n)
  \/ GetInvite \/ PostEmailCode \/ PostSignup
  \/ InviteArrives \/ CodeAnswerArrives \/ SignupAnswerArrives \/ CallLost

PSpec == PInit /\ [][PNext]_pvars

-----------------------------------------------------------------------------
(* What the form lets the user create. *)
SubmittedNameWasFree ==
  canSubmit => page.availability.name = page.username

(* The code asked for is the one that counts, if any: a code live at the   *)
(* server was mailed to the address in the form.                           *)
CodeAskedCounts ==
  awaitingCode /\ call = Null /\ "send" \notin unsure /\ server.live # Null
    => server.live.address = page.address

(* Welcome is shown for the account that was made, with what the form says;*)
(* the form stays on an account that exists only when an answer was lost.  *)
WelcomeTrue ==
  /\ page.created # Null =>
       page.created = [username |-> page.username, address |-> page.address]
  /\ server.account # Null =>
       page.created # Null \/ call # Null \/ "create" \in unsure

(* However the answers are ordered: a name is submitted only on its own    *)
(* check, a code belongs to the address shown, and what is created is what *)
(* the form showed (checkAvailability, sendCode, createAccount).           *)
SignupAsShown == SubmittedNameWasFree /\ CodeAskedCounts /\ WelcomeTrue
=============================================================================
