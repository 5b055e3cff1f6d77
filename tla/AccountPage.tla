----------------------------- MODULE AccountPage ----------------------------
(***************************************************************************)
(* The account page (routes/account/+page.svelte) and the routes it calls  *)
(* (me_routes of accountApi.ts).  The panel of the external address and    *)
(* the one of the redirect are busy separately, so a call of each may be   *)
(* under way; the server works on one at a time (account_lock) and answers *)
(* with all the settings, which the page then shows, in the order in which *)
(* answers arrive.  What an operation does inside is module Account.       *)
(***************************************************************************)
EXTENDS Integers

CONSTANTS
  Addresses, Taken,    \* external addresses; those of other accounts
  MaxSteps, MaxSends,  \* bounds: what the user does; codes sent
  CallsFail,
  Null

NoCode == -1           \* fewer than four digits
Panels == {"load", "email", "redirect"}

VARIABLES
  account,  \* the server: settings (with a version), live code, session
  view,     \* the page
  boxes,    \* the two checkboxes as the browser shows them
  calls,    \* the call of each panel, or Null
  n_steps,  \* bound: user actions so far
  amiss     \* history: "crossed": an answer overtook a newer one; "lost"; "elsewhere"

nvars == <<account, view, boxes, calls, n_steps, amiss>>

(* Null is not a value of any of these. *)
Settings == [external : Addresses \cup {Null, ""}, enabled : BOOLEAN, keep : BOOLEAN, version : Nat]
Stages == {"sent", "answered"}
Reasons ==
  {"not_signed_in", "server_error", "email_unchanged", "email_taken", "code_cooldown",
   "code_limit", "code_invalid", "password_wrong", "no_external_email"}
Answers == {Null} \cup [ok : {FALSE}, why : Reasons] \cup [ok : {TRUE}, me : Settings \cup {Null}]
Requests ==
  [op : {"load"}, at : Stages, answer : Answers]
    \cup [op : {"send"}, address : Addresses \cup {""}, at : Stages, answer : Answers]
    \cup [op : {"verify"}, address : Addresses \cup {""}, code : Int, at : Stages, answer : Answers]
    \cup [op : {"remove"}, right : BOOLEAN, at : Stages, answer : Answers]
    \cup [op : {"redirect"}, enabled : BOOLEAN, keep : BOOLEAN, at : Stages, answer : Answers]
AccountAssumption == Null \notin Settings \cup Requests

(* me_view *)
Me == account.settings

NInit ==
  /\ \E external \in {Null} \cup (Addresses \ Taken), enabled \in BOOLEAN :
       /\ enabled => external # Null
       /\ account = [settings |-> [external |-> external, enabled |-> enabled,
                                   keep |-> TRUE, version |-> 0],
                     live |-> Null, sends |-> 0, cooling |-> FALSE, session |-> TRUE]
  /\ view = [me |-> Null, loadError |-> FALSE, left |-> FALSE, editing |-> FALSE,
             removing |-> FALSE, address |-> "", codeSentTo |-> "", code |-> NoCode,
             cooldown |-> FALSE]
  /\ boxes = Null
  /\ calls = [p \in Panels |-> IF p = "load" THEN [op |-> "load", at |-> "sent", answer |-> Null]
                               ELSE Null]
  /\ n_steps = 0 /\ amiss = {}

emailBusy == calls["email"] # Null
redirectBusy == calls["redirect"] # Null

Shown == view.me # Null /\ ~view.loadError /\ ~view.left
UserActs == n_steps < MaxSteps /\ n_steps' = n_steps + 1
Call(panel, request) == calls' = [calls EXCEPT ![panel] = request]

-----------------------------------------------------------------------------
(* The panel of the external address. *)

startEditing ==
  /\ UserActs /\ Shown /\ ~view.editing /\ ~view.removing
  /\ view' = [view EXCEPT !.editing = TRUE, !.address = "", !.codeSentTo = "",
                          !.code = NoCode]
  /\ UNCHANGED <<account, boxes, calls, amiss>>

TypeAddress(address) ==
  /\ UserActs /\ Shown /\ view.editing /\ ~emailBusy /\ address # view.address
  /\ view' = [view EXCEPT !.address = address]
  /\ UNCHANGED <<account, boxes, calls, amiss>>

sendCode ==
  /\ UserActs /\ Shown /\ view.editing
  /\ ~emailBusy /\ ~view.cooldown /\ view.address # ""
  /\ Call("email", [op |-> "send", address |-> view.address, at |-> "sent", answer |-> Null])
  /\ UNCHANGED <<account, view, boxes, amiss>>

(* Mutant of CodeBoxes: the boxes stay when the address is edited. *)
CodeBoxesStay == view.editing /\ view.codeSentTo # ""

(* The code's boxes are there while the address it was sent to is typed.   *)
CodeBoxes == view.editing /\ view.codeSentTo # "" /\ view.codeSentTo = view.address

(* The fourth digit calls verify (oncomplete). *)
verify(code) ==
  /\ UserActs /\ Shown /\ CodeBoxes /\ ~emailBusy
  /\ view' = [view EXCEPT !.code = code]
  /\ Call("email", [op |-> "verify", address |-> view.codeSentTo, code |-> code,
                    at |-> "sent", answer |-> Null])
  /\ UNCHANGED <<account, boxes, amiss>>

startRemoving ==
  /\ UserActs /\ Shown /\ ~view.editing /\ ~view.removing /\ view.me.external # Null
  /\ view' = [view EXCEPT !.removing = TRUE]
  /\ UNCHANGED <<account, boxes, calls, amiss>>

remove(password) ==
  /\ UserActs /\ Shown /\ view.removing /\ ~view.editing /\ ~emailBusy
  /\ Call("email", [op |-> "remove", right |-> password, at |-> "sent", answer |-> Null])
  /\ UNCHANGED <<account, view, boxes, amiss>>

Cancel ==
  /\ UserActs /\ Shown /\ ~emailBusy
  /\ \/ view.editing /\ view' = [view EXCEPT !.editing = FALSE]
     \/ ~view.editing /\ view.removing /\ view' = [view EXCEPT !.removing = FALSE]
  /\ UNCHANGED <<account, boxes, calls, amiss>>

(* The panel of the redirect: a click changes a box and sends both, the    *)
(* other one as `me` has it.                                               *)
setRedirect(box) ==
  LET clicked == [boxes EXCEPT ![box] = ~@]
  IN
  /\ UserActs /\ Shown /\ view.me.external # Null /\ ~redirectBusy
  /\ box = "keep" => view.me.enabled
  /\ boxes' = clicked
  /\ Call("redirect", [op |-> "redirect",
                       enabled |-> box = "keep" \/ clicked.enabled,
                       keep |-> IF box = "keep" THEN clicked.keep ELSE view.me.keep,
                       at |-> "sent", answer |-> Null])
  /\ UNCHANGED <<account, view, amiss>>

(* load does not take back loadError: what Retry fetches is not shown.     *)
Retry ==
  /\ UserActs /\ view.loadError /\ ~view.left /\ calls["load"] = Null
  /\ Call("load", [op |-> "load", at |-> "sent", answer |-> Null])
  /\ UNCHANGED <<account, view, boxes, amiss>>

(* The browser leaves whatever the logout answers. *)
signOut ==
  /\ UserActs /\ Shown
  /\ view' = [view EXCEPT !.left = TRUE]
  /\ account' = [account EXCEPT !.session = FALSE]
  /\ UNCHANGED <<boxes, calls, amiss>>

CooldownEnds ==
  /\ view.cooldown
  /\ view' = [view EXCEPT !.cooldown = FALSE]
  /\ UNCHANGED <<account, boxes, calls, n_steps, amiss>>

-----------------------------------------------------------------------------
(* The server. *)

Under(panel) == calls[panel] # Null /\ calls[panel].at = "sent"
Answer(panel, answer) ==
  calls' = [calls EXCEPT ![panel].at = "answered", ![panel].answer = answer]

Refuse(panel, why) == Answer(panel, [ok |-> FALSE, why |-> why]) /\ UNCHANGED account
Serve(panel, new) ==
  LET stamped == [new EXCEPT !.version = account.settings.version + 1] IN
  /\ account' = [account EXCEPT !.settings = stamped]
  /\ Answer(panel, [ok |-> TRUE, me |-> stamped])

(* session_required comes first; a call fails as a whole when Stalwart or  *)
(* MongoDB does (redirect_sync undoes what it did).                        *)
Handle(panel) ==
  /\ Under(panel)
  /\ \/ ~account.session /\ Refuse(panel, "not_signed_in")
     \/ account.session /\ CallsFail /\ Refuse(panel, "server_error")
     \/ /\ account.session
        /\ LET c == calls[panel] s == account.settings IN
           \/ c.op = "load" /\ Answer(panel, [ok |-> TRUE, me |-> s]) /\ UNCHANGED account
           \/ /\ c.op = "send"
              /\ \/ s.external = c.address /\ Refuse(panel, "email_unchanged")
                 \/ s.external # c.address /\ c.address \in Taken /\ Refuse(panel, "email_taken")
                 \/ /\ s.external # c.address /\ c.address \notin Taken
                    /\ IF account.cooling THEN Refuse(panel, "code_cooldown")
                       ELSE IF account.sends = MaxSends THEN Refuse(panel, "code_limit")
                       ELSE /\ account' = [account EXCEPT !.sends = @ + 1, !.cooling = TRUE,
                                 !.live = [address |-> c.address, code |-> account.sends + 1]]
                            /\ Answer(panel, [ok |-> TRUE, me |-> Null])
           \/ /\ c.op = "verify"
              /\ IF account.live = [address |-> c.address, code |-> c.code]
                 THEN LET new == [s EXCEPT !.external = c.address,
                                           !.version = s.version + 1]
                      IN /\ account' = [account EXCEPT !.settings = new, !.live = Null]
                         /\ Answer(panel, [ok |-> TRUE, me |-> new])
                 ELSE Refuse(panel, "code_invalid")
           \/ /\ c.op = "remove"
              /\ IF ~c.right THEN Refuse(panel, "password_wrong")
                 ELSE IF s.external = Null THEN Refuse(panel, "no_external_email")
                 ELSE Serve(panel, [s EXCEPT !.external = Null, !.enabled = FALSE])
           \/ /\ c.op = "redirect"
              /\ IF c.enabled /\ s.external = Null THEN Refuse(panel, "no_external_email")
                 ELSE Serve(panel, [s EXCEPT !.enabled = c.enabled, !.keep = c.keep])
  /\ UNCHANGED <<view, boxes, n_steps, amiss>>

(* Bounces turn the redirect off; a session and a code's cooldown end.     *)
Elsewhere ==
  /\ \/ /\ account.settings.enabled
        /\ account' = [account EXCEPT !.settings.enabled = FALSE, !.settings.version = @ + 1]
        /\ amiss' = amiss \cup {"elsewhere"}
     \/ account.session /\ account' = [account EXCEPT !.session = FALSE] /\ UNCHANGED amiss
     \/ account.cooling /\ account' = [account EXCEPT !.cooling = FALSE] /\ UNCHANGED amiss
  /\ UNCHANGED <<view, boxes, calls, n_steps>>

-----------------------------------------------------------------------------
(* Answers. *)

(* Svelte writes a box when the expression it is bound to changes, and     *)
(* else leaves it as the click did.                                        *)
Rendered(old, me) ==
  IF old = Null \/ boxes = Null \/ me.external = Null \/ old.external = Null
  THEN IF me.external = Null THEN Null ELSE [enabled |-> me.enabled, keep |-> me.keep]
  ELSE [enabled |-> IF me.enabled # old.enabled THEN me.enabled ELSE boxes.enabled,
        keep |-> IF me.keep # old.keep THEN me.keep ELSE boxes.keep]

ShowMe(new, me) ==
  /\ view' = [new EXCEPT !.me = me]
  /\ boxes' = Rendered(view.me, me)
  /\ amiss' = IF view.me # Null /\ me.version < view.me.version
              THEN amiss \cup {"crossed"} ELSE amiss

Arrives(panel) ==
  LET c == calls[panel] IN
  /\ c # Null /\ c.at = "answered"
  /\ Call(panel, Null)
  /\ IF c.answer.ok
     THEN CASE c.op = "send" ->
                 /\ view' = [view EXCEPT !.codeSentTo = view.address, !.code = NoCode,
                                         !.cooldown = TRUE]
                 /\ UNCHANGED <<boxes, amiss>>
            [] c.op = "verify" -> ShowMe([view EXCEPT !.editing = FALSE], c.answer.me)
            [] c.op = "remove" -> ShowMe([view EXCEPT !.removing = FALSE], c.answer.me)
            [] OTHER -> ShowMe(view, c.answer.me)
     ELSE /\ view' = IF c.answer.why = "not_signed_in" THEN [view EXCEPT !.left = TRUE]
                     ELSE [view EXCEPT
                             !.loadError = @ \/ c.op = "load",
                             !.code = IF c.op = "verify" THEN NoCode ELSE @,
                             !.cooldown = @ \/ c.answer.why = "code_cooldown"]
          /\ amiss' = IF c.op = "redirect" THEN amiss \cup {"refused"} ELSE amiss
          /\ UNCHANGED boxes
  /\ UNCHANGED <<account, n_steps>>

CallLost(panel) ==
  /\ CallsFail /\ calls[panel] # Null
  /\ Call(panel, Null)
  /\ view' = [view EXCEPT !.loadError = @ \/ panel = "load",
                          !.code = IF calls[panel].op = "verify" THEN NoCode ELSE @]
  /\ amiss' = amiss \cup {"lost"}
  /\ UNCHANGED <<account, boxes, n_steps>>

NNext ==
  \/ startEditing \/ startRemoving \/ sendCode \/ Cancel \/ Retry \/ signOut
  \/ \E address \in Addresses \cup {""} : TypeAddress(address)
  \/ \E code \in 0..MaxSends : verify(code)
  \/ \E right \in BOOLEAN : remove(right)
  \/ \E box \in {"enabled", "keep"} : setRedirect(box)
  \/ CooldownEnds \/ Elsewhere
  \/ \E panel \in Panels : Handle(panel) \/ Arrives(panel) \/ CallLost(panel)

NSpec == NInit /\ [][NNext]_nvars

-----------------------------------------------------------------------------
(* With no call under way, the page shows the settings the server has,     *)
(* unless an answer was lost or overtook another, or bounces changed them. *)
SettingsCurrent ==
  Shown /\ ~emailBusy /\ ~redirectBusy /\ amiss \subseteq {"refused"} => view.me = Me

(* The boxes say what `me` says, unless a change was refused or lost.      *)
BoxesTrue ==
  Shown /\ view.me.external # Null /\ ~redirectBusy /\ amiss \subseteq {"elsewhere", "crossed"} =>
    boxes = [enabled |-> view.me.enabled, keep |-> view.me.keep]

(* The address that is verified is the one in the field. *)
VerifiedAsTyped ==
  calls["email"] # Null /\ calls["email"].op = "verify" =>
    calls["email"].address = view.address

(* The settings shown, the boxes and the address being verified agree with *)
(* each other and with the server (verify, remove, setRedirect).           *)
AccountAsShown == SettingsCurrent /\ BoxesTrue /\ VerifiedAsTyped
=============================================================================
