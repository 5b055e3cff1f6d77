----------------------------- MODULE AdminViews -----------------------------
(***************************************************************************)
(* The tabs of the admin page that list tokens, users, invites and access  *)
(* requests (TokensView, UsersView, InvitesView and RequestsView), and the *)
(* endpoints behind them.                                                  *)
(*                                                                         *)
(* A tab loads its list when it is opened and, for users and requests,     *)
(* when the search or the filter says so; it does not load it again after  *)
(* a change, but puts what the server answered in the place of the row.    *)
(* Meanwhile loads may overlap changes, others change the same rows, and   *)
(* the tab may be left, after which its answers reach nobody.              *)
(***************************************************************************)
EXTENDS Integers, Sequences, FiniteSets, SequencesExt

CONSTANTS
  Tabs,          \* of "tokens", "users", "invites", "requests"
  Ids,           \* what there is at first, larger is newer
  New,           \* the id of what the admin creates, larger than Ids
  Matching,      \* the users that a search finds
  MaxSteps,      \* bound: what the admin and others do
  RequestsFail   \* BOOLEAN: an answer may be lost

VARIABLES
  tab, view,   \* the open tab, and how often one was opened
  server,      \* what the database says of each id, None before it is created
  filter,      \* the users' search or the requests' filter
  items,       \* the rows shown: <<[id, value], ...>>
  busy,        \* ids whose buttons are disabled
  creating,    \* the form waits for its answer
  under,       \* requests under way
  v_steps,
  overlapped   \* history: a load overlapped something, or somebody else changed
               \* a row or an answer was lost, and nothing was loaded alone since

vvars == <<tab, view, server, filter, items, busy, creating, under, v_steps, overlapped>>

None == "none"
Absent == {None, "deleted"}
All == Ids \cup {New}
Filters == CASE tab = "users" -> {"", "search"}
             [] tab = "requests" -> {"pending", "all", "rejected"}
             [] tab \in {"tokens", "invites"} -> {""}
Unfiltered(t) == IF t = "requests" THEN "pending" ELSE ""
First(t) == IF t = "requests" THEN "pending" ELSE "active"
Step == v_steps < MaxSteps /\ v_steps' = v_steps + 1

(***************************************************************************)
(* The server.                                                             *)
(***************************************************************************)

Sorted(ids) == SetToSortSeq(ids, >)
Rows(ids) == [i \in 1..Cardinality(ids) |-> [id |-> Sorted(ids)[i], value |-> server[Sorted(ids)[i]]]]
Known == {i \in All : server[i] \notin Absent}

token_list == Rows(Known)
invite_list == Rows(Known)
user_list(search) ==
  Rows({i \in Known : server[i] # "deleting" /\ (search = "" \/ i \in Matching)})

(* Pending ones first. *)
request_list(status) ==
  LET found == {i \in Known : status = "all" \/ server[i] = status}
      pending == {i \in found : server[i] = "pending"}
  IN Rows(pending) \o Rows(found \ pending)

List(with) == CASE tab = "tokens" -> token_list [] tab = "invites" -> invite_list
                [] tab = "users" -> user_list(with) [] tab = "requests" -> request_list(with)

(* Which changes find a document they match; else the answer is 404 or 409. *)
token_update(i) == server[i] \notin Absent
token_delete(i) == server[i] \notin Absent
user_update(i) == server[i] \notin Absent \cup {"deleting"}
user_delete(i) == server[i] \notin Absent
invite_revoke(i) == server[i] \in {"active", "expired"}
request_decide(i) == server[i] = "pending"

Matches(i, change) ==
  CASE tab = "tokens" -> IF change = "deleted" THEN token_delete(i) ELSE token_update(i)
    [] tab = "users" -> IF change = "deleting" THEN user_delete(i) ELSE user_update(i)
    [] tab = "invites" -> invite_revoke(i)
    [] tab = "requests" -> request_decide(i)

Serve(k) ==
  LET ok == k.kind = "change" => Matches(k.id, k.value)
      Replace(new) == under' = (under \ {k}) \cup {new}
  IN
  /\ k.stage = "sent" /\ k.view = view
  /\ server' = IF k.kind = "load" \/ ~ok THEN server ELSE [server EXCEPT ![k.id] = k.value]
  /\ Replace([k EXCEPT !.stage = IF ok THEN "ok" ELSE "refused",
                       !.rows = IF k.kind = "load" THEN List(k.with) ELSE <<>>])
  /\ UNCHANGED <<tab, view, filter, items, busy, creating, v_steps, overlapped>>

(* A signup spends an invite, an invite expires, another admin decides.    *)
Elsewhere(i) ==
  LET values == CASE tab = "tokens" -> {"revoked", "deleted"} [] tab = "users" -> {"deleting"}
                  [] tab = "invites" -> {"used", "expired"} [] tab = "requests" -> {"rejected"}
  IN
  /\ Step
  /\ server[i] = First(tab)
  /\ \E value \in values : server' = [server EXCEPT ![i] = value]
  /\ overlapped' = TRUE
  /\ UNCHANGED <<tab, view, filter, items, busy, creating, under>>

(***************************************************************************)
(* The page.                                                               *)
(***************************************************************************)

NewRequest(n, v, kind, id, value, with) ==
  [n |-> n, view |-> v, kind |-> kind, id |-> id, value |-> value, with |-> with,
   stage |-> "sent", rows |-> <<>>]

(* load, tokensLoad: nothing waits for it, and it waits for nothing. *)
load(v, with) ==
  /\ under' = under \cup {NewRequest(v_steps, v, "load", 0, None, with)}
  /\ overlapped' = (under # {})

VInit ==
  /\ tab \in Tabs /\ view = 1
  /\ server = [i \in All |-> IF i \in Ids THEN First(tab) ELSE None]
  /\ filter = Unfiltered(tab) /\ items = <<>> /\ busy = {} /\ creating = FALSE
  /\ under = {NewRequest(-1, 1, "load", 0, None, filter)}
  /\ v_steps = 0 /\ overlapped = FALSE

(* The tab is left and opened again: a new component, which loads.  What   *)
(* was sent before is still served, at any time or never, to nobody.       *)
Reopen ==
  /\ Step
  /\ view' = view + 1
  /\ filter' = Unfiltered(tab) /\ items' = <<>> /\ busy' = {} /\ creating' = FALSE
  /\ load(view', filter')
  /\ UNCHANGED <<tab, server>>

ServeLate(k) ==
  /\ k.view # view /\ k.stage = "sent" /\ k.kind # "load"
  /\ server' = IF k.kind = "create" \/ Matches(k.id, k.value)
               THEN [server EXCEPT ![k.id] = k.value] ELSE server
  /\ under' = under \ {k}
  /\ overlapped' = TRUE
  /\ UNCHANGED <<tab, view, filter, items, busy, creating, v_steps>>

Gone(k) ==
  /\ k.view # view /\ (k.kind = "load" \/ k.stage # "sent")
  /\ under' = under \ {k}
  /\ UNCHANGED <<tab, view, server, filter, items, busy, creating, v_steps, overlapped>>

(* The search form of the users, the select of the requests. *)
Filter(with) ==
  /\ Step
  /\ Filters # {""} /\ with \in Filters
  /\ filter' = with
  /\ load(view, with)
  /\ UNCHANGED <<tab, view, server, items, busy, creating>>

(* tokenMutate, mutate, revoke, decide: disabled while one is under way.   *)
Enabled(row) == row.id \notin busy

Change(row, value) ==
  /\ Step
  /\ Enabled(row)
  /\ busy' = busy \cup {row.id}
  /\ UNCHANGED <<tab, view, server, filter, items, creating>>
  /\ under' = under \cup {NewRequest(v_steps, view, "change", row.id, value, filter)}
  /\ overlapped' = (overlapped \/ \E k \in under : k.kind = "load" \/ k.view # view)

tokenRevokeToggle(row) ==
  tab = "tokens" /\ Change(row, IF row.value = "revoked" THEN "active" ELSE "revoked")
tokenDelete(row) == tab = "tokens" /\ Change(row, "deleted")
toggleStatus(row) ==
  tab = "users" /\ Change(row, IF row.value = "active" THEN "disabled" ELSE "active")
remove(row) == tab = "users" /\ Change(row, "deleting")
revoke(row) == tab = "invites" /\ row.value = "active" /\ Change(row, "revoked")
decide(row) ==
  /\ tab = "requests" /\ row.value = "pending"
  /\ \E decision \in {"approved", "rejected"} : Change(row, decision)

(* tokenCreate, create: one at a time; a token value may be taken. *)
Create ==
  /\ Step
  /\ tab \in {"tokens", "invites"} /\ ~creating
  /\ server[New] = None /\ \A k \in under : k.kind # "create"
  /\ creating' = TRUE
  /\ UNCHANGED <<tab, view, server, filter, items, busy>>
  /\ under' = under \cup {NewRequest(v_steps, view, "create", New, First(tab), filter)}
  /\ overlapped' = (overlapped \/ \E k \in under : k.kind = "load")

Answered(k) == k.view = view /\ under' = under \ {k} /\ UNCHANGED <<tab, view, server, filter, v_steps>>

LoadAnswer(k) ==
  /\ k.kind = "load" /\ k.stage = "ok"
  /\ Answered(k)
  /\ items' = k.rows
  /\ UNCHANGED <<busy, creating, overlapped>>

(* Deleted rows are taken out, others replaced where they are.  An invite  *)
(* is not sent back: its row is set to revoked.                            *)
Removes(value) == value \in {"deleted", "deleting"}

(* Mutant of InPlace: the row is kept as it was. *)
Untouched(rows, id, value) == rows

InPlace(rows, id, value) ==
  IF Removes(value) THEN SelectSeq(rows, LAMBDA row : row.id # id)
  ELSE [i \in DOMAIN rows |-> IF rows[i].id = id THEN [rows[i] EXCEPT !.value = value] ELSE rows[i]]

ChangeAnswer(k) ==
  /\ k.kind = "change" /\ k.stage = "ok"
  /\ Answered(k)
  /\ items' = InPlace(items, k.id, k.value)
  /\ busy' = busy \ {k.id}
  /\ UNCHANGED <<creating, overlapped>>

CreateAnswer(k) ==
  /\ k.kind = "create" /\ k.stage = "ok"
  /\ Answered(k)
  /\ items' = <<[id |-> k.id, value |-> k.value]>> \o items
  /\ creating' = FALSE
  /\ UNCHANGED <<busy, overlapped>>

(* 404 or 409, or no answer: an alert, and the row stays as it is. *)
Fails(k) ==
  /\ k.stage = "refused" \/ (RequestsFail /\ k.stage \in {"sent", "ok"})
  /\ Answered(k)
  /\ busy' = IF k.kind = "change" THEN busy \ {k.id} ELSE busy
  /\ creating' = (creating /\ k.kind # "create")
  /\ overlapped' = (overlapped \/ k.stage # "refused")
  /\ UNCHANGED items

VNext ==
  \/ Reopen \/ Create
  \/ \E i \in Ids : Elsewhere(i)
  \/ \E with \in Filters : Filter(with)
  \/ \E r \in Range(items) : \/ tokenRevokeToggle(r) \/ tokenDelete(r) \/ toggleStatus(r)
                             \/ remove(r) \/ revoke(r) \/ decide(r)
  \/ \E k \in under : \/ Serve(k) \/ ServeLate(k) \/ Gone(k) \/ LoadAnswer(k)
                      \/ ChangeAnswer(k) \/ CreateAnswer(k) \/ Fails(k)

-----------------------------------------------------------------------------
(* Properties.                                                             *)

(* With nothing under way every button can be used, and, unless a load     *)
(* overlapped a change, somebody else was there or an answer was lost, the *)
(* rows are what the server would list: each once, in its order, with the  *)
(* value it has.  Requests decided here stay where they were although the  *)
(* filter would no longer list them, or not there.                         *)
RowsCurrent ==
  under = {} =>
    /\ busy = {} /\ ~creating
    /\ ~overlapped =>
         IF tab # "requests" THEN items = List(filter)
         ELSE /\ IsInjective([i \in DOMAIN items |-> items[i].id])
              /\ Range(List(filter)) \subseteq Range(items)
              /\ \A row \in Range(items) : row.value = server[row.id]
=============================================================================
