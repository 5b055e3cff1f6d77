--------------------------- MODULE AccessRequests ---------------------------
(***************************************************************************)
(* Access requests and the admin's decisions on them (accounts.ts).        *)
(*                                                                         *)
(* A post counts the pending requests of its address, then all pending     *)
(* ones, then inserts; no index stands behind either count.  A decision    *)
(* is one findOneAndUpdate; an approval then creates an invite and links   *)
(* it.  Calls fail with or without effect, and the process may die between *)
(* two of them.                                                            *)
(***************************************************************************)
EXTENDS Naturals, FiniteSets

CONSTANTS
  Posts, AddressKey,     \* posts of the form, and the address key of each
  Approvals, Rejections, \* the admin's clicks
  About,                 \* the post each of them is about
  MaxPending,            \* ACCOUNT_REQUESTS_MAX_PENDING
  FaultsAllowed          \* BOOLEAN: calls may fail and the process may die

ASSUME AccessAssumption ==
  /\ IsFiniteSet(Posts) /\ MaxPending \in Nat
  /\ Posts \cap (Approvals \cup Rejections) = {} /\ Approvals \cap Rejections = {}
  /\ About \in [Approvals \cup Rejections -> Posts]

VARIABLES
  account_requests,  \* the collection: [status, invite] by post
  invites,           \* invites with a request_id, by the approval that made them
  at,                \* where each post and each decision is suspended
  stale              \* history: posts that were counting while another was inserted

rvars == <<account_requests, invites, at, stale>>

Actors == Posts \cup Approvals \cup Rejections
NoInvite == "none"

Step(a, place) == at' = [at EXCEPT ![a] = place]
Pending == {p \in DOMAIN account_requests : account_requests[p].status = "pending"}
SameKey(p) == {q \in Pending : AddressKey[q] = AddressKey[p]}

RInit ==
  /\ account_requests = <<>> /\ invites = {} /\ stale = {}
  /\ at = [a \in Actors |-> "idle"]

(* A step a that has an effect, or throws with the effect or without it.   *)
RCall(a, effect, place) ==
  \/ effect /\ Step(a, place)
  \/ FaultsAllowed /\ Step(a, "error") /\ (effect \/ UNCHANGED <<account_requests, invites>>)

(* The address has a pending request already: answered like a success.     *)
CountSame(p) ==
  /\ at[p] = "idle"
  /\ Step(p, IF SameKey(p) # {} THEN "done" ELSE "counting")
  /\ UNCHANGED <<account_requests, invites, stale>>

Full == Cardinality(Pending) >= MaxPending

CountPending(p) ==
  /\ at[p] = "counting"
  /\ Step(p, IF Full THEN "full" ELSE "inserting")
  /\ UNCHANGED <<account_requests, invites, stale>>

InsertRequest(p) ==
  LET insert == /\ account_requests' = [q \in DOMAIN account_requests \cup {p} |->
                     IF q = p THEN [status |-> "pending", invite |-> NoInvite]
                     ELSE account_requests[q]]
                /\ UNCHANGED invites
      overtaken == {q \in Posts \ {p} : at[q] \in {"counting", "inserting"}}
  IN
  /\ at[p] = "inserting"
  /\ RCall(p, insert, "done")
  /\ stale' = IF p \in DOMAIN account_requests' THEN stale \cup overtaken ELSE stale

(* Mutant of Undecided: an approval does not ask for the status. *)
Known(d) == About[d] \in DOMAIN account_requests

Undecided(d) == About[d] \in Pending

(* findOneAndUpdate of a pending request; 404 or 409 when there is none.   *)
Decide(d, verdict, place) ==
  LET write == /\ account_requests' = [account_requests EXCEPT ![About[d]].status = verdict]
               /\ UNCHANGED invites
  IN
  /\ at[d] = "idle"
  /\ IF Undecided(d) THEN RCall(d, write, place)
     ELSE Step(d, "refused") /\ UNCHANGED <<account_requests, invites>>
  /\ UNCHANGED stale

request_reject(d) == Decide(d, "rejected", "done")
request_approve(d) == Decide(d, "approved", "inviting")

(* invite_create, with the request's id and address. *)
CreateInvite(d) ==
  /\ at[d] = "inviting"
  /\ RCall(d, invites' = invites \cup {d} /\ UNCHANGED account_requests, "linking")
  /\ UNCHANGED stale

(* The request's invite_id; then the invite is mailed. *)
LinkInvite(d) ==
  LET link == /\ account_requests' = [account_requests EXCEPT ![About[d]].invite = d]
              /\ UNCHANGED invites
  IN
  /\ at[d] = "linking"
  /\ RCall(d, link, "done")
  /\ UNCHANGED stale

RCrash ==
  /\ FaultsAllowed
  /\ at' = [a \in Actors |-> IF at[a] \in {"counting", "inserting", "inviting", "linking"}
                             THEN "error" ELSE at[a]]
  /\ UNCHANGED <<account_requests, invites, stale>>

RNext ==
  \/ \E p \in Posts : CountSame(p) \/ CountPending(p) \/ InsertRequest(p)
  \/ \E d \in Rejections : request_reject(d)
  \/ \E d \in Approvals : request_approve(d) \/ CreateInvite(d) \/ LinkInvite(d)
  \/ RCrash

RSpec == RInit /\ [][RNext]_rvars

-----------------------------------------------------------------------------
(* Properties.                                                             *)

(* However often the admin clicks, and whatever fails, a request leads to  *)
(* at most one invite, and to none unless it is granted and stays so.     *)
(* The cap, and one pending request per address, are exceeded by no more   *)
(* than the posts that had begun to count when another was inserted.       *)
OneInvitePerRequest ==
  /\ \A d \in invites : account_requests[About[d]].status = "approved"
  /\ \A d, e \in invites : About[d] = About[e] => d = e
  /\ \A p \in DOMAIN account_requests :
       account_requests[p].invite \in invites \cup {NoInvite}
  /\ Cardinality(Pending \ stale) =< MaxPending
  /\ \A p, q \in Pending \ stale : AddressKey[p] = AddressKey[q] => p = q
=============================================================================
