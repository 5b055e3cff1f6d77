---------------------------- MODULE UploadTokens ----------------------------
(***************************************************************************)
(* Upload tokens (tokens.ts) and the requests that spend them              *)
(* (udstreamVal.preHandler, udstreamHandler and askMaxFileUploadSizeHandler *)
(* of api.ts).                                                             *)
(*                                                                         *)
(* An upload spends one use of a token before its body is read, gives it   *)
(* back when it does not land, and leaves an entry in token_uses.  A       *)
(* prerequest only looks the token up.  Meanwhile the admin creates, edits *)
(* and deletes tokens, and time makes them expire.  Each database call is  *)
(* one step; a step of another request or of the admin may fall between    *)
(* any two.  What the body does (UploadStore) is one step with three ends. *)
(***************************************************************************)
EXTENDS Integers, Sequences, FiniteSets

CONSTANTS
  Uploads, Prerequests,  \* the requests that carry X-Upload-Token
  Secret,                \* the header's value, by request
  TokenIds,              \* the id_tokens token_create may draw
  UsesMax,               \* the finite uses_max an admin may set
  Faults                 \* which of "crash", "db" may happen

Requests == Uploads \cup Prerequests
Secrets == {Secret[r] : r \in Requests}
None == "none"
Unlimited == -1           \* uses_max: null

ASSUME TokensAssumption ==
  /\ IsFiniteSet(Requests)
  /\ Uploads \cap Prerequests = {}
  /\ UsesMax \subseteq Nat \ {0}
  /\ None \notin TokenIds

VARIABLES
  tokens,      \* the tokens collection: documents by id_token
  token_uses,  \* the audit log: outcomes written, by request
  uploads,     \* requests whose upload document is stored
  pc,          \* where each request's handler is
  held,        \* request.upload_token: the id_token it reserved
  granted,     \* history: the values of uses_max each id_token had
  db_failed    \* history: a database call has failed

vars == <<tokens, token_uses, uploads, pc, held, granted, db_failed>>

Goto(r, place) == pc' = [pc EXCEPT ![r] = place]
DbFails == "db" \in Faults /\ db_failed' = TRUE
Put(t, document) == tokens' = [tokens EXCEPT ![t] = document]

(* The document with a given secret: the unique index allows at most one.  *)
Matching(secret) == {t \in DOMAIN tokens : tokens[t].token = secret}

token_is_usable(document) ==
  /\ ~document.revoked
  /\ ~document.expired
  /\ document.uses_max = Unlimited \/ document.uses_count < document.uses_max

Init ==
  /\ tokens = <<>>
  /\ token_uses = [r \in Requests |-> <<>>]
  /\ uploads = {}
  /\ pc = [r \in Requests |-> "idle"]
  /\ held = [r \in Uploads |-> None]
  /\ granted = <<>>
  /\ db_failed = FALSE

-----------------------------------------------------------------------------
(* Spending a use.                                                         *)

(* Refused before the token is looked at: the storage precheck, X-Meta, or *)
(* an address blocked for guessing.                                        *)
Refuse(r) ==
  /\ pc[r] = "idle"
  /\ Goto(r, "refused")
  /\ UNCHANGED <<tokens, token_uses, uploads, held, granted, db_failed>>

(* findOneAndUpdate: the filter and the increment are one step. *)
token_reserve(u) ==
  /\ pc[u] = "idle"
  /\ \E t \in Matching(Secret[u]) :
       /\ token_is_usable(tokens[t])
       /\ Put(t, [tokens[t] EXCEPT !.uses_count = @ + 1])
       /\ held' = [held EXCEPT ![u] = t]
  /\ Goto(u, "reserved")
  /\ UNCHANGED <<token_uses, uploads, granted, db_failed>>

(* Nothing matched: a second query is sent for the reason. *)
ReserveFindsNone(u) ==
  /\ pc[u] = "idle"
  /\ \A t \in Matching(Secret[u]) : ~token_is_usable(tokens[t])
  /\ Goto(u, "lookup")
  /\ UNCHANGED <<tokens, token_uses, uploads, held, granted, db_failed>>

(* The driver reports an error before or after the server took the use:    *)
(* the request ends with 500 and knows no token to release or to log.      *)
ReserveFails(u) ==
  /\ pc[u] = "idle" /\ DbFails
  /\ \/ UNCHANGED tokens
     \/ \E t \in Matching(Secret[u]) :
          /\ token_is_usable(tokens[t])
          /\ Put(t, [tokens[t] EXCEPT !.uses_count = @ + 1])
  /\ Goto(u, "error")
  /\ UNCHANGED <<token_uses, uploads, held, granted>>

(* token_find after a failed reservation: whatever it finds, even a token  *)
(* that became usable meanwhile, the upload is rejected.                   *)
LookupReason(u) ==
  /\ pc[u] = "lookup"
  /\ \/ Goto(u, "rejecting") /\ UNCHANGED db_failed
     \/ DbFails /\ Goto(u, "error")
  /\ UNCHANGED <<tokens, token_uses, uploads, held, granted>>

(* upload_limits_check, then storage_reserve. *)
CheckLimits(u) ==
  /\ pc[u] = "reserved"
  /\ \/ Goto(u, "overlimit")
     \/ Goto(u, "nospace")
     \/ Goto(u, "streaming")
  /\ UNCHANGED <<tokens, token_uses, uploads, held, granted, db_failed>>

(* parseUploadStream and receiveUploadReturnID resolve. *)
Land(u) ==
  /\ pc[u] = "streaming"
  /\ uploads' = uploads \cup {u}
  /\ Goto(u, "landed")
  /\ UNCHANGED <<tokens, token_uses, held, granted, db_failed>>

(* They reject; a database error may hide a document that was stored. *)
LandFails(u) ==
  /\ pc[u] = "streaming"
  /\ \/ UNCHANGED <<uploads, db_failed>>
     \/ DbFails /\ uploads' = uploads \cup {u}
  /\ Goto(u, "failing")
  /\ UNCHANGED <<tokens, token_uses, held, granted>>

-----------------------------------------------------------------------------
(* Giving it back, and the audit trail.                                    *)

AfterRelease(place) == CASE place = "overlimit" -> "rejecting"
                         [] place = "nospace"   -> "full"
                         [] place = "failing"   -> "failed_logging"

(* Mutant of Owned: the use is given back to whatever token has the value. *)
OwnedBySecret(u) == {t \in Matching(Secret[u]) : tokens[t].uses_count > 0}

(* The filter of token_release: by id_token, and never below zero. *)
Owned(u) == {t \in DOMAIN tokens : t = held[u] /\ tokens[t].uses_count > 0}

(* A failed release is written to the error log and swallowed. *)
token_release(u) ==
  /\ pc[u] \in {"overlimit", "nospace", "failing"}
  /\ \/ /\ \E t \in Owned(u) : Put(t, [tokens[t] EXCEPT !.uses_count = @ - 1])
        /\ UNCHANGED db_failed
     \/ Owned(u) = {} /\ UNCHANGED <<tokens, db_failed>>
     \/ DbFails /\ UNCHANGED tokens
  /\ Goto(u, AfterRelease(pc[u]))
  /\ UNCHANGED <<token_uses, uploads, held, granted>>

(* Mutant of token_use_log: a failed upload is logged as ok. *)
LogAlwaysOk(r) ==
  /\ pc[r] \in {"rejecting", "failed_logging", "landed"}
  /\ token_uses' = [token_uses EXCEPT ![r] = Append(@, "ok")]
  /\ Goto(r, CASE pc[r] = "rejecting"      -> "rejected"
               [] pc[r] = "failed_logging" -> "failed"
               [] pc[r] = "landed"         -> "ok")
  /\ UNCHANGED <<tokens, uploads, held, granted, db_failed>>

(* token_use_log, then the answer; an entry that cannot be written is lost. *)
token_use_log(r) ==
  LET outcome == CASE pc[r] = "rejecting"      -> "rejected"
                   [] pc[r] = "failed_logging" -> "failed"
                   [] pc[r] = "landed"         -> "ok"
  IN
  /\ pc[r] \in {"rejecting", "failed_logging", "landed"}
  /\ \/ token_uses' = [token_uses EXCEPT ![r] = Append(@, outcome)] /\ UNCHANGED db_failed
     \/ DbFails /\ UNCHANGED token_uses
  /\ Goto(r, outcome)
  /\ UNCHANGED <<tokens, uploads, held, granted>>

(* askMaxFileUploadSizeHandler: one lookup, which spends nothing. *)
Prerequest(q) ==
  /\ pc[q] = "idle"
  /\ \/ /\ \E t \in Matching(Secret[q]) : token_is_usable(tokens[t])
        /\ Goto(q, "ok") /\ UNCHANGED db_failed
     \/ /\ \A t \in Matching(Secret[q]) : ~token_is_usable(tokens[t])
        /\ Goto(q, "rejecting") /\ UNCHANGED db_failed
     \/ DbFails /\ Goto(q, "error")
  /\ UNCHANGED <<tokens, token_uses, uploads, held, granted>>

-----------------------------------------------------------------------------
(* The admin and the clock.                                                *)

(* token_create: both unique indexes hold; ids are random and, drawn       *)
(* again on a collision, never those of an earlier token.                  *)
token_create(t, secret, max) ==
  /\ t \notin DOMAIN granted
  /\ Matching(secret) = {}
  /\ tokens' = [i \in DOMAIN tokens \cup {t} |->
                  IF i = t THEN [token |-> secret, uses_max |-> max,
                                 uses_count |-> 0, revoked |-> FALSE,
                                 expired |-> FALSE]
                  ELSE tokens[i]]
  /\ granted' = [i \in DOMAIN granted \cup {t} |->
                   IF i = t THEN {max} ELSE granted[i]]
  /\ UNCHANGED <<token_uses, uploads, pc, held, db_failed>>

(* token_update: a $set of the given fields, never of uses_count. *)
token_update(t) ==
  /\ t \in DOMAIN tokens
  /\ \/ \E max \in UsesMax \cup {Unlimited} :
          /\ Put(t, [tokens[t] EXCEPT !.uses_max = max])
          /\ granted' = [granted EXCEPT ![t] = @ \cup {max}]
     \/ \E b \in BOOLEAN :
          /\ \/ Put(t, [tokens[t] EXCEPT !.revoked = b])
             \/ Put(t, [tokens[t] EXCEPT !.expired = b])
          /\ UNCHANGED granted
  /\ UNCHANGED <<token_uses, uploads, pc, held, db_failed>>

(* token_delete keeps the usage log. *)
token_delete(t) ==
  /\ t \in DOMAIN tokens
  /\ tokens' = [i \in DOMAIN tokens \ {t} |-> tokens[i]]
  /\ UNCHANGED <<token_uses, uploads, pc, held, granted, db_failed>>

(* expires_at passes. *)
Expire(t) ==
  /\ t \in DOMAIN tokens
  /\ Put(t, [tokens[t] EXCEPT !.expired = TRUE])
  /\ UNCHANGED <<token_uses, uploads, pc, held, granted, db_failed>>

(* Where a request holds a use it has not given back. *)
Spending == {"reserved", "overlimit", "nospace", "streaming", "failing",
             "landed"}
Ended == {"refused", "error", "rejected", "full", "failed", "ok", "lost",
          "leaked"}

(* The process dies; the uses its requests hold are never given back. *)
Crash ==
  /\ "crash" \in Faults
  /\ pc' = [r \in Requests |->
              CASE pc[r] \in Ended \cup {"idle"} -> pc[r]
                [] pc[r] \in Spending            -> "leaked"
                [] OTHER                         -> "lost"]
  /\ UNCHANGED <<tokens, token_uses, uploads, held, granted, db_failed>>

Next ==
  \/ \E r \in Requests : Refuse(r) \/ token_use_log(r)
  \/ \E u \in Uploads :
       \/ token_reserve(u) \/ ReserveFindsNone(u) \/ ReserveFails(u)
       \/ LookupReason(u) \/ CheckLimits(u) \/ Land(u) \/ LandFails(u)
       \/ token_release(u)
  \/ \E q \in Prerequests : Prerequest(q)
  \/ \E t \in TokenIds :
       \/ \E s \in Secrets, max \in UsesMax \cup {Unlimited} :
            token_create(t, s, max)
       \/ token_update(t) \/ token_delete(t) \/ Expire(t)
  \/ Crash

Spec == Init /\ [][Next]_vars

-----------------------------------------------------------------------------
(* Properties.                                                             *)

(* The uploads a token is paying for: in flight, or answered as stored. *)
PaidBy(t) == {u \in Uploads : held[u] = t /\ pc[u] \in Spending \cup {"ok"}}
LeakedBy(t) == {u \in Uploads : held[u] = t /\ pc[u] = "leaked"}

(* uses_count never falls below the uses in flight and spent: a release    *)
(* gives back the releaser's own use, also when the admin replaced the     *)
(* token by another of the same value, and whatever fails.  And as long as *)
(* no database call fails it is exactly that, plus the uses a crash kept:  *)
(* every upload that did not land gave its use back, once.  Uploads that   *)
(* race for a token's last use never get more than the admin ever granted. *)
UsesKept ==
  /\ \A t \in DOMAIN tokens :
       /\ tokens[t].uses_count >= Cardinality(PaidBy(t))
       /\ ~db_failed =>
            tokens[t].uses_count = Cardinality(PaidBy(t)) + Cardinality(LeakedBy(t))
  /\ \A t \in DOMAIN granted :
       \/ Unlimited \in granted[t]
       \/ \E max \in granted[t] : Cardinality(PaidBy(t)) =< max

(* The audit tells the truth, once: as long as no database call fails, an  *)
(* upload that went through the audit has exactly one entry, of its own    *)
(* outcome, and an entry says ok exactly of an upload that is stored.      *)
AuditTruthful ==
  ~db_failed =>
    \A r \in Requests :
      /\ pc[r] \in {"rejected", "failed"} => token_uses[r] = <<pc[r]>>
      /\ pc[r] = "ok" /\ r \in Uploads => token_uses[r] = <<"ok">>
      /\ token_uses[r] = <<"ok">> => r \in uploads
      /\ token_uses[r] \in {<<"rejected">>, <<"failed">>} => r \notin uploads

(* "With a token, every outcome (ok / failed / rejected) is written to     *)
(* token_uses" (frontend_file_upload.md): every upload that reserved a use *)
(* and was answered left an entry.                                         *)
EveryOutcomeAudited ==
  \A u \in Uploads :
    held[u] # None /\ pc[u] \in Ended \ {"lost", "leaked"}
      => token_uses[u] # <<>>
=============================================================================
