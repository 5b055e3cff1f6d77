---------------------------- MODULE Server_proofs ----------------------------
(***************************************************************************)
(* Safety of the components of the server that MCServer composes, for      *)
(* every choice of their constants.  What the handlers of uploads share    *)
(* besides the store: the upload tokens with their audit (UploadTokens)    *)
(* and the public feed (Feed).  An access request leads to one invite at   *)
(* most, and the limits on pending requests are exceeded only by posts     *)
(* that overtook each other (AccessRequests); an account is on the list of *)
(* new senders while it should be, unless a run failed (NewSenders);       *)
(* sign-ins and logouts in several tabs are kept apart (SignIn); guesses   *)
(* at a password are bounded (AuthLimit).                                  *)
(***************************************************************************)
EXTENDS UploadTokens, Feed, AuthLimit, AccessRequests, NewSenders, SignIn,
        Library_proofs, WellFoundedInduction, TLAPS

-----------------------------------------------------------------------------
(* Upload tokens. *)

TokenPlaces == Spending \cup Ended \cup {"idle", "lookup", "rejecting", "full", "failed_logging"}

Document == [token : Secrets, uses_max : Int, uses_count : Nat, revoked : BOOLEAN,
             expired : BOOLEAN]

(* Types; a token's limit is one of those its id was granted, and a request *)
(* that has not reserved holds nothing.                                     *)
TokensTyped ==
  /\ pc \in [Requests -> TokenPlaces]
  /\ held \in [Uploads -> DOMAIN granted \cup {None}]
  /\ DOMAIN granted \subseteq TokenIds
  /\ \A t \in DOMAIN granted : granted[t] \subseteq UsesMax \cup {Unlimited}
  /\ DOMAIN tokens \subseteq DOMAIN granted
  /\ \A t \in DOMAIN tokens : tokens[t] \in Document /\ tokens[t].uses_max \in granted[t]
  /\ db_failed \in BOOLEAN
  /\ \A u \in Uploads : pc[u] = "idle" => held[u] = None

(* Who counts against a token: its payments, and what a crash kept of it.   *)
Charged(t) == PaidBy(t) \cup LeakedBy(t)

(* The counter is at least the payments, and exactly the charges as long as *)
(* no database call failed.                                                 *)
ChargeInv == \A t \in DOMAIN tokens :
  /\ tokens[t].uses_count >= Cardinality(PaidBy(t))
  /\ ~db_failed => tokens[t].uses_count = Cardinality(Charged(t))

(* The payments of a token, deleted ones included, were once granted.       *)
GrantInv == \A t \in DOMAIN granted :
  \/ Unlimited \in granted[t]
  \/ \E max \in granted[t] : Cardinality(PaidBy(t)) =< max

UsesInv == TokensTyped /\ ChargeInv /\ GrantInv

USE TokensAssumption

LEMMA PaidFinite ==
  ASSUME NEW t
  PROVE  /\ IsFiniteSet(PaidBy(t)) /\ Cardinality(PaidBy(t)) \in Nat
         /\ IsFiniteSet(LeakedBy(t)) /\ IsFiniteSet(Charged(t))
         /\ Cardinality(Charged(t)) = Cardinality(PaidBy(t)) + Cardinality(LeakedBy(t))
         /\ Cardinality(Charged(t)) \in Nat
<1>1. IsFiniteSet(Uploads)
  BY FS_Subset DEF Requests
<1>2. IsFiniteSet(PaidBy(t)) /\ IsFiniteSet(LeakedBy(t))
  BY <1>1, FS_Subset DEF PaidBy, LeakedBy
<1>3. PaidBy(t) \cap LeakedBy(t) = {}
  BY DEF PaidBy, LeakedBy, Spending
<1>4. Cardinality(PaidBy(t) \cap LeakedBy(t)) = 0
  BY <1>3, FS_EmptySet
<1>5. /\ IsFiniteSet(Charged(t))
      /\ Cardinality(Charged(t)) = Cardinality(PaidBy(t)) + Cardinality(LeakedBy(t)) - 0
  BY <1>2, <1>4, FS_Union DEF Charged
<1>6. /\ Cardinality(PaidBy(t)) \in Nat /\ Cardinality(LeakedBy(t)) \in Nat
      /\ Cardinality(Charged(t)) \in Nat
  BY <1>2, <1>5, FS_CardinalityType
<1> QED
  BY <1>2, <1>5, <1>6

LEMMA LimitInt ==
  ASSUME NEW max \in UsesMax \cup {Unlimited}
  PROVE  max \in Int
BY DEF Unlimited

LEMMA GrantedInt ==
  ASSUME TokensTyped, NEW t \in DOMAIN granted, NEW max \in granted[t]
  PROVE  max \in Int
<1>1. max \in UsesMax \cup {Unlimited}
  BY DEF TokensTyped
<1> QED
  BY <1>1, LimitInt

LEMMA UsesInit == Init => UsesInv
<1> SUFFICES ASSUME Init PROVE UsesInv
  OBVIOUS
<1>1. DOMAIN tokens = {} /\ DOMAIN granted = {}
  BY DEF Init
<1>2. pc \in [Requests -> TokenPlaces] /\ held \in [Uploads -> {None}] /\ db_failed = FALSE
  BY DEF Init, TokenPlaces
<1>3. TokensTyped
  BY <1>1, <1>2 DEF TokensTyped
<1> QED
  BY <1>1, <1>3 DEF UsesInv, ChargeInv, GrantInv

(* A step that charges no token and changes no count keeps the books, also  *)
(* when it removes a token or grants one more.                              *)
LEMMA BooksFrame ==
  ASSUME UsesInv, TokensTyped',
         \A t \in DOMAIN tokens' :
           t \in DOMAIN tokens /\ tokens'[t].uses_count = tokens[t].uses_count,
         \A t \in DOMAIN granted' : t \in DOMAIN granted /\ granted[t] \subseteq granted'[t],
         db_failed => db_failed',
         \A t : PaidBy(t)' \subseteq PaidBy(t),
         \A t : Charged(t)' = Charged(t)
  PROVE  UsesInv'
<1>1. \A t : Cardinality(PaidBy(t)') =< Cardinality(PaidBy(t)) /\ Cardinality(PaidBy(t)') \in Nat
  BY PaidFinite, FS_Subset, FS_CardinalityType
<1>2. ChargeInv'
  <2> SUFFICES ASSUME NEW t \in DOMAIN tokens'
      PROVE /\ tokens'[t].uses_count >= Cardinality(PaidBy(t)')
            /\ ~db_failed' => tokens'[t].uses_count = Cardinality(Charged(t)')
    BY DEF ChargeInv
  <2>1. tokens[t].uses_count \in Nat /\ tokens[t].uses_count >= Cardinality(PaidBy(t))
    BY DEF UsesInv, ChargeInv, TokensTyped, Document
  <2> QED
    BY <2>1, <1>1, PaidFinite DEF UsesInv, ChargeInv
<1>3. GrantInv'
  <2> SUFFICES ASSUME NEW t \in DOMAIN granted'
      PROVE \/ Unlimited \in granted'[t]
            \/ \E max \in granted'[t] : Cardinality(PaidBy(t)') =< max
    BY DEF GrantInv
  <2>1. CASE Unlimited \in granted[t]
    BY <2>1
  <2>2. CASE Unlimited \notin granted[t]
    <3>1. PICK max \in granted[t] : Cardinality(PaidBy(t)) =< max
      BY <2>2 DEF UsesInv, GrantInv
    <3>2. max \in Int
      BY <3>1, GrantedInt DEF UsesInv
    <3> QED
      BY <3>1, <3>2, <1>1, PaidFinite
  <2> QED
    BY <2>1, <2>2
<1> QED
  BY <1>2, <1>3 DEF UsesInv

LEMMA TypedStep == TokensTyped /\ [Next]_vars => TokensTyped'
<1> SUFFICES ASSUME TokensTyped, [Next]_vars PROVE TokensTyped'
  OBVIOUS
<1> USE DEF TokensTyped, Goto, Put, DbFails
<1>1. ASSUME NEW r \in Requests, Refuse(r) PROVE TokensTyped'
  BY <1>1 DEF Refuse, TokenPlaces, Ended, Requests
<1>2. ASSUME NEW r \in Requests, token_use_log(r) PROVE TokensTyped'
  BY <1>2 DEF token_use_log, TokenPlaces, Ended, Requests
<1>3. ASSUME NEW u \in Uploads, token_reserve(u) PROVE TokensTyped'
  <2>1. PICK t \in Matching(Secret[u]) :
          /\ tokens' = [tokens EXCEPT ![t] = [tokens[t] EXCEPT !.uses_count = @ + 1]]
          /\ held' = [held EXCEPT ![u] = t]
    BY <1>3 DEF token_reserve
  <2>2. t \in DOMAIN tokens /\ u \in Requests
    BY DEF Matching, Requests
  <2>3. [tokens[t] EXCEPT !.uses_count = @ + 1] \in Document
    BY <2>2 DEF Document
  <2>4. pc' = [pc EXCEPT ![u] = "reserved"] /\ UNCHANGED <<granted, db_failed>>
    BY <1>3 DEF token_reserve
  <2>5. \A i \in DOMAIN tokens' : tokens'[i] \in Document /\ tokens'[i].uses_max \in granted[i]
    BY <2>1, <2>2, <2>3
  <2> QED
    BY <2>1, <2>2, <2>4, <2>5 DEF TokenPlaces, Spending
<1>4. ASSUME NEW u \in Uploads, ReserveFindsNone(u) PROVE TokensTyped'
  BY <1>4 DEF ReserveFindsNone, TokenPlaces, Requests
<1>5. ASSUME NEW u \in Uploads, ReserveFails(u) PROVE TokensTyped'
  <2>1. /\ DOMAIN tokens' = DOMAIN tokens
        /\ \A i \in DOMAIN tokens : tokens'[i] \in Document /\ tokens'[i].uses_max \in granted[i]
    <3>1. CASE UNCHANGED tokens
      BY <3>1
    <3>2. CASE ~UNCHANGED tokens
      <4>1. PICK t \in Matching(Secret[u]) :
              tokens' = [tokens EXCEPT ![t] = [tokens[t] EXCEPT !.uses_count = @ + 1]]
        BY <1>5, <3>2 DEF ReserveFails
      <4>2. t \in DOMAIN tokens
        BY DEF Matching
      <4>3. [tokens[t] EXCEPT !.uses_count = @ + 1] \in Document
        BY <4>2 DEF Document
      <4> QED
        BY <4>1, <4>2, <4>3
    <3> QED
      BY <3>1, <3>2
  <2>2. /\ pc' = [pc EXCEPT ![u] = "error"] /\ db_failed' = TRUE /\ UNCHANGED <<granted, held>>
        /\ u \in Requests
    BY <1>5 DEF ReserveFails, Requests
  <2> QED
    BY <2>1, <2>2 DEF TokenPlaces, Ended
<1>6. ASSUME NEW u \in Uploads, LookupReason(u) PROVE TokensTyped'
  BY <1>6 DEF LookupReason, TokenPlaces, Ended, Requests
<1>7. ASSUME NEW u \in Uploads, CheckLimits(u) PROVE TokensTyped'
  BY <1>7 DEF CheckLimits, TokenPlaces, Spending, Requests
<1>8. ASSUME NEW u \in Uploads, Land(u) PROVE TokensTyped'
  BY <1>8 DEF Land, TokenPlaces, Spending, Requests
<1>9. ASSUME NEW u \in Uploads, LandFails(u) PROVE TokensTyped'
  BY <1>9 DEF LandFails, TokenPlaces, Spending, Requests
<1>10. ASSUME NEW u \in Uploads, token_release(u) PROVE TokensTyped'
  <2>1. /\ DOMAIN tokens' = DOMAIN tokens
        /\ \A i \in DOMAIN tokens : tokens'[i] \in Document /\ tokens'[i].uses_max \in granted[i]
    <3>1. CASE UNCHANGED tokens
      BY <3>1
    <3>2. CASE ~UNCHANGED tokens
      <4>1. PICK t \in Owned(u) :
              tokens' = [tokens EXCEPT ![t] = [tokens[t] EXCEPT !.uses_count = @ - 1]]
        BY <1>10, <3>2 DEF token_release
      <4>2. t \in DOMAIN tokens /\ tokens[t].uses_count > 0
        BY DEF Owned
      <4>3. [tokens[t] EXCEPT !.uses_count = @ - 1] \in Document
        BY <4>2 DEF Document
      <4> QED
        BY <4>1, <4>2, <4>3
    <3> QED
      BY <3>1, <3>2
  <2>2. /\ pc' = [pc EXCEPT ![u] = AfterRelease(pc[u])] /\ db_failed' \in BOOLEAN
        /\ UNCHANGED <<granted, held>> /\ u \in Requests
        /\ AfterRelease(pc[u]) \in {"rejecting", "full", "failed_logging"}
    BY <1>10 DEF token_release, AfterRelease, Requests
  <2> QED
    BY <2>1, <2>2 DEF TokenPlaces
<1>11. ASSUME NEW q \in Prerequests, Prerequest(q) PROVE TokensTyped'
  BY <1>11 DEF Prerequest, TokenPlaces, Ended, Requests
<1>12. ASSUME NEW t \in TokenIds, NEW s \in Secrets, NEW max \in UsesMax \cup {Unlimited},
              token_create(t, s, max)
       PROVE  TokensTyped'
  <2>1. max \in Int
    BY LimitInt
  <2>2. [token |-> s, uses_max |-> max, uses_count |-> 0, revoked |-> FALSE,
         expired |-> FALSE] \in Document
    BY <2>1 DEF Document
  <2>3. /\ DOMAIN tokens' = DOMAIN tokens \cup {t}
        /\ DOMAIN granted' = DOMAIN granted \cup {t}
        /\ granted'[t] = {max}
        /\ tokens'[t] = [token |-> s, uses_max |-> max, uses_count |-> 0, revoked |-> FALSE,
                          expired |-> FALSE]
        /\ \A i \in DOMAIN tokens \ {t} : tokens'[i] = tokens[i]
        /\ \A i \in DOMAIN granted \ {t} : granted'[i] = granted[i]
        /\ UNCHANGED <<pc, held, db_failed>>
    BY <1>12 DEF token_create
  <2>4. \A i \in DOMAIN tokens' : tokens'[i] \in Document /\ tokens'[i].uses_max \in granted'[i]
    <3> SUFFICES ASSUME NEW i \in DOMAIN tokens'
                 PROVE  tokens'[i] \in Document /\ tokens'[i].uses_max \in granted'[i]
      OBVIOUS
    <3>1. CASE i = t
      BY <3>1, <2>2, <2>3
    <3>2. CASE i # t
      BY <3>2, <2>3
    <3> QED
      BY <3>1, <3>2
  <2>5. \A i \in DOMAIN granted' : granted'[i] \subseteq UsesMax \cup {Unlimited}
    BY <2>3
  <2> QED
    BY <2>3, <2>4, <2>5
<1>13. ASSUME NEW t \in TokenIds, token_update(t) PROVE TokensTyped'
  <2>1. t \in DOMAIN tokens /\ UNCHANGED <<pc, held, db_failed>>
    BY <1>13 DEF token_update
  <2>2. CASE \E max \in UsesMax \cup {Unlimited} :
               /\ tokens' = [tokens EXCEPT ![t] = [tokens[t] EXCEPT !.uses_max = max]]
               /\ granted' = [granted EXCEPT ![t] = @ \cup {max}]
    <3>1. PICK max \in UsesMax \cup {Unlimited} :
               /\ tokens' = [tokens EXCEPT ![t] = [tokens[t] EXCEPT !.uses_max = max]]
               /\ granted' = [granted EXCEPT ![t] = @ \cup {max}]
      BY <2>2
    <3>2. max \in Int
      BY LimitInt
    <3>3. /\ [tokens[t] EXCEPT !.uses_max = max] \in Document
          /\ [tokens[t] EXCEPT !.uses_max = max].uses_max = max
      BY <2>1, <3>2 DEF Document
    <3>4. /\ DOMAIN tokens' = DOMAIN tokens /\ DOMAIN granted' = DOMAIN granted
          /\ \A i \in DOMAIN tokens : tokens'[i] \in Document /\ tokens'[i].uses_max \in granted'[i]
      BY <2>1, <3>1, <3>3
    <3>5. \A i \in DOMAIN granted : granted'[i] \subseteq UsesMax \cup {Unlimited}
      BY <2>1, <3>1
    <3> QED
      BY <2>1, <3>4, <3>5
  <2>3. CASE \E b \in BOOLEAN :
               /\ \/ tokens' = [tokens EXCEPT ![t] = [tokens[t] EXCEPT !.revoked = b]]
                  \/ tokens' = [tokens EXCEPT ![t] = [tokens[t] EXCEPT !.expired = b]]
               /\ UNCHANGED granted
    <3>1. \A b \in BOOLEAN :
            /\ [tokens[t] EXCEPT !.revoked = b] \in Document
            /\ [tokens[t] EXCEPT !.expired = b] \in Document
            /\ [tokens[t] EXCEPT !.revoked = b].uses_max \in granted[t]
            /\ [tokens[t] EXCEPT !.expired = b].uses_max \in granted[t]
      BY <2>1 DEF Document
    <3>2. /\ DOMAIN tokens' = DOMAIN tokens
          /\ \A i \in DOMAIN tokens : tokens'[i] \in Document /\ tokens'[i].uses_max \in granted'[i]
      BY <2>1, <2>3, <3>1
    <3> QED
      BY <2>1, <2>3, <3>2
  <2> QED
    BY <1>13, <2>2, <2>3 DEF token_update
<1>14. ASSUME NEW t \in TokenIds, token_delete(t) PROVE TokensTyped'
  BY <1>14 DEF token_delete
<1>15. ASSUME NEW t \in TokenIds, Expire(t) PROVE TokensTyped'
  <2>1. /\ t \in DOMAIN tokens
        /\ tokens' = [tokens EXCEPT ![t] = [tokens[t] EXCEPT !.expired = TRUE]]
        /\ UNCHANGED <<pc, held, granted, db_failed>>
    BY <1>15 DEF Expire
  <2>2. /\ [tokens[t] EXCEPT !.expired = TRUE] \in Document
        /\ [tokens[t] EXCEPT !.expired = TRUE].uses_max \in granted[t]
    BY <2>1 DEF Document
  <2> QED
    BY <2>1, <2>2
<1>16. CASE Crash
  <2>1. /\ UNCHANGED <<tokens, held, granted, db_failed>>
        /\ pc' \in [Requests -> TokenPlaces]
    BY <1>16 DEF Crash, TokenPlaces, Ended, Spending
  <2>2. \A u \in Uploads : pc'[u] = "idle" => pc[u] = "idle"
    BY <1>16 DEF Crash, Requests, Ended, Spending
  <2> QED
    BY <2>1, <2>2
<1>17. CASE UNCHANGED vars
  BY <1>17 DEF vars
<1> QED
  BY <1>1, <1>2, <1>3, <1>4, <1>5, <1>6, <1>7, <1>8, <1>9, <1>10, <1>11, <1>12, <1>13,
     <1>14, <1>15, <1>16, <1>17 DEF Next

(* A charge added to a token with room, or one given back, keeps its books. *)
LEMMA UsesStep == UsesInv /\ [Next]_vars => UsesInv'
<1> SUFFICES ASSUME UsesInv, [Next]_vars PROVE UsesInv'
  OBVIOUS
<1>t. TokensTyped /\ TokensTyped'
  BY TypedStep DEF UsesInv
<1>p. pc \in [Requests -> TokenPlaces] /\ held \in [Uploads -> DOMAIN granted \cup {None}]
  BY <1>t DEF TokensTyped
<1> USE DEF Goto, PaidBy, LeakedBy, Charged, Spending, DbFails
<1>1. ASSUME NEW r \in Requests, Refuse(r) PROVE UsesInv'
  <2>1. \A t : PaidBy(t)' \subseteq PaidBy(t) /\ Charged(t)' = Charged(t)
    BY <1>1, <1>p DEF Refuse, Requests
  <2> QED
    BY <1>1, <1>t, <2>1, BooksFrame DEF Refuse
<1>2. ASSUME NEW r \in Requests, token_use_log(r) PROVE UsesInv'
  <2>1. \A t : PaidBy(t)' \subseteq PaidBy(t) /\ Charged(t)' = Charged(t)
    BY <1>2, <1>p DEF token_use_log, Requests
  <2> QED
    BY <1>2, <1>t, <2>1, BooksFrame DEF token_use_log
<1>4. ASSUME NEW u \in Uploads, ReserveFindsNone(u) PROVE UsesInv'
  <2>1. \A t : PaidBy(t)' \subseteq PaidBy(t) /\ Charged(t)' = Charged(t)
    BY <1>4, <1>p DEF ReserveFindsNone, Requests
  <2> QED
    BY <1>4, <1>t, <2>1, BooksFrame DEF ReserveFindsNone
<1>6. ASSUME NEW u \in Uploads, LookupReason(u) PROVE UsesInv'
  <2>1. \A t : PaidBy(t)' \subseteq PaidBy(t) /\ Charged(t)' = Charged(t)
    BY <1>6, <1>p DEF LookupReason, Requests
  <2> QED
    BY <1>6, <1>t, <2>1, BooksFrame DEF LookupReason
<1>7. ASSUME NEW u \in Uploads, CheckLimits(u) PROVE UsesInv'
  <2>1. \A t : PaidBy(t)' \subseteq PaidBy(t) /\ Charged(t)' = Charged(t)
    BY <1>7, <1>p DEF CheckLimits, Requests
  <2> QED
    BY <1>7, <1>t, <2>1, BooksFrame DEF CheckLimits
<1>8. ASSUME NEW u \in Uploads, Land(u) PROVE UsesInv'
  <2>1. \A t : PaidBy(t)' \subseteq PaidBy(t) /\ Charged(t)' = Charged(t)
    BY <1>8, <1>p DEF Land, Requests
  <2> QED
    BY <1>8, <1>t, <2>1, BooksFrame DEF Land
<1>9. ASSUME NEW u \in Uploads, LandFails(u) PROVE UsesInv'
  <2>1. \A t : PaidBy(t)' \subseteq PaidBy(t) /\ Charged(t)' = Charged(t)
    BY <1>9, <1>p DEF LandFails, Requests
  <2> QED
    BY <1>9, <1>t, <2>1, BooksFrame DEF LandFails
<1>11. ASSUME NEW q \in Prerequests, Prerequest(q) PROVE UsesInv'
  <2>1. \A t : PaidBy(t)' \subseteq PaidBy(t) /\ Charged(t)' = Charged(t)
    BY <1>11, <1>p DEF Prerequest, Requests
  <2> QED
    BY <1>11, <1>t, <2>1, BooksFrame DEF Prerequest
<1>16. CASE Crash
  <2>1. \A t : PaidBy(t)' \subseteq PaidBy(t) /\ Charged(t)' = Charged(t)
    BY <1>16, <1>p DEF Crash, Requests, Ended
  <2> QED
    BY <1>16, <1>t, <2>1, BooksFrame DEF Crash
<1>17. CASE UNCHANGED vars
  <2>1. \A t : PaidBy(t)' \subseteq PaidBy(t) /\ Charged(t)' = Charged(t)
    BY <1>17 DEF vars
  <2> QED
    BY <1>17, <1>t, <2>1, BooksFrame DEF vars
<1>3. ASSUME NEW u \in Uploads, token_reserve(u) PROVE UsesInv'
  <2>1. PICK t \in Matching(Secret[u]) :
          /\ token_is_usable(tokens[t])
          /\ tokens' = [tokens EXCEPT ![t] = [tokens[t] EXCEPT !.uses_count = @ + 1]]
          /\ held' = [held EXCEPT ![u] = t]
    BY <1>3 DEF token_reserve, Put
  <2>2. /\ t \in DOMAIN tokens /\ t \in DOMAIN granted /\ t # None
        /\ u \in Requests /\ held[u] = None /\ pc[u] = "idle"
        /\ tokens[t] \in Document
        /\ tokens[t].uses_count \in Nat /\ tokens[t].uses_max \in granted[t] \cap Int
    BY <1>3, <1>t DEF Matching, Requests, token_reserve, TokensTyped, Document
  <2>3. pc' = [pc EXCEPT ![u] = "reserved"] /\ UNCHANGED <<granted, db_failed>>
    BY <1>3 DEF token_reserve
  <2>4. /\ DOMAIN tokens' = DOMAIN tokens
        /\ tokens'[t].uses_count = tokens[t].uses_count + 1
        /\ \A i \in DOMAIN tokens \ {t} : tokens'[i] = tokens[i]
    BY <2>1, <2>2 DEF Document
  <2>5. /\ PaidBy(t)' = PaidBy(t) \cup {u} /\ u \notin PaidBy(t)
        /\ Charged(t)' = Charged(t) \cup {u} /\ u \notin Charged(t)
    BY <1>p, <2>1, <2>2, <2>3 DEF Requests
  <2>6. \A i \in DOMAIN granted \ {t} : PaidBy(i)' = PaidBy(i) /\ Charged(i)' = Charged(i)
    BY <1>p, <1>t, <2>1, <2>2, <2>3 DEF Requests, TokensTyped
  <2>7. /\ Cardinality(PaidBy(t)') = Cardinality(PaidBy(t)) + 1
        /\ Cardinality(Charged(t)') = Cardinality(Charged(t)) + 1
    <3> HIDE DEF PaidBy, LeakedBy, Charged
    <3>1. IsFiniteSet(PaidBy(t)) /\ IsFiniteSet(Charged(t))
      BY PaidFinite
    <3> QED
      BY <2>5, <3>1, FS_AddElement
  <2>8. ChargeInv'
    <3> SUFFICES ASSUME NEW i \in DOMAIN tokens
        PROVE /\ tokens'[i].uses_count >= Cardinality(PaidBy(i)')
              /\ ~db_failed => tokens'[i].uses_count = Cardinality(Charged(i)')
      BY <2>3, <2>4 DEF ChargeInv
    <3>1. CASE i = t
      <4>1. /\ tokens[t].uses_count >= Cardinality(PaidBy(t))
            /\ ~db_failed => tokens[t].uses_count = Cardinality(Charged(t))
        BY <2>2 DEF UsesInv, ChargeInv
      <4>2. Cardinality(PaidBy(t)) \in Nat /\ Cardinality(Charged(t)) \in Nat
        BY PaidFinite
      <4> HIDE DEF PaidBy, Charged
      <4> QED
        BY <3>1, <4>1, <4>2, <2>2, <2>4, <2>7
    <3>2. CASE i # t
      <4>1. i \in DOMAIN granted
        BY <1>t DEF TokensTyped
      <4>2. tokens'[i] = tokens[i] /\ PaidBy(i)' = PaidBy(i) /\ Charged(i)' = Charged(i)
        BY <3>2, <4>1, <2>4, <2>6
      <4> HIDE DEF PaidBy, Charged
      <4> QED
        BY <4>2 DEF UsesInv, ChargeInv
    <3> QED
      BY <3>1, <3>2
  <2>9. GrantInv'
    <3> SUFFICES ASSUME NEW i \in DOMAIN granted
        PROVE \/ Unlimited \in granted[i]
              \/ \E max \in granted[i] : Cardinality(PaidBy(i)') =< max
      BY <2>3 DEF GrantInv
    <3>1. CASE i = t
      <4>1. tokens[t].uses_count >= Cardinality(PaidBy(t)) /\ Cardinality(PaidBy(t)) \in Nat
        BY <2>2, PaidFinite DEF UsesInv, ChargeInv
      <4>2. tokens[t].uses_max = Unlimited \/ tokens[t].uses_count < tokens[t].uses_max
        BY <2>1 DEF token_is_usable
      <4> HIDE DEF PaidBy
      <4> QED
        BY <3>1, <4>1, <4>2, <2>2, <2>7
    <3>2. CASE i # t
      <4>1. PaidBy(i)' = PaidBy(i)
        BY <3>2, <2>6
      <4> HIDE DEF PaidBy
      <4> QED
        BY <4>1 DEF UsesInv, GrantInv
    <3> QED
      BY <3>1, <3>2
  <2> QED
    BY <1>t, <2>8, <2>9 DEF UsesInv
<1>5. ASSUME NEW u \in Uploads, ReserveFails(u) PROVE UsesInv'
  <2>1. \A t : PaidBy(t)' = PaidBy(t)
    BY <1>5, <1>p DEF ReserveFails, Requests
  <2>2. /\ DOMAIN tokens' = DOMAIN tokens /\ db_failed' = TRUE /\ UNCHANGED granted
        /\ \A i \in DOMAIN tokens : tokens'[i].uses_count >= tokens[i].uses_count
    <3>1. \A t \in DOMAIN tokens : tokens[t] \in Document /\ tokens[t].uses_count \in Nat
      BY <1>t DEF TokensTyped, Document
    <3>2. CASE UNCHANGED tokens
      BY <1>5, <3>1, <3>2 DEF ReserveFails
    <3>3. CASE ~UNCHANGED tokens
      <4>1. PICK t \in Matching(Secret[u]) :
              tokens' = [tokens EXCEPT ![t] = [tokens[t] EXCEPT !.uses_count = @ + 1]]
        BY <1>5, <3>3 DEF ReserveFails, Put
      <4>2. t \in DOMAIN tokens
        BY DEF Matching
      <4> QED
        BY <1>5, <3>1, <4>1, <4>2 DEF ReserveFails, Document
    <3> QED
      BY <3>2, <3>3
  <2>3. ChargeInv'
    <3> SUFFICES ASSUME NEW t \in DOMAIN tokens
                 PROVE  tokens'[t].uses_count >= Cardinality(PaidBy(t))
      BY <2>1, <2>2 DEF ChargeInv
    <3>1. /\ tokens[t].uses_count \in Nat /\ tokens'[t].uses_count \in Nat
          /\ tokens[t].uses_count >= Cardinality(PaidBy(t)) /\ Cardinality(PaidBy(t)) \in Nat
      BY <1>t, <2>2, PaidFinite DEF UsesInv, ChargeInv, TokensTyped, Document
    <3> HIDE DEF PaidBy
    <3> QED
      BY <2>2, <3>1
  <2>4. GrantInv'
    BY <2>1, <2>2 DEF UsesInv, GrantInv
  <2> QED
    BY <1>t, <2>3, <2>4 DEF UsesInv
<1>10. ASSUME NEW u \in Uploads, token_release(u) PROVE UsesInv'
  <2>1. /\ pc[u] \in {"overlimit", "nospace", "failing"} /\ u \in Requests
        /\ pc' = [pc EXCEPT ![u] = AfterRelease(pc[u])]
        /\ AfterRelease(pc[u]) \in {"rejecting", "full", "failed_logging"}
        /\ UNCHANGED <<granted, held>>
    BY <1>10 DEF token_release, AfterRelease, Requests
  <2>2. \A t : /\ PaidBy(t)' = PaidBy(t) \ {u}
               /\ Charged(t)' = Charged(t) \ {u}
               /\ u \in PaidBy(t) <=> t = held[u]
               /\ u \in Charged(t) <=> t = held[u]
    BY <1>p, <2>1 DEF Requests
  <2> HIDE DEF PaidBy, LeakedBy, Charged
  <2>3. \A t : /\ Cardinality(PaidBy(t)') =
                    IF t = held[u] THEN Cardinality(PaidBy(t)) - 1 ELSE Cardinality(PaidBy(t))
               /\ Cardinality(Charged(t)') =
                    IF t = held[u] THEN Cardinality(Charged(t)) - 1 ELSE Cardinality(Charged(t))
               /\ Cardinality(PaidBy(t)') \in Nat
    <3>1. SUFFICES ASSUME NEW t
          PROVE /\ Cardinality(PaidBy(t)') =
                     IF t = held[u] THEN Cardinality(PaidBy(t)) - 1 ELSE Cardinality(PaidBy(t))
                /\ Cardinality(Charged(t)') =
                     IF t = held[u] THEN Cardinality(Charged(t)) - 1 ELSE Cardinality(Charged(t))
                /\ Cardinality(PaidBy(t)') \in Nat
      OBVIOUS
    <3>2. IsFiniteSet(PaidBy(t)) /\ IsFiniteSet(Charged(t))
      BY PaidFinite
    <3>3. IsFiniteSet(PaidBy(t) \ {u})
      BY <3>2, FS_RemoveElement
    <3> QED
      BY <2>2, <3>2, <3>3, FS_RemoveElement, FS_CardinalityType
  <2>4. ChargeInv'
    <3> SUFFICES ASSUME NEW i \in DOMAIN tokens'
        PROVE /\ tokens'[i].uses_count >= Cardinality(PaidBy(i)')
              /\ ~db_failed' => tokens'[i].uses_count = Cardinality(Charged(i)')
      BY DEF ChargeInv
    <3>1. \A t \in DOMAIN tokens :
            /\ tokens[t] \in Document /\ tokens[t].uses_count \in Nat
            /\ tokens[t].uses_count >= Cardinality(PaidBy(t))
            /\ ~db_failed => tokens[t].uses_count = Cardinality(Charged(t))
            /\ Cardinality(PaidBy(t)) \in Nat /\ Cardinality(Charged(t)) \in Nat
      BY <1>t, PaidFinite DEF UsesInv, ChargeInv, TokensTyped, Document
    <3>2. ASSUME NEW t \in Owned(u), UNCHANGED db_failed,
                 tokens' = [tokens EXCEPT ![t] = [tokens[t] EXCEPT !.uses_count = @ - 1]]
          PROVE  /\ tokens'[i].uses_count >= Cardinality(PaidBy(i)')
                 /\ ~db_failed' => tokens'[i].uses_count = Cardinality(Charged(i)')
      <4>1. t = held[u] /\ t \in DOMAIN tokens
        BY DEF Owned
      <4>2. i \in DOMAIN tokens /\ tokens'[i].uses_count =
              IF i = t THEN tokens[i].uses_count - 1 ELSE tokens[i].uses_count
        BY <3>1, <3>2, <4>1 DEF Document
      <4> QED
        BY <2>3, <3>1, <3>2, <4>1, <4>2
    <3>3. ASSUME Owned(u) = {}, UNCHANGED <<tokens, db_failed>>
          PROVE  /\ tokens'[i].uses_count >= Cardinality(PaidBy(i)')
                 /\ ~db_failed' => tokens'[i].uses_count = Cardinality(Charged(i)')
      <4>1. i # held[u]
        <5> SUFFICES ASSUME i = held[u] PROVE FALSE
          OBVIOUS
        <5>1. Cardinality(PaidBy(i)) - 1 >= 0
          BY <2>3, <3>1, <3>3
        <5>2. tokens[i].uses_count > 0
          BY <3>1, <3>3, <5>1
        <5> QED
          BY <3>3, <5>2 DEF Owned
      <4> QED
        BY <2>3, <3>1, <3>3, <4>1
    <3>4. ASSUME db_failed' = TRUE, UNCHANGED tokens
          PROVE  /\ tokens'[i].uses_count >= Cardinality(PaidBy(i)')
                 /\ ~db_failed' => tokens'[i].uses_count = Cardinality(Charged(i)')
      BY <2>3, <3>1, <3>4
    <3> QED
      BY <1>10, <3>2, <3>3, <3>4 DEF token_release, Put
  <2>5. GrantInv'
    <3> SUFFICES ASSUME NEW t \in DOMAIN granted
        PROVE \/ Unlimited \in granted[t]
              \/ \E max \in granted[t] : Cardinality(PaidBy(t)') =< max
      BY <2>1 DEF GrantInv
    <3>1. CASE Unlimited \in granted[t]
      BY <3>1
    <3>2. CASE Unlimited \notin granted[t]
      <4>1. PICK max \in granted[t] : Cardinality(PaidBy(t)) =< max
        BY <3>2 DEF UsesInv, GrantInv
      <4>2. max \in Int /\ Cardinality(PaidBy(t)) \in Nat
        BY <4>1, <1>t, GrantedInt, PaidFinite
      <4> QED
        BY <2>3, <4>1, <4>2
    <3> QED
      BY <3>1, <3>2
  <2> QED
    BY <1>t, <2>4, <2>5 DEF UsesInv
<1>12. ASSUME NEW t \in TokenIds, NEW s \in Secrets, NEW max \in UsesMax \cup {Unlimited},
              token_create(t, s, max)
       PROVE  UsesInv'
  <2>1. /\ t \notin DOMAIN granted
        /\ DOMAIN tokens' = DOMAIN tokens \cup {t}
        /\ DOMAIN granted' = DOMAIN granted \cup {t}
        /\ granted'[t] = {max}
        /\ tokens'[t].uses_count = 0
        /\ \A i \in DOMAIN tokens \ {t} : tokens'[i] = tokens[i]
        /\ \A i \in DOMAIN granted \ {t} : granted'[i] = granted[i]
        /\ UNCHANGED <<pc, held, db_failed>>
    BY <1>12 DEF token_create
  <2>2. \A i : PaidBy(i)' = PaidBy(i) /\ Charged(i)' = Charged(i)
    BY <2>1
  <2>3. t # None /\ PaidBy(t) = {} /\ Charged(t) = {}
    BY <2>1, <1>p
  <2> HIDE DEF PaidBy, LeakedBy, Charged
  <2>4. Cardinality(PaidBy(t)) = 0 /\ Cardinality(Charged(t)) = 0
    BY <2>3, FS_EmptySet
  <2>5. ChargeInv'
    <3> SUFFICES ASSUME NEW i \in DOMAIN tokens'
        PROVE /\ tokens'[i].uses_count >= Cardinality(PaidBy(i))
              /\ ~db_failed => tokens'[i].uses_count = Cardinality(Charged(i))
      BY <2>1, <2>2 DEF ChargeInv
    <3>1. CASE i = t
      BY <3>1, <2>1, <2>4
    <3>2. CASE i # t
      BY <3>2, <2>1 DEF UsesInv, ChargeInv
    <3> QED
      BY <3>1, <3>2
  <2>6. GrantInv'
    <3> SUFFICES ASSUME NEW i \in DOMAIN granted'
        PROVE \/ Unlimited \in granted'[i]
              \/ \E m \in granted'[i] : Cardinality(PaidBy(i)) =< m
      BY <2>2 DEF GrantInv
    <3>1. CASE i = t
      <4>1. max = Unlimited \/ (max \in Nat /\ max > 0)
        OBVIOUS
      <4> QED
        BY <3>1, <2>1, <2>4, <4>1
    <3>2. CASE i # t
      BY <3>2, <2>1 DEF UsesInv, GrantInv
    <3> QED
      BY <3>1, <3>2
  <2> QED
    BY <1>t, <2>5, <2>6 DEF UsesInv
<1>13. ASSUME NEW t \in TokenIds, token_update(t) PROVE UsesInv'
  <2>1. \A i : PaidBy(i)' \subseteq PaidBy(i) /\ Charged(i)' = Charged(i)
    BY <1>13 DEF token_update
  <2>2. t \in DOMAIN tokens /\ tokens[t] \in Document /\ t \in DOMAIN granted
    BY <1>13, <1>t DEF token_update, TokensTyped
  <2>3. \A i \in DOMAIN tokens' :
          i \in DOMAIN tokens /\ tokens'[i].uses_count = tokens[i].uses_count
    BY <1>13, <2>2 DEF token_update, Put, Document
  <2>4. \A i \in DOMAIN granted' : i \in DOMAIN granted /\ granted[i] \subseteq granted'[i]
    BY <1>13, <2>2 DEF token_update
  <2> HIDE DEF PaidBy, LeakedBy, Charged
  <2> QED
    BY <1>13, <1>t, <2>1, <2>3, <2>4, BooksFrame DEF token_update
<1>14. ASSUME NEW t \in TokenIds, token_delete(t) PROVE UsesInv'
  <2>1. \A i : PaidBy(i)' \subseteq PaidBy(i) /\ Charged(i)' = Charged(i)
    BY <1>14 DEF token_delete
  <2> QED
    BY <1>14, <1>t, <2>1, BooksFrame DEF token_delete
<1>15. ASSUME NEW t \in TokenIds, Expire(t) PROVE UsesInv'
  <2>1. \A i : PaidBy(i)' \subseteq PaidBy(i) /\ Charged(i)' = Charged(i)
    BY <1>15 DEF Expire
  <2>2. \A i \in DOMAIN tokens' :
          i \in DOMAIN tokens /\ tokens'[i].uses_count = tokens[i].uses_count
    BY <1>15, <1>t DEF Expire, Put, TokensTyped, Document
  <2> QED
    BY <1>15, <1>t, <2>1, <2>2, BooksFrame DEF Expire
<1> QED
  BY <1>1, <1>2, <1>3, <1>4, <1>5, <1>6, <1>7, <1>8, <1>9, <1>10, <1>11, <1>12, <1>13,
     <1>14, <1>15, <1>16, <1>17 DEF Next

(* token_reserve and token_release: the counter never falls below the uses  *)
(* in flight and spent, is exact while the database answers, and no more    *)
(* uploads are paid for than the admin granted.                             *)
THEOREM UsesKeptHolds == Spec => []UsesKept
<1>1. UsesInv => UsesKept
  <2> SUFFICES ASSUME UsesInv PROVE UsesKept
    OBVIOUS
  <2>1. \A t : Cardinality(Charged(t)) = Cardinality(PaidBy(t)) + Cardinality(LeakedBy(t))
    BY PaidFinite
  <2> QED
    BY <2>1 DEF UsesInv, ChargeInv, GrantInv, UsesKept
<1> QED
  BY <1>1, UsesInit, UsesStep, PTL DEF Spec

-----------------------------------------------------------------------------
(* The audit trail.                                                        *)

(* While the database answers, a request has no entry before its last step, *)
(* afterwards one of its own outcome, and only who landed is stored.        *)
AuditInv ==
  /\ DOMAIN token_uses = Requests
  /\ uploads \subseteq Uploads
  /\ ~db_failed =>
       /\ \A r \in Requests :
            IF pc[r] \in {"rejected", "failed"} THEN token_uses[r] = <<pc[r]>>
            ELSE IF pc[r] = "ok" /\ r \in Uploads THEN token_uses[r] = <<"ok">>
            ELSE token_uses[r] = <<>>
       /\ \A u \in uploads : pc[u] \in {"landed", "ok", "leaked"}
       /\ \A u \in Uploads : pc[u] \in {"landed", "ok"} => u \in uploads
  /\ \A q \in Prerequests : pc[q] \in {"idle", "refused", "rejecting", "ok", "error",
                                      "rejected", "lost"}

LEMMA AuditInit == Init => AuditInv
BY DEF Init, AuditInv, Requests

(* An entry is of one outcome only.                                         *)
LEMMA EntriesDiffer == \A x, y : <<x>> # <<>> /\ (<<x>> = <<y>> => x = y)
<1>1. \A x : <<x>>[1] = x /\ <<x>> # <<>>
  OBVIOUS
<1> QED
  BY <1>1

LEMMA AuditStep == TokensTyped /\ AuditInv /\ [Next]_vars => AuditInv'
<1> SUFFICES ASSUME TokensTyped, AuditInv, [Next]_vars PROVE AuditInv'
  OBVIOUS
<1>p. pc \in [Requests -> TokenPlaces] /\ db_failed \in BOOLEAN
  BY DEF TokensTyped
<1> USE DEF AuditInv, Goto, DbFails, Requests
<1>1. ASSUME NEW r \in Requests, Refuse(r) PROVE AuditInv'
  BY <1>1, <1>p DEF Refuse
<1>2. ASSUME NEW r \in Requests, token_use_log(r) PROVE AuditInv'
  BY <1>2, <1>p DEF token_use_log
<1>3. ASSUME NEW u \in Uploads, token_reserve(u) PROVE AuditInv'
  BY <1>3, <1>p DEF token_reserve
<1>4. ASSUME NEW u \in Uploads, ReserveFindsNone(u) PROVE AuditInv'
  BY <1>4, <1>p DEF ReserveFindsNone
<1>5. ASSUME NEW u \in Uploads, ReserveFails(u) PROVE AuditInv'
  BY <1>5, <1>p DEF ReserveFails
<1>6. ASSUME NEW u \in Uploads, LookupReason(u) PROVE AuditInv'
  BY <1>6, <1>p DEF LookupReason
<1>7. ASSUME NEW u \in Uploads, CheckLimits(u) PROVE AuditInv'
  BY <1>7, <1>p DEF CheckLimits
<1>8. ASSUME NEW u \in Uploads, Land(u) PROVE AuditInv'
  BY <1>8, <1>p DEF Land
<1>9. ASSUME NEW u \in Uploads, LandFails(u) PROVE AuditInv'
  BY <1>9, <1>p DEF LandFails
<1>10. ASSUME NEW u \in Uploads, token_release(u) PROVE AuditInv'
  BY <1>10, <1>p DEF token_release, AfterRelease
<1>11. ASSUME NEW q \in Prerequests, Prerequest(q) PROVE AuditInv'
  BY <1>11, <1>p DEF Prerequest
<1>12. ASSUME NEW t \in TokenIds,
              \/ \E s \in Secrets, max \in UsesMax \cup {Unlimited} : token_create(t, s, max)
              \/ token_update(t) \/ token_delete(t) \/ Expire(t)
       PROVE  AuditInv'
  BY <1>12 DEF token_create, token_update, token_delete, Expire
<1>13. CASE Crash
  BY <1>13, <1>p DEF Crash, Ended, Spending
<1>14. CASE UNCHANGED vars
  BY <1>14 DEF vars
<1> QED
  BY <1>1, <1>2, <1>3, <1>4, <1>5, <1>6, <1>7, <1>8, <1>9, <1>10, <1>11, <1>12, <1>13,
     <1>14 DEF Next

(* token_use_log: as long as the database answers, every upload that went   *)
(* through the audit has one entry, of its own outcome, and the log says ok *)
(* exactly of what is stored.                                               *)
THEOREM AuditTruthfulHolds == Spec => []AuditTruthful
<1>1. TokensTyped /\ AuditInv => AuditTruthful
  <2> SUFFICES ASSUME AuditInv, ~db_failed, NEW r \in Requests
      PROVE /\ pc[r] \in {"rejected", "failed"} => token_uses[r] = <<pc[r]>>
            /\ pc[r] = "ok" /\ r \in Uploads => token_uses[r] = <<"ok">>
            /\ token_uses[r] = <<"ok">> => r \in uploads
            /\ token_uses[r] \in {<<"rejected">>, <<"failed">>} => r \notin uploads
    BY DEF AuditTruthful
  <2>1. CASE pc[r] \in {"rejected", "failed"}
    <3>1. token_uses[r] = <<pc[r]>>
      BY <2>1, Zenon DEF AuditInv
    <3>2. r \notin uploads
      <4> SUFFICES ASSUME r \in uploads PROVE FALSE
        OBVIOUS
      <4>1. r \in Uploads
        BY DEF AuditInv
      <4>2. pc[r] \in {"landed", "ok", "leaked"}
        BY <4>1 DEF AuditInv
      <4> QED
        BY <2>1, <4>2
    <3> QED
      BY <2>1, <3>1, <3>2, EntriesDiffer
  <2>2. CASE pc[r] = "ok" /\ r \in Uploads
    BY <2>2, EntriesDiffer DEF AuditInv
  <2>3. CASE pc[r] \notin {"rejected", "failed"} /\ ~(pc[r] = "ok" /\ r \in Uploads)
    BY <2>3, EntriesDiffer DEF AuditInv
  <2> QED
    BY <2>1, <2>2, <2>3
<1>2. Init => TokensTyped
  BY UsesInit DEF UsesInv
<1> QED
  BY <1>1, <1>2, TypedStep, AuditInit, AuditStep, PTL DEF Spec
-----------------------------------------------------------------------------
(* The public feed. *)

-----------------------------------------------------------------------------
(* The order, and what adding and removing an entry do to a sequence.      *)

Entry == [id : Ids, views : Nat]
IdsOf(f) == {f[k].id : k \in DOMAIN f}
InOrder(f) == \A j, k \in DOMAIN f : j < k => ~Before(f[k].id, f[j].id)
Twice(f, id) == \E j, k \in DOMAIN f : j < k /\ f[j].id = id /\ f[k].id = id
Thrice(f, id) ==
  \E i, j, k \in DOMAIN f : i < j /\ j < k /\ f[i].id = id /\ f[j].id = id /\ f[k].id = id

(* Uploads are strictly ordered, by `when` and then by id. *)
LEMMA StrictOrder ==
  /\ \A i, j \in Ids : ~(Before(i, j) /\ Before(j, i))
  /\ \A i, j, k \in Ids : Before(i, j) /\ Before(j, k) => Before(i, k)
  /\ \A i, j \in Ids : i = j \/ Before(i, j) \/ Before(j, i)
BY FeedAssumption DEF Before

(* A nonempty set of numbers has a least one. *)
LEMMA LeastNumber ==
  ASSUME NEW S, S \subseteq Nat, S # {}
  PROVE  \E m \in S : \A k \in S : m =< k
<1>1. PICK R : R = OpToRel(<, Nat)
  OBVIOUS
<1>2. IsWellFoundedOn(R, Nat)
  BY <1>1, NatLessThanWellFounded
<1>3. \A x, y \in Nat : x < y => <<x, y>> \in R
  BY <1>1 DEF OpToRel
<1>4. PICK m \in S : \A y \in S : ~(<<y, m>> \in R)
  BY <1>2, WFMin
<1>5. \A k \in S : ~(k < m) /\ k \in Nat /\ m \in Nat
  BY <1>3, <1>4
<1> QED
  BY <1>5

(* g is f with x put in at place i; g is f without its place i. *)
Spliced(f, x, g, i) ==
  /\ Len(g) = Len(f) + 1
  /\ g[i] = x
  /\ \A k \in 1 .. i - 1 : g[k] = f[k]
  /\ \A k \in i + 1 .. Len(f) + 1 : g[k] = f[k - 1]
Shrunk(f, g, i) ==
  /\ Len(g) = Len(f) - 1
  /\ \A k \in 1 .. i - 1 : g[k] = f[k]
  /\ \A k \in i .. Len(f) - 1 : g[k] = f[k + 1]

LEMMA InsertAtSplices ==
  ASSUME NEW T, NEW f \in Seq(T), NEW x \in T, NEW i \in 1 .. Len(f)
  PROVE  InsertAt(f, i, x) \in Seq(T) /\ Spliced(f, x, InsertAt(f, i, x), i)
<1> DEFINE a == SubSeq(f, 1, i - 1)
           b == SubSeq(f, i, Len(f))
<1>1. Len(f) \in Nat /\ i \in Nat /\ i >= 1 /\ i =< Len(f)
  BY LenProperties
<1>2. \A k \in 1 .. Len(f) : f[k] \in T
  BY ElementOfSeq
<1>3. a \in Seq(T) /\ Len(a) = i - 1 /\ \A k \in 1 .. i - 1 : a[k] = f[k]
  BY <1>1, <1>2, SMT
<1>4. b \in Seq(T) /\ Len(b) = Len(f) - i + 1
      /\ \A k \in 1 .. Len(f) - i + 1 : b[k] = f[i + k - 1]
  BY <1>1, <1>2, SMT
<1>5. <<x>> \in Seq(T) /\ Len(<<x>>) = 1 /\ <<x>>[1] = x
  OBVIOUS
<1> HIDE DEF a, b
<1> DEFINE c == a \o <<x>>
<1>6. c \in Seq(T) /\ Len(c) = i /\ c[i] = x /\ \A k \in 1 .. i - 1 : c[k] = f[k]
  BY <1>1, <1>3, <1>5, ConcatProperties, SMTT(30)
<1> HIDE DEF c
<1> DEFINE g == c \o b
<1>7. g \in Seq(T) /\ Len(g) = Len(f) + 1
      /\ \A k \in 1 .. Len(f) + 1 : g[k] = IF k =< i THEN c[k] ELSE b[k - i]
  <2>1. /\ c \o b \in Seq(T) /\ Len(c \o b) = Len(c) + Len(b)
        /\ \A k \in 1 .. Len(c) + Len(b) :
             (c \o b)[k] = IF k =< Len(c) THEN c[k] ELSE b[k - Len(c)]
    <3>1. c \in Seq(T)
      BY <1>6
    <3>2. b \in Seq(T)
      BY <1>4
    <3> HIDE DEF g
    <3> QED
      BY ONLY <3>1, <3>2, ConcatProperties, Zenon
  <2> QED
    BY <1>1, <1>4, <1>6, <2>1, SMTT(30)
<1> HIDE DEF g
<1>8. Spliced(f, x, g, i)
  <2>1. g[i] = x
    BY <1>1, <1>6, <1>7
  <2>2. \A k \in 1 .. i - 1 : g[k] = f[k]
    BY <1>1, <1>6, <1>7
  <2>3. ASSUME NEW k \in i + 1 .. Len(f) + 1 PROVE g[k] = f[k - 1]
    <3>1. k - i \in 1 .. Len(f) - i + 1 /\ i + (k - i) - 1 = k - 1
      BY <1>1
    <3>2. g[k] = b[k - i]
      BY <1>1, <1>7
    <3> QED
      BY <3>1, <3>2, <1>4
  <2> QED
    BY <1>7, <2>1, <2>2, <2>3 DEF Spliced
<1>9. InsertAt(f, i, x) = g
  BY DEF InsertAt, a, b, c, g
<1> QED
  BY <1>7, <1>8, <1>9

LEMMA RemoveAtShrinks ==
  ASSUME NEW T, NEW f \in Seq(T), NEW i \in 1 .. Len(f)
  PROVE  RemoveAt(f, i) \in Seq(T) /\ Shrunk(f, RemoveAt(f, i), i)
<1>1. PICK g : g = RemoveAt(f, i)
  OBVIOUS
<1>2. g \in Seq(T) /\ IsWithout(f, i, g)
  BY <1>1, RemovedAt
<1>3. PICK n \in Nat : n = Len(f)
  BY LenProperties
<1>4. /\ Len(g) = n - 1
      /\ \A k \in 1 .. n - 1 : g[k] = IF k < i THEN f[k] ELSE f[k + 1]
  BY <1>2, <1>3 DEF IsWithout
<1>5. \A k \in 1 .. i - 1 : k \in 1 .. n - 1 /\ k < i
  BY <1>3
<1>6. \A k \in i .. n - 1 : k \in 1 .. n - 1 /\ ~(k < i)
  BY <1>3
<1> QED
  BY <1>1, <1>2, <1>3, <1>4, <1>5, <1>6 DEF Shrunk

(* A public entry goes ahead of the first one it precedes. *)
LEMMA AddPlaces ==
  ASSUME NEW f \in Seq(Entry), NEW e \in Entry, e.id \in Public
  PROVE  /\ feed_upload_add(f, e) \in Seq(Entry)
         /\ \E i \in 1 .. Len(f) + 1 :
              /\ Spliced(f, e, feed_upload_add(f, e), i)
              /\ \A k \in 1 .. i - 1 : ~Before(e.id, f[k].id)
              /\ i =< Len(f) => Before(e.id, f[i].id)
<1>1. Len(f) \in Nat /\ DOMAIN f = 1 .. Len(f)
  BY LenProperties
<1>2. PICK later : later = {i \in DOMAIN f : Before(e.id, f[i].id)}
  OBVIOUS
<1>3. CASE later = {}
  <2>1. feed_upload_add(f, e) = Append(f, e)
    BY <1>2, <1>3 DEF feed_upload_add
  <2>2. /\ Append(f, e) \in Seq(Entry) /\ Len(Append(f, e)) = Len(f) + 1
        /\ \A k \in 1 .. Len(f) : Append(f, e)[k] = f[k]
        /\ Append(f, e)[Len(f) + 1] = e
    BY AppendProperties
  <2>3. Spliced(f, e, Append(f, e), Len(f) + 1)
    BY <1>1, <2>2 DEF Spliced
  <2>4. \A k \in 1 .. Len(f) : ~Before(e.id, f[k].id)
    BY <1>1, <1>2, <1>3
  <2> QED
    BY <1>1, <2>1, <2>2, <2>3, <2>4
<1>4. CASE later # {}
  <2>1. later \subseteq 1 .. Len(f) /\ later \subseteq Nat
    BY <1>1, <1>2
  <2>2. PICK i \in later : \A j \in later : i =< j
    BY <1>4, <2>1, LeastNumber
  <2>3. (CHOOSE k \in later : \A j \in later : k =< j) = i
    <3>1. \A k \in later : (\A j \in later : k =< j) => k = i
      BY <2>1, <2>2
    <3> QED
      BY <2>2, <3>1
  <2>4. feed_upload_add(f, e) = InsertAt(f, i, e)
    BY <1>2, <1>4, <2>3 DEF feed_upload_add
  <2>5. i \in 1 .. Len(f) /\ Before(e.id, f[i].id)
    BY <1>2, <2>1, <2>2
  <2>6. InsertAt(f, i, e) \in Seq(Entry) /\ Spliced(f, e, InsertAt(f, i, e), i)
    BY <2>5, InsertAtSplices
  <2>7. ASSUME NEW k \in 1 .. i - 1, Before(e.id, f[k].id) PROVE FALSE
    BY <1>1, <1>2, <2>2, <2>5, <2>7
  <2> QED
    BY <1>1, <2>4, <2>5, <2>6, <2>7
<1> QED
  BY <1>3, <1>4

(* What feed_upload_add keeps of a sequence and what it adds to it. *)
LEMMA Added ==
  ASSUME NEW f \in Seq(Entry), NEW e \in Entry
  PROVE  LET g == feed_upload_add(f, e) IN
         /\ g \in Seq(Entry)
         /\ InOrder(f) => InOrder(g)
         /\ IdsOf(g) = IdsOf(f) \cup ({e.id} \cap Public)
         /\ \A k \in DOMAIN g : g[k] = e \/ \E j \in DOMAIN f : g[k] = f[j]
         /\ \A id : Twice(g, id) => Twice(f, id) \/ (id = e.id /\ id \in IdsOf(f))
         /\ \A id : Thrice(g, id) => Thrice(f, id) \/ (id = e.id /\ Twice(f, id))
         /\ e.id \in Public => Len(g) = Len(f) + 1
<1> DEFINE g == feed_upload_add(f, e)
<1>1. CASE e.id \notin Public
  <2>1. g = f
    BY <1>1 DEF feed_upload_add
  <2> QED
    BY <1>1, <2>1
<1>2. CASE e.id \in Public
  <2>1. g \in Seq(Entry)
    BY <1>2, AddPlaces
  <2>2. PICK i \in 1 .. Len(f) + 1 :
          /\ Spliced(f, e, g, i)
          /\ \A k \in 1 .. i - 1 : ~Before(e.id, f[k].id)
          /\ i =< Len(f) => Before(e.id, f[i].id)
    BY <1>2, AddPlaces
  <2> HIDE DEF g
  <2>3. /\ Len(f) \in Nat /\ DOMAIN f = 1 .. Len(f) /\ i \in Nat
        /\ DOMAIN g = 1 .. Len(f) + 1 /\ Len(g) = Len(f) + 1
    BY <2>1, <2>2, LenProperties DEF Spliced
  <2>4. ASSUME NEW k \in DOMAIN g
        PROVE  \/ k = i /\ g[k] = e
               \/ k < i /\ k \in DOMAIN f /\ g[k] = f[k]
               \/ k > i /\ k - 1 \in DOMAIN f /\ g[k] = f[k - 1]
    BY <2>2, <2>3 DEF Spliced
  <2>5. ASSUME NEW k \in DOMAIN f
        PROVE  \E j \in DOMAIN g : g[j] = f[k]
    <3>1. CASE k < i
      BY <2>2, <2>3, <3>1 DEF Spliced
    <3>2. CASE k >= i
      <4>1. k + 1 \in DOMAIN g /\ k + 1 \in i + 1 .. Len(f) + 1
        BY <2>3, <3>2
      <4>2. g[k + 1] = f[(k + 1) - 1] /\ (k + 1) - 1 = k
        BY <2>2, <2>3, <4>1 DEF Spliced
      <4> QED
        BY <4>1, <4>2
    <3> QED
      BY <2>3, <3>1, <3>2
  <2>6. i \in DOMAIN g /\ g[i] = e
    BY <2>2, <2>3 DEF Spliced
  <2>7. IdsOf(g) = IdsOf(f) \cup {e.id}
    <3>1. ASSUME NEW x \in IdsOf(g) PROVE x \in IdsOf(f) \cup {e.id}
      <4>1. PICK k \in DOMAIN g : g[k].id = x
        BY DEF IdsOf
      <4> QED
        BY <2>4, <4>1 DEF IdsOf
    <3>2. ASSUME NEW x \in IdsOf(f) PROVE x \in IdsOf(g)
      <4>1. PICK k \in DOMAIN f : f[k].id = x
        BY DEF IdsOf
      <4> QED
        BY <2>5, <4>1 DEF IdsOf
    <3>3. e.id \in IdsOf(g)
      BY <2>6 DEF IdsOf
    <3> QED
      BY <3>1, <3>2, <3>3
  <2>8. ASSUME InOrder(f) PROVE InOrder(g)
    <3> SUFFICES ASSUME NEW j \in DOMAIN g, NEW k \in DOMAIN g, j < k,
                        Before(g[k].id, g[j].id)
                 PROVE  FALSE
      BY DEF InOrder
    <3>1. /\ e.id \in Ids
          /\ \A m \in DOMAIN f : f[m].id \in Ids
      <4>1. \A m \in DOMAIN f : f[m] \in Entry
        BY <2>3, ElementOfSeq
      <4> QED
        BY <4>1 DEF Entry
    <3>2. \A m, n \in DOMAIN f : m < n => ~Before(f[n].id, f[m].id)
      BY <2>8 DEF InOrder
    <3>3. CASE k < i
      BY <2>3, <2>4, <3>2, <3>3
    <3>4. CASE k = i
      <4>1. j \in 1 .. i - 1 /\ g[k] = e /\ g[j] = f[j]
        BY <2>2, <2>3, <2>6, <3>4 DEF Spliced
      <4> QED
        BY <2>2, <4>1
    <3>5. CASE j = i
      <4>1. k - 1 \in DOMAIN f /\ g[k] = f[k - 1] /\ g[j] = e /\ i =< k - 1
        BY <2>3, <2>4, <2>6, <3>5
      <4>2. i \in DOMAIN f /\ Before(e.id, f[i].id)
        BY <2>2, <2>3, <4>1
      <4>3. Before(f[k - 1].id, f[i].id)
        BY <3>1, <4>1, <4>2, StrictOrder
      <4>4. k - 1 # i
        BY <3>1, <4>2, <4>3, StrictOrder
      <4> QED
        BY <2>3, <3>2, <4>1, <4>2, <4>3, <4>4
    <3>6. CASE j > i
      <4>1. /\ k - 1 \in DOMAIN f /\ g[k] = f[k - 1]
            /\ j - 1 \in DOMAIN f /\ g[j] = f[j - 1] /\ j - 1 < k - 1
        BY <2>3, <2>4, <3>6
      <4> QED
        BY <3>2, <4>1
    <3>7. CASE j < i /\ i < k
      <4>1. /\ k - 1 \in DOMAIN f /\ g[k] = f[k - 1]
            /\ j \in DOMAIN f /\ g[j] = f[j] /\ j < k - 1
        BY <2>3, <2>4, <3>7
      <4> QED
        BY <3>2, <4>1
    <3> QED
      BY <2>3, <3>3, <3>4, <3>5, <3>6, <3>7
  <2>9. ASSUME NEW id, Twice(g, id)
        PROVE  Twice(f, id) \/ (id = e.id /\ id \in IdsOf(f))
    <3>1. PICK j, k \in DOMAIN g : j < k /\ g[j].id = id /\ g[k].id = id
      BY <2>9 DEF Twice
    <3>2. CASE k = i
      <4>1. j \in DOMAIN f /\ g[j] = f[j] /\ g[k] = e
        BY <2>3, <2>4, <3>1, <3>2
      <4> QED
        BY <3>1, <4>1 DEF IdsOf
    <3>3. CASE j = i
      <4>1. k - 1 \in DOMAIN f /\ g[k] = f[k - 1] /\ g[j] = e
        BY <2>3, <2>4, <3>1, <3>3
      <4> QED
        BY <3>1, <4>1 DEF IdsOf
    <3>4. CASE j # i /\ k # i
      <4>1. PICK m \in DOMAIN f : g[j] = f[m] /\ m = IF j < i THEN j ELSE j - 1
        BY <2>3, <2>4, <3>4
      <4>2. PICK n \in DOMAIN f : g[k] = f[n] /\ n = IF k < i THEN k ELSE k - 1
        BY <2>3, <2>4, <3>4
      <4>3. m < n
        BY <2>3, <3>1, <3>4, <4>1, <4>2
      <4> QED
        BY <3>1, <4>1, <4>2, <4>3 DEF Twice
    <3> QED
      BY <3>2, <3>3, <3>4
  <2> DEFINE Old(k) == IF k < i THEN k ELSE k - 1
  <2>10. ASSUME NEW k \in DOMAIN g, k # i
         PROVE  Old(k) \in DOMAIN f /\ g[k] = f[Old(k)]
    BY <2>3, <2>4, <2>10
  <2>11. ASSUME NEW j \in DOMAIN g, NEW k \in DOMAIN g, j # i, k # i, j < k
         PROVE  Old(j) < Old(k)
    BY <2>3, <2>11
  <2> HIDE DEF Old
  <2>12. ASSUME NEW id, Thrice(g, id)
         PROVE  Thrice(f, id) \/ (id = e.id /\ Twice(f, id))
    <3>1. PICK j, k, m \in DOMAIN g :
            j < k /\ k < m /\ g[j].id = id /\ g[k].id = id /\ g[m].id = id
      BY <2>12 DEF Thrice
    <3>2. j < m /\ j # k /\ k # m /\ j # m
      BY <2>3, <3>1
    <3>3. CASE j = i
      <4>1. Old(k) \in DOMAIN f /\ Old(m) \in DOMAIN f /\ Old(k) < Old(m)
            /\ g[k] = f[Old(k)] /\ g[m] = f[Old(m)] /\ g[j] = e
        BY <2>6, <2>10, <2>11, <3>1, <3>2, <3>3
      <4> QED
        BY <3>1, <4>1 DEF Twice
    <3>4. CASE k = i
      <4>1. Old(j) \in DOMAIN f /\ Old(m) \in DOMAIN f /\ Old(j) < Old(m)
            /\ g[j] = f[Old(j)] /\ g[m] = f[Old(m)] /\ g[k] = e
        BY <2>6, <2>10, <2>11, <3>1, <3>2, <3>4
      <4> QED
        BY <3>1, <4>1 DEF Twice
    <3>5. CASE m = i
      <4>1. Old(j) \in DOMAIN f /\ Old(k) \in DOMAIN f /\ Old(j) < Old(k)
            /\ g[j] = f[Old(j)] /\ g[k] = f[Old(k)] /\ g[m] = e
        BY <2>6, <2>10, <2>11, <3>1, <3>2, <3>5
      <4> QED
        BY <3>1, <4>1 DEF Twice
    <3>6. CASE j # i /\ k # i /\ m # i
      <4>1. /\ Old(j) \in DOMAIN f /\ g[j] = f[Old(j)]
            /\ Old(k) \in DOMAIN f /\ g[k] = f[Old(k)]
            /\ Old(m) \in DOMAIN f /\ g[m] = f[Old(m)]
            /\ Old(j) < Old(k) /\ Old(k) < Old(m)
        BY <2>10, <2>11, <3>1, <3>6
      <4> QED
        BY <3>1, <4>1 DEF Thrice
    <3> QED
      BY <3>3, <3>4, <3>5, <3>6
  <2> QED
    BY <1>2, <2>1, <2>3, <2>4, <2>7, <2>8, <2>9, <2>12 DEF g
<1> QED
  BY <1>1, <1>2

(* What feed_upload_remove keeps of a sequence. *)
LEMMA Removed ==
  ASSUME NEW f \in Seq(Entry), NEW id
  PROVE  LET g == feed_upload_remove(f, id) IN
         /\ g \in Seq(Entry)
         /\ InOrder(f) => InOrder(g)
         /\ IdsOf(g) \subseteq IdsOf(f) /\ IdsOf(f) \subseteq IdsOf(g) \cup {id}
         /\ \A k \in DOMAIN g : \E j \in DOMAIN f : g[k] = f[j]
         /\ \A x : (Twice(g, x) => Twice(f, x)) /\ (Thrice(g, x) => Thrice(f, x))
         /\ id \in IdsOf(g) => Twice(f, id)
         /\ Twice(g, id) => Thrice(f, id)
<1> DEFINE g == feed_upload_remove(f, id)
<1>1. PICK found : found = {i \in DOMAIN f : f[i].id = id}
  OBVIOUS
<1>2. Len(f) \in Nat /\ DOMAIN f = 1 .. Len(f)
  BY LenProperties
<1>3. CASE found = {}
  <2>1. g = f
    BY <1>1, <1>3 DEF feed_upload_remove
  <2>2. id \notin IdsOf(f) /\ ~Twice(f, id)
    BY <1>1, <1>3 DEF IdsOf, Twice
  <2> QED
    BY <2>1, <2>2
<1>4. CASE found # {}
  <2>1. found \subseteq 1 .. Len(f) /\ found \subseteq Nat
    BY <1>1, <1>2
  <2>2. PICK i \in found : \A j \in found : i =< j
    BY <1>4, <2>1, LeastNumber
  <2>3. (CHOOSE k \in found : \A j \in found : k =< j) = i
    <3>1. \A k \in found : (\A j \in found : k =< j) => k = i
      BY <2>1, <2>2
    <3> QED
      BY <2>2, <3>1
  <2>4. g = RemoveAt(f, i)
    BY <1>1, <1>4, <2>3 DEF feed_upload_remove
  <2>5. i \in 1 .. Len(f) /\ f[i].id = id
    BY <1>1, <2>1
  <2>6. g \in Seq(Entry) /\ Shrunk(f, g, i)
    BY <2>4, <2>5, RemoveAtShrinks
  <2> HIDE DEF g
  <2>7. DOMAIN g = 1 .. Len(f) - 1
    BY <2>6, LenProperties DEF Shrunk
  <2>8. ASSUME NEW k \in DOMAIN g
        PROVE  \/ k < i /\ k \in DOMAIN f /\ g[k] = f[k]
               \/ k >= i /\ k + 1 \in DOMAIN f /\ g[k] = f[k + 1]
    BY <1>2, <2>5, <2>6, <2>7 DEF Shrunk
  <2>9. ASSUME NEW k \in DOMAIN f, k # i
        PROVE  \E j \in DOMAIN g : g[j] = f[k]
    <3>1. CASE k < i
      BY <1>2, <2>5, <2>6, <2>7, <3>1 DEF Shrunk
    <3>2. CASE k > i
      <4>1. k - 1 \in DOMAIN g /\ k - 1 \in i .. Len(f) - 1
        BY <1>2, <2>5, <2>7, <3>2
      <4>2. g[k - 1] = f[(k - 1) + 1] /\ (k - 1) + 1 = k
        BY <1>2, <2>6, <4>1 DEF Shrunk
      <4> QED
        BY <4>1, <4>2
    <3> QED
      BY <1>2, <2>5, <2>9, <3>1, <3>2
  <2>10. ASSUME NEW j \in DOMAIN g, NEW k \in DOMAIN g, j < k
         PROVE  \E m, n \in DOMAIN f : m < n /\ m # i /\ n # i /\ g[j] = f[m] /\ g[k] = f[n]
    <3>1. PICK m \in DOMAIN f : g[j] = f[m] /\ m = IF j < i THEN j ELSE j + 1
      BY <1>2, <2>5, <2>7, <2>8
    <3>2. PICK n \in DOMAIN f : g[k] = f[n] /\ n = IF k < i THEN k ELSE k + 1
      BY <1>2, <2>5, <2>7, <2>8
    <3>3. m < n /\ m # i /\ n # i
      BY <1>2, <2>5, <2>7, <2>10, <3>1, <3>2
    <3> QED
      BY <3>1, <3>2, <3>3
  <2>11. ASSUME InOrder(f) PROVE InOrder(g)
    BY <2>10, <2>11 DEF InOrder
  <2>12. ASSUME NEW k \in DOMAIN g
         PROVE  \E j \in DOMAIN f : j # i /\ g[k] = f[j]
    <3>1. CASE k < i
      BY <1>2, <2>5, <2>7, <2>8, <3>1
    <3>2. CASE k >= i
      <4>1. k + 1 \in DOMAIN f /\ g[k] = f[k + 1] /\ k + 1 # i
        BY <1>2, <2>5, <2>7, <2>8, <3>2
      <4> QED
        BY <4>1
    <3> QED
      BY <1>2, <2>5, <2>7, <3>1, <3>2
  <2>13. ASSUME NEW x, Twice(g, x) PROVE Twice(f, x)
    <3>1. PICK j, k \in DOMAIN g : j < k /\ g[j].id = x /\ g[k].id = x
      BY <2>13 DEF Twice
    <3>2. PICK m, n \in DOMAIN f : m < n /\ g[j] = f[m] /\ g[k] = f[n]
      BY <2>10, <3>1
    <3> QED
      BY <3>1, <3>2 DEF Twice
  <2>14. ASSUME id \in IdsOf(g) PROVE Twice(f, id)
    <3>1. PICK k \in DOMAIN g : g[k].id = id
      BY <2>14 DEF IdsOf
    <3>2. PICK j \in DOMAIN f : j # i /\ f[j].id = id
      BY <2>12, <3>1
    <3>3. i \in DOMAIN f /\ (i < j \/ j < i)
      BY <1>2, <2>5, <3>2
    <3> QED
      BY <2>5, <3>2, <3>3 DEF Twice
  <2>15. ASSUME NEW x \in IdsOf(f), x # id PROVE x \in IdsOf(g)
    <3>1. PICK k \in DOMAIN f : f[k].id = x
      BY DEF IdsOf
    <3>2. k # i
      BY <2>5, <2>15, <3>1
    <3> QED
      BY <2>9, <3>1, <3>2 DEF IdsOf
  <2>16. IdsOf(g) \subseteq IdsOf(f)
    <3> SUFFICES ASSUME NEW x \in IdsOf(g) PROVE x \in IdsOf(f)
      OBVIOUS
    <3>1. PICK k \in DOMAIN g : g[k].id = x
      BY DEF IdsOf
    <3> QED
      BY <2>12, <3>1 DEF IdsOf
  <2>17. \A k \in DOMAIN g : \E j \in DOMAIN f : g[k] = f[j]
    BY <2>12
  <2> DEFINE Old(k) == IF k < i THEN k ELSE k + 1
  <2>18. ASSUME NEW k \in DOMAIN g
         PROVE  Old(k) \in DOMAIN f /\ Old(k) # i /\ g[k] = f[Old(k)]
    BY <1>2, <2>5, <2>7, <2>8
  <2>19. ASSUME NEW j \in DOMAIN g, NEW k \in DOMAIN g, j < k
         PROVE  Old(j) < Old(k)
    BY <1>2, <2>5, <2>7, <2>19
  <2> HIDE DEF Old
  <2>20. ASSUME NEW x, Thrice(g, x) PROVE Thrice(f, x)
    <3>1. PICK j, k, m \in DOMAIN g :
            j < k /\ k < m /\ g[j].id = x /\ g[k].id = x /\ g[m].id = x
      BY <2>20 DEF Thrice
    <3>2. Old(j) < Old(k) /\ Old(k) < Old(m)
      BY <2>19, <3>1
    <3> QED
      BY <2>18, <3>1, <3>2 DEF Thrice
  <2>21. ASSUME Twice(g, id) PROVE Thrice(f, id)
    <3>1. PICK j, k \in DOMAIN g : j < k /\ g[j].id = id /\ g[k].id = id
      BY <2>21 DEF Twice
    <3>2. PICK m, n \in DOMAIN f : m = Old(j) /\ n = Old(k)
      BY <2>18
    <3>3. m < n /\ m # i /\ n # i /\ f[m].id = id /\ f[n].id = id
      BY <2>18, <2>19, <3>1, <3>2
    <3>4. i \in DOMAIN f /\ (i < m \/ (m < i /\ i < n) \/ n < i)
      BY <1>2, <2>5, <3>3
    <3> QED
      BY <2>5, <3>3, <3>4 DEF Thrice
  <2> QED
    BY <2>6, <2>11, <2>13, <2>14, <2>15, <2>16, <2>17, <2>20, <2>21 DEF g
<1> QED
  BY <1>3, <1>4

(* Every set of public uploads can be listed in order, each once: by       *)
(* adding one upload after the other.                                      *)
Lists(f, S) ==
  /\ f \in Seq(Entry) /\ InOrder(f) /\ IdsOf(f) = S
  /\ Len(f) = Cardinality(S) /\ \A id : ~Twice(f, id)

LEMMA Listable ==
  ASSUME NEW S \in SUBSET Public
  PROVE  \E f : Lists(f, S)
<1> DEFINE bad == {n \in Nat : \E R \in SUBSET Public :
                      Cardinality(R) = n /\ \A f : ~Lists(f, R)}
<1>1. ASSUME NEW R \in SUBSET Public
      PROVE  IsFiniteSet(R) /\ Cardinality(R) \in Nat
  BY FS_Subset, FS_CardinalityType, FeedAssumption
<1>2. ASSUME bad # {} PROVE FALSE
  <2>1. PICK n \in bad : \A k \in bad : n =< k
    BY <1>2, LeastNumber
  <2>2. PICK R \in SUBSET Public : Cardinality(R) = n /\ \A f : ~Lists(f, R)
    BY <2>1
  <2>3. R # {}
    <3> SUFFICES ASSUME R = {} PROVE FALSE
      OBVIOUS
    <3>1. <<>> \in Seq(Entry) /\ Len(<<>>) = 0 /\ DOMAIN <<>> = {}
      BY EmptySeq
    <3>2. Cardinality(R) = 0
      BY FS_EmptySet
    <3>3. Lists(<<>>, R)
      BY <3>1, <3>2 DEF Lists, InOrder, IdsOf, Twice
    <3> QED
      BY <2>2, <3>3
  <2>4. PICK x \in R : TRUE
    BY <2>3
  <2>5. Cardinality(R \ {x}) = n - 1 /\ n \in Nat /\ n - 1 \in Nat
    <3>1. IsFiniteSet(R) /\ Cardinality(R) \in Nat /\ R \ {x} \in SUBSET Public
      BY <1>1
    <3>2. Cardinality(R \ {x}) \in Nat
      BY <1>1, <3>1
    <3>3. Cardinality(R \ {x}) = Cardinality(R) - 1
      BY <3>1, FS_RemoveElement
    <3> QED
      BY <2>2, <3>1, <3>2, <3>3
  <2>6. PICK f : Lists(f, R \ {x})
    BY <2>1, <2>5
  <2>7. PICK e \in Entry : e.id = x
    <3>1. [id |-> x, views |-> 0] \in Entry
      BY FeedAssumption DEF Entry
    <3> QED
      BY <3>1
  <2>8. PICK g : g = feed_upload_add(f, e)
    OBVIOUS
  <2>9. f \in Seq(Entry) /\ InOrder(f) /\ IdsOf(f) = R \ {x}
        /\ Len(f) = n - 1 /\ \A id : ~Twice(f, id)
    BY <2>5, <2>6 DEF Lists
  <2>10. /\ g \in Seq(Entry) /\ InOrder(g) /\ Len(g) = Len(f) + 1
         /\ IdsOf(g) = IdsOf(f) \cup ({e.id} \cap Public)
         /\ \A id : Twice(g, id) => Twice(f, id) \/ (id = e.id /\ id \in IdsOf(f))
    BY <2>7, <2>8, <2>9, Added
  <2>11. Lists(g, R)
    BY <2>2, <2>5, <2>7, <2>9, <2>10 DEF Lists
  <2> QED
    BY <2>2, <2>11
<1>3. S \in SUBSET Public /\ Cardinality(S) \in Nat
  BY <1>1
<1> QED
  BY <1>2, <1>3

(* So the boot's find and sort return one, of just the public documents. *)
LEMMA SortedPublicLists ==
  ASSUME Stored \subseteq Ids, \A i \in Stored : documents[i] \in Nat
  PROVE  /\ SortedPublic \in Seq(Entry) /\ InOrder(SortedPublic)
         /\ IdsOf(SortedPublic) = Public \cap Stored
         /\ \A id : ~Twice(SortedPublic, id)
         /\ \A k \in DOMAIN SortedPublic :
              SortedPublic[k].views = documents[SortedPublic[k].id]
<1> DEFINE S == Public \cap Stored
           Strict(s) == \A j, k \in DOMAIN s : j < k => Before(s[j], s[k])
           order == CHOOSE s \in SetToSeqs(S) : Strict(s)
<1>1. IsFiniteSet(S) /\ Cardinality(S) \in Nat
  BY FS_Subset, FS_CardinalityType, FeedAssumption
<1>2. \E s \in SetToSeqs(S) : Strict(s)
  <2>1. PICK f : Lists(f, S)
    BY Listable
  <2> DEFINE s == [k \in 1 .. Cardinality(S) |-> f[k].id]
  <2>2. /\ f \in Seq(Entry) /\ DOMAIN f = 1 .. Cardinality(S)
        /\ \A k \in DOMAIN f : f[k].id \in Ids /\ f[k].id \in S
    <3>1. f \in Seq(Entry) /\ DOMAIN f = 1 .. Cardinality(S) /\ IdsOf(f) = S
      BY <2>1, LenProperties DEF Lists
    <3> QED
      BY <3>1 DEF IdsOf
  <2>3. ASSUME NEW j \in DOMAIN f, NEW k \in DOMAIN f, j < k
        PROVE  Before(f[j].id, f[k].id)
    <3>1. ~Before(f[k].id, f[j].id)
      BY <2>1, <2>3 DEF Lists, InOrder
    <3>2. f[j].id # f[k].id
      BY <2>1, <2>3 DEF Lists, Twice
    <3> QED
      BY <2>2, <3>1, <3>2, StrictOrder
  <2>4. s \in [1 .. Cardinality(S) -> S] /\ Strict(s)
    BY <2>2, <2>3
  <2>5. \A j, k \in 1 .. Cardinality(S) : j # k => s[j] # s[k]
    <3> SUFFICES ASSUME NEW j \in 1 .. Cardinality(S), NEW k \in 1 .. Cardinality(S),
                        j # k, f[j].id = f[k].id
                 PROVE  FALSE
      OBVIOUS
    <3>1. j < k \/ k < j
      BY <1>1
    <3> QED
      BY <2>1, <2>2, <3>1 DEF Lists, Twice
  <2>6. s \in SetToSeqs(S)
    BY <2>4, <2>5 DEF SetToSeqs
  <2> QED
    BY <2>4, <2>6
<1>3. order \in SetToSeqs(S) /\ Strict(order)
  BY <1>2
<1> HIDE DEF order
<1>4. PICK n : n = Cardinality(S)
  OBVIOUS
<1>5. /\ order \in [1 .. n -> S] /\ n \in Nat
      /\ \A j, k \in 1 .. n : j # k => order[j] # order[k]
  BY <1>1, <1>3, <1>4 DEF SetToSeqs
<1>6. \A i \in S : \E k \in 1 .. n : order[k] = i
  <2>1. order \in Injection(1 .. n, S)
    BY <1>5 DEF Injection, IsInjective
  <2>2. Cardinality(1 .. n) = n
    BY <1>5, FS_Interval
  <2>3. order \in Surjection(1 .. n, S)
    BY <1>1, <1>4, <2>1, <2>2, FS_Injection
  <2> QED
    BY <2>3 DEF Surjection
<1>7. PICK g : g = SortedPublic
  OBVIOUS
<1>8. g = [k \in 1 .. n |-> [id |-> order[k], views |-> documents[order[k]]]]
  BY <1>5, <1>7 DEF SortedPublic, order
<1>9. \A k \in 1 .. n : order[k] \in S /\ order[k] \in Ids /\ documents[order[k]] \in Nat
  BY <1>5
<1>10. /\ DOMAIN g = 1 .. n
       /\ \A k \in 1 .. n : /\ g[k] \in Entry /\ g[k].id = order[k]
                            /\ g[k].views = documents[order[k]]
  BY <1>8, <1>9 DEF Entry
<1>11. g \in Seq(Entry)
  BY <1>5, <1>8, <1>10
<1>12. InOrder(g)
  BY <1>3, <1>5, <1>9, <1>10, StrictOrder DEF InOrder
<1>13. IdsOf(g) = S
  BY <1>6, <1>9, <1>10 DEF IdsOf
<1>14. \A id : ~Twice(g, id)
  BY <1>5, <1>10 DEF Twice
<1> QED
  BY <1>7, <1>10, <1>11, <1>12, <1>13, <1>14

-----------------------------------------------------------------------------
(* The inductive invariant.                                                *)

FeedPlaces == {"idle", "inserted", "counted", "fetched", "removing"} \cup Over

Typed ==
  /\ Stored \subseteq Ids /\ \A i \in Stored : documents[i] \in Nat
  /\ feed \in Seq(Entry)
  /\ handler \in [FeedRequests -> FeedPlaces]
  /\ \A v \in Views : read[v] = {} \/ \E n \in Nat : read[v] = {n}
  /\ DOMAIN read = Views /\ feed_raced \subseteq FeedRequests

(* A request that raced for the upload is over, or one that failed.        *)
Past(id) == \E r \in feed_raced : UploadOf(r) = id /\ handler[r] \in {"ok", "error"}

(* An upload that is still to come is in neither place.  One between its   *)
(* two steps cannot be deleted, because of the lock, unless it is a note;  *)
(* only a view can have listed it, once, and its own request then lists it *)
(* the second and last time.                                               *)
UploadInv ==
  \A id \in Ids :
    /\ handler[id] = "idle" => id \notin Stored /\ id \notin Listed
    /\ handler[id] = "inserted" => /\ id \in Listed \/ id \notin Stored => id \in feed_raced
                                   /\ id \notin Notes => id \in Stored
    /\ Twice(feed, id) => id \in feed_raced /\ handler[id] = "ok"
    /\ ~Thrice(feed, id)

(* What a view read is a count the document has reached; it read nothing   *)
(* only because the upload is gone, and a deleted one never comes back.    *)
ViewInv ==
  \A v \in Views :
    /\ handler[v] \in {"counted", "fetched"} => handler[Target[v]] # "idle"
    /\ read[v] # {} => handler[v] = "fetched"
    /\ handler[v] = "fetched" /\ read[v] = {} => Target[v] \notin Stored
    /\ read[v] # {} /\ Target[v] \notin Stored => v \in feed_raced
    /\ Target[v] \in Stored => \A n \in read[v] : n =< documents[Target[v]]

DeleteInv ==
  \A d \in Deletes :
    handler[d] = "removing" => Target[d] \notin Stored /\ handler[Target[d]] # "idle"

FeedInv == Typed /\ UploadInv /\ ViewInv /\ DeleteInv /\ FeedSound

(* The parts of FeedSound, by name. *)
Complete ==
  \A id \in Public \cap Stored : handler[id] \notin {"inserted", "error"} => id \in Listed
Within ==
  \A k \in DOMAIN feed : feed[k].id \in Stored => feed[k].views =< documents[feed[k].id]

LEMMA SoundParts ==
  FeedSound => /\ InOrder(feed) /\ GhostExplained /\ Listed \subseteq Public
               /\ Complete /\ Within
BY DEF FeedSound, Sorted, InOrder, Complete, Within

LEMMA TwiceNamed ==
  feed \in Seq(Entry) /\ UploadInv /\ Listed \subseteq Public => TwiceExplained
<1> SUFFICES ASSUME feed \in Seq(Entry), UploadInv, NEW id \in Ids
             PROVE  \/ \A j, k \in Entries(id) : j = k
                    \/ /\ id \in feed_raced /\ handler[id] = "ok"
                       /\ \A i, j, k \in Entries(id) : i = j \/ j = k \/ i = k
  BY FeedAssumption DEF TwiceExplained
<1>1. DOMAIN feed = 1 .. Len(feed) /\ Len(feed) \in Nat
  BY LenProperties
<1>2. CASE Twice(feed, id)
  <2>1. id \in feed_raced /\ handler[id] = "ok" /\ ~Thrice(feed, id)
    BY <1>2 DEF UploadInv
  <2>2. ASSUME NEW i \in Entries(id), NEW j \in Entries(id), NEW k \in Entries(id),
               i # j, j # k, i # k
        PROVE  FALSE
    BY <1>1, <2>1, <2>2 DEF Entries, Thrice
  <2> QED
    BY <2>1, <2>2
<1>3. CASE ~Twice(feed, id)
  BY <1>1, <1>3 DEF Entries, Twice
<1> QED
  BY <1>2, <1>3

LEMMA SoundKept ==
  (InOrder(feed) /\ GhostExplained /\ Listed \subseteq Public /\ Complete /\ Within
     /\ feed \in Seq(Entry) /\ UploadInv)'
    => FeedSound'
<1>1. InOrder(feed) /\ GhostExplained /\ Listed \subseteq Public /\ Complete /\ Within
        /\ feed \in Seq(Entry) /\ UploadInv => FeedSound
  BY TwiceNamed DEF FeedSound, Sorted, InOrder, Complete, Within
<1> QED
  BY <1>1, PTL

LEMMA Requesters ==
  /\ \A id \in Ids : id \in FeedRequests /\ id \notin Views /\ id \notin Deletes
  /\ \A v \in Views : v \in FeedRequests /\ v \notin Ids /\ v \notin Deletes /\ Target[v] \in Ids
  /\ \A d \in Deletes : d \in FeedRequests /\ d \notin Ids /\ d \notin Views /\ Target[d] \in Ids
BY FeedAssumption DEF FeedRequests

LEMMA InitSound == FInit => FeedInv
<1> SUFFICES ASSUME FInit PROVE FeedInv
  OBVIOUS
<1>1. Stored = {} /\ feed \in Seq(Entry) /\ DOMAIN feed = {}
  BY EmptySeq DEF FInit, Stored
<1>2. /\ \A r \in FeedRequests : handler[r] = "idle"
      /\ DOMAIN read = Views /\ \A v \in Views : read[v] = {}
      /\ handler \in [FeedRequests -> FeedPlaces]
  BY DEF FInit, FeedPlaces
<1>3. Typed
  BY <1>1, <1>2 DEF Typed, FInit
<1>4. Listed = {} /\ \A id : ~Twice(feed, id) /\ ~Thrice(feed, id)
  BY <1>1 DEF Listed, Twice, Thrice
<1>5. UploadInv /\ ViewInv /\ DeleteInv
  BY <1>1, <1>2, <1>4, Requesters DEF UploadInv, ViewInv, DeleteInv
<1>6. FeedSound
  BY <1>1, <1>4, <1>5, TwiceNamed
     DEF FeedSound, Sorted, InOrder, GhostExplained, Complete, Within
<1> QED
  BY <1>3, <1>5, <1>6 DEF FeedInv

(* One request moves, the others stay. *)
LEMMA Moves ==
  ASSUME Typed, NEW r \in FeedRequests, NEW place \in FeedPlaces, Move(r, place)
  PROVE  /\ handler' \in [FeedRequests -> FeedPlaces] /\ handler'[r] = place
         /\ \A x \in FeedRequests : x # r => handler'[x] = handler[x]
BY DEF Typed, Move

LEMMA PastStays ==
  ASSUME Typed, NEW r \in FeedRequests, NEW place \in FeedPlaces, Move(r, place),
         handler[r] \notin {"ok", "error"}, feed_raced \subseteq feed_raced'
  PROVE  \A id : Past(id) => Past(id)'
<1> SUFFICES ASSUME NEW id, Past(id) PROVE Past(id)'
  OBVIOUS
<1>1. PICK x \in feed_raced : UploadOf(x) = id /\ handler[x] \in {"ok", "error"}
  BY DEF Past
<1>2. x \in FeedRequests /\ handler'[x] = handler[x]
  BY <1>1, Moves DEF Typed
<1> QED
  BY <1>1, <1>2 DEF Past, UploadOf

(* Only documents change, and no upload comes or goes: a view was counted, *)
(* or a request ended without an effect.                                   *)
LEMMA CountsGrow ==
  ASSUME FeedInv, feed' = feed, read' = read, feed_raced' = feed_raced, Stored' = Stored,
         \A i \in Stored : documents'[i] \in Nat /\ documents[i] =< documents'[i],
         NEW r \in FeedRequests, NEW place \in Over \cup {"counted"}, Move(r, place),
         handler[r] \in {"idle", "counted"},
         r \in Ids => handler[r] = "idle" /\ place = "error",
         r \in Views => /\ place = "counted" => Target[r] \in Stored
                        /\ handler[r] = "counted" => place # "missing",
         r \in Deletes => handler[r] = "idle"
  PROVE  FeedInv'
<1>1. /\ handler' \in [FeedRequests -> FeedPlaces] /\ handler'[r] = place
      /\ \A x \in FeedRequests : x # r => handler'[x] = handler[x]
  BY Moves DEF FeedInv, FeedPlaces
<1>2. \A id : Past(id) => Past(id)'
  <2>1. place \in FeedPlaces /\ handler[r] \notin {"ok", "error"}
    BY DEF FeedPlaces, Over
  <2> QED
    BY <2>1, PastStays DEF FeedInv
<1>3. /\ Listed' = Listed
      /\ \A id : (Twice(feed, id)' <=> Twice(feed, id)) /\ (Thrice(feed, id)' <=> Thrice(feed, id))
  BY DEF Listed, Twice, Thrice
<1>4. Typed'
  BY <1>1 DEF FeedInv, Typed
<1>5. \A id \in Ids : handler[id] # "idle" => handler'[id] # "idle"
  BY <1>1, Requesters
<1>6. UploadInv'
  <2> SUFFICES ASSUME NEW id \in Ids
               PROVE  /\ handler'[id] = "idle" => id \notin Stored /\ id \notin Listed
                      /\ handler'[id] = "inserted" =>
                           /\ id \in Listed \/ id \notin Stored => id \in feed_raced'
                           /\ id \notin Notes => id \in Stored
                      /\ Twice(feed, id) => id \in feed_raced' /\ handler'[id] = "ok"
                      /\ ~Thrice(feed, id)
    BY <1>3 DEF UploadInv
  <2> QED
    BY <1>1, <1>2, Requesters DEF FeedInv, UploadInv, Over
<1>7. ViewInv'
  <2> SUFFICES ASSUME NEW v \in Views
               PROVE  /\ handler'[v] \in {"counted", "fetched"} => handler'[Target[v]] # "idle"
                      /\ read[v] # {} => handler'[v] = "fetched"
                      /\ handler'[v] = "fetched" /\ read[v] = {} => Target[v] \notin Stored
                      /\ read[v] # {} /\ Target[v] \notin Stored => v \in feed_raced'
                      /\ Target[v] \in Stored =>
                           \A n \in read[v] : n =< documents'[Target[v]]
    BY DEF ViewInv
  <2>1. Target[v] \in Ids /\ v \in FeedRequests
    BY Requesters
  <2>2. CASE v = r
    BY <1>1, <1>5, <2>1, <2>2 DEF FeedInv, UploadInv, ViewInv, Over
  <2>3. CASE v # r
    <3>1. ASSUME NEW n \in read[v], Target[v] \in Stored
          PROVE  n =< documents'[Target[v]]
      <4>1. n \in Nat /\ documents[Target[v]] \in Nat /\ n =< documents[Target[v]]
        BY <3>1 DEF FeedInv, Typed, ViewInv
      <4> QED
        BY <3>1, <4>1
    <3> QED
      BY <1>1, <1>5, <2>1, <2>3, <3>1 DEF FeedInv, ViewInv
  <2> QED
    BY <2>2, <2>3
<1>8. DeleteInv'
  BY <1>1, <1>5, Requesters DEF FeedInv, DeleteInv, Over
<1>9. GhostExplained'
  <2> SUFFICES ASSUME NEW id \in Listed \ Stored
               PROVE  \/ \E d \in Deletes : Target[d] = id /\ handler'[d] = "removing"
                      \/ Past(id)'
    BY <1>3 DEF GhostExplained, Past
  <2>1. CASE \E d \in Deletes : Target[d] = id /\ handler[d] = "removing"
    BY <1>1, <2>1, Requesters
  <2>2. CASE Past(id)
    BY <1>2, <2>2
  <2> QED
    BY <2>1, <2>2 DEF FeedInv, FeedSound, GhostExplained, Past
<1>10. Complete'
  BY <1>1, <1>3, Requesters, SoundParts, FeedAssumption DEF FeedInv, UploadInv, Complete
<1>11. Within'
  <2> SUFFICES ASSUME NEW k \in DOMAIN feed, feed[k].id \in Stored
               PROVE  feed[k].views =< documents'[feed[k].id]
    BY DEF Within
  <2>1. feed[k].views \in Nat /\ documents[feed[k].id] \in Nat
    <3>1. feed[k] \in Entry
      BY ElementOfSeq, LenProperties DEF FeedInv, Typed
    <3> QED
      BY <3>1 DEF FeedInv, Typed, Entry
  <2>2. feed[k].views =< documents[feed[k].id]
    BY SoundParts DEF FeedInv, Within
  <2> QED
    BY <2>1, <2>2
<1>12. FeedSound'
  <2>1. InOrder(feed)' /\ Listed' \subseteq Public
    BY <1>3, SoundParts DEF FeedInv, InOrder
  <2> QED
    BY <1>4, <1>6, <1>9, <1>10, <1>11, <2>1, SoundKept DEF Typed
<1> QED
  BY <1>4, <1>6, <1>7, <1>8, <1>12 DEF FeedInv

(* An upload or a note is stored, and answered or not. *)
LEMMA Stores ==
  ASSUME FeedInv, NEW id \in Ids, handler[id] = "idle", documents' = With(id),
         NEW place \in {"inserted", "error"}, Move(id, place),
         feed' = feed, read' = read, feed_raced' = feed_raced
  PROVE  FeedInv'
<1>1. /\ handler' \in [FeedRequests -> FeedPlaces] /\ handler'[id] = place
      /\ \A x \in FeedRequests : x # id => handler'[x] = handler[x]
  BY Moves, Requesters DEF FeedInv, FeedPlaces, Over
<1>2. \A i : Past(i) => Past(i)'
  <2>1. place \in FeedPlaces /\ id \in FeedRequests
    BY Requesters DEF FeedPlaces, Over
  <2> QED
    BY <2>1, PastStays DEF FeedInv
<1>3. /\ Listed' = Listed
      /\ \A i : (Twice(feed, i)' <=> Twice(feed, i)) /\ (Thrice(feed, i)' <=> Thrice(feed, i))
  BY DEF Listed, Twice, Thrice
<1>4. id \notin Stored /\ id \notin Listed
  BY DEF FeedInv, UploadInv
<1>5. /\ Stored' = Stored \cup {id} /\ documents'[id] = 0
      /\ \A i \in Stored : documents'[i] = documents[i]
  BY <1>4 DEF With, Stored
<1>6. \A i \in Ids : handler[i] # "idle" => handler'[i] # "idle"
  BY <1>1, Requesters
<1>7. Typed'
  BY <1>1, <1>5 DEF FeedInv, Typed
<1>8. UploadInv'
  <2> SUFFICES ASSUME NEW i \in Ids
               PROVE  /\ handler'[i] = "idle" => i \notin Stored' /\ i \notin Listed
                      /\ handler'[i] = "inserted" =>
                           /\ i \in Listed \/ i \notin Stored' => i \in feed_raced'
                           /\ i \notin Notes => i \in Stored'
                      /\ Twice(feed, i) => i \in feed_raced' /\ handler'[i] = "ok"
                      /\ ~Thrice(feed, i)
    BY <1>3 DEF UploadInv
  <2> QED
    BY <1>1, <1>2, <1>4, <1>5, Requesters DEF FeedInv, UploadInv
<1>9. ViewInv'
  <2> SUFFICES ASSUME NEW v \in Views
               PROVE  /\ handler'[v] \in {"counted", "fetched"} => handler'[Target[v]] # "idle"
                      /\ read[v] # {} => handler'[v] = "fetched"
                      /\ handler'[v] = "fetched" /\ read[v] = {} => Target[v] \notin Stored'
                      /\ read[v] # {} /\ Target[v] \notin Stored' => v \in feed_raced'
                      /\ Target[v] \in Stored' =>
                           \A n \in read[v] : n =< documents'[Target[v]]
    BY DEF ViewInv
  <2>1. Target[v] \in Ids /\ handler'[v] = handler[v]
    BY <1>1, Requesters
  <2>2. Target[v] = id => handler[v] # "fetched" /\ read[v] = {}
    BY DEF FeedInv, ViewInv
  <2> QED
    BY <1>1, <1>5, <1>6, <2>1, <2>2 DEF FeedInv, ViewInv
<1>10. DeleteInv'
  BY <1>1, <1>5, <1>6, Requesters DEF FeedInv, DeleteInv
<1>11. GhostExplained'
  <2> SUFFICES ASSUME NEW i \in Listed \ Stored
               PROVE  \/ \E d \in Deletes : Target[d] = i /\ handler'[d] = "removing"
                      \/ Past(i)'
    BY <1>3, <1>5 DEF GhostExplained, Past
  <2>1. CASE \E d \in Deletes : Target[d] = i /\ handler[d] = "removing"
    BY <1>1, <2>1, Requesters
  <2>2. CASE Past(i)
    BY <1>2, <2>2
  <2> QED
    BY <2>1, <2>2 DEF FeedInv, FeedSound, GhostExplained, Past
<1>12. Complete'
  BY <1>1, <1>3, <1>5, Requesters, SoundParts, FeedAssumption DEF FeedInv, Complete
<1>13. Within'
  <2> SUFFICES ASSUME NEW k \in DOMAIN feed, feed[k].id \in Stored'
               PROVE  feed[k].views =< documents'[feed[k].id]
    BY DEF Within
  <2>1. feed[k].id \in Stored
    BY <1>4, <1>5 DEF Listed
  <2> QED
    BY <1>5, <2>1, SoundParts DEF FeedInv, Within
<1>14. FeedSound'
  <2>1. InOrder(feed)' /\ Listed' \subseteq Public
    BY <1>3, SoundParts DEF FeedInv, InOrder
  <2> QED
    BY <1>7, <1>8, <1>11, <1>12, <1>13, <2>1, SoundKept DEF Typed
<1> QED
  BY <1>7, <1>8, <1>9, <1>10, <1>14 DEF FeedInv

(* A document is deleted, and the deletion answered or not.  No upload but *)
(* a note is between its two steps, because the lock is taken.             *)
LEMMA Unstores ==
  ASSUME FeedInv, NEW d \in Deletes, handler[d] = "idle", ~Locked,
         documents' = Without(Target[d]),
         NEW place \in {"removing", "error"}, Move(d, place),
         place = "removing" => Target[d] \in Stored,
         feed' = feed, read' = read,
         feed_raced \cup Racing(Target[d]) \subseteq feed_raced',
         feed_raced' \subseteq FeedRequests,
         place = "error" => d \in feed_raced'
  PROVE  FeedInv'
<1>1. /\ handler' \in [FeedRequests -> FeedPlaces] /\ handler'[d] = place
      /\ \A x \in FeedRequests : x # d => handler'[x] = handler[x]
  BY Moves, Requesters DEF FeedInv, FeedPlaces, Over
<1>2. \A i : Past(i) => Past(i)'
  <2>1. place \in FeedPlaces /\ d \in FeedRequests
    BY Requesters DEF FeedPlaces, Over
  <2> QED
    BY <2>1, PastStays DEF FeedInv
<1>3. /\ Listed' = Listed
      /\ \A i : (Twice(feed, i)' <=> Twice(feed, i)) /\ (Thrice(feed, i)' <=> Thrice(feed, i))
  BY DEF Listed, Twice, Thrice
<1>4. \A i \in Ids \ Notes : handler[i] # "inserted"
  BY DEF Locked
<1>5. /\ Stored' = Stored \ {Target[d]}
      /\ \A i \in Stored' : documents'[i] = documents[i]
  BY DEF Without, Stored
<1>6. \A i \in Ids : handler'[i] = handler[i]
  BY <1>1, Requesters
<1>7. Typed'
  BY <1>1, <1>5 DEF FeedInv, Typed
<1>8. UploadInv'
  <2> SUFFICES ASSUME NEW i \in Ids
               PROVE  /\ handler[i] = "idle" => i \notin Stored' /\ i \notin Listed
                      /\ handler[i] = "inserted" =>
                           /\ i \in Listed \/ i \notin Stored' => i \in feed_raced'
                           /\ i \notin Notes => i \in Stored'
                      /\ Twice(feed, i) => i \in feed_raced' /\ handler[i] = "ok"
                      /\ ~Thrice(feed, i)
    BY <1>3, <1>6 DEF UploadInv
  <2>1. handler[i] = "inserted" /\ i = Target[d] => i \in feed_raced'
    BY DEF Racing
  <2>2. i \notin Stored' => i \notin Stored \/ i = Target[d]
    BY <1>5
  <2>3. i \in feed_raced => i \in feed_raced'
    OBVIOUS
  <2> QED
    BY <1>4, <1>5, <2>1, <2>2, <2>3 DEF FeedInv, UploadInv
<1>9. ViewInv'
  <2> SUFFICES ASSUME NEW v \in Views
               PROVE  /\ handler'[v] \in {"counted", "fetched"} => handler'[Target[v]] # "idle"
                      /\ read[v] # {} => handler'[v] = "fetched"
                      /\ handler'[v] = "fetched" /\ read[v] = {} => Target[v] \notin Stored'
                      /\ read[v] # {} /\ Target[v] \notin Stored' => v \in feed_raced'
                      /\ Target[v] \in Stored' =>
                           \A n \in read[v] : n =< documents'[Target[v]]
    BY DEF ViewInv
  <2>1. handler'[Target[v]] = handler[Target[v]] /\ handler'[v] = handler[v]
    BY <1>1, <1>6, Requesters
  <2>2. ASSUME read[v] # {}, Target[v] \notin Stored' PROVE v \in feed_raced'
    <3>1. CASE Target[v] \in Stored
      <4>1. Target[v] = Target[d] /\ handler[v] = "fetched"
        BY <1>5, <2>2, <3>1 DEF FeedInv, ViewInv
      <4> QED
        BY <2>2, <4>1 DEF Racing
    <3>2. CASE Target[v] \notin Stored
      BY <2>2, <3>2 DEF FeedInv, ViewInv
    <3> QED
      BY <3>1, <3>2
  <2> QED
    BY <1>5, <2>1, <2>2 DEF FeedInv, ViewInv
<1>10. DeleteInv'
  <2> SUFFICES ASSUME NEW e \in Deletes, handler'[e] = "removing"
               PROVE  Target[e] \notin Stored' /\ handler[Target[e]] # "idle"
    BY <1>6, Requesters DEF DeleteInv
  <2>1. CASE e = d
    BY <1>1, <1>5, <2>1, Requesters DEF FeedInv, UploadInv
  <2>2. CASE e # d
    BY <1>1, <1>5, <2>2, Requesters DEF FeedInv, DeleteInv
  <2> QED
    BY <2>1, <2>2
<1>11. GhostExplained'
  <2> SUFFICES ASSUME NEW i \in Listed \ Stored'
               PROVE  \/ \E e \in Deletes : Target[e] = i /\ handler'[e] = "removing"
                      \/ Past(i)'
    BY <1>3 DEF GhostExplained, Past
  <2>1. CASE i = Target[d]
    <3>1. place = "error" => Past(i)'
      BY <1>1, <2>1, Requesters DEF Past, UploadOf
    <3> QED
      BY <1>1, <2>1, <3>1
  <2>2. CASE i # Target[d] /\ \E e \in Deletes : Target[e] = i /\ handler[e] = "removing"
    BY <1>1, <2>2, Requesters
  <2>3. CASE Past(i)
    BY <1>2, <2>3
  <2> QED
    BY <1>5, <2>1, <2>2, <2>3 DEF FeedInv, FeedSound, GhostExplained, Past
<1>12. Complete'
  BY <1>3, <1>5, <1>6, SoundParts, FeedAssumption DEF FeedInv, Complete
<1>13. Within'
  BY <1>5, SoundParts DEF FeedInv, Within
<1>14. FeedSound'
  <2>1. InOrder(feed)' /\ Listed' \subseteq Public
    BY <1>3, SoundParts DEF FeedInv, InOrder
  <2> QED
    BY <1>7, <1>8, <1>11, <1>12, <1>13, <2>1, SoundKept DEF Typed
<1> QED
  BY <1>7, <1>8, <1>9, <1>10, <1>14 DEF FeedInv

-----------------------------------------------------------------------------
(* The steps.                                                              *)

LEMMA CountsKeepInv ==
  ASSUME FeedInv, NEW v \in Views,
         CountView(v) \/ CountViewFails(v) \/ FetchUploadFails(v)
  PROVE  FeedInv'
<1>1. v \in FeedRequests /\ v \notin Ids /\ v \notin Deletes /\ Target[v] \in Ids
  BY Requesters
<1>2. ASSUME Target[v] \in Stored, documents' = Incremented(Target[v])
      PROVE  /\ Stored' = Stored
             /\ \A i \in Stored : documents'[i] \in Nat /\ documents[i] =< documents'[i]
  <2>1. /\ Stored' = Stored
        /\ \A i \in Stored : documents'[i] = IF i = Target[v] THEN documents[i] + 1
                                             ELSE documents[i]
    BY <1>2 DEF Incremented, Stored
  <2>2. \A i \in Stored : documents[i] \in Nat
    BY DEF FeedInv, Typed
  <2> QED
    BY <2>1, <2>2
<1>3. ASSUME UNCHANGED documents
      PROVE  /\ Stored' = Stored
             /\ \A i \in Stored : documents'[i] \in Nat /\ documents[i] =< documents'[i]
  BY <1>3 DEF FeedInv, Typed, Stored
<1>4. PICK place \in {"counted", "missing", "error"} :
        /\ Move(v, place) /\ handler[v] \in {"idle", "counted"}
        /\ feed' = feed /\ read' = read /\ feed_raced' = feed_raced
        /\ place = "counted" => Target[v] \in Stored
        /\ handler[v] = "counted" => place # "missing"
        /\ UNCHANGED documents
             \/ (Target[v] \in Stored /\ documents' = Incremented(Target[v]))
  BY DEF CountView, CountViewFails, FetchUploadFails
<1>5. /\ Stored' = Stored
      /\ \A i \in Stored : documents'[i] \in Nat /\ documents[i] =< documents'[i]
  BY <1>2, <1>3, <1>4
<1>6. place \in Over \cup {"counted"}
  BY DEF Over
<1> QED
  BY <1>1, <1>4, <1>5, <1>6, CountsGrow

LEMMA FetchKeepsInv ==
  ASSUME FeedInv, NEW v \in Views, FetchUpload(v)
  PROVE  FeedInv'
<1>1. /\ handler[v] = "counted" /\ Move(v, "fetched")
      /\ documents' = documents /\ feed' = feed /\ feed_raced' = feed_raced
      /\ read' = [read EXCEPT ![v] = {documents[i] : i \in Stored \cap {Target[v]}}]
  BY DEF FetchUpload
<1>2. /\ handler' \in [FeedRequests -> FeedPlaces] /\ handler'[v] = "fetched"
      /\ \A x \in FeedRequests : x # v => handler'[x] = handler[x]
  BY <1>1, Moves, Requesters DEF FeedInv, FeedPlaces
<1>3. \A i : Past(i) => Past(i)'
  <2>1. "fetched" \in FeedPlaces /\ v \in FeedRequests
    BY Requesters DEF FeedPlaces
  <2> QED
    BY <1>1, <2>1, PastStays DEF FeedInv
<1>4. /\ Listed' = Listed /\ Stored' = Stored
      /\ \A i : (Twice(feed, i)' <=> Twice(feed, i)) /\ (Thrice(feed, i)' <=> Thrice(feed, i))
  BY <1>1 DEF Listed, Twice, Thrice, Stored
<1>5. /\ read'[v] = {documents[i] : i \in Stored \cap {Target[v]}}
      /\ DOMAIN read' = Views /\ \A w \in Views : w # v => read'[w] = read[w]
  BY <1>1 DEF FeedInv, Typed
<1>6. /\ Target[v] \in Stored => read'[v] = {documents[Target[v]]}
      /\ Target[v] \notin Stored => read'[v] = {}
  BY <1>5
<1>7. Typed'
  <2>1. \A w \in Views : read'[w] = {} \/ \E n \in Nat : read'[w] = {n}
    <3>1. Target[v] \in Stored => documents[Target[v]] \in Nat
      BY DEF FeedInv, Typed
    <3>2. read'[v] = {} \/ \E n \in Nat : read'[v] = {n}
      BY <1>6, <3>1
    <3>3. \A w \in Views : read[w] = {} \/ \E n \in Nat : read[w] = {n}
      BY DEF FeedInv, Typed
    <3> QED
      BY <1>5, <3>2, <3>3
  <2> QED
    BY <1>1, <1>2, <1>4, <1>5, <2>1 DEF FeedInv, Typed
<1>8. UploadInv'
  <2>1. \A i \in Ids : handler'[i] = handler[i]
    BY <1>2, Requesters
  <2> QED
    BY <1>1, <1>4, <2>1 DEF FeedInv, UploadInv
<1>9. ViewInv'
  <2> SUFFICES ASSUME NEW w \in Views
               PROVE  /\ handler'[w] \in {"counted", "fetched"} => handler'[Target[w]] # "idle"
                      /\ read'[w] # {} => handler'[w] = "fetched"
                      /\ handler'[w] = "fetched" /\ read'[w] = {} => Target[w] \notin Stored
                      /\ read'[w] # {} /\ Target[w] \notin Stored => w \in feed_raced'
                      /\ Target[w] \in Stored =>
                           \A n \in read'[w] : n =< documents[Target[w]]
    BY <1>1, <1>4 DEF ViewInv
  <2>1. handler'[Target[w]] = handler[Target[w]] /\ (w # v => handler'[w] = handler[w])
    BY <1>2, Requesters
  <2>2. CASE w = v
    <3>1. Target[v] \in Stored => documents[Target[v]] \in Nat
      BY DEF FeedInv, Typed
    <3> QED
      BY <1>1, <1>2, <1>6, <2>1, <2>2, <3>1 DEF FeedInv, ViewInv
  <2>3. CASE w # v
    BY <1>1, <1>5, <2>1, <2>3 DEF FeedInv, ViewInv
  <2> QED
    BY <2>2, <2>3
<1>10. DeleteInv'
  BY <1>2, <1>4, Requesters DEF FeedInv, DeleteInv
<1>11. GhostExplained'
  <2> SUFFICES ASSUME NEW i \in Listed \ Stored
               PROVE  \/ \E d \in Deletes : Target[d] = i /\ handler'[d] = "removing"
                      \/ Past(i)'
    BY <1>4 DEF GhostExplained, Past
  <2>1. CASE \E d \in Deletes : Target[d] = i /\ handler[d] = "removing"
    BY <1>2, <2>1, Requesters
  <2>2. CASE Past(i)
    BY <1>3, <2>2
  <2> QED
    BY <2>1, <2>2 DEF FeedInv, FeedSound, GhostExplained, Past
<1>12. Complete'
  BY <1>2, <1>4, Requesters, SoundParts, FeedAssumption DEF FeedInv, Complete
<1>13. Within'
  BY <1>1, <1>4, SoundParts DEF FeedInv, Within
<1>14. FeedSound'
  <2>1. InOrder(feed)' /\ Listed' \subseteq Public
    BY <1>1, <1>4, SoundParts DEF FeedInv, InOrder
  <2> QED
    BY <1>7, <1>8, <1>11, <1>12, <1>13, <2>1, SoundKept DEF Typed
<1> QED
  BY <1>7, <1>8, <1>9, <1>10, <1>14 DEF FeedInv

LEMMA AddKeepsInv ==
  ASSUME FeedInv, NEW id \in Ids, AddToFeed(id)
  PROVE  FeedInv'
<1>1. /\ handler[id] = "inserted" /\ Move(id, "ok")
      /\ documents' = documents /\ read' = read /\ feed_raced' = feed_raced
  BY DEF AddToFeed
<1>2. PICK e \in Entry : e = [id |-> id, views |-> 0] /\ e.id = id /\ e.views = 0
  <2>1. [id |-> id, views |-> 0] \in Entry
    BY DEF Entry
  <2> QED
    BY <2>1
<1>3. /\ feed' \in Seq(Entry) /\ InOrder(feed')
      /\ IdsOf(feed') = IdsOf(feed) \cup ({id} \cap Public)
      /\ \A k \in DOMAIN feed' : feed'[k] = e \/ \E j \in DOMAIN feed : feed'[k] = feed[j]
      /\ \A i : Twice(feed', i) => Twice(feed, i) \/ (i = id /\ i \in IdsOf(feed))
      /\ \A i : Thrice(feed', i) => Thrice(feed, i) \/ (i = id /\ Twice(feed, i))
  <2>1. feed \in Seq(Entry) /\ InOrder(feed)
    BY SoundParts DEF FeedInv, Typed
  <2>2. feed' = feed_upload_add(feed, e)
    BY <1>2 DEF AddToFeed
  <2> QED
    BY <1>2, <2>1, <2>2, Added
<1>4. Listed = IdsOf(feed) /\ Listed' = Listed \cup ({id} \cap Public) /\ Stored' = Stored
  BY <1>1, <1>3 DEF Listed, IdsOf, Stored
<1>5. /\ handler' \in [FeedRequests -> FeedPlaces] /\ handler'[id] = "ok"
      /\ \A x \in FeedRequests : x # id => handler'[x] = handler[x]
  BY <1>1, Moves, Requesters DEF FeedInv, FeedPlaces, Over
<1>6. \A i : Past(i) => Past(i)'
  <2>1. "ok" \in FeedPlaces /\ id \in FeedRequests
    BY Requesters DEF FeedPlaces, Over
  <2> QED
    BY <1>1, <2>1, PastStays DEF FeedInv
<1>7. Typed'
  BY <1>1, <1>3, <1>4, <1>5 DEF FeedInv, Typed
<1>8. UploadInv'
  <2> SUFFICES ASSUME NEW i \in Ids
               PROVE  /\ handler'[i] = "idle" => i \notin Stored /\ i \notin Listed'
                      /\ handler'[i] = "inserted" =>
                           /\ i \in Listed' \/ i \notin Stored => i \in feed_raced'
                           /\ i \notin Notes => i \in Stored
                      /\ Twice(feed', i) => i \in feed_raced' /\ handler'[i] = "ok"
                      /\ ~Thrice(feed', i)
    BY <1>4 DEF UploadInv, Twice, Thrice
  <2>1. CASE i = id
    BY <1>1, <1>3, <1>4, <1>5, <1>6, <2>1 DEF FeedInv, UploadInv
  <2>2. CASE i # id
    BY <1>1, <1>3, <1>4, <1>5, <2>2, Requesters DEF FeedInv, UploadInv
  <2> QED
    BY <2>1, <2>2
<1>9. ViewInv'
  <2>1. \A v \in Views : handler'[v] = handler[v] /\ (handler[Target[v]] # "idle" => handler'[Target[v]] # "idle")
    BY <1>5, Requesters
  <2> QED
    BY <1>1, <1>4, <2>1 DEF FeedInv, ViewInv
<1>10. DeleteInv'
  <2>1. \A d \in Deletes : handler'[d] = handler[d] /\ (handler[Target[d]] # "idle" => handler'[Target[d]] # "idle")
    BY <1>5, Requesters
  <2> QED
    BY <1>4, <2>1 DEF FeedInv, DeleteInv
<1>11. GhostExplained'
  <2> SUFFICES ASSUME NEW i \in Listed' \ Stored
               PROVE  \/ \E d \in Deletes : Target[d] = i /\ handler'[d] = "removing"
                      \/ Past(i)'
    BY <1>4 DEF GhostExplained, Past
  <2>1. CASE i \in Listed /\ \E d \in Deletes : Target[d] = i /\ handler[d] = "removing"
    BY <1>5, <2>1, Requesters
  <2>2. CASE Past(i)
    BY <1>6, <2>2
  <2>3. CASE i \notin Listed
    <3>1. i = id /\ id \in feed_raced'
      BY <1>1, <1>4, <2>3 DEF FeedInv, UploadInv
    <3> QED
      BY <1>5, <3>1 DEF Past, UploadOf
  <2> QED
    BY <2>1, <2>2, <2>3 DEF FeedInv, FeedSound, GhostExplained, Past
<1>12. Complete'
  <2> SUFFICES ASSUME NEW i \in Public \cap Stored, handler'[i] \notin {"inserted", "error"}
               PROVE  i \in Listed'
    BY <1>4 DEF Complete
  <2>1. CASE i = id
    BY <1>4, <2>1
  <2>2. CASE i # id
    BY <1>4, <1>5, <2>2, Requesters, SoundParts, FeedAssumption DEF FeedInv, Complete
  <2> QED
    BY <2>1, <2>2
<1>13. Within'
  <2> SUFFICES ASSUME NEW k \in DOMAIN feed', feed'[k].id \in Stored
               PROVE  feed'[k].views =< documents[feed'[k].id]
    BY <1>1, <1>4 DEF Within
  <2>1. CASE feed'[k] = e
    BY <1>2, <2>1 DEF FeedInv, Typed
  <2>2. CASE \E j \in DOMAIN feed : feed'[k] = feed[j]
    BY <2>2, SoundParts DEF FeedInv, Within
  <2> QED
    BY <1>3, <2>1, <2>2
<1>14. FeedSound'
  <2>1. InOrder(feed)' /\ Listed' \subseteq Public
    BY <1>3, <1>4, SoundParts DEF FeedInv, InOrder
  <2> QED
    BY <1>7, <1>8, <1>11, <1>12, <1>13, <2>1, SoundKept DEF Typed
<1> QED
  BY <1>7, <1>8, <1>9, <1>10, <1>14 DEF FeedInv

LEMMA RefreshKeepsInv ==
  ASSUME FeedInv, NEW v \in Views, RefreshFeed(v)
  PROVE  FeedInv'
<1>0. PICK t \in Ids : t = Target[v]
  BY Requesters
<1>1. PICK rest :
        /\ t = Target[v] /\ rest = feed_upload_remove(feed, t)
        /\ handler[v] = "fetched" /\ Move(v, "ok") /\ documents' = documents
        /\ read' = [read EXCEPT ![v] = {}]
        /\ feed' = IF read[v] = {} THEN rest
                   ELSE feed_upload_add(rest, [id |-> t, views |-> CHOOSE n \in read[v] : TRUE])
  BY <1>0 DEF RefreshFeed
<1>2. /\ rest \in Seq(Entry) /\ InOrder(rest)
      /\ IdsOf(rest) \subseteq Listed /\ Listed \subseteq IdsOf(rest) \cup {t}
      /\ \A k \in DOMAIN rest : \E j \in DOMAIN feed : rest[k] = feed[j]
      /\ \A i : (Twice(rest, i) => Twice(feed, i)) /\ (Thrice(rest, i) => Thrice(feed, i))
      /\ t \in IdsOf(rest) => Twice(feed, t)
      /\ Twice(rest, t) => Thrice(feed, t)
  <2>1. feed \in Seq(Entry) /\ InOrder(feed) /\ Listed = IdsOf(feed)
    BY SoundParts DEF FeedInv, Typed, Listed, IdsOf
  <2> QED
    BY <1>1, <2>1, Removed
<1>3. Stored' = Stored
  BY <1>1 DEF Stored
<1>4. /\ handler' \in [FeedRequests -> FeedPlaces] /\ handler'[v] = "ok"
      /\ \A x \in FeedRequests : x # v => handler'[x] = handler[x]
  BY <1>1, Moves, Requesters DEF FeedInv, FeedPlaces, Over
<1>5. \A i : Past(i) => Past(i)'
  <2>1. "ok" \in FeedPlaces /\ v \in FeedRequests /\ feed_raced \subseteq feed_raced'
    BY Requesters DEF FeedPlaces, Over, RefreshFeed, Overtaken
  <2> QED
    BY <1>1, <2>1, PastStays DEF FeedInv
<1>6. DOMAIN read' = Views /\ read'[v] = {} /\ \A w \in Views : w # v => read'[w] = read[w]
  BY <1>1 DEF FeedInv, Typed
(* An entry of the upload is put back exactly if the view read one. *)
<1>7. /\ feed' \in Seq(Entry) /\ InOrder(feed')
      /\ Listed' \subseteq Listed \cup ({t} \cap Public) /\ Listed \ {t} \subseteq Listed'
      /\ t \in Stored \cap Public => t \in Listed'
      /\ \A k \in DOMAIN feed' :
           \/ feed'[k].id = t /\ (t \in Stored => feed'[k].views =< documents[t])
           \/ \E j \in DOMAIN feed : feed'[k] = feed[j]
      /\ read[v] = {} /\ t \in Listed' => Twice(feed, t)
      /\ \A i : (Twice(feed', i) => Twice(feed, i)) /\ (Thrice(feed', i) => Thrice(feed, i))
  <2>1. Listed' = IdsOf(feed')
    BY DEF Listed, IdsOf
  <2>2. CASE read[v] = {}
    <3>1. feed' = rest /\ t \notin Stored
      BY <1>1, <2>2 DEF FeedInv, ViewInv
    <3> QED
      BY <1>2, <2>1, <3>1
  <2>3. CASE read[v] # {}
    <3>1. PICK n \in Nat : read[v] = {n}
      BY <2>3 DEF FeedInv, Typed
    <3>2. PICK e \in Entry : e = [id |-> t, views |-> n] /\ e.id = t /\ e.views = n
      <4>1. [id |-> t, views |-> n] \in Entry
        BY DEF Entry
      <4> QED
        BY <4>1
    <3>3. feed' = feed_upload_add(rest, e)
      BY <1>1, <3>1, <3>2
    <3>4. /\ feed' \in Seq(Entry) /\ InOrder(feed')
          /\ IdsOf(feed') = IdsOf(rest) \cup ({t} \cap Public)
          /\ \A k \in DOMAIN feed' : feed'[k] = e \/ \E j \in DOMAIN rest : feed'[k] = rest[j]
          /\ \A i : Twice(feed', i) => Twice(rest, i) \/ (i = t /\ i \in IdsOf(rest))
          /\ \A i : Thrice(feed', i) => Thrice(rest, i) \/ (i = t /\ Twice(rest, i))
      BY <1>2, <3>2, <3>3, Added
    <3>5. t \in Stored => n =< documents[t]
      BY <1>1, <3>1 DEF FeedInv, ViewInv
    <3>6. Listed \ {t} \subseteq Listed' /\ Listed' \subseteq Listed \cup ({t} \cap Public)
      BY <1>2, <2>1, <3>4
    <3>7. ASSUME NEW k \in DOMAIN feed'
          PROVE  \/ feed'[k].id = t /\ (t \in Stored => feed'[k].views =< documents[t])
                 \/ \E j \in DOMAIN feed : feed'[k] = feed[j]
      <4>1. CASE feed'[k] = e
        BY <3>2, <3>5, <4>1
      <4>2. CASE \E j \in DOMAIN rest : feed'[k] = rest[j]
        BY <1>2, <4>2
      <4> QED
        BY <3>4, <4>1, <4>2
    <3>8. \A i : (Twice(feed', i) => Twice(feed, i)) /\ (Thrice(feed', i) => Thrice(feed, i))
      BY <1>2, <3>4
    <3> QED
      BY <1>2, <2>1, <2>3, <3>4, <3>6, <3>7, <3>8
  <2> QED
    BY <2>2, <2>3
<1>8. /\ feed_raced \subseteq feed_raced' /\ feed_raced' \subseteq FeedRequests
      /\ read[v] # {} /\ handler[t] = "inserted" => t \in feed_raced'
  <2>1. feed_raced' = Overtaken(v) /\ feed_raced \subseteq FeedRequests
    BY DEF FeedInv, Typed, RefreshFeed
  <2> QED
    BY <1>0, <2>1, Requesters DEF Overtaken
<1>9. Typed'
  BY <1>1, <1>3, <1>4, <1>6, <1>7, <1>8 DEF FeedInv, Typed
<1>10. handler[t] # "idle"
  BY <1>1 DEF FeedInv, ViewInv
<1>11. UploadInv'
  <2> SUFFICES ASSUME NEW i \in Ids
               PROVE  /\ handler[i] = "idle" => i \notin Stored /\ i \notin Listed'
                      /\ handler[i] = "inserted" =>
                           /\ i \in Listed' \/ i \notin Stored => i \in feed_raced'
                           /\ i \notin Notes => i \in Stored
                      /\ Twice(feed', i) => i \in feed_raced' /\ handler[i] = "ok"
                      /\ ~Thrice(feed', i)
    BY <1>3, <1>4, Requesters DEF UploadInv, Twice, Thrice
  <2>1. CASE i = t
    <3>1. /\ handler[t] = "inserted" /\ t \in Listed' => t \in feed_raced'
      <4>1. CASE read[v] = {} /\ t \in Listed'
        BY <1>7, <1>8, <4>1 DEF FeedInv, UploadInv
      <4> QED
        BY <1>8, <4>1
    <3> QED
      BY <1>7, <1>8, <1>10, <2>1, <3>1 DEF FeedInv, UploadInv
  <2>2. CASE i # t
    BY <1>7, <1>8, <2>2 DEF FeedInv, UploadInv
  <2> QED
    BY <2>1, <2>2
<1>12. ViewInv'
  <2> SUFFICES ASSUME NEW w \in Views
               PROVE  /\ handler'[w] \in {"counted", "fetched"} => handler'[Target[w]] # "idle"
                      /\ read'[w] # {} => handler'[w] = "fetched"
                      /\ handler'[w] = "fetched" /\ read'[w] = {} => Target[w] \notin Stored
                      /\ read'[w] # {} /\ Target[w] \notin Stored => w \in feed_raced'
                      /\ Target[w] \in Stored =>
                           \A n \in read'[w] : n =< documents[Target[w]]
    BY <1>1, <1>3 DEF ViewInv
  <2>1. CASE w = v
    BY <1>4, <1>6, <2>1
  <2>2. CASE w # v
    BY <1>4, <1>6, <1>8, <2>2, Requesters DEF FeedInv, ViewInv
  <2> QED
    BY <2>1, <2>2
<1>13. DeleteInv'
  BY <1>3, <1>4, Requesters DEF FeedInv, DeleteInv
<1>14. GhostExplained'
  <2> SUFFICES ASSUME NEW i \in Listed' \ Stored
               PROVE  \/ \E d \in Deletes : Target[d] = i /\ handler'[d] = "removing"
                      \/ Past(i)'
    BY <1>3 DEF GhostExplained, Past
  <2>1. CASE i = t /\ read[v] = {}
    <3>1. Twice(feed, t)
      BY <1>7, <2>1
    <3>2. Past(t)
      BY <3>1 DEF FeedInv, UploadInv, Past, UploadOf
    <3> QED
      BY <1>5, <2>1, <3>2
  <2>2. CASE i = t /\ read[v] # {}
    <3>1. v \in feed_raced'
      BY <1>1, <2>2 DEF FeedInv, ViewInv, RefreshFeed, Overtaken
    <3> QED
      BY <1>1, <1>4, <2>2, <3>1, Requesters DEF Past, UploadOf
  <2>3. CASE i # t /\ \E d \in Deletes : Target[d] = i /\ handler[d] = "removing"
    BY <1>4, <2>3, Requesters
  <2>4. CASE Past(i)
    BY <1>5, <2>4
  <2>5. CASE i # t
    <3>1. i \in Listed
      BY <1>7, <2>5
    <3> QED
      BY <2>3, <2>4, <2>5, <3>1 DEF FeedInv, FeedSound, GhostExplained, Past
  <2> QED
    BY <2>1, <2>2, <2>5
<1>15. Complete'
  <2> SUFFICES ASSUME NEW i \in Public \cap Stored, handler[i] \notin {"inserted", "error"}
               PROVE  i \in Listed'
    BY <1>3, <1>4, Requesters, FeedAssumption DEF Complete
  <2> QED
    BY <1>7, SoundParts DEF FeedInv, Complete
<1>16. Within'
  <2> SUFFICES ASSUME NEW k \in DOMAIN feed', feed'[k].id \in Stored
               PROVE  feed'[k].views =< documents[feed'[k].id]
    BY <1>1, <1>3 DEF Within
  <2> QED
    BY <1>7, SoundParts DEF FeedInv, Within
<1>17. FeedSound'
  <2>1. InOrder(feed)' /\ Listed' \subseteq Public
    BY <1>7, SoundParts DEF FeedInv, InOrder
  <2> QED
    BY <1>9, <1>11, <1>14, <1>15, <1>16, <2>1, SoundKept DEF Typed
<1> QED
  BY <1>9, <1>11, <1>12, <1>13, <1>17 DEF FeedInv

LEMMA RemoveKeepsInv ==
  ASSUME FeedInv, NEW d \in Deletes, RemoveFromFeed(d)
  PROVE  FeedInv'
<1>1. PICK t \in Ids :
        /\ t = Target[d] /\ feed' = feed_upload_remove(feed, t)
        /\ handler[d] = "removing" /\ Move(d, "ok")
        /\ documents' = documents /\ read' = read /\ feed_raced' = feed_raced
  BY Requesters DEF RemoveFromFeed
<1>2. /\ feed' \in Seq(Entry) /\ InOrder(feed')
      /\ Listed' \subseteq Listed /\ Listed \subseteq Listed' \cup {t}
      /\ \A k \in DOMAIN feed' : \E j \in DOMAIN feed : feed'[k] = feed[j]
      /\ \A i : (Twice(feed', i) => Twice(feed, i)) /\ (Thrice(feed', i) => Thrice(feed, i))
      /\ t \in Listed' => Twice(feed, t)
  <2>1. feed \in Seq(Entry) /\ InOrder(feed)
    BY SoundParts DEF FeedInv, Typed
  <2>2. Listed = IdsOf(feed) /\ Listed' = IdsOf(feed')
    BY DEF Listed, IdsOf
  <2> QED
    BY <1>1, <2>1, <2>2, Removed
<1>3. Stored' = Stored /\ t \notin Stored
  BY <1>1 DEF FeedInv, DeleteInv, Stored
<1>4. /\ handler' \in [FeedRequests -> FeedPlaces] /\ handler'[d] = "ok"
      /\ \A x \in FeedRequests : x # d => handler'[x] = handler[x]
  BY <1>1, Moves, Requesters DEF FeedInv, FeedPlaces, Over
<1>5. \A i : Past(i) => Past(i)'
  <2>1. "ok" \in FeedPlaces /\ d \in FeedRequests
    BY Requesters DEF FeedPlaces, Over
  <2> QED
    BY <1>1, <2>1, PastStays DEF FeedInv
<1>6. \A i \in Ids : handler'[i] = handler[i]
  BY <1>4, Requesters
<1>7. Typed'
  BY <1>1, <1>2, <1>3, <1>4 DEF FeedInv, Typed
<1>8. UploadInv'
  <2> SUFFICES ASSUME NEW i \in Ids
               PROVE  /\ handler[i] = "idle" => i \notin Stored /\ i \notin Listed'
                      /\ handler[i] = "inserted" =>
                           /\ i \in Listed' \/ i \notin Stored => i \in feed_raced'
                           /\ i \notin Notes => i \in Stored
                      /\ Twice(feed', i) => i \in feed_raced' /\ handler[i] = "ok"
                      /\ ~Thrice(feed', i)
    BY <1>3, <1>6 DEF UploadInv, Twice, Thrice
  <2> QED
    BY <1>1, <1>2 DEF FeedInv, UploadInv
<1>9. ViewInv'
  <2>1. \A v \in Views : handler'[v] = handler[v] /\ handler'[Target[v]] = handler[Target[v]]
    BY <1>4, Requesters
  <2> QED
    BY <1>1, <1>3, <2>1 DEF FeedInv, ViewInv
<1>10. DeleteInv'
  <2>1. \A e \in Deletes : (handler'[e] = "removing" => handler[e] = "removing")
                           /\ handler'[Target[e]] = handler[Target[e]]
    BY <1>4, Requesters
  <2> QED
    BY <1>3, <2>1 DEF FeedInv, DeleteInv
<1>11. GhostExplained'
  <2> SUFFICES ASSUME NEW i \in Listed' \ Stored
               PROVE  \/ \E e \in Deletes : Target[e] = i /\ handler'[e] = "removing"
                      \/ Past(i)'
    BY <1>3 DEF GhostExplained, Past
  <2>1. CASE i = t
    <3>1. Past(t)
      BY <1>2, <2>1 DEF FeedInv, UploadInv, Past, UploadOf
    <3> QED
      BY <1>5, <2>1, <3>1
  <2>2. CASE i # t /\ \E e \in Deletes : Target[e] = i /\ handler[e] = "removing"
    BY <1>1, <1>4, <2>2, Requesters
  <2>3. CASE Past(i)
    BY <1>5, <2>3
  <2> QED
    BY <1>2, <2>1, <2>2, <2>3 DEF FeedInv, FeedSound, GhostExplained, Past
<1>12. Complete'
  <2> SUFFICES ASSUME NEW i \in Public \cap Stored, handler[i] \notin {"inserted", "error"}
               PROVE  i \in Listed'
    BY <1>3, <1>6, FeedAssumption DEF Complete
  <2> QED
    BY <1>2, <1>3, SoundParts DEF FeedInv, Complete
<1>13. Within'
  <2> SUFFICES ASSUME NEW k \in DOMAIN feed', feed'[k].id \in Stored
               PROVE  feed'[k].views =< documents[feed'[k].id]
    BY <1>1, <1>3 DEF Within
  <2> QED
    BY <1>2, SoundParts DEF FeedInv, Within
<1>14. FeedSound'
  <2>1. InOrder(feed)' /\ Listed' \subseteq Public
    BY <1>2, SoundParts DEF FeedInv, InOrder
  <2> QED
    BY <1>7, <1>8, <1>11, <1>12, <1>13, <2>1, SoundKept DEF Typed
<1> QED
  BY <1>7, <1>8, <1>9, <1>10, <1>14 DEF FeedInv

(* A boot lists the stored public uploads, each once and with its views.   *)
LEMMA BootKeepsInv ==
  ASSUME FeedInv, feed_init
  PROVE  FeedInv'
<1>1. /\ feed' = SortedPublic /\ documents' = documents
      /\ handler' = [r \in FeedRequests |-> IF handler[r] \in Over \cup {"idle"} THEN handler[r] ELSE "lost"]
      /\ read' = [v \in Views |-> {}] /\ feed_raced' = {}
  BY DEF feed_init
<1>2. /\ feed' \in Seq(Entry) /\ InOrder(feed') /\ Listed' = Public \cap Stored
      /\ \A i : ~Twice(feed', i)
      /\ \A k \in DOMAIN feed' : feed'[k].views = documents[feed'[k].id]
                                 /\ feed'[k].id \in Stored
  <2>1. Stored \subseteq Ids /\ \A i \in Stored : documents[i] \in Nat
    BY DEF FeedInv, Typed
  <2>2. Listed' = IdsOf(feed')
    BY DEF Listed, IdsOf
  <2>3. IdsOf(feed') = Public \cap Stored
    BY <1>1, <2>1, SortedPublicLists
  <2>4. \A k \in DOMAIN feed' : feed'[k].id \in IdsOf(feed')
    BY DEF IdsOf
  <2> QED
    BY <1>1, <2>1, <2>2, <2>3, <2>4, SortedPublicLists
<1>3. Stored' = Stored
  BY <1>1 DEF Stored
<1>4. /\ handler' \in [FeedRequests -> FeedPlaces]
      /\ \A r \in FeedRequests : handler'[r] = handler[r] \/ (handler[r] # "idle" /\ handler'[r] = "lost")
      /\ \A r \in FeedRequests : handler'[r] \in Over \cup {"idle"}
  BY <1>1 DEF FeedInv, Typed, FeedPlaces, Over
<1>5. Typed'
  BY <1>1, <1>2, <1>3, <1>4 DEF FeedInv, Typed
<1>6. UploadInv'
  <2> SUFFICES ASSUME NEW i \in Ids
               PROVE  /\ handler'[i] = "idle" => i \notin Stored /\ i \notin Listed'
                      /\ handler'[i] # "inserted" /\ ~Twice(feed', i)
    BY <1>3 DEF UploadInv, Twice, Thrice
  <2>1. i \in FeedRequests
    BY Requesters
  <2> QED
    BY <1>2, <1>4, <2>1 DEF FeedInv, UploadInv, Over
<1>7. ViewInv'
  BY <1>1, <1>4, Requesters DEF ViewInv, Over
<1>8. DeleteInv'
  BY <1>4, Requesters DEF DeleteInv, Over
<1>9. FeedSound'
  <2>1. InOrder(feed)' /\ Listed' \subseteq Public
    BY <1>2 DEF InOrder
  <2>2. GhostExplained' /\ Complete'
    BY <1>2, <1>3 DEF GhostExplained, Complete
  <2>3. \A i \in Stored : documents[i] \in Nat
    BY DEF FeedInv, Typed
  <2>4. Within'
    BY <1>1, <1>2, <1>3, <2>3 DEF Within
  <2> QED
    BY <1>5, <1>6, <2>1, <2>2, <2>4, SoundKept DEF Typed
<1> QED
  BY <1>5, <1>6, <1>7, <1>8, <1>9 DEF FeedInv

LEMMA StepKeepsInv == FeedInv /\ [FNext]_feed_vars => FeedInv'
<1> SUFFICES ASSUME FeedInv, [FNext]_feed_vars PROVE FeedInv'
  OBVIOUS
<1>1. ASSUME NEW id \in Ids, Insert(id) PROVE FeedInv'
  <2>1. handler[id] = "idle" /\ documents' = With(id) /\ Move(id, "inserted")
        /\ feed' = feed /\ read' = read /\ feed_raced' = feed_raced
    BY <1>1 DEF Insert
  <2> QED
    BY <2>1, Stores
<1>2. ASSUME NEW id \in Ids, InsertFails(id) PROVE FeedInv'
  <2>1. /\ handler[id] = "idle" /\ Move(id, "error") /\ feed' = feed /\ read' = read
        /\ feed_raced' = feed_raced
        /\ documents' = documents \/ documents' = With(id)
    BY <1>2 DEF InsertFails
  <2>2. CASE documents' = With(id)
    BY <2>1, <2>2, Stores
  <2>3. CASE documents' = documents
    <3>1. /\ Stored' = Stored
          /\ \A i \in Stored : documents'[i] \in Nat /\ documents[i] =< documents'[i]
      BY <2>3 DEF FeedInv, Typed, Stored
    <3>2. id \in FeedRequests /\ id \notin Views /\ id \notin Deletes
          /\ "error" \in Over \cup {"counted"}
      BY Requesters DEF Over
    <3> QED
      BY <2>1, <3>1, <3>2, CountsGrow
  <2> QED
    BY <2>1, <2>2, <2>3
<1>3. ASSUME NEW id \in Ids, AddToFeed(id) PROVE FeedInv'
  BY <1>3, AddKeepsInv
<1>4. ASSUME NEW v \in Views, CountView(v) \/ CountViewFails(v) \/ FetchUploadFails(v)
      PROVE  FeedInv'
  BY <1>4, CountsKeepInv
<1>5. ASSUME NEW v \in Views, FetchUpload(v) PROVE FeedInv'
  BY <1>5, FetchKeepsInv
<1>6. ASSUME NEW v \in Views, RefreshFeed(v) PROVE FeedInv'
  BY <1>6, RefreshKeepsInv
<1>7. ASSUME NEW d \in Deletes, FindAndDelete(d) \/ FindAndDeleteFails(d) PROVE FeedInv'
  <2>1. PICK place \in {"removing", "missing", "error"} :
          /\ handler[d] = "idle" /\ ~Locked /\ Move(d, place) /\ feed' = feed /\ read' = read
          /\ \/ place # "removing" /\ documents' = documents /\ feed_raced' = feed_raced
             \/ /\ place # "missing" /\ documents' = Without(Target[d])
                /\ feed_raced \cup Racing(Target[d]) \subseteq feed_raced'
                /\ feed_raced' \subseteq feed_raced \cup Racing(Target[d]) \cup {d}
                /\ place = "error" => d \in feed_raced'
          /\ place = "removing" => Target[d] \in Stored
    BY <1>7 DEF FindAndDelete, FindAndDeleteFails
  <2>2. CASE /\ place # "missing" /\ documents' = Without(Target[d])
             /\ feed_raced \cup Racing(Target[d]) \subseteq feed_raced'
             /\ feed_raced' \subseteq feed_raced \cup Racing(Target[d]) \cup {d}
             /\ place = "error" => d \in feed_raced'
    <3>1. feed_raced' \subseteq FeedRequests
      BY <2>2, Requesters DEF FeedInv, Typed, Racing
    <3> QED
      BY <2>1, <2>2, <3>1, Unstores
  <2>3. CASE place # "removing" /\ documents' = documents /\ feed_raced' = feed_raced
    <3>1. /\ Stored' = Stored
          /\ \A i \in Stored : documents'[i] \in Nat /\ documents[i] =< documents'[i]
      BY <2>3 DEF FeedInv, Typed, Stored
    <3>2. d \in FeedRequests /\ d \notin Views /\ d \notin Ids /\ place \in Over \cup {"counted"}
      BY <2>1, <2>3, Requesters DEF Over
    <3> QED
      BY <2>1, <2>3, <3>1, <3>2, CountsGrow
  <2> QED
    BY <2>1, <2>2, <2>3
<1>8. ASSUME NEW d \in Deletes, RemoveFromFeed(d) PROVE FeedInv'
  BY <1>8, RemoveKeepsInv
<1>9. ASSUME feed_init PROVE FeedInv'
  BY <1>9, BootKeepsInv
<1>10. ASSUME UNCHANGED feed_vars PROVE FeedInv'
  BY <1>10 DEF feed_vars, FeedInv, Typed, UploadInv, ViewInv, DeleteInv, FeedSound, Sorted,
       TwiceExplained, Entries, GhostExplained, UploadOf, Listed, Stored, Twice, Thrice
<1> QED
  BY <1>1, <1>2, <1>3, <1>4, <1>5, <1>6, <1>7, <1>8, <1>9, <1>10 DEF FNext

(* The feed is sorted, lists every public upload that was answered as      *)
(* stored, no private one, none with more views than were counted, none    *)
(* that is gone and none twice but for the races GhostExplained and        *)
(* TwiceExplained name: however the two steps of receptions, views and     *)
(* deletions interleave, whatever fails and however often the process      *)
(* restarts.                                                               *)
THEOREM FeedSoundHolds == FSpec => []FeedSound
<1>1. FeedInv => FeedSound
  BY DEF FeedInv
<1> QED
  BY InitSound, StepKeepsInv, <1>1, PTL DEF FSpec

-----------------------------------------------------------------------------
(* Access requests. *)

(* Where a post, and a decision, can be. *)
Suspended == {"counting", "inserting", "inviting", "linking"}
AtPlaces == Suspended \cup {"idle", "done", "full", "refused", "error"}

RequestType ==
  [status : {"pending", "rejected", "approved"}, invite : Approvals \cup {NoInvite}]

RequestsTyped ==
  /\ DOMAIN account_requests \subseteq Posts
  /\ account_requests \in [DOMAIN account_requests -> RequestType]
  /\ invites \subseteq Approvals
  /\ at \in [Actors -> AtPlaces]

(* A post inserts once, and last. *)
Unposted ==
  \A p \in Posts : at[p] \in {"idle", "counting", "inserting"}
                     => p \notin DOMAIN account_requests

(* An approval that won the request has it for good, and has it alone.     *)
Claimed(d) == d \in invites \/ at[d] \in {"inviting", "linking"}
ClaimInv ==
  /\ \A d \in Approvals : Claimed(d) =>
       /\ About[d] \in DOMAIN account_requests
       /\ account_requests[About[d]].status = "approved"
  /\ \A d, e \in Approvals : Claimed(d) /\ Claimed(e) /\ About[d] = About[e] => d = e
  /\ \A d \in Approvals : at[d] = "linking" => d \in invites
  /\ \A p \in DOMAIN account_requests :
       account_requests[p].invite \in invites \cup {NoInvite}

(* What a post has counted still holds unless another was inserted since:  *)
(* decisions only make fewer requests pending.                             *)
CountInv ==
  /\ \A p \in Posts \ stale :
       /\ at[p] \in {"counting", "inserting"} => SameKey(p) = {}
       /\ at[p] = "inserting" => Cardinality(Pending) < MaxPending
  /\ Cardinality(Pending \ stale) =< MaxPending
  /\ \A p, q \in Pending \ stale : AddressKey[p] = AddressKey[q] => p = q

AccessInv == RequestsTyped /\ Unposted /\ ClaimInv /\ CountInv

-----------------------------------------------------------------------------
LEMMA AccessActors ==
  /\ \A p \in Posts : p \in Actors /\ p \notin Approvals /\ p \notin Rejections
  /\ \A d \in Approvals \cup Rejections : d \in Actors /\ d \notin Posts /\ About[d] \in Posts
  /\ \A d \in Approvals : d \notin Rejections
BY AccessAssumption DEF Actors

LEMMA StepMoves ==
  ASSUME at \in [Actors -> AtPlaces], NEW a \in Actors, NEW place \in AtPlaces, Step(a, place)
  PROVE  /\ at' \in [Actors -> AtPlaces] /\ at'[a] = place
         /\ \A x \in Actors : x # a => at'[x] = at[x]
BY DEF Step

LEMMA PendingFinite == RequestsTyped => IsFiniteSet(Pending) /\ Cardinality(Pending) \in Nat
BY AccessAssumption, FS_Subset, FS_CardinalityType DEF RequestsTyped, Pending

(* A step that inserts nothing, and lets no post go on counting but one    *)
(* that has just counted, keeps what was counted.                          *)
LEMMA CountKept ==
  ASSUME AccessInv, Pending' \subseteq Pending, stale' = stale,
         \A p \in Posts : \/ at'[p] = at[p]
                          \/ at'[p] \notin {"counting", "inserting"}
                          \/ /\ at'[p] = "counting" /\ SameKey(p) = {}
                          \/ /\ at'[p] = "inserting" /\ at[p] = "counting"
                             /\ Cardinality(Pending) < MaxPending
  PROVE  CountInv'
<1>1. /\ IsFiniteSet(Pending) /\ Cardinality(Pending) \in Nat
      /\ IsFiniteSet(Pending') /\ Cardinality(Pending') \in Nat
      /\ Cardinality(Pending') =< Cardinality(Pending)
  BY PendingFinite, FS_Subset, FS_CardinalityType DEF AccessInv
<1>2. /\ IsFiniteSet(Pending \ stale) /\ Cardinality(Pending \ stale) \in Nat
      /\ Cardinality(Pending' \ stale') \in Nat
      /\ Cardinality(Pending' \ stale') =< Cardinality(Pending \ stale)
  <2>1. IsFiniteSet(Pending \ stale) /\ Pending' \ stale' \subseteq Pending \ stale
    BY <1>1, FS_Subset
  <2> QED
    BY <2>1, FS_Subset, FS_CardinalityType
<1>3. \A p : SameKey(p)' \subseteq SameKey(p)
  BY DEF SameKey
<1>4. ASSUME NEW p \in Posts \ stale'
      PROVE  /\ at'[p] \in {"counting", "inserting"} => SameKey(p)' = {}
             /\ at'[p] = "inserting" => Cardinality(Pending') < MaxPending
  <2>1. at'[p] \in {"counting", "inserting"} => SameKey(p) = {}
    BY <1>4 DEF AccessInv, CountInv
  <2>2. at'[p] = "inserting" => Cardinality(Pending) < MaxPending
    BY <1>4 DEF AccessInv, CountInv
  <2> QED
    BY <1>1, <1>3, <2>1, <2>2, AccessAssumption
<1>5. Cardinality(Pending' \ stale') =< MaxPending
  BY <1>2, AccessAssumption DEF AccessInv, CountInv
<1> QED
  BY <1>4, <1>5 DEF AccessInv, CountInv

(* A step of a post, or a crash, which changes no request. *)
LEMMA ClaimKept ==
  ASSUME AccessInv, UNCHANGED <<account_requests, invites>>,
         at' \in [Actors -> AtPlaces],
         \A d \in Approvals : at'[d] = at[d] \/ at'[d] \in {"refused", "error"}
  PROVE  ClaimInv'
<1>1. \A d \in Approvals : Claimed(d)' => Claimed(d)
  BY DEF Claimed
<1> QED
  BY <1>1 DEF AccessInv, ClaimInv

-----------------------------------------------------------------------------
LEMMA AccessInit == RInit => AccessInv
<1> SUFFICES ASSUME RInit PROVE AccessInv
  OBVIOUS
<1>1. DOMAIN account_requests = {} /\ Pending = {} /\ invites = {}
  BY DEF RInit, Pending
<1>2. at \in [Actors -> AtPlaces] /\ \A a \in Actors : at[a] = "idle"
  BY DEF RInit, AtPlaces
<1>3. RequestsTyped
  BY <1>1, <1>2 DEF RInit, RequestsTyped
<1>4. Unposted
  BY <1>1 DEF Unposted
<1>5. \A d \in Approvals : ~Claimed(d) /\ at[d] # "linking"
  BY <1>1, <1>2, AccessActors DEF Claimed
<1>6. ClaimInv
  BY <1>1, <1>5 DEF ClaimInv
<1>7. Cardinality(Pending \ stale) = 0 /\ 0 =< MaxPending
  BY <1>1, FS_EmptySet, AccessAssumption
<1>8. \A p \in Posts : at[p] \notin {"counting", "inserting"}
  BY <1>2, AccessActors
<1>9. CountInv
  BY <1>1, <1>7, <1>8 DEF CountInv
<1> QED
  BY <1>3, <1>4, <1>6, <1>9 DEF AccessInv

LEMMA CountingKeeps ==
  ASSUME AccessInv, NEW p \in Posts, CountSame(p) \/ CountPending(p)
  PROVE  AccessInv'
<1>1. PICK place \in {"done", "counting", "full", "inserting"} :
        /\ Step(p, place) /\ UNCHANGED <<account_requests, invites, stale>>
        /\ at[p] \in {"idle", "counting"}
        /\ place = "counting" => SameKey(p) = {}
        /\ place = "inserting" => at[p] = "counting" /\ ~(Cardinality(Pending) >= MaxPending)
  BY DEF CountSame, CountPending, Full
<1>2. /\ at' \in [Actors -> AtPlaces] /\ at'[p] = place
      /\ \A x \in Actors : x # p => at'[x] = at[x]
  <2>1. place \in AtPlaces /\ p \in Actors
    BY AccessActors DEF AtPlaces, Suspended
  <2> QED
    BY <1>1, <2>1, StepMoves DEF AccessInv, RequestsTyped
<1>3. RequestsTyped'
  BY <1>1, <1>2 DEF AccessInv, RequestsTyped
<1>4. Unposted'
  BY <1>1, <1>2, AccessActors DEF AccessInv, Unposted
<1>5. ClaimInv'
  BY <1>1, <1>2, ClaimKept, AccessActors
<1>6. Pending' = Pending /\ stale' = stale
  BY <1>1 DEF Pending
<1>7. place = "inserting" => Cardinality(Pending) < MaxPending
  BY <1>1, PendingFinite, AccessAssumption DEF AccessInv
<1>8. CountInv'
  BY <1>1, <1>2, <1>6, <1>7, CountKept, AccessActors
<1> QED
  BY <1>3, <1>4, <1>5, <1>8 DEF AccessInv

LEMMA InsertKeeps ==
  ASSUME AccessInv, NEW p \in Posts, InsertRequest(p)
  PROVE  AccessInv'
<1> DEFINE new == [status |-> "pending", invite |-> NoInvite]
           overtaken == {q \in Posts \ {p} : at[q] \in {"counting", "inserting"}}
<1>1. /\ at[p] = "inserting" /\ invites' = invites
      /\ Step(p, "done") \/ Step(p, "error")
      /\ \/ UNCHANGED account_requests
         \/ account_requests' = [q \in DOMAIN account_requests \cup {p} |->
                                   IF q = p THEN new ELSE account_requests[q]]
      /\ stale' = IF p \in DOMAIN account_requests' THEN stale \cup overtaken ELSE stale
  BY DEF InsertRequest, RCall
<1>2. PICK place \in {"done", "error"} :
        /\ at' \in [Actors -> AtPlaces] /\ at'[p] = place
        /\ \A x \in Actors : x # p => at'[x] = at[x]
  <2>1. {"done", "error"} \subseteq AtPlaces /\ p \in Actors
    BY AccessActors DEF AtPlaces
  <2> QED
    BY <1>1, <2>1, StepMoves DEF AccessInv, RequestsTyped
<1>3. p \notin DOMAIN account_requests
  BY <1>1 DEF AccessInv, Unposted
<1>4. CASE UNCHANGED account_requests
  <2>1. RequestsTyped'
    BY <1>1, <1>2, <1>4 DEF AccessInv, RequestsTyped
  <2>2. Unposted'
    BY <1>2, <1>4, AccessActors DEF AccessInv, Unposted
  <2>3. ClaimInv'
    BY <1>1, <1>2, <1>4, ClaimKept, AccessActors
  <2>4. Pending' = Pending /\ stale' = stale
    BY <1>1, <1>3, <1>4 DEF Pending
  <2>5. CountInv'
    BY <1>2, <2>4, CountKept, AccessActors
  <2> QED
    BY <2>1, <2>2, <2>3, <2>5 DEF AccessInv
<1>5. CASE account_requests' = [q \in DOMAIN account_requests \cup {p} |->
                                  IF q = p THEN new ELSE account_requests[q]]
  <2>1. /\ DOMAIN account_requests' = DOMAIN account_requests \cup {p}
        /\ account_requests'[p] = new /\ new.status = "pending" /\ new.invite = NoInvite
        /\ \A q \in DOMAIN account_requests : account_requests'[q] = account_requests[q]
    BY <1>3, <1>5
  <2>2. new \in RequestType
    BY DEF RequestType
  <2>3. RequestsTyped'
    <3>1. \A q \in DOMAIN account_requests' : account_requests'[q] \in RequestType
      BY <2>1, <2>2 DEF AccessInv, RequestsTyped
    <3>2. account_requests' \in [DOMAIN account_requests' -> RequestType]
      BY <1>5, <3>1
    <3> QED
      BY <1>1, <1>2, <2>1, <3>2 DEF AccessInv, RequestsTyped
  <2>4. Unposted'
    BY <1>2, <2>1, AccessActors DEF AccessInv, Unposted
  <2>5. \A d \in Approvals : (Claimed(d)' <=> Claimed(d)) /\ at'[d] = at[d]
    BY <1>1, <1>2, AccessActors DEF Claimed
  <2>6. ClaimInv'
    BY <1>1, <2>1, <2>5 DEF AccessInv, ClaimInv
  <2>7. Pending' = Pending \cup {p} /\ p \notin Pending /\ stale' = stale \cup overtaken
    BY <1>1, <1>3, <2>1 DEF Pending
  <2>8. \A q \in Posts \ stale' : at'[q] \notin {"counting", "inserting"}
    BY <1>2, <2>7, AccessActors
  <2>9. IsFiniteSet(Pending) /\ Cardinality(Pending) \in Nat
    BY PendingFinite DEF AccessInv
  <2>10. CASE p \in stale
    <3>1. Pending' \ stale' \subseteq Pending \ stale
      BY <2>7, <2>10
    <3>2. IsFiniteSet(Pending \ stale)
      BY <2>9, FS_Subset
    <3>3. /\ Cardinality(Pending' \ stale') =< Cardinality(Pending \ stale)
          /\ Cardinality(Pending' \ stale') \in Nat /\ Cardinality(Pending \ stale) \in Nat
      BY <3>1, <3>2, FS_Subset, FS_CardinalityType
    <3>4. Cardinality(Pending' \ stale') =< MaxPending
      BY <3>3, AccessAssumption DEF AccessInv, CountInv
    <3>5. CountInv'
      BY <2>8, <3>1, <3>4 DEF AccessInv, CountInv
    <3> QED
      BY <2>3, <2>4, <2>6, <3>5 DEF AccessInv
  <2>11. CASE p \notin stale
    <3>1. SameKey(p) = {} /\ Cardinality(Pending) < MaxPending
      BY <1>1, <2>11 DEF AccessInv, CountInv
    <3>2. Cardinality(Pending') = Cardinality(Pending) + 1 /\ IsFiniteSet(Pending')
      BY <2>7, <2>9, FS_AddElement
    <3>3. /\ Cardinality(Pending' \ stale') =< Cardinality(Pending')
          /\ Cardinality(Pending' \ stale') \in Nat
      BY <3>2, FS_Subset, FS_CardinalityType
    <3>4. Cardinality(Pending' \ stale') =< MaxPending
      BY <2>9, <3>1, <3>2, <3>3, AccessAssumption
    <3>5. \A q \in Pending : AddressKey[q] # AddressKey[p]
      BY <3>1 DEF SameKey
    <3>6. \A q, r \in Pending' \ stale' : AddressKey[q] = AddressKey[r] => q = r
      BY <2>7, <3>5 DEF AccessInv, CountInv
    <3>7. CountInv'
      BY <2>8, <3>4, <3>6 DEF CountInv
    <3> QED
      BY <2>3, <2>4, <2>6, <3>7 DEF AccessInv
  <2> QED
    BY <2>10, <2>11
<1> QED
  BY <1>1, <1>4, <1>5

-----------------------------------------------------------------------------
(* A write of one field of a request leaves the others as they were. *)
LEMMA RequestWritten ==
  ASSUME RequestsTyped, NEW r \in DOMAIN account_requests,
         NEW new \in RequestType,
         account_requests' = [account_requests EXCEPT ![r] = new]
  PROVE  /\ DOMAIN account_requests' = DOMAIN account_requests
         /\ account_requests'[r] = new
         /\ \A q \in DOMAIN account_requests : q # r => account_requests'[q] = account_requests[q]
         /\ account_requests' \in [DOMAIN account_requests' -> RequestType]
BY DEF RequestsTyped

LEMMA DecideKeeps ==
  ASSUME AccessInv, NEW d \in Approvals \cup Rejections,
         NEW verdict \in {"approved", "rejected"}, NEW place \in {"done", "inviting"},
         Decide(d, verdict, place),
         d \in Approvals => verdict = "approved",
         d \in Rejections => place = "done"
  PROVE  AccessInv'
<1> DEFINE r == About[d]
           new == [account_requests[r] EXCEPT !.status = verdict]
<1>1. /\ at[d] = "idle" /\ invites' = invites /\ stale' = stale
      /\ \/ /\ UNCHANGED account_requests
            /\ Step(d, "refused") \/ Step(d, "error")
         \/ /\ Undecided(d)
            /\ account_requests' = [account_requests EXCEPT ![r].status = verdict]
            /\ Step(d, place) \/ Step(d, "error")
  BY DEF Decide, RCall
<1>2. /\ at' \in [Actors -> AtPlaces]
      /\ \A x \in Actors : x # d => at'[x] = at[x]
      /\ at'[d] \in {"refused", "error", place}
  <2>1. {"refused", "error", place} \subseteq AtPlaces /\ d \in Actors
    BY AccessActors DEF AtPlaces, Suspended
  <2> QED
    BY <1>1, <2>1, StepMoves DEF AccessInv, RequestsTyped
<1>3. \A p \in Posts : at'[p] = at[p]
  BY <1>2, AccessActors
<1>4. CASE UNCHANGED account_requests /\ (Step(d, "refused") \/ Step(d, "error"))
  <2>1. at'[d] \in {"refused", "error"}
    BY <1>4, AccessActors DEF Step, AccessInv, RequestsTyped
  <2>2. RequestsTyped'
    BY <1>1, <1>2, <1>4 DEF AccessInv, RequestsTyped
  <2>3. Unposted'
    BY <1>3, <1>4 DEF AccessInv, Unposted
  <2>4. \A e \in Approvals : at'[e] = at[e] \/ at'[e] \in {"refused", "error"}
    BY <1>2, <2>1, AccessActors
  <2>5. ClaimInv'
    BY <1>1, <1>2, <1>4, <2>4, ClaimKept
  <2>6. Pending' = Pending
    BY <1>4 DEF Pending
  <2>7. CountInv'
    BY <1>1, <1>3, <2>6, CountKept
  <2> QED
    BY <2>2, <2>3, <2>5, <2>7 DEF AccessInv
<1>5. CASE /\ Undecided(d)
           /\ account_requests' = [account_requests EXCEPT ![r].status = verdict]
  <2>1. /\ r \in DOMAIN account_requests /\ account_requests[r].status = "pending"
        /\ account_requests[r] \in RequestType
    BY <1>5 DEF Undecided, Pending, AccessInv, RequestsTyped
  <2>2. new \in RequestType /\ new.status = verdict /\ new.invite = account_requests[r].invite
    BY <2>1 DEF RequestType
  <2>3. account_requests' = [account_requests EXCEPT ![r] = new]
    BY <1>5
  <2> HIDE DEF r, new
  <2>4. /\ DOMAIN account_requests' = DOMAIN account_requests
        /\ account_requests'[r] = new
        /\ \A q \in DOMAIN account_requests : q # r => account_requests'[q] = account_requests[q]
        /\ account_requests' \in [DOMAIN account_requests' -> RequestType]
    BY <2>1, <2>2, <2>3, RequestWritten DEF AccessInv
  <2>5. RequestsTyped'
    BY <1>1, <1>2, <2>4 DEF AccessInv, RequestsTyped
  <2>6. Unposted'
    BY <1>3, <2>4 DEF AccessInv, Unposted
  <2>7. \A e \in Approvals : Claimed(e) => About[e] # r
    BY <2>1 DEF AccessInv, ClaimInv
  <2>8. \A e \in Approvals : e # d => (Claimed(e)' <=> Claimed(e)) /\ at'[e] = at[e]
    BY <1>1, <1>2, AccessActors DEF Claimed
  <2>9. d \in Approvals => (Claimed(d)' => verdict = "approved") /\ at'[d] # "linking"
    BY <1>2
  <2>10. r = About[d]
    BY DEF r
  <2>11. ClaimInv'
    <3>1. ASSUME NEW e \in Approvals, Claimed(e)'
          PROVE  /\ About[e] \in DOMAIN account_requests'
                 /\ account_requests'[About[e]].status = "approved"
      <4>1. CASE e = d
        BY <2>1, <2>2, <2>4, <2>9, <2>10, <3>1, <4>1
      <4>2. CASE e # d
        BY <2>4, <2>7, <2>8, <3>1, <4>2 DEF AccessInv, ClaimInv
      <4> QED
        BY <4>1, <4>2
    <3>2. ASSUME NEW e \in Approvals, NEW f \in Approvals,
                 Claimed(e)', Claimed(f)', About[e] = About[f]
          PROVE  e = f
      BY <2>7, <2>8, <2>10, <3>2 DEF AccessInv, ClaimInv
    <3>3. \A e \in Approvals : at'[e] = "linking" => e \in invites'
      BY <1>1, <2>8, <2>9 DEF AccessInv, ClaimInv
    <3>4. \A p \in DOMAIN account_requests' :
            account_requests'[p].invite \in invites' \cup {NoInvite}
      BY <1>1, <2>2, <2>4 DEF AccessInv, ClaimInv
    <3> QED
      BY <3>1, <3>2, <3>3, <3>4 DEF ClaimInv
  <2>12. Pending' \subseteq Pending
    BY <2>2, <2>4 DEF Pending
  <2>13. CountInv'
    BY <1>1, <1>3, <2>12, CountKept
  <2> QED
    BY <2>5, <2>6, <2>11, <2>13 DEF AccessInv
<1> QED
  BY <1>1, <1>4, <1>5

LEMMA CreateKeeps ==
  ASSUME AccessInv, NEW d \in Approvals, CreateInvite(d)
  PROVE  AccessInv'
<1>1. /\ at[d] = "inviting" /\ UNCHANGED <<account_requests, stale>>
      /\ \/ invites' = invites \cup {d} /\ (Step(d, "linking") \/ Step(d, "error"))
         \/ invites' = invites /\ Step(d, "error")
  BY DEF CreateInvite, RCall
<1>2. PICK place \in {"linking", "error"} :
        /\ Step(d, place)
        /\ invites' = invites \cup {d} \/ (invites' = invites /\ place = "error")
  BY <1>1
<1>3. /\ at' \in [Actors -> AtPlaces] /\ at'[d] = place
      /\ \A x \in Actors : x # d => at'[x] = at[x]
  <2>1. place \in AtPlaces /\ d \in Actors
    BY AccessActors DEF AtPlaces, Suspended
  <2> QED
    BY <1>2, <2>1, StepMoves DEF AccessInv, RequestsTyped
<1>4. \A p \in Posts : at'[p] = at[p]
  BY <1>3, AccessActors
<1>5. RequestsTyped'
  BY <1>1, <1>2, <1>3 DEF AccessInv, RequestsTyped
<1>6. Unposted'
  BY <1>1, <1>4 DEF AccessInv, Unposted
<1>7. Claimed(d) /\ \A e \in Approvals : Claimed(e)' => Claimed(e)
  BY <1>1, <1>2, <1>3, AccessActors DEF Claimed
<1>8. ClaimInv'
  <2>1. \A e \in Approvals : at'[e] = "linking" => e \in invites'
    BY <1>2, <1>3, AccessActors DEF AccessInv, ClaimInv
  <2> QED
    BY <1>1, <1>2, <1>7, <2>1 DEF AccessInv, ClaimInv
<1>9. Pending' = Pending
  BY <1>1 DEF Pending
<1>10. CountInv'
  BY <1>1, <1>4, <1>9, CountKept
<1> QED
  BY <1>5, <1>6, <1>8, <1>10 DEF AccessInv

LEMMA LinkKeeps ==
  ASSUME AccessInv, NEW d \in Approvals, LinkInvite(d)
  PROVE  AccessInv'
<1> DEFINE r == About[d]
           new == [account_requests[r] EXCEPT !.invite = d]
<1>1. /\ at[d] = "linking" /\ invites' = invites /\ stale' = stale
      /\ Step(d, "done") \/ Step(d, "error")
      /\ \/ UNCHANGED account_requests
         \/ account_requests' = [account_requests EXCEPT ![r].invite = d]
  BY DEF LinkInvite, RCall
<1>2. PICK place \in {"done", "error"} :
        /\ at' \in [Actors -> AtPlaces] /\ at'[d] = place
        /\ \A x \in Actors : x # d => at'[x] = at[x]
  <2>1. {"done", "error"} \subseteq AtPlaces /\ d \in Actors
    BY AccessActors DEF AtPlaces
  <2> QED
    BY <1>1, <2>1, StepMoves DEF AccessInv, RequestsTyped
<1>3. \A p \in Posts : at'[p] = at[p]
  BY <1>2, AccessActors
<1>4. /\ d \in invites /\ r \in DOMAIN account_requests
      /\ account_requests[r].status = "approved" /\ account_requests[r] \in RequestType
  BY <1>1 DEF AccessInv, ClaimInv, Claimed, RequestsTyped
<1>5. /\ new \in RequestType /\ new.status = account_requests[r].status /\ new.invite = d
  BY <1>4 DEF RequestType
<1>6. \/ UNCHANGED account_requests
      \/ account_requests' = [account_requests EXCEPT ![r] = new]
  BY <1>1
<1> HIDE DEF r, new
<1>7. /\ DOMAIN account_requests' = DOMAIN account_requests
      /\ account_requests'[r] \in {account_requests[r], new}
      /\ \A q \in DOMAIN account_requests : q # r => account_requests'[q] = account_requests[q]
      /\ account_requests' \in [DOMAIN account_requests' -> RequestType]
  <2>1. CASE UNCHANGED account_requests
    BY <2>1 DEF AccessInv, RequestsTyped
  <2>2. CASE account_requests' = [account_requests EXCEPT ![r] = new]
    BY <1>4, <1>5, <2>2, RequestWritten DEF AccessInv
  <2> QED
    BY <1>6, <2>1, <2>2
<1>8. \A q \in DOMAIN account_requests :
        /\ account_requests'[q].status = account_requests[q].status
        /\ account_requests'[q].invite \in {account_requests[q].invite, d}
  BY <1>5, <1>7
<1>9. RequestsTyped'
  BY <1>1, <1>2, <1>7 DEF AccessInv, RequestsTyped
<1>10. Unposted'
  BY <1>3, <1>7 DEF AccessInv, Unposted
<1>11. \A e \in Approvals : (Claimed(e)' => Claimed(e)) /\ (at'[e] = "linking" => at[e] = "linking")
  BY <1>1, <1>2, AccessActors DEF Claimed
<1>12. ClaimInv'
  BY <1>1, <1>4, <1>7, <1>8, <1>11 DEF AccessInv, ClaimInv
<1>13. Pending' = Pending
  BY <1>7, <1>8 DEF Pending
<1>14. CountInv'
  BY <1>1, <1>3, <1>13, CountKept
<1> QED
  BY <1>9, <1>10, <1>12, <1>14 DEF AccessInv

LEMMA AccessCrashKeeps == AccessInv /\ RCrash => AccessInv'
<1> SUFFICES ASSUME AccessInv, RCrash PROVE AccessInv'
  OBVIOUS
<1>1. /\ UNCHANGED <<account_requests, invites, stale>>
      /\ at' \in [Actors -> AtPlaces]
      /\ \A a \in Actors : at'[a] = at[a] \/ at'[a] = "error"
  BY DEF RCrash, AccessInv, RequestsTyped, AtPlaces, Suspended
<1>2. RequestsTyped'
  BY <1>1 DEF AccessInv, RequestsTyped
<1>3. Unposted'
  BY <1>1, AccessActors DEF AccessInv, Unposted
<1>4. ClaimInv'
  BY <1>1, ClaimKept, AccessActors
<1>5. Pending' = Pending
  BY <1>1 DEF Pending
<1>6. CountInv'
  BY <1>1, <1>5, CountKept, AccessActors
<1> QED
  BY <1>2, <1>3, <1>4, <1>6 DEF AccessInv

-----------------------------------------------------------------------------
LEMMA AccessStep == AccessInv /\ [RNext]_rvars => AccessInv'
<1> SUFFICES ASSUME AccessInv, [RNext]_rvars PROVE AccessInv'
  OBVIOUS
<1>1. ASSUME NEW p \in Posts, CountSame(p) \/ CountPending(p) PROVE AccessInv'
  BY <1>1, CountingKeeps
<1>2. ASSUME NEW p \in Posts, InsertRequest(p) PROVE AccessInv'
  BY <1>2, InsertKeeps
<1>3. ASSUME NEW d \in Rejections, request_reject(d) PROVE AccessInv'
  <2>1. d \notin Approvals /\ Decide(d, "rejected", "done")
    BY <1>3, AccessActors DEF request_reject
  <2> QED
    BY <2>1, DecideKeeps
<1>4. ASSUME NEW d \in Approvals, request_approve(d) PROVE AccessInv'
  <2>1. d \notin Rejections /\ Decide(d, "approved", "inviting")
    BY <1>4, AccessActors DEF request_approve
  <2> QED
    BY <2>1, DecideKeeps
<1>5. ASSUME NEW d \in Approvals, CreateInvite(d) PROVE AccessInv'
  BY <1>5, CreateKeeps
<1>6. ASSUME NEW d \in Approvals, LinkInvite(d) PROVE AccessInv'
  BY <1>6, LinkKeeps
<1>7. CASE RCrash
  BY <1>7, AccessCrashKeeps
<1>8. CASE UNCHANGED rvars
  <2>1. UNCHANGED <<account_requests, invites, at, stale>>
    BY <1>8 DEF rvars
  <2>2. RequestsTyped' /\ Unposted'
    BY <2>1 DEF AccessInv, RequestsTyped, Unposted
  <2>3. at' \in [Actors -> AtPlaces]
    BY <2>1 DEF AccessInv, RequestsTyped
  <2>4. ClaimInv'
    BY <2>1, <2>3, ClaimKept
  <2>5. Pending' = Pending
    BY <2>1 DEF Pending
  <2>6. CountInv'
    BY <2>1, <2>5, CountKept
  <2> QED
    BY <2>2, <2>4, <2>6 DEF AccessInv
<1> QED
  BY <1>1, <1>2, <1>3, <1>4, <1>5, <1>6, <1>7, <1>8 DEF RNext

(***************************************************************************)
(* However often the admin clicks on a request, and whatever fails, it     *)
(* leads to one invite at most, and only when it is approved               *)
(* (request_approve); the caps on pending requests are exceeded by no more *)
(* than the posts that were counting while another was inserted            *)
(* (request_create).                                                       *)
(***************************************************************************)
THEOREM OneInvitePerRequestHolds == RSpec => []OneInvitePerRequest
<1>1. AccessInv => OneInvitePerRequest
  <2> SUFFICES ASSUME AccessInv PROVE OneInvitePerRequest
    OBVIOUS
  <2>1. \A d \in invites : d \in Approvals /\ Claimed(d)
    BY DEF AccessInv, RequestsTyped, Claimed
  <2>2. /\ \A d \in invites : account_requests[About[d]].status = "approved"
        /\ \A d, e \in invites : About[d] = About[e] => d = e
    BY <2>1 DEF AccessInv, ClaimInv
  <2> QED
    BY <2>2 DEF AccessInv, ClaimInv, CountInv, OneInvitePerRequest
<1> QED
  BY AccessInit, AccessStep, <1>1, PTL DEF RSpec

-----------------------------------------------------------------------------
(* The list of new senders (module NewSenders).                            *)

UserType == [at : {"none", "inserted", "written", "active", "deleting"}, created : Nat]
RunType == [at : {"waiting", "users", "list"}, now : Nat,
            wanted : SUBSET Names, current : SUBSET Names, missed : SUBSET Names]

SendersTyped ==
  /\ now \in Nat
  /\ users \in [Names -> UserType] /\ \A n \in Names : users[n].created =< now
  /\ runs \in Seq(RunType)
  /\ senders \subseteq Names /\ failed \subseteq Names

(* What a run knows is right, now, of every name that did not change under *)
(* it.  One that waits only has its cutoff.                                *)
Informed(i) ==
  /\ runs[i].now =< now
  /\ runs[i].at = "list" => runs[i].current = senders
  /\ \A n \in Names \ runs[i].missed :
       /\ runs[i].at = "waiting" /\ users[n].at # "none" =>
            (users[n].created > runs[i].now - Days <=> users[n].created > now - Days)
       /\ runs[i].at # "waiting" => (n \in runs[i].wanted <=> n \in Young(now - Days))

(* A new account that became one under a run has another queued behind it. *)
Followed(n) ==
  \A i \in DOMAIN runs : n \in runs[i].missed =>
    \E j \in DOMAIN runs : j > i /\ n \notin runs[j].missed

QueueInv ==
  /\ \A i \in DOMAIN runs : Informed(i) /\ (i # 1 => runs[i].at = "waiting")
  /\ \A n \in Names : new_sender(n) => Followed(n)

SendersInv == SendersTyped /\ QueueInv /\ NewSendersHeld

-----------------------------------------------------------------------------
LEMMA QueueDomain ==
  ASSUME NEW f \in Seq(RunType)
  PROVE  /\ Len(f) \in Nat /\ DOMAIN f = 1 .. Len(f)
         /\ \A i \in DOMAIN f : f[i] \in RunType
BY LenProperties, ElementOfSeq

LEMMA MappedQueue ==
  ASSUME NEW f \in Seq(RunType), NEW g, g = [i \in DOMAIN f |-> g[i]],
         \A i \in DOMAIN f : g[i] \in RunType
  PROVE  g \in Seq(RunType) /\ Len(g) = Len(f) /\ DOMAIN g = DOMAIN f
<1>1. Len(f) \in Nat /\ DOMAIN f = 1 .. Len(f)
  BY QueueDomain
<1>2. g \in [1 .. Len(f) -> RunType]
  BY <1>1
<1> QED
  BY <1>1, <1>2, SMT

LEMMA QueuedLast ==
  ASSUME NEW f \in Seq(RunType), NEW r \in RunType
  PROVE  /\ Append(f, r) \in Seq(RunType)
         /\ DOMAIN Append(f, r) = DOMAIN f \cup {Len(f) + 1}
         /\ Append(f, r)[Len(f) + 1] = r
         /\ \A i \in DOMAIN f : Append(f, r)[i] = f[i] /\ i < Len(f) + 1
<1>1. Len(f) \in Nat /\ DOMAIN f = 1 .. Len(f)
  BY QueueDomain
<1> DEFINE g == Append(f, r)
<1>2. /\ g \in Seq(RunType) /\ Len(g) = Len(f) + 1
      /\ \A i \in 1 .. Len(f) : g[i] = f[i]
      /\ g[Len(f) + 1] = r
  BY AppendProperties
<1>3. DOMAIN g = 1 .. Len(f) + 1
  BY <1>1, <1>2, QueueDomain
<1> HIDE DEF g
<1>4. 1 .. Len(f) + 1 = 1 .. Len(f) \cup {Len(f) + 1} /\ \A i \in 1 .. Len(f) : i < Len(f) + 1
  BY <1>1
<1>5. /\ g \in Seq(RunType) /\ DOMAIN g = DOMAIN f \cup {Len(f) + 1} /\ g[Len(f) + 1] = r
      /\ \A i \in DOMAIN f : g[i] = f[i] /\ i < Len(f) + 1
  <2>1. DOMAIN g = DOMAIN f \cup {Len(f) + 1}
    BY <1>1, <1>3, <1>4
  <2>2. \A i \in DOMAIN f : g[i] = f[i] /\ i < Len(f) + 1
    BY <1>1, <1>2, <1>4
  <2> QED
    BY <1>2, <2>1, <2>2
<1> QED
  BY <1>5 DEF g

LEMMA FirstDone ==
  ASSUME NEW f \in Seq(RunType), 1 \in DOMAIN f
  PROVE  /\ RemoveAt(f, 1) \in Seq(RunType)
         /\ Len(RemoveAt(f, 1)) = Len(f) - 1
         /\ \A i \in DOMAIN RemoveAt(f, 1) : i + 1 \in DOMAIN f /\ RemoveAt(f, 1)[i] = f[i + 1]
         /\ \A i \in DOMAIN f : i # 1 => i - 1 \in DOMAIN RemoveAt(f, 1)
<1> DEFINE a == SubSeq(f, 1, 1 - 1)
           b == SubSeq(f, 1 + 1, Len(f))
<1>1. Len(f) \in Nat /\ Len(f) >= 1 /\ DOMAIN f = 1 .. Len(f)
  BY QueueDomain
<1>2. \A k \in 1 .. Len(f) : f[k] \in RunType
  BY ElementOfSeq
<1>3. a \in Seq(RunType) /\ Len(a) = 0
  BY <1>1, <1>2, SMT
<1>4. b \in Seq(RunType) /\ Len(b) = Len(f) - 1
      /\ \A k \in 1 .. Len(f) - 1 : b[k] = f[k + 1]
  BY <1>1, <1>2, SMT
<1> HIDE DEF a, b
<1> DEFINE g == a \o b
<1>5. g \in Seq(RunType) /\ Len(g) = Len(f) - 1
      /\ \A k \in 1 .. Len(f) - 1 : g[k] = b[k]
  <2>1. /\ g \in Seq(RunType) /\ Len(g) = Len(a) + Len(b)
        /\ \A k \in 1 .. Len(a) + Len(b) :
             g[k] = IF k =< Len(a) THEN a[k] ELSE b[k - Len(a)]
    BY <1>3, <1>4, ConcatProperties
  <2> QED
    BY <1>1, <1>3, <1>4, <2>1
<1> HIDE DEF g
<1>6. DOMAIN g = 1 .. Len(f) - 1
  BY <1>5, QueueDomain
<1>7. RemoveAt(f, 1) = g
  BY DEF RemoveAt, a, b, g
<1>8. \A i \in DOMAIN g : i + 1 \in DOMAIN f /\ g[i] = f[i + 1]
  BY <1>1, <1>4, <1>5, <1>6
<1>9. \A i \in DOMAIN f : i # 1 => i - 1 \in DOMAIN g
  BY <1>1, <1>6
<1> QED
  BY <1>5, <1>7, <1>8, <1>9

LEMMA RunFresh ==
  ASSUME now \in Nat
  PROVE  /\ Run \in RunType /\ Run.missed = {} /\ Run.at = "waiting" /\ Run.now = now
BY DEF Run, RunType

(* Beyond the names that change, the list is as far behind as before.      *)
LEMMA SendersInit == NInit => SendersInv
<1> SUFFICES ASSUME NInit PROVE SendersInv
  OBVIOUS
<1>1. /\ now = 0 /\ senders = {} /\ failed = {} /\ changed = {} /\ runs = <<Run>>
      /\ users \in [Names -> UserType]
      /\ \A n \in Names : users[n].at = "none" /\ users[n].created = 0
  BY DEF NInit, NoUser, UserType
<1>2. /\ Run \in RunType /\ Run.missed = {} /\ Run.at = "waiting" /\ Run.now = now
  BY <1>1, RunFresh
<1>3. runs \in Seq(RunType) /\ DOMAIN runs = {1} /\ runs[1] = Run
  BY <1>1, <1>2
<1>4. SendersTyped
  BY <1>1, <1>3 DEF SendersTyped
<1>5. Informed(1)
  BY <1>1, <1>2, <1>3 DEF Informed
<1>6. \A n \in Names : ~new_sender(n)
  BY <1>1 DEF new_sender
<1>7. QueueInv
  BY <1>3, <1>5, <1>6 DEF QueueInv
<1>8. NewSendersHeld
  BY <1>1, <1>6 DEF NewSendersHeld
<1> QED
  BY <1>4, <1>7, <1>8 DEF SendersInv

(* An account comes, advances or goes: its name is missed by the run that  *)
(* has looked, and one that becomes active queues another.                 *)
LEMMA UserStep ==
  ASSUME SendersInv, NEW n \in Names, NEW user \in UserType, Becomes(n, user),
         UNCHANGED <<senders, now, failed>>,
         \/ runs' = Unseen(n) /\ user.at # "active"
         \/ runs' = Append(Unseen(n), Run),
         user.created =< now,
         user.at # "none" => \/ user.created = now
                             \/ users[n].at # "none" /\ user.created = users[n].created
  PROVE  SendersInv'
<1> DEFINE u == Unseen(n)
<1>1. /\ now \in Nat /\ users \in [Names -> UserType] /\ runs \in Seq(RunType)
      /\ \A m \in Names : users[m].created \in Nat /\ users[m].created =< now
      /\ user.created \in Nat
  BY DEF SendersInv, SendersTyped, UserType
<1>2. /\ users' \in [Names -> UserType] /\ users'[n] = user
      /\ \A m \in Names : m # n => users'[m] = users[m]
      /\ changed' = changed \cup {n}
  BY <1>1 DEF Becomes
<1>3. \A i \in DOMAIN runs :
        /\ u[i] \in RunType /\ u[i].at = runs[i].at /\ u[i].now = runs[i].now
        /\ u[i].wanted = runs[i].wanted /\ u[i].current = runs[i].current
        /\ u[i].missed = IF runs[i].at = "waiting" THEN runs[i].missed
                         ELSE runs[i].missed \cup {n}
  <2>1. ASSUME NEW i \in DOMAIN runs PROVE runs[i] \in RunType
    BY <1>1, <2>1, QueueDomain
  <2> QED
    BY <2>1 DEF Unseen, RunType
<1>4. u \in Seq(RunType) /\ DOMAIN u = DOMAIN runs /\ Len(u) = Len(runs)
  <2>1. u = [i \in DOMAIN runs |-> u[i]]
    BY DEF Unseen
  <2> QED
    BY <1>1, <1>3, <2>1, MappedQueue
<1>5. /\ Run \in RunType /\ Run.missed = {} /\ Run.at = "waiting" /\ Run.now = now
  BY <1>1, RunFresh
<1>6. Len(runs) \in Nat /\ DOMAIN runs = 1 .. Len(runs)
  BY <1>1, QueueDomain
<1> HIDE DEF u
<1>7. PICK last \in {{}, {Len(runs) + 1}} :
        /\ runs' \in Seq(RunType) /\ DOMAIN runs' = DOMAIN runs \cup last
        /\ \A i \in DOMAIN runs : runs'[i] = u[i]
        /\ \A i \in last : runs'[i] = Run /\ i \notin DOMAIN runs /\ \A j \in DOMAIN runs : i > j
        /\ last # {} \/ user.at # "active"
  <2>1. CASE runs' = u /\ user.at # "active"
    BY <1>4, <2>1
  <2>2. CASE runs' = Append(u, Run)
    <3>1. /\ Append(u, Run) \in Seq(RunType)
          /\ DOMAIN Append(u, Run) = DOMAIN u \cup {Len(u) + 1}
          /\ Append(u, Run)[Len(u) + 1] = Run
          /\ \A i \in DOMAIN u : Append(u, Run)[i] = u[i] /\ i < Len(u) + 1
      BY <1>4, <1>5, QueuedLast
    <3>2. \A j \in DOMAIN runs : Len(runs) + 1 > j /\ Len(runs) + 1 # j
      BY <1>6
    <3> QED
      BY <1>4, <2>2, <3>1, <3>2
  <2> QED
    BY <2>1, <2>2 DEF u
<1>8. SendersTyped'
  BY <1>1, <1>2, <1>7 DEF SendersInv, SendersTyped
<1>9. \A m \in Names : m # n => (m \in Young(now - Days) <=> m \in Young(now - Days)')
  BY <1>2 DEF Young
<1>10. ASSUME NEW i \in DOMAIN runs'
       PROVE  Informed(i)' /\ (i # 1 => runs'[i].at = "waiting")
  <2>1. CASE i \notin DOMAIN runs
    <3>1. runs'[i] = Run
      BY <1>7, <1>10, <2>1
    <3>2. Run.now =< now' /\ now' = now
      BY <1>1, <1>5
    <3> QED
      BY <1>5, <3>1, <3>2 DEF Informed
  <2>2. CASE i \in DOMAIN runs
    <3>1. /\ runs'[i] = u[i] /\ Informed(i) /\ (i # 1 => runs[i].at = "waiting")
          /\ runs[i] \in RunType /\ runs[i].now \in Nat
      BY <1>1, <1>7, <2>2, QueueDomain DEF SendersInv, QueueInv, RunType
    <3>2. ASSUME NEW m \in Names \ runs'[i].missed, runs'[i].at = "waiting", users'[m].at # "none"
          PROVE  users'[m].created > runs'[i].now - Days <=> users'[m].created > now - Days
      <4>1. m \notin runs[i].missed /\ runs[i].at = "waiting" /\ runs[i].now = runs'[i].now
        BY <1>3, <2>2, <3>1, <3>2
      <4>2. runs[i].now =< now
        BY <3>1 DEF Informed
      <4>3. CASE users[m].at # "none" /\ users'[m].created = users[m].created
        BY <3>1, <4>1, <4>3 DEF Informed
      <4>4. CASE m = n /\ users'[m].created = now
        BY <1>1, <3>1, <4>1, <4>2, <4>4, SendersAssumption
      <4> QED
        BY <1>2, <3>2, <4>3, <4>4
    <3>3. ASSUME NEW m \in Names \ runs'[i].missed, runs'[i].at # "waiting"
          PROVE  m \in runs'[i].wanted <=> m \in Young(now - Days)'
      <4>1. m \notin runs[i].missed /\ m # n /\ runs[i].at # "waiting"
        BY <1>3, <2>2, <3>1, <3>3
      <4> QED
        BY <1>3, <1>9, <2>2, <3>1, <4>1 DEF Informed
    <3>4. /\ runs'[i].now =< now'
          /\ runs'[i].at = "list" => runs'[i].current = senders'
      BY <1>3, <2>2, <3>1 DEF Informed
    <3>5. now' = now /\ (i # 1 => runs'[i].at = "waiting")
      BY <1>3, <2>2, <3>1
    <3> QED
      BY <3>2, <3>3, <3>4, <3>5 DEF Informed
  <2> QED
    BY <2>1, <2>2
<1>11. ASSUME NEW m \in Names, m # n PROVE new_sender(m)' <=> new_sender(m)
  BY <1>2, <1>11 DEF new_sender
<1>12. ASSUME NEW m \in Names, NEW i \in DOMAIN runs, m # n
       PROVE  m \in runs'[i].missed <=> m \in runs[i].missed
  <2>1. runs'[i] = u[i] /\ u[i].missed \in {runs[i].missed, runs[i].missed \cup {n}}
    BY <1>3, <1>7
  <2> QED
    BY <1>12, <2>1
<1>13. new_sender(n)' => last # {}
  BY <1>2, <1>7 DEF new_sender
<1>14. \A i \in last : i \in DOMAIN runs' /\ runs'[i].missed = {}
  BY <1>5, <1>7
<1>15. ASSUME NEW m \in Names, new_sender(m)' PROVE Followed(m)'
  <2>1. SUFFICES ASSUME NEW i \in DOMAIN runs', m \in runs'[i].missed
                 PROVE  \E j \in DOMAIN runs' : j > i /\ m \notin runs'[j].missed
    BY DEF Followed
  <2>2. i \in DOMAIN runs
    BY <1>7, <1>14, <2>1
  <2>3. CASE last # {}
    BY <1>7, <1>14, <2>2, <2>3
  <2>4. CASE last = {}
    <3>1. m # n /\ new_sender(m) /\ m \in runs[i].missed
      BY <1>11, <1>12, <1>13, <1>15, <2>1, <2>2, <2>4
    <3>2. PICK j \in DOMAIN runs : j > i /\ m \notin runs[j].missed
      BY <2>2, <3>1 DEF SendersInv, QueueInv, Followed
    <3> QED
      BY <1>7, <1>12, <3>1, <3>2
  <2> QED
    BY <2>3, <2>4
<1>16. QueueInv'
  BY <1>10, <1>15 DEF QueueInv
<1>17. ASSUME NEW m \in Names, new_sender(m)', m \notin senders'
       PROVE  Owed(m)' \/ m \in failed'
  <2>1. CASE m = n
    BY <1>13, <1>14, <1>17, <2>1 DEF Owed
  <2>2. CASE m # n
    <3>1. Owed(m) \/ m \in failed
      BY <1>11, <1>17, <2>2 DEF SendersInv, NewSendersHeld
    <3> QED
      BY <1>7, <1>12, <2>2, <3>1 DEF Owed
  <2> QED
    BY <2>1, <2>2
<1>18. senders' \ Young(now - Days)' \subseteq changed' \cup failed'
  BY <1>2, <1>9 DEF SendersInv, SendersTyped, NewSendersHeld
<1>19. NewSendersHeld'
  BY <1>17, <1>18 DEF NewSendersHeld
<1> QED
  BY <1>8, <1>16, <1>19 DEF SendersInv

LEMMA AccountsKeep ==
  ASSUME SendersInv, NEW n \in Names,
         \/ SignupInserts(n) \/ SignupActivates(n) \/ SignupRollsBack(n)
         \/ user_delete(n) \/ user_deletions_finish(n)
  PROVE  SendersInv'
<1>1. /\ users[n] \in UserType /\ users[n].created =< now /\ now \in Nat
  BY DEF SendersInv, SendersTyped
<1>2. /\ NoUser \in UserType /\ NoUser.at = "none" /\ NoUser.created =< now
  BY <1>1 DEF NoUser, UserType
<1>3. ASSUME NEW place \in {"active", "written", "deleting"}
      PROVE  /\ [users[n] EXCEPT !.at = place] \in UserType
             /\ [users[n] EXCEPT !.at = place].at = place
             /\ [users[n] EXCEPT !.at = place].created = users[n].created
  BY <1>1 DEF UserType
<1>4. CASE SignupInserts(n)
  <2> DEFINE user == [at |-> "inserted", created |-> now]
  <2>1. user \in UserType /\ user.at = "inserted" /\ user.created = now /\ now =< now
    BY <1>1 DEF UserType
  <2>2. Becomes(n, user) /\ runs' = Unseen(n) /\ UNCHANGED <<senders, now, failed>>
    BY <1>4 DEF SignupInserts
  <2> HIDE DEF user
  <2> QED
    BY <2>1, <2>2, UserStep
<1>5. CASE SignupActivates(n)
  <2>1. PICK place \in {"active", "written"} :
          /\ Becomes(n, [users[n] EXCEPT !.at = place])
          /\ \/ runs' = Unseen(n) /\ place # "active"
             \/ runs' = Append(Unseen(n), Run)
    BY <1>5 DEF SignupActivates
  <2>2. users[n].at # "none" /\ UNCHANGED <<senders, now, failed>>
    BY <1>5 DEF SignupActivates, world
  <2> DEFINE user == [users[n] EXCEPT !.at = place]
  <2>3. user \in UserType /\ user.at = place /\ user.created = users[n].created
    BY <1>3
  <2>4. Becomes(n, user)
    BY <2>1
  <2> HIDE DEF user
  <2> QED
    BY <1>1, <2>1, <2>2, <2>3, <2>4, UserStep
<1>6. CASE SignupRollsBack(n) \/ user_deletions_finish(n)
  <2>1. Becomes(n, NoUser) /\ runs' = Unseen(n) /\ UNCHANGED <<senders, now, failed>>
    BY <1>6 DEF SignupRollsBack, user_deletions_finish, world
  <2> QED
    BY <1>2, <2>1, UserStep
<1>7. CASE user_delete(n)
  <2> DEFINE user == [users[n] EXCEPT !.at = "deleting"]
  <2>1. user \in UserType /\ user.at = "deleting" /\ user.created = users[n].created
    BY <1>3
  <2>2. /\ Becomes(n, user) /\ runs' = Unseen(n) /\ UNCHANGED <<senders, now, failed>>
        /\ users[n].at = "active"
    BY <1>7 DEF user_delete
  <2> HIDE DEF user
  <2> QED
    BY <1>1, <2>1, <2>2, UserStep
<1> QED
  BY <1>4, <1>5, <1>6, <1>7

(* Time passes: who ages is missed by every run, and no longer new.        *)
LEMMA TickKeeps == SendersInv /\ Tick => SendersInv'
<1> SUFFICES ASSUME SendersInv, Tick PROVE SendersInv'
  OBVIOUS
<1> DEFINE aging == {n \in Names : users[n].created = now + 1 - Days}
<1>1. /\ now \in Nat /\ users \in [Names -> UserType] /\ runs \in Seq(RunType)
      /\ senders \subseteq Names
      /\ \A n \in Names : users[n].created \in Nat /\ users[n].created =< now
  BY DEF SendersInv, SendersTyped, UserType
<1>2. /\ now' = now + 1 /\ UNCHANGED <<users, senders, failed>> /\ changed' = changed \cup aging
      /\ runs' = [i \in DOMAIN runs |-> [runs[i] EXCEPT !.missed = @ \cup aging]]
  BY DEF Tick
<1>3. ASSUME NEW i \in DOMAIN runs
      PROVE  /\ runs'[i] \in RunType /\ runs'[i].at = runs[i].at /\ runs'[i].now = runs[i].now
             /\ runs'[i].wanted = runs[i].wanted /\ runs'[i].current = runs[i].current
             /\ runs'[i].missed = runs[i].missed \cup aging /\ runs[i].now \in Nat
  <2>1. runs[i] \in RunType
    BY <1>1, QueueDomain
  <2> QED
    BY <1>2, <2>1 DEF RunType
<1>4. runs' \in Seq(RunType) /\ DOMAIN runs' = DOMAIN runs
  <2>1. runs' = [i \in DOMAIN runs |-> runs'[i]]
    BY <1>2
  <2> QED
    BY <1>1, <1>3, <2>1, MappedQueue
<1>5. SendersTyped'
  BY <1>1, <1>2, <1>4 DEF SendersInv, SendersTyped
<1>6. ASSUME NEW n \in Names \ aging
      PROVE  users[n].created > now - Days <=> users[n].created > now' - Days
  BY <1>1, <1>2, <1>6, SendersAssumption
<1>7. \A n \in Names \ aging : n \in Young(now - Days) <=> n \in Young(now - Days)'
  BY <1>2, <1>6 DEF Young
<1>8. ASSUME NEW n \in Names, new_sender(n)' PROVE new_sender(n) /\ n \notin aging
  <2>0. users' = users /\ now' = now + 1
    BY <1>2
  <2>1. users[n].at = "active" /\ users[n].created > (now + 1) - Days
    <3>1. users'[n].at = "active" /\ users'[n].created > now' - Days
      BY <1>8 DEF new_sender
    <3> QED
      BY <2>0, <3>1
  <2>2. users[n].created \in Nat /\ users[n].created # now + 1 - Days
        /\ users[n].created > now - Days
    BY <1>1, <2>1, SendersAssumption
  <2> QED
    BY <2>1, <2>2 DEF new_sender
<1> HIDE DEF aging
<1>9. ASSUME NEW i \in DOMAIN runs'
      PROVE  Informed(i)' /\ (i # 1 => runs'[i].at = "waiting")
  <2>1. i \in DOMAIN runs /\ Informed(i) /\ (i # 1 => runs[i].at = "waiting")
    BY <1>4 DEF SendersInv, QueueInv
  <2>2. ASSUME NEW n \in Names \ runs'[i].missed
        PROVE  /\ runs'[i].at = "waiting" /\ users'[n].at # "none" =>
                    (users'[n].created > runs'[i].now - Days <=> users'[n].created > now' - Days)
               /\ runs'[i].at # "waiting" => (n \in runs'[i].wanted <=> n \in Young(now - Days)')
    <3>1. n \in Names \ runs[i].missed /\ n \in Names \ aging
      BY <1>3, <2>1
    <3>2. runs[i].at = "waiting" /\ users[n].at # "none" =>
            (users[n].created > runs[i].now - Days <=> users[n].created > now - Days)
      BY <2>1, <3>1 DEF Informed
    <3>3. runs[i].at # "waiting" => (n \in runs[i].wanted <=> n \in Young(now - Days))
      BY <2>1, <3>1 DEF Informed
    <3>4. users[n].created > now - Days <=> users[n].created > now' - Days
      BY <1>6, <3>1
    <3>5. n \in Young(now - Days) <=> n \in Young(now - Days)'
      BY <1>7, <3>1
    <3>6. /\ runs'[i].at = runs[i].at /\ runs'[i].now = runs[i].now
          /\ runs'[i].wanted = runs[i].wanted /\ users' = users
      BY <1>2, <1>3, <2>1
    <3> QED
      BY <3>2, <3>3, <3>4, <3>5, <3>6
  <2>3. /\ runs'[i].now =< now'
        /\ runs'[i].at = "list" => runs'[i].current = senders'
    <3>1. runs[i].now =< now /\ (runs[i].at = "list" => runs[i].current = senders)
      BY <2>1 DEF Informed
    <3>2. /\ runs'[i].at = runs[i].at /\ runs'[i].now = runs[i].now /\ runs[i].now \in Nat
          /\ runs'[i].current = runs[i].current /\ senders' = senders /\ now' = now + 1
      BY <1>2, <1>3, <2>1
    <3> QED
      BY <1>1, <3>1, <3>2
  <2> QED
    BY <1>3, <2>1, <2>2, <2>3 DEF Informed
<1>10. ASSUME NEW n \in Names, new_sender(n)', NEW i \in DOMAIN runs
       PROVE  n \in runs'[i].missed <=> n \in runs[i].missed
  BY <1>3, <1>8, <1>10
<1>11. ASSUME NEW n \in Names, new_sender(n)' PROVE Followed(n)'
  <2>1. Followed(n)
    BY <1>8, <1>11 DEF SendersInv, QueueInv
  <2> QED
    BY <1>4, <1>10, <1>11, <2>1 DEF Followed
<1>12. QueueInv'
  BY <1>9, <1>11 DEF QueueInv
<1>13. ASSUME NEW n \in Names, new_sender(n)', n \notin senders'
       PROVE  Owed(n)' \/ n \in failed'
  <2>1. Owed(n) \/ n \in failed
    BY <1>2, <1>8, <1>13 DEF SendersInv, NewSendersHeld
  <2> QED
    BY <1>2, <1>4, <1>10, <1>13, <2>1 DEF Owed
<1>14. senders' \ Young(now - Days)' \subseteq changed' \cup failed'
  BY <1>1, <1>2, <1>7 DEF SendersInv, NewSendersHeld
<1> QED
  BY <1>5, <1>12, <1>13, <1>14 DEF SendersInv, NewSendersHeld

LEMMA TimerKeeps == SendersInv /\ sync_new_senders => SendersInv'
<1> SUFFICES ASSUME SendersInv, sync_new_senders PROVE SendersInv'
  OBVIOUS
<1>1. now \in Nat /\ runs \in Seq(RunType)
  BY DEF SendersInv, SendersTyped
<1>2. /\ runs' = Append(runs, Run) /\ UNCHANGED <<users, senders, now, changed, failed>>
  BY DEF sync_new_senders
<1>3. /\ Run \in RunType /\ Run.missed = {} /\ Run.at = "waiting" /\ Run.now = now
  BY <1>1, RunFresh
<1> DEFINE last == Len(runs) + 1
<1>4. /\ runs' \in Seq(RunType) /\ DOMAIN runs' = DOMAIN runs \cup {last} /\ runs'[last] = Run
      /\ \A i \in DOMAIN runs : runs'[i] = runs[i] /\ i < last
  BY <1>1, <1>2, <1>3, QueuedLast
<1>5. last > 0 /\ last \in Nat /\ DOMAIN runs \subseteq Nat
  BY <1>1, QueueDomain
<1> HIDE DEF last
<1>6. SendersTyped'
  BY <1>2, <1>4 DEF SendersInv, SendersTyped
<1>7. Young(now - Days)' = Young(now - Days) /\ \A n : new_sender(n)' <=> new_sender(n)
  BY <1>2 DEF Young, new_sender
<1>8. ASSUME NEW i \in DOMAIN runs'
      PROVE  Informed(i)' /\ (i # 1 => runs'[i].at = "waiting")
  <2>1. CASE i = last
    BY <1>1, <1>2, <1>3, <1>4, <2>1 DEF Informed
  <2>2. CASE i \in DOMAIN runs
    BY <1>2, <1>4, <1>7, <2>2 DEF SendersInv, QueueInv, Informed
  <2> QED
    BY <1>4, <2>1, <2>2
<1>9. ASSUME NEW n \in Names, new_sender(n)' PROVE Followed(n)'
  <2>1. ASSUME NEW i \in DOMAIN runs', n \in runs'[i].missed
        PROVE  \E j \in DOMAIN runs' : j > i /\ n \notin runs'[j].missed
    <3>1. i \in DOMAIN runs /\ last > i
      BY <1>3, <1>4, <1>5, <2>1
    <3> QED
      BY <1>3, <1>4, <3>1
  <2> QED
    BY <2>1 DEF Followed
<1>10. QueueInv'
  BY <1>8, <1>9 DEF QueueInv
<1>11. \A n : Owed(n)'
  BY <1>3, <1>4 DEF Owed
<1>12. NewSendersHeld'
  BY <1>2, <1>7, <1>11 DEF SendersInv, NewSendersHeld
<1> QED
  BY <1>6, <1>10, <1>12 DEF SendersInv

(* The first run goes on: the others, and who misses what, stay.           *)
LEMMA RunStep ==
  ASSUME SendersInv, 1 \in DOMAIN runs, NEW run \in RunType, Goes(1, run),
         UNCHANGED <<users, senders, now, changed, failed>>,
         run.missed = runs[1].missed, run.now = runs[1].now, run.at # "waiting",
         run.at = "list" => run.current = senders,
         \A n \in Names \ run.missed : n \in run.wanted <=> n \in Young(now - Days)
  PROVE  SendersInv'
<1>1. runs \in Seq(RunType) /\ now \in Nat
  BY DEF SendersInv, SendersTyped
<1>2. /\ \A i \in DOMAIN runs : i # 1 => runs'[i] = runs[i]
      /\ runs'[1] = run
      /\ runs' = [runs EXCEPT ![1] = run]
  BY DEF Goes
<1>3. \A i \in DOMAIN runs : runs'[i] \in RunType
  BY <1>1, <1>2, QueueDomain
<1>4. runs' \in Seq(RunType) /\ DOMAIN runs' = DOMAIN runs
  <2>1. runs' = [i \in DOMAIN runs |-> runs'[i]]
    BY <1>2
  <2> QED
    BY <1>1, <1>3, <2>1, MappedQueue
<1>5. SendersTyped'
  BY <1>4 DEF SendersInv, SendersTyped
<1>6. Young(now - Days)' = Young(now - Days) /\ \A n : new_sender(n)' <=> new_sender(n)
  BY DEF Young, new_sender
<1>7. \A i \in DOMAIN runs : runs'[i].missed = runs[i].missed
  BY <1>2
<1>8. ASSUME NEW i \in DOMAIN runs'
      PROVE  Informed(i)' /\ (i # 1 => runs'[i].at = "waiting")
  <2>1. CASE i = 1
    <3>1. run.now =< now
      BY <1>4, <2>1 DEF SendersInv, QueueInv, Informed
    <3> QED
      BY <1>2, <1>6, <2>1, <3>1 DEF Informed
  <2>2. CASE i # 1
    <3>1. Informed(i) /\ runs[i].at = "waiting" /\ runs'[i] = runs[i]
      BY <1>2, <1>4, <2>2 DEF SendersInv, QueueInv
    <3> QED
      BY <1>6, <3>1 DEF Informed
  <2> QED
    BY <2>1, <2>2
<1>9. QueueInv'
  BY <1>4, <1>6, <1>7, <1>8 DEF SendersInv, QueueInv, Followed
<1>10. NewSendersHeld'
  BY <1>4, <1>6, <1>7 DEF SendersInv, NewSendersHeld, Owed
<1> QED
  BY <1>5, <1>9, <1>10 DEF SendersInv

LEMMA LookingKeeps ==
  ASSUME SendersInv, NEW i \in DOMAIN runs, ReadUsers(i) \/ stalwart_new_senders_get(i)
  PROVE  SendersInv'
<1>1. i = 1 /\ runs \in Seq(RunType) /\ senders \subseteq Names
  BY DEF SendersInv, SendersTyped, ReadUsers, stalwart_new_senders_get, MyTurn
<1>2. runs[1] \in RunType /\ Informed(1)
  BY <1>1, QueueDomain DEF SendersInv, QueueInv
<1>3. CASE ReadUsers(i)
  <2> DEFINE run == [runs[1] EXCEPT !.at = "users", !.wanted = Young(runs[1].now - Days)]
  <2>1. /\ runs[1].at = "waiting" /\ Goes(1, run)
        /\ UNCHANGED <<users, senders, now, changed, failed>>
    BY <1>1, <1>3 DEF ReadUsers, world
  <2>2. Young(runs[1].now - Days) \subseteq Names
    BY DEF Young
  <2>3. /\ run \in RunType /\ run.at = "users" /\ run.now = runs[1].now
        /\ run.missed = runs[1].missed /\ run.wanted = Young(runs[1].now - Days)
    BY <1>2, <2>2 DEF RunType
  <2>4. ASSUME NEW n \in Names \ run.missed
        PROVE  n \in run.wanted <=> n \in Young(now - Days)
    <3>1. users[n].at # "none" =>
            (users[n].created > runs[1].now - Days <=> users[n].created > now - Days)
      BY <1>2, <2>1, <2>3 DEF Informed
    <3>2. n \in run.wanted <=> /\ users[n].at \in {"written", "active"}
                               /\ users[n].created > runs[1].now - Days
      BY <2>3 DEF Young
    <3>3. n \in Young(now - Days) <=> /\ users[n].at \in {"written", "active"}
                                      /\ users[n].created > now - Days
      BY DEF Young
    <3> QED
      BY <3>1, <3>2, <3>3
  <2> HIDE DEF run
  <2> QED
    BY <1>1, <2>1, <2>3, <2>4, RunStep
<1>4. CASE stalwart_new_senders_get(i)
  <2> DEFINE run == [runs[1] EXCEPT !.at = "list", !.current = senders]
  <2>1. /\ runs[1].at = "users" /\ Goes(1, run)
        /\ UNCHANGED <<users, senders, now, changed, failed>>
    BY <1>1, <1>4 DEF stalwart_new_senders_get, world
  <2>2. /\ run \in RunType /\ run.at = "list" /\ run.now = runs[1].now
        /\ run.missed = runs[1].missed /\ run.wanted = runs[1].wanted /\ run.current = senders
    BY <1>1, <1>2 DEF RunType
  <2>3. \A n \in Names \ run.missed : n \in run.wanted <=> n \in Young(now - Days)
    BY <1>2, <2>1, <2>2 DEF Informed
  <2> HIDE DEF run
  <2> QED
    BY <1>1, <2>1, <2>2, <2>3, RunStep
<1> QED
  BY <1>3, <1>4

(* The first run leaves the queue: every other moves up by one place.      *)
LEMMA RunLeaves ==
  ASSUME SendersInv, 1 \in DOMAIN runs, runs' = RemoveAt(runs, 1),
         UNCHANGED <<users, now>>, senders' \subseteq Names, failed' \subseteq Names
  PROVE  /\ SendersTyped' /\ QueueInv'
         /\ \A n \in Names : new_sender(n)' <=> new_sender(n)
         /\ Young(now - Days)' = Young(now - Days)
         /\ \A n \in Names : new_sender(n) /\ n \in runs[1].missed => Owed(n)'
<1>1. runs \in Seq(RunType)
  BY DEF SendersInv, SendersTyped
<1>2. /\ runs' \in Seq(RunType)
      /\ \A i \in DOMAIN runs' : i + 1 \in DOMAIN runs /\ runs'[i] = runs[i + 1]
      /\ \A i \in DOMAIN runs : i # 1 => i - 1 \in DOMAIN runs'
  BY <1>1, FirstDone
<1>3. DOMAIN runs \subseteq Nat \ {0} /\ DOMAIN runs' \subseteq Nat \ {0}
  BY <1>1, <1>2, QueueDomain
<1>4. SendersTyped'
  BY <1>2 DEF SendersInv, SendersTyped
<1>5. Young(now - Days)' = Young(now - Days) /\ \A n : new_sender(n)' <=> new_sender(n)
  BY DEF Young, new_sender
<1>6. ASSUME NEW i \in DOMAIN runs'
      PROVE  Informed(i)' /\ runs'[i].at = "waiting"
  <2>1. i + 1 \in DOMAIN runs /\ i + 1 # 1 /\ runs'[i] = runs[i + 1]
    BY <1>2, <1>3
  <2>2. Informed(i + 1) /\ runs[i + 1].at = "waiting"
    BY <2>1 DEF SendersInv, QueueInv
  <2> QED
    BY <2>1, <2>2 DEF Informed
<1>7. ASSUME NEW j \in DOMAIN runs, j > 1
      PROVE  j - 1 \in DOMAIN runs' /\ runs'[j - 1] = runs[j]
  <2>1. j - 1 \in DOMAIN runs' /\ (j - 1) + 1 = j
    BY <1>2, <1>3, <1>7
  <2> QED
    BY <1>2, <2>1
<1>8. ASSUME NEW n \in Names, new_sender(n) PROVE Followed(n)'
  <2>1. Followed(n)
    BY <1>8 DEF SendersInv, QueueInv
  <2>2. ASSUME NEW i \in DOMAIN runs', n \in runs'[i].missed
        PROVE  \E j \in DOMAIN runs' : j > i /\ n \notin runs'[j].missed
    <3>1. i + 1 \in DOMAIN runs /\ n \in runs[i + 1].missed /\ i \in Nat
      BY <1>2, <1>3, <2>2
    <3>2. PICK j \in DOMAIN runs : j > i + 1 /\ n \notin runs[j].missed
      BY <2>1, <3>1 DEF Followed
    <3>3. j \in Nat /\ j > 1 /\ j - 1 > i
      BY <1>3, <3>1, <3>2
    <3> QED
      BY <1>7, <3>2, <3>3
  <2> QED
    BY <2>2 DEF Followed
<1>9. ASSUME NEW n \in Names, new_sender(n), n \in runs[1].missed PROVE Owed(n)'
  <2>1. Followed(n)
    BY <1>9 DEF SendersInv, QueueInv
  <2>2. PICK j \in DOMAIN runs : j > 1 /\ n \notin runs[j].missed
    BY <1>9, <2>1 DEF Followed
  <2> QED
    BY <1>7, <2>2 DEF Owed
<1> QED
  BY <1>4, <1>5, <1>6, <1>8, <1>9 DEF QueueInv

LEMMA ChangeKeeps ==
  ASSUME SendersInv, NEW i \in DOMAIN runs, stalwart_new_senders_change(i)
  PROVE  SendersInv'
<1>1. /\ i = 1 /\ runs[1].at = "list" /\ runs' = RemoveAt(runs, 1)
      /\ senders' = (senders \cup Additions(runs[1])) \ Removals(runs[1])
      /\ changed' = runs[1].missed /\ failed' = failed \cap runs[1].missed
      /\ UNCHANGED <<users, now>>
  BY DEF stalwart_new_senders_change, MyTurn, world
<1>2. /\ runs \in Seq(RunType) /\ senders \subseteq Names /\ failed \subseteq Names
      /\ runs[1] \in RunType /\ Informed(1)
  <2>1. runs \in Seq(RunType) /\ senders \subseteq Names /\ failed \subseteq Names
    BY DEF SendersInv, SendersTyped
  <2> QED
    BY <1>1, <2>1, QueueDomain DEF SendersInv, QueueInv
<1>3. /\ runs[1].current = senders /\ runs[1].wanted \subseteq Names
      /\ \A n \in Names \ runs[1].missed : n \in runs[1].wanted <=> n \in Young(now - Days)
  BY <1>1, <1>2 DEF Informed, RunType
<1>4. senders' = runs[1].wanted
  BY <1>1, <1>3 DEF Additions, Removals
<1>5. /\ SendersTyped' /\ QueueInv'
      /\ \A n \in Names : new_sender(n)' <=> new_sender(n)
      /\ Young(now - Days)' = Young(now - Days)
      /\ \A n \in Names : new_sender(n) /\ n \in runs[1].missed => Owed(n)'
  BY <1>1, <1>2, <1>3, <1>4, RunLeaves
<1>6. ASSUME NEW n \in Names, new_sender(n)', n \notin senders' PROVE Owed(n)'
  <2>1. new_sender(n) /\ n \in Young(now - Days)
    BY <1>5, <1>6 DEF new_sender, Young
  <2>2. n \in runs[1].missed
    BY <1>3, <1>4, <1>6, <2>1
  <2> QED
    BY <1>5, <2>1, <2>2
<1>7. senders' \ Young(now - Days)' \subseteq changed'
  BY <1>1, <1>3, <1>4, <1>5
<1> QED
  BY <1>5, <1>6, <1>7 DEF SendersInv, NewSendersHeld

LEMMA FailureKeeps ==
  ASSUME SendersInv, NEW i \in DOMAIN runs, RunFails(i)
  PROVE  SendersInv'
<1>1. /\ i = 1 /\ runs' = RemoveAt(runs, 1) /\ failed' = Names
      /\ UNCHANGED <<users, now, changed>>
      /\ \/ UNCHANGED senders
         \/ \E add \in SUBSET Additions(runs[1]), remove \in SUBSET Removals(runs[1]) :
              senders' = (senders \cup add) \ remove
  BY DEF RunFails, MyTurn, world
<1>2. /\ runs[1] \in RunType /\ senders \subseteq Names
  BY <1>1, QueueDomain DEF SendersInv, SendersTyped
<1>3. Additions(runs[1]) \subseteq Names
  BY <1>2 DEF Additions, RunType
<1>4. senders' \subseteq Names
  BY <1>1, <1>2, <1>3
<1>5. SendersTyped' /\ QueueInv'
  BY <1>1, <1>4, RunLeaves
<1>6. NewSendersHeld'
  BY <1>1, <1>4 DEF NewSendersHeld
<1> QED
  BY <1>5, <1>6 DEF SendersInv

LEMMA SendersCrashKeeps == SendersInv /\ NCrash => SendersInv'
<1> SUFFICES ASSUME SendersInv, NCrash PROVE SendersInv'
  OBVIOUS
<1>1. /\ runs' = <<Run>> /\ UNCHANGED <<users, senders, now, changed, failed>> /\ now \in Nat
  BY DEF NCrash, world, SendersInv, SendersTyped
<1>2. /\ Run \in RunType /\ Run.missed = {} /\ Run.at = "waiting" /\ Run.now = now
  BY <1>1, RunFresh
<1>3. runs' \in Seq(RunType) /\ DOMAIN runs' = {1} /\ runs'[1] = Run
  BY <1>1, <1>2
<1>4. SendersTyped'
  BY <1>1, <1>3 DEF SendersInv, SendersTyped
<1>5. Young(now - Days)' = Young(now - Days) /\ \A n : new_sender(n)' <=> new_sender(n)
  BY <1>1 DEF Young, new_sender
<1>6. Informed(1)'
  BY <1>1, <1>2, <1>3 DEF Informed
<1>7. QueueInv'
  BY <1>2, <1>3, <1>6 DEF QueueInv, Followed
<1>8. \A n : Owed(n)'
  BY <1>2, <1>3 DEF Owed
<1>9. NewSendersHeld'
  BY <1>1, <1>5, <1>8 DEF SendersInv, NewSendersHeld
<1> QED
  BY <1>4, <1>7, <1>9 DEF SendersInv

-----------------------------------------------------------------------------
LEMMA SendersStep == SendersInv /\ [NNext]_nvars => SendersInv'
<1> SUFFICES ASSUME SendersInv, [NNext]_nvars PROVE SendersInv'
  OBVIOUS
<1>1. ASSUME NEW n \in Names,
             \/ SignupInserts(n) \/ SignupActivates(n) \/ SignupRollsBack(n)
             \/ user_delete(n) \/ user_deletions_finish(n)
      PROVE  SendersInv'
  BY <1>1, AccountsKeep
<1>2. CASE Tick \/ sync_new_senders \/ NCrash
  BY <1>2, TickKeeps, TimerKeeps, SendersCrashKeeps
<1>3. ASSUME NEW i \in DOMAIN runs, ReadUsers(i) \/ stalwart_new_senders_get(i)
      PROVE  SendersInv'
  BY <1>3, LookingKeeps
<1>4. ASSUME NEW i \in DOMAIN runs, stalwart_new_senders_change(i) PROVE SendersInv'
  BY <1>4, ChangeKeeps
<1>5. ASSUME NEW i \in DOMAIN runs, RunFails(i) PROVE SendersInv'
  BY <1>5, FailureKeeps
<1>6. CASE UNCHANGED nvars
  <2>1. UNCHANGED <<users, senders, runs, now, changed, failed>>
    BY <1>6 DEF nvars
  <2>2. SendersTyped'
    BY <2>1 DEF SendersInv, SendersTyped
  <2>3. Young(now - Days)' = Young(now - Days) /\ \A n : new_sender(n)' <=> new_sender(n)
    BY <2>1 DEF Young, new_sender
  <2>4. \A i \in DOMAIN runs : Informed(i)' <=> Informed(i)
    BY <2>1, <2>3 DEF Informed
  <2>5. QueueInv'
    BY <2>1, <2>3, <2>4 DEF SendersInv, QueueInv, Followed
  <2>6. NewSendersHeld'
    BY <2>1, <2>3 DEF SendersInv, NewSendersHeld, Owed
  <2> QED
    BY <2>2, <2>5, <2>6 DEF SendersInv
<1> QED
  BY <1>1, <1>2, <1>3, <1>4, <1>5, <1>6 DEF NNext

(***************************************************************************)
(* A new account that is not on the list of new senders has a run to come  *)
(* that will put it there, or one failed; no run that overlaps with its    *)
(* signup takes it off again.  An address that is no longer new stays on   *)
(* the list only when it changed after the last run that came through had  *)
(* looked, or one failed since (sync_new_senders).                         *)
(***************************************************************************)
THEOREM NewSendersHeldAlways == NSpec => []NewSendersHeld
<1>1. SendersInv => NewSendersHeld
  BY DEF SendersInv
<1> QED
  BY SendersInit, SendersStep, <1>1, PTL DEF NSpec

-----------------------------------------------------------------------------
(* Signing in from several tabs (module SignIn).                           *)

Following ==
  {"auth", "login", "resume", "callback", "refused", "storing", "stored", "failed"}
TabPlaces == Following \cup {"out", "home", "ending", "ended"}

TabType == [at : TabPlaces, flow : Nat, ending : Nat]
Accounts == Users \cup {Nobody}
FlowType == [tab : Tabs, login : Accounts, account : Accounts, sid : Nat,
             code : {"none", "issued", "used", "expired"}]

SignInTyped ==
  /\ tab \in [Tabs -> TabType]
  /\ flows \in [DOMAIN flows -> FlowType] /\ \E k \in Nat : DOMAIN flows = 1 .. k
  /\ cookies \in [auth : Nat, session : Nat]
  /\ provider \in [sid : Nat, account : Accounts, next : Nat]

(* Numbers of provider sessions are not used again. *)
SidInv ==
  /\ provider.next > 0 /\ \A s \in ended : s \in Nat /\ 0 < s /\ s < provider.next
  /\ provider.account # Nobody =>
       /\ 0 < provider.sid /\ provider.sid < provider.next /\ provider.sid \notin ended

(* The account of that provider session logged in to some flow. *)
Proven(account, sid) ==
  \E g \in DOMAIN flows : flows[g].login = account /\ flows[g].sid = sid

FlowProven(f) == flows[f].sid # 0 => Proven(flows[f].account, flows[f].sid)
ProviderProven == provider.account # Nobody => Proven(provider.account, provider.sid)
RowProven(f) ==
  web_sessions[f].sid # 0 /\ Proven(web_sessions[f].id_user, web_sessions[f].sid)

ProvenInv ==
  /\ \A f \in DOMAIN flows : FlowProven(f)
  /\ ProviderProven /\ \A f \in DOMAIN web_sessions : RowProven(f)

(* A tab and its flow. *)
TabInv(t) ==
  /\ tab[t].at \in Following => Flow(t) \in DOMAIN flows /\ flows[Flow(t)].tab = t
  /\ tab[t].at \in {"auth", "login", "resume"} => flows[Flow(t)].sid = 0
  /\ tab[t].at = "resume" => flows[Flow(t)].login \in Users
  /\ tab[t].at \in {"callback", "storing"} => flows[Flow(t)].sid # 0

(* Unless something disturbed it, its flow will be let through. *)
FateInv(t) ==
  /\ tab[t].at \in {"failed", "refused"} => Flow(t) \in disturbed
  /\ Flow(t) \notin disturbed =>
       /\ tab[t].at \in {"auth", "login", "resume", "callback"} => cookies.auth = Flow(t)
       /\ tab[t].at = "callback" => CodeAccepted(Flow(t))

(* A logout is still going on that will take the rows of a session. *)
Ending(sid) == \E t \in Tabs : tab[t].at = "ended" /\ tab[t].ending = sid

LogoutInv ==
  /\ \A f \in DOMAIN web_sessions :
       web_sessions[f].sid \in ended => f \in raced \/ Ending(web_sessions[f].sid)
  /\ \A t \in Tabs : tab[t].at = "storing" /\ flows[Flow(t)].sid \in ended =>
       Flow(t) \in raced \/ Ending(flows[Flow(t)].sid)

SignInInv ==
  /\ SignInTyped /\ SidInv /\ ProvenInv /\ LogoutInv
  /\ \A t \in Tabs : TabInv(t) /\ FateInv(t)

-----------------------------------------------------------------------------
LEMMA TabMoves ==
  ASSUME SignInTyped, NEW t \in Tabs, NEW place \in TabPlaces, Go(t, place)
  PROVE  /\ tab' \in [Tabs -> TabType]
         /\ tab'[t].at = place /\ tab'[t].flow = tab[t].flow /\ tab'[t].ending = tab[t].ending
         /\ \A u \in Tabs : u # t => tab'[u] = tab[u]
BY DEF Go, SignInTyped, TabType

LEMMA FlowWritten ==
  ASSUME SignInTyped, NEW f \in DOMAIN flows, NEW new \in FlowType,
         flows' = [flows EXCEPT ![f] = new]
  PROVE  /\ flows' \in [DOMAIN flows' -> FlowType] /\ DOMAIN flows' = DOMAIN flows
         /\ flows'[f] = new /\ \A g \in DOMAIN flows : g # f => flows'[g] = flows[g]
BY DEF SignInTyped

LEMMA FlowNumbers == SignInTyped => 0 \notin DOMAIN flows
BY DEF SignInTyped

(* What was proven of a provider session stays so.                         *)
LEMMA ProvenStays ==
  ASSUME DOMAIN flows \subseteq DOMAIN flows',
         \A f \in DOMAIN flows : flows[f].sid # 0 =>
           flows'[f].login = flows[f].login /\ flows'[f].sid = flows[f].sid
  PROVE  \A a, s : s # 0 /\ Proven(a, s) => Proven(a, s)'
BY DEF Proven

(* A tab that does not move, and whose flow nobody touches.                *)
LEMMA OtherTab ==
  ASSUME SignInInv, NEW u \in Tabs, tab'[u] = tab[u], DOMAIN flows \subseteq DOMAIN flows',
         \A f \in DOMAIN flows : flows[f].tab = u => flows'[f] = flows[f],
         disturbed \subseteq disturbed',
         \/ cookies'.auth = cookies.auth \/ cookies.auth \in disturbed'
         \/ cookies.auth \notin DOMAIN flows \/ flows[cookies.auth].tab # u,
         \A f \in DOMAIN flows : flows[f].sid \in ended' => flows[f].sid \in ended \/ f \in disturbed'
  PROVE  /\ TabInv(u)' /\ FateInv(u)'
         /\ tab[u].at \in Following => flows'[Flow(u)] = flows[Flow(u)]
<1>1. TabInv(u) /\ FateInv(u) /\ tab'[u].flow = Flow(u) /\ Flow(u)' = Flow(u)
  BY DEF SignInInv, Flow
<1>2. tab[u].at \in Following => /\ Flow(u) \in DOMAIN flows /\ flows[Flow(u)].tab = u
                                 /\ flows'[Flow(u)] = flows[Flow(u)]
                                 /\ Flow(u) \in DOMAIN flows'
  BY <1>1 DEF TabInv
<1>3. TabInv(u)'
  BY <1>1, <1>2 DEF TabInv, Following
<1>4. ASSUME Flow(u) \notin disturbed', tab[u].at \in {"auth", "login", "resume", "callback"}
      PROVE  cookies'.auth = Flow(u)
  <2>1. Flow(u) \notin disturbed /\ cookies.auth = Flow(u)
    BY <1>1, <1>4 DEF FateInv
  <2> QED
    BY <1>2, <1>4, <2>1 DEF Following
<1>5. ASSUME Flow(u) \notin disturbed', tab[u].at = "callback"
      PROVE  CodeAccepted(Flow(u))'
  <2>1. CodeAccepted(Flow(u))
    BY <1>1, <1>5 DEF FateInv
  <2> QED
    BY <1>1, <1>2, <1>5, <2>1 DEF CodeAccepted, Following
<1>6. FateInv(u)'
  BY <1>1, <1>4, <1>5 DEF FateInv
<1> QED
  BY <1>2, <1>3, <1>6

(* Rows come from a callback that was storing; logouts go on.              *)
LEMMA LogoutKept ==
  ASSUME SignInInv, ended' = ended, raced \subseteq raced',
         \A t \in Tabs : tab[t].at = "ended" => tab'[t] = tab[t],
         \A f \in DOMAIN web_sessions' :
           \/ f \in DOMAIN web_sessions /\ web_sessions'[f] = web_sessions[f]
           \/ \E t \in Tabs : /\ tab[t].at = "storing" /\ f = Flow(t)
                              /\ web_sessions'[f].sid = flows[f].sid,
         \A t \in Tabs : tab'[t].at = "storing" =>
           \/ /\ tab[t].at = "storing" /\ Flow(t)' = Flow(t)
              /\ flows'[Flow(t)].sid = flows[Flow(t)].sid
           \/ flows'[tab'[t].flow].sid \notin ended
  PROVE  LogoutInv'
<1>1. \A s : Ending(s) => Ending(s)'
  BY DEF Ending
<1>2. ASSUME NEW f \in DOMAIN web_sessions', NEW s, s = web_sessions'[f].sid, s \in ended'
      PROVE  f \in raced' \/ Ending(s)'
  <2>1. CASE f \in DOMAIN web_sessions /\ web_sessions'[f] = web_sessions[f]
    <3>1. f \in raced \/ Ending(s)
      BY <1>2, <2>1 DEF SignInInv, LogoutInv
    <3> QED
      BY <1>1, <3>1
  <2>2. ASSUME NEW t \in Tabs, tab[t].at = "storing", f = Flow(t), s = flows[f].sid
        PROVE  f \in raced' \/ Ending(s)'
    <3>1. f \in raced \/ Ending(s)
      BY <1>2, <2>2 DEF SignInInv, LogoutInv
    <3> QED
      BY <1>1, <3>1
  <2> QED
    BY <1>2, <2>1, <2>2
<1>3. ASSUME NEW t \in Tabs, tab'[t].at = "storing",
             NEW f, f = tab'[t].flow, NEW s, s = flows'[f].sid, s \in ended'
      PROVE  f \in raced' \/ Ending(s)'
  <2>1. tab[t].at = "storing" /\ Flow(t) = f /\ flows[f].sid = s
    BY <1>3 DEF Flow
  <2>2. f \in raced \/ Ending(s)
    BY <1>3, <2>1 DEF SignInInv, LogoutInv
  <2> QED
    BY <1>1, <2>2
<1> QED
  BY <1>2, <1>3 DEF LogoutInv, Ending, Flow

(* A step of tab t: it writes its own flow, or starts one, and the shared  *)
(* cookies and provider session.                                           *)
LEMMA TabStep ==
  ASSUME SignInInv, NEW t \in Tabs,
         tab' \in [Tabs -> TabType], \A u \in Tabs : u # t => tab'[u] = tab[u],
         tab[t].at = "ended" => tab'[t] = tab[t],
         flows' \in [DOMAIN flows' -> FlowType], \E k \in Nat : DOMAIN flows' = 1 .. k,
         DOMAIN flows \subseteq DOMAIN flows',
         \A f \in DOMAIN flows : flows'[f] = flows[f] \/ flows[f].tab = t,
         \A f \in DOMAIN flows : flows[f].sid # 0 =>
           /\ flows'[f].login = flows[f].login /\ flows'[f].sid = flows[f].sid
           /\ flows'[f].account = flows[f].account,
         \A f \in DOMAIN flows' : (f \in DOMAIN flows /\ flows[f].sid # 0) \/ FlowProven(f)',
         cookies' \in [auth : Nat, session : Nat],
         \/ cookies'.auth = cookies.auth \/ cookies.auth \in disturbed'
         \/ cookies.auth \notin DOMAIN flows \/ flows[cookies.auth].tab = t,
         provider' \in [sid : Nat, account : Accounts, next : Nat], SidInv',
         ProviderProven',
         disturbed \subseteq disturbed', ended' = ended, raced' = raced,
         \A f \in DOMAIN web_sessions' :
           \/ f \in DOMAIN web_sessions /\ web_sessions'[f] = web_sessions[f]
           \/ /\ tab[t].at = "storing" /\ f = Flow(t)
              /\ web_sessions'[f] = [id_user |-> flows[f].account, sid |-> flows[f].sid],
         tab'[t].at = "storing" =>
           \/ tab[t].at = "storing" /\ tab'[t].flow = tab[t].flow
           \/ flows'[tab'[t].flow].sid \notin ended,
         TabInv(t)', FateInv(t)'
  PROVE  SignInInv'
<1>1. \A a, s : s # 0 /\ Proven(a, s) => Proven(a, s)'
  <2>1. \A f \in DOMAIN flows : flows[f].sid # 0 =>
          flows'[f].login = flows[f].login /\ flows'[f].sid = flows[f].sid
    OBVIOUS
  <2> QED
    BY <2>1, ProvenStays
<1>2. SignInTyped'
  BY DEF SignInTyped
<1>3. ASSUME NEW f \in DOMAIN flows' PROVE FlowProven(f)'
  <2>1. SUFFICES ASSUME f \in DOMAIN flows, flows[f].sid # 0,
                        NEW a, NEW s, a = flows[f].account, s = flows[f].sid
                 PROVE  Proven(a, s)'
    BY <1>3, SMTT(30) DEF FlowProven, Proven
  <2>2. Proven(a, s)
    BY <2>1 DEF SignInInv, ProvenInv, FlowProven
  <2> QED
    BY <1>1, <2>1, <2>2
<1>4. ASSUME NEW f \in DOMAIN web_sessions' PROVE RowProven(f)'
  <2>1. CASE f \in DOMAIN web_sessions /\ web_sessions'[f] = web_sessions[f]
    <3>1. RowProven(f)
      BY <2>1 DEF SignInInv, ProvenInv
    <3>2. SUFFICES ASSUME NEW a, NEW s, a = web_sessions[f].id_user, s = web_sessions[f].sid
                   PROVE  s # 0 /\ Proven(a, s)'
      BY <2>1 DEF RowProven, Proven
    <3>3. s # 0 /\ Proven(a, s)
      BY <3>1, <3>2 DEF RowProven
    <3> QED
      BY <1>1, <3>3
  <2>2. CASE /\ tab[t].at = "storing" /\ f = Flow(t)
             /\ web_sessions'[f] = [id_user |-> flows[f].account, sid |-> flows[f].sid]
    <3>1. TabInv(t)
      BY DEF SignInInv
    <3>2. f \in DOMAIN flows /\ flows[f].sid # 0
      BY <2>2, <3>1 DEF TabInv, Following
    <3>3. SUFFICES ASSUME NEW a, NEW s, a = flows[f].account, s = flows[f].sid
                   PROVE  s # 0 /\ Proven(a, s)'
      BY <2>2, SMTT(30) DEF RowProven, Proven
    <3>4. FlowProven(f)
      BY <3>2 DEF SignInInv, ProvenInv
    <3> QED
      BY <1>1, <3>2, <3>3, <3>4 DEF FlowProven
  <2> QED
    BY <1>4, <2>1, <2>2
<1>5. ProvenInv'
  BY <1>3, <1>4 DEF ProvenInv
<1>6. ASSUME NEW u \in Tabs, u # t
      PROVE  /\ TabInv(u)' /\ FateInv(u)'
             /\ tab[u].at \in Following => flows'[Flow(u)] = flows[Flow(u)]
  <2>1. tab'[u] = tab[u] /\ \A f \in DOMAIN flows : flows[f].tab = u => flows'[f] = flows[f]
    BY <1>6
  <2>2. \/ cookies'.auth = cookies.auth \/ cookies.auth \in disturbed'
        \/ cookies.auth \notin DOMAIN flows \/ flows[cookies.auth].tab # u
    BY <1>6
  <2> QED
    BY <2>1, <2>2, OtherTab
<1>7. LogoutInv'
  <2>1. \A f \in DOMAIN web_sessions' :
          \/ f \in DOMAIN web_sessions /\ web_sessions'[f] = web_sessions[f]
          \/ \E u \in Tabs : /\ tab[u].at = "storing" /\ f = Flow(u)
                             /\ web_sessions'[f].sid = flows[f].sid
    OBVIOUS
  <2>2. ASSUME NEW u \in Tabs, tab'[u].at = "storing"
        PROVE  \/ /\ tab[u].at = "storing" /\ Flow(u)' = Flow(u)
                  /\ flows'[Flow(u)].sid = flows[Flow(u)].sid
               \/ flows'[tab'[u].flow].sid \notin ended
    <3>1. CASE u = t
      <4>1. SUFFICES ASSUME tab[t].at = "storing", tab'[t].flow = tab[t].flow
                     PROVE  flows'[Flow(t)].sid = flows[Flow(t)].sid
        BY <2>2, <3>1 DEF Flow
      <4>2. TabInv(t)
        BY DEF SignInInv
      <4>3. Flow(t) \in DOMAIN flows /\ flows[Flow(t)].sid # 0
        BY <4>1, <4>2 DEF TabInv, Following
      <4> QED
        BY <4>3
    <3>2. CASE u # t
      <4>1. tab'[u] = tab[u] /\ tab[u].at = "storing" /\ "storing" \in Following
        BY <2>2, <3>2 DEF Following
      <4> QED
        BY <1>6, <3>2, <4>1 DEF Flow
    <3> QED
      BY <3>1, <3>2
  <2>3. \A u \in Tabs : tab[u].at = "ended" => tab'[u] = tab[u]
    OBVIOUS
  <2> QED
    BY <2>1, <2>2, <2>3, LogoutKept
<1> QED
  BY <1>2, <1>5, <1>6, <1>7 DEF SignInInv

-----------------------------------------------------------------------------
(* The provider's session, where a step leaves it as it is.                *)
LEMMA ProviderKept ==
  ASSUME SignInInv, provider' = provider, ended' = ended, DOMAIN flows \subseteq DOMAIN flows',
         \A f \in DOMAIN flows : flows[f].sid # 0 =>
           flows'[f].login = flows[f].login /\ flows'[f].sid = flows[f].sid
  PROVE  SidInv' /\ ProviderProven' /\ provider' \in [sid : Nat, account : Accounts, next : Nat]
<1>1. SidInv'
  BY DEF SignInInv, SidInv
<1>2. ProviderProven'
  <2>1. SUFFICES ASSUME provider.account # Nobody,
                        NEW a, NEW s, a = provider.account, s = provider.sid
                 PROVE  Proven(a, s)'
    BY DEF ProviderProven, Proven
  <2>2. Proven(a, s) /\ s # 0
    BY <2>1 DEF SignInInv, ProvenInv, ProviderProven, SidInv
  <2> QED
    BY <2>2, ProvenStays
<1> QED
  BY <1>1, <1>2 DEF SignInInv, SignInTyped

(* A tab whose sign-in is over, or was.                                    *)
LEMMA TabGoes ==
  ASSUME SignInInv, NEW t \in Tabs, NEW place \in {"failed", "home", "out", "ending", "stored"},
         tab[t].at # "ended", Go(t, place),
         UNCHANGED <<flows, provider, ended, raced>>,
         cookies' \in [auth : Nat, session : Nat],
         \/ cookies'.auth = cookies.auth \/ cookies.auth \in disturbed'
         \/ cookies.auth \notin DOMAIN flows \/ flows[cookies.auth].tab = t,
         disturbed \subseteq disturbed',
         place = "failed" => tab[t].at \in Following /\ Flow(t) \in disturbed',
         place = "stored" => tab[t].at \in Following,
         \A f \in DOMAIN web_sessions' :
           \/ f \in DOMAIN web_sessions /\ web_sessions'[f] = web_sessions[f]
           \/ /\ tab[t].at = "storing" /\ f = Flow(t)
              /\ web_sessions'[f] = [id_user |-> flows[f].account, sid |-> flows[f].sid]
  PROVE  SignInInv'
<1>1. SignInTyped /\ TabInv(t) /\ place \in TabPlaces
  BY DEF SignInInv, TabPlaces, Following
<1>2. /\ tab' \in [Tabs -> TabType] /\ \A u \in Tabs : u # t => tab'[u] = tab[u]
      /\ tab'[t].at = place /\ Flow(t)' = Flow(t)
  BY <1>1, TabMoves DEF Flow
<1>3. /\ flows' \in [DOMAIN flows' -> FlowType] /\ \E k \in Nat : DOMAIN flows' = 1 .. k
      /\ DOMAIN flows' = DOMAIN flows /\ \A f \in DOMAIN flows : flows'[f] = flows[f]
  BY <1>1 DEF SignInTyped
<1>4. SidInv' /\ ProviderProven' /\ provider' \in [sid : Nat, account : Accounts, next : Nat]
  BY <1>3, ProviderKept
<1>5. TabInv(t)'
  BY <1>1, <1>2, <1>3 DEF TabInv, Following
<1>6. FateInv(t)'
  BY <1>2 DEF FateInv
<1>7. \A f \in DOMAIN flows' : (f \in DOMAIN flows /\ flows[f].sid # 0) \/ FlowProven(f)'
  BY <1>3 DEF FlowProven
<1>8. tab'[t].at # "storing" /\ ended' = ended /\ raced' = raced
  BY <1>2
<1> QED
  BY <1>2, <1>3, <1>4, <1>5, <1>6, <1>7, <1>8, TabStep

(* SetAuth in an answer of the flow of tab t spares the other tabs or is   *)
(* what disturbs them.                                                     *)
LEMMA AuthSet ==
  ASSUME SignInInv, NEW value \in Nat, NEW f, SetAuth(value, f)
  PROVE  /\ cookies' \in [auth : Nat, session : Nat] /\ cookies'.auth = value
         /\ cookies.auth \in disturbed' \/ cookies.auth \notin DOMAIN flows \/ cookies.auth = f
         /\ disturbed \subseteq disturbed'
<1>1. SignInTyped /\ 0 \notin DOMAIN flows
  BY FlowNumbers DEF SignInInv
<1> QED
  BY <1>1 DEF SetAuth, SignInTyped, NoFlow

LEMMA RefusalHolds ==
  ASSUME SignInInv, NEW t \in Tabs, CallbackRefused(t) \/ ExchangeRefused(t)
  PROVE  SignInInv'
<1>1. TabInv(t) /\ FateInv(t) /\ tab[t].at \in Following /\ tab[t].at # "ended"
  BY DEF SignInInv, CallbackRefused, ExchangeRefused, Following
<1>2. Flow(t) \in DOMAIN flows /\ flows[Flow(t)].tab = t
  BY <1>1 DEF TabInv
<1>3. /\ Go(t, "failed") /\ SetAuth(NoFlow, Flow(t))
      /\ UNCHANGED <<flows, provider, ended, raced>> /\ web_sessions' = web_sessions
  BY DEF CallbackRefused, ExchangeRefused
<1>4. /\ cookies' \in [auth : Nat, session : Nat] /\ disturbed \subseteq disturbed'
      /\ cookies.auth \in disturbed' \/ cookies.auth \notin DOMAIN flows \/ cookies.auth = Flow(t)
  BY <1>3, AuthSet DEF NoFlow
<1>5. Flow(t) \in disturbed
  BY <1>1 DEF FateInv, CallbackRefused, ExchangeRefused, StateFits
<1> QED
  BY <1>1, <1>2, <1>3, <1>4, <1>5, TabGoes

LEMMA LeaveHolds ==
  ASSUME SignInInv, NEW t \in Tabs,
         SignedIn(t) \/ CallbackFails(t) \/ InteractionExpires(t) \/ NothingToEnd(t)
  PROVE  SignInInv'
<1>1. TabInv(t) /\ FateInv(t) /\ SignInTyped /\ 0 \notin DOMAIN flows
  BY FlowNumbers DEF SignInInv
<1>2. CASE SignedIn(t)
  <2>1. Flow(t) \in DOMAIN flows /\ flows[Flow(t)].tab = t /\ tab[t].at # "ended"
    BY <1>1, <1>2 DEF TabInv, SignedIn, Following
  <2>2. Flow(t) \in Nat
    BY <1>1 DEF SignInTyped, TabType, Flow
  <2>3. /\ cookies' \in [auth : Nat, session : Nat] /\ disturbed \subseteq disturbed'
        /\ cookies.auth \in disturbed' \/ cookies.auth \notin DOMAIN flows \/ cookies.auth = Flow(t)
    BY <1>1, <1>2, <2>2 DEF SignedIn, NoFlow
  <2>4. /\ Go(t, "home") /\ UNCHANGED <<flows, provider, ended, raced>>
        /\ web_sessions' = web_sessions
    BY <1>2 DEF SignedIn
  <2> QED
    BY <2>1, <2>3, <2>4, TabGoes
<1>3. CASE CallbackFails(t) \/ InteractionExpires(t)
  <2>1. /\ Go(t, "failed") /\ UNCHANGED <<flows, provider, ended, raced>>
        /\ web_sessions' = web_sessions /\ cookies' = cookies
        /\ disturbed \subseteq disturbed' /\ Flow(t) \in disturbed'
        /\ tab[t].at \in Following /\ tab[t].at # "ended"
    BY <1>3 DEF CallbackFails, InteractionExpires, Following
  <2>2. cookies' \in [auth : Nat, session : Nat]
    BY <1>1, <2>1 DEF SignInTyped
  <2> QED
    BY <2>1, <2>2, TabGoes
<1>4. CASE NothingToEnd(t)
  <2>1. /\ Go(t, "out") /\ UNCHANGED <<flows, provider, ended, raced>>
        /\ web_sessions' = web_sessions /\ cookies' = cookies /\ disturbed' = disturbed
        /\ tab[t].at # "ended"
    BY <1>4 DEF NothingToEnd
  <2>2. cookies' \in [auth : Nat, session : Nat]
    BY <1>1, <2>1 DEF SignInTyped
  <2> QED
    BY <2>1, <2>2, TabGoes
<1> QED
  BY <1>2, <1>3, <1>4

LEMMA StoringHolds ==
  ASSUME SignInInv, NEW t \in Tabs, StoreSession(t) \/ session_logout(t)
  PROVE  SignInInv'
<1>1. SignInTyped
  BY DEF SignInInv
<1>2. CASE StoreSession(t)
  <2>1. /\ Go(t, "stored") /\ UNCHANGED <<flows, provider, ended, raced>>
        /\ cookies' = cookies /\ disturbed' = disturbed
        /\ tab[t].at = "storing" /\ tab[t].at \in Following
    BY <1>2 DEF StoreSession, Following
  <2>2. cookies' \in [auth : Nat, session : Nat]
    BY <1>1, <2>1 DEF SignInTyped
  <2>3. \A f \in DOMAIN web_sessions' :
          \/ f \in DOMAIN web_sessions /\ web_sessions'[f] = web_sessions[f]
          \/ /\ tab[t].at = "storing" /\ f = Flow(t)
             /\ web_sessions'[f] = [id_user |-> flows[f].account, sid |-> flows[f].sid]
    BY <1>2 DEF StoreSession
  <2> QED
    BY <2>1, <2>2, <2>3, TabGoes
<1>3. CASE session_logout(t)
  <2>1. /\ Go(t, "ending") /\ UNCHANGED <<flows, provider, ended, raced>>
        /\ disturbed' = disturbed /\ tab[t].at = "home"
    BY <1>3 DEF session_logout
  <2>2. cookies' \in [auth : Nat, session : Nat] /\ cookies'.auth = cookies.auth
    BY <1>1, <1>3 DEF SignInTyped, session_logout, NoFlow
  <2>3. \A f \in DOMAIN web_sessions' :
          f \in DOMAIN web_sessions /\ web_sessions'[f] = web_sessions[f]
    BY <1>3 DEF session_logout
  <2> QED
    BY <2>1, <2>2, <2>3, TabGoes
<1> QED
  BY <1>2, <1>3

(* A tab writes its own flow: a step that changes no shared state.         *)
LEMMA OwnFlowWritten ==
  ASSUME SignInInv, NEW t \in Tabs, tab[t].at \in Following, NEW new \in FlowType,
         flows' = [flows EXCEPT ![Flow(t)] = new],
         flows[Flow(t)].sid # 0 => /\ new.login = flows[Flow(t)].login
                                   /\ new.account = flows[Flow(t)].account
                                   /\ new.sid = flows[Flow(t)].sid
  PROVE  /\ flows' \in [DOMAIN flows' -> FlowType] /\ \E k \in Nat : DOMAIN flows' = 1 .. k
         /\ DOMAIN flows' = DOMAIN flows /\ Flow(t) \in DOMAIN flows
         /\ flows[Flow(t)].tab = t /\ flows'[Flow(t)] = new
         /\ \A f \in DOMAIN flows : flows'[f] = flows[f] \/ flows[f].tab = t
         /\ \A f \in DOMAIN flows : flows[f].sid # 0 =>
              /\ flows'[f].login = flows[f].login /\ flows'[f].sid = flows[f].sid
              /\ flows'[f].account = flows[f].account
         /\ \A f \in DOMAIN flows' : f # Flow(t) /\ flows[f].sid = 0 => FlowProven(f)'
<1>1. SignInTyped /\ TabInv(t)
  BY DEF SignInInv
<1>2. Flow(t) \in DOMAIN flows /\ flows[Flow(t)].tab = t
  BY <1>1 DEF TabInv
<1>3. /\ flows' \in [DOMAIN flows' -> FlowType] /\ DOMAIN flows' = DOMAIN flows
      /\ flows'[Flow(t)] = new /\ \A g \in DOMAIN flows : g # Flow(t) => flows'[g] = flows[g]
  BY <1>1, <1>2, FlowWritten
<1>4. \E k \in Nat : DOMAIN flows' = 1 .. k
  BY <1>1, <1>3 DEF SignInTyped
<1>5. \A f \in DOMAIN flows : flows'[f] = flows[f] \/ flows[f].tab = t
  BY <1>2, <1>3
<1>6. \A f \in DOMAIN flows : flows[f].sid # 0 =>
        /\ flows'[f].login = flows[f].login /\ flows'[f].sid = flows[f].sid
        /\ flows'[f].account = flows[f].account
  BY <1>2, <1>3
<1>7. \A f \in DOMAIN flows' : f # Flow(t) /\ flows[f].sid = 0 => FlowProven(f)'
  BY <1>3 DEF FlowProven
<1> QED
  BY <1>2, <1>3, <1>4, <1>5, <1>6, <1>7

LEMMA OwnFlowStep ==
  ASSUME SignInInv, NEW t \in Tabs, tab[t].at \in Following, NEW new \in FlowType,
         flows' = [flows EXCEPT ![Flow(t)] = new],
         flows[Flow(t)].sid # 0 => /\ new.login = flows[Flow(t)].login
                                   /\ new.account = flows[Flow(t)].account
                                   /\ new.sid = flows[Flow(t)].sid,
         flows[Flow(t)].sid = 0 => FlowProven(Flow(t))',
         NEW place \in TabPlaces, Go(t, place),
         provider' \in [sid : Nat, account : Accounts, next : Nat], SidInv', ProviderProven',
         disturbed \subseteq disturbed', UNCHANGED <<cookies, web_sessions, ended, raced>>,
         place = "storing" => new.sid \notin ended,
         TabInv(t)', FateInv(t)'
  PROVE  SignInInv'
<1>1. /\ flows' \in [DOMAIN flows' -> FlowType] /\ \E k \in Nat : DOMAIN flows' = 1 .. k
      /\ DOMAIN flows' = DOMAIN flows /\ Flow(t) \in DOMAIN flows
      /\ flows[Flow(t)].tab = t /\ flows'[Flow(t)] = new
      /\ \A f \in DOMAIN flows : flows'[f] = flows[f] \/ flows[f].tab = t
      /\ \A f \in DOMAIN flows : flows[f].sid # 0 =>
           /\ flows'[f].login = flows[f].login /\ flows'[f].sid = flows[f].sid
           /\ flows'[f].account = flows[f].account
      /\ \A f \in DOMAIN flows' : f # Flow(t) /\ flows[f].sid = 0 => FlowProven(f)'
  BY OwnFlowWritten
<1>2. SignInTyped
  BY DEF SignInInv
<1>3. /\ tab' \in [Tabs -> TabType] /\ \A u \in Tabs : u # t => tab'[u] = tab[u]
      /\ tab'[t].at = place /\ tab'[t].flow = Flow(t)
  BY <1>2, TabMoves DEF Flow
<1>4. tab[t].at # "ended"
  BY DEF Following
<1>5. cookies' \in [auth : Nat, session : Nat] /\ cookies'.auth = cookies.auth
  BY <1>2 DEF SignInTyped
<1>6. \A f \in DOMAIN flows' : (f \in DOMAIN flows /\ flows[f].sid # 0) \/ FlowProven(f)'
  BY <1>1, <1>3 DEF Flow, FlowProven
<1>7. \A f \in DOMAIN web_sessions' : f \in DOMAIN web_sessions /\ web_sessions'[f] = web_sessions[f]
  OBVIOUS
<1>8. tab'[t].at = "storing" => flows'[tab'[t].flow].sid \notin ended
  BY <1>1, <1>3
<1> QED
  BY <1>1, <1>3, <1>4, <1>5, <1>6, <1>7, <1>8, TabStep

LEMMA ExchangeHolds ==
  ASSUME SignInInv, NEW t \in Tabs, ExchangeCode(t) \/ ExchangeFails(t)
  PROVE  SignInInv'
<1> DEFINE new == [flows[Flow(t)] EXCEPT !.code = "used"]
<1>1. SignInTyped /\ TabInv(t) /\ FateInv(t)
  BY DEF SignInInv
<1>2. tab[t].at = "callback" /\ tab[t].at \in Following
  BY DEF ExchangeCode, ExchangeFails, Following
<1>3. Flow(t) \in DOMAIN flows /\ flows[Flow(t)] \in FlowType /\ flows[Flow(t)].sid # 0
      /\ flows[Flow(t)].tab = t
  BY <1>1, <1>2 DEF TabInv, SignInTyped
<1>4. /\ new \in FlowType /\ new.login = flows[Flow(t)].login /\ new.tab = flows[Flow(t)].tab
      /\ new.account = flows[Flow(t)].account /\ new.sid = flows[Flow(t)].sid
  BY <1>3 DEF FlowType
<1>5. /\ flows' = [flows EXCEPT ![Flow(t)] = new] /\ UNCHANGED <<cookies, web_sessions, ended, raced>>
      /\ provider' = provider /\ disturbed \subseteq disturbed'
  BY DEF ExchangeCode, ExchangeFails
<1>6. PICK place \in {"storing", "refused"} :
        /\ Go(t, place)
        /\ place = "storing" => flows[Flow(t)].sid \notin ended
        /\ place = "refused" => Flow(t) \in disturbed'
  <2>1. CASE ExchangeFails(t)
    BY <2>1 DEF ExchangeFails
  <2>2. CASE ExchangeCode(t) /\ CodeAccepted(Flow(t))
    BY <2>2 DEF ExchangeCode, CodeAccepted
  <2>3. CASE ExchangeCode(t) /\ ~CodeAccepted(Flow(t))
    <3>1. Flow(t) \in disturbed
      BY <1>1, <1>2, <2>3 DEF FateInv
    <3> QED
      BY <2>3, <3>1 DEF ExchangeCode
  <2> QED
    BY <2>1, <2>2, <2>3
<1> HIDE DEF new
<1>7. /\ DOMAIN flows' = DOMAIN flows /\ flows'[Flow(t)] = new
      /\ \A f \in DOMAIN flows : flows[f].sid # 0 =>
           flows'[f].login = flows[f].login /\ flows'[f].sid = flows[f].sid
  BY <1>2, <1>4, <1>5, OwnFlowWritten
<1>8. SidInv' /\ ProviderProven' /\ provider' \in [sid : Nat, account : Accounts, next : Nat]
  BY <1>5, <1>7, ProviderKept
<1>9. place \in TabPlaces
  BY DEF TabPlaces, Following
<1>10. tab'[t].at = place /\ Flow(t)' = Flow(t)
  BY <1>1, <1>6, <1>9, TabMoves DEF Flow
<1>11. TabInv(t)'
  BY <1>3, <1>4, <1>7, <1>10 DEF TabInv
<1>12. FateInv(t)'
  BY <1>6, <1>10 DEF FateInv
<1> QED
  BY <1>2, <1>3, <1>4, <1>5, <1>6, <1>8, <1>9, <1>11, <1>12, OwnFlowStep

LEMMA PostLoginHolds ==
  ASSUME SignInInv, NEW t \in Tabs, NEW user \in Users, PostLogin(t, user)
  PROVE  SignInInv'
<1> DEFINE new == [flows[Flow(t)] EXCEPT !.login = user]
<1>1. SignInTyped /\ TabInv(t) /\ FateInv(t)
  BY DEF SignInInv
<1>2. tab[t].at = "login" /\ tab[t].at \in Following
  BY DEF PostLogin, Following
<1>3. Flow(t) \in DOMAIN flows /\ flows[Flow(t)] \in FlowType /\ flows[Flow(t)].sid = 0
      /\ flows[Flow(t)].tab = t
  BY <1>1, <1>2 DEF TabInv, SignInTyped
<1>4. new \in FlowType /\ new.login = user /\ new.tab = t /\ new.sid = 0
  BY <1>3 DEF FlowType, Accounts
<1>5. /\ flows' = [flows EXCEPT ![Flow(t)] = new] /\ UNCHANGED <<cookies, web_sessions, ended, raced>>
      /\ provider' = provider /\ disturbed' = disturbed
  BY DEF PostLogin
<1>6. PICK place \in {"resume", "login"} : Go(t, place)
  <2>1. CASE UNCHANGED tab
    <3>1. tab' = [tab EXCEPT ![t].at = "login"]
      BY <1>1, <1>2, <2>1 DEF SignInTyped, TabType
    <3> QED
      BY <3>1 DEF Go
  <2> QED
    BY <2>1 DEF PostLogin
<1> HIDE DEF new
<1>7. /\ DOMAIN flows' = DOMAIN flows /\ flows'[Flow(t)] = new
      /\ \A f \in DOMAIN flows : flows[f].sid # 0 =>
           flows'[f].login = flows[f].login /\ flows'[f].sid = flows[f].sid
  BY <1>2, <1>3, <1>4, <1>5, OwnFlowWritten
<1>8. SidInv' /\ ProviderProven' /\ provider' \in [sid : Nat, account : Accounts, next : Nat]
  BY <1>5, <1>7, ProviderKept
<1>9. place \in TabPlaces
  BY DEF TabPlaces, Following
<1>10. tab'[t].at = place /\ Flow(t)' = Flow(t)
  BY <1>1, <1>6, <1>9, TabMoves DEF Flow
<1>11. TabInv(t)'
  BY <1>3, <1>4, <1>7, <1>10 DEF TabInv
<1>12. FateInv(t)'
  <2>1. Flow(t) \notin disturbed => cookies.auth = Flow(t)
    BY <1>1, <1>2 DEF FateInv
  <2> QED
    BY <1>5, <1>10, <2>1 DEF FateInv
<1>13. FlowProven(Flow(t))'
  BY <1>4, <1>7, <1>10 DEF FlowProven
<1> QED
  BY <1>2, <1>3, <1>4, <1>5, <1>6, <1>8, <1>9, <1>11, <1>12, <1>13, OwnFlowStep

(* The provider answers with a code of its session.                        *)
LEMMA CodeIssued ==
  ASSUME SignInInv, NEW t \in Tabs, tab[t].at \in {"auth", "resume"},
         NEW session \in [sid : Nat, account : Accounts, next : Nat], session.account # Nobody,
         provider' = session, SidInv', ProviderProven',
         flows' = Issued(Flow(t), session), Go(t, "callback"),
         UNCHANGED <<cookies, web_sessions, ended, disturbed, raced>>
  PROVE  SignInInv'
<1> DEFINE new == [flows[Flow(t)] EXCEPT !.code = "issued", !.account = session.account,
                                         !.sid = session.sid]
<1>1. SignInTyped /\ TabInv(t) /\ FateInv(t) /\ tab[t].at \in Following
  BY DEF SignInInv, Following
<1>2. Flow(t) \in DOMAIN flows /\ flows[Flow(t)] \in FlowType /\ flows[Flow(t)].sid = 0
      /\ flows[Flow(t)].tab = t
  BY <1>1 DEF TabInv, SignInTyped
<1>3. /\ new \in FlowType /\ new.tab = t /\ new.sid = session.sid /\ new.code = "issued"
      /\ new.account = session.account
  BY <1>2 DEF FlowType
<1>4. flows' = [flows EXCEPT ![Flow(t)] = new]
  BY DEF Issued
<1>5. session.sid # 0 /\ session.sid \notin ended
  BY DEF SidInv
<1> HIDE DEF new
<1>6. DOMAIN flows' = DOMAIN flows /\ flows'[Flow(t)] = new
  BY <1>1, <1>2, <1>3, <1>4, OwnFlowWritten
<1>7. "callback" \in TabPlaces
  BY DEF TabPlaces, Following
<1>8. tab'[t].at = "callback" /\ Flow(t)' = Flow(t)
  BY <1>1, <1>7, TabMoves DEF Flow
<1>9. TabInv(t)'
  BY <1>2, <1>3, <1>5, <1>6, <1>8 DEF TabInv
<1>10. CodeAccepted(Flow(t))'
  BY <1>3, <1>5, <1>6, <1>8 DEF CodeAccepted
<1>11. FateInv(t)'
  <2>1. Flow(t) \notin disturbed => cookies.auth = Flow(t)
    BY <1>1 DEF FateInv
  <2> QED
    BY <1>8, <1>10, <2>1 DEF FateInv
<1>12. FlowProven(Flow(t))'
  <2>1. SUFFICES ASSUME NEW a, NEW s, a = session.account, s = session.sid
                 PROVE  Proven(a, s)'
    BY <1>3, <1>6, <1>8 DEF FlowProven, Proven
  <2> QED
    BY <2>1 DEF ProviderProven, Proven
<1>13. provider' \in [sid : Nat, account : Accounts, next : Nat] /\ disturbed \subseteq disturbed'
  OBVIOUS
<1> QED
  BY <1>1, <1>2, <1>3, <1>4, <1>7, <1>9, <1>11, <1>12, <1>13, OwnFlowStep

LEMMA AuthorizeHolds ==
  ASSUME SignInInv, NEW t \in Tabs, Authorize(t)
  PROVE  SignInInv'
<1>1. SignInTyped /\ TabInv(t) /\ FateInv(t) /\ tab[t].at = "auth" /\ tab[t].at \in Following
  BY DEF SignInInv, Authorize, Following
<1>2. Flow(t) \in DOMAIN flows /\ flows[Flow(t)] \in FlowType /\ flows[Flow(t)].sid = 0
      /\ flows[Flow(t)].tab = t
  BY <1>1 DEF TabInv, SignInTyped
<1>3. CASE provider.account # Nobody
  <2> DEFINE f == Flow(t)
             new == [flows[f] EXCEPT !.code = "issued", !.account = provider.account,
                                     !.sid = provider.sid]
  <2>1. provider' = provider /\ ended' = ended /\ flows' = Issued(f, provider)
        /\ Go(t, "callback") /\ UNCHANGED <<cookies, web_sessions, ended, disturbed, raced>>
    BY <1>3 DEF Authorize
  <2>2. provider \in [sid : Nat, account : Accounts, next : Nat]
    BY <1>1 DEF SignInTyped
  <2>3. new \in FlowType
    BY <1>2, <2>2 DEF FlowType
  <2>4. flows' = [flows EXCEPT ![Flow(t)] = new]
    BY <2>1 DEF Issued
  <2> HIDE DEF new
  <2>5. /\ DOMAIN flows' = DOMAIN flows
        /\ \A g \in DOMAIN flows : flows[g].sid # 0 =>
             flows'[g].login = flows[g].login /\ flows'[g].sid = flows[g].sid
    BY <1>1, <1>2, <2>3, <2>4, OwnFlowWritten
  <2>6. SidInv' /\ ProviderProven'
    BY <2>1, <2>5, ProviderKept
  <2> QED
    BY <1>1, <1>3, <2>1, <2>2, <2>6, CodeIssued
<1>4. CASE provider.account = Nobody
  <2>1. /\ Go(t, "login") /\ UNCHANGED <<cookies, web_sessions, ended, raced>>
        /\ flows' = flows /\ provider' = provider /\ disturbed' = disturbed
    BY <1>4 DEF Authorize
  <2>2. flows' = [flows EXCEPT ![Flow(t)] = flows[Flow(t)]]
    BY <1>1, <2>1 DEF SignInTyped
  <2>3. SidInv' /\ ProviderProven' /\ provider' \in [sid : Nat, account : Accounts, next : Nat]
    BY <2>1, ProviderKept
  <2>4. "login" \in TabPlaces
    BY DEF TabPlaces, Following
  <2>5. tab'[t].at = "login" /\ Flow(t)' = Flow(t)
    BY <1>1, <2>1, <2>4, TabMoves DEF Flow
  <2>6. TabInv(t)'
    BY <1>2, <2>1, <2>5 DEF TabInv
  <2>7. FateInv(t)'
    <3>1. Flow(t) \notin disturbed => cookies.auth = Flow(t)
      BY <1>1 DEF FateInv
    <3> QED
      BY <2>1, <2>5, <3>1 DEF FateInv
  <2>8. FlowProven(Flow(t))'
    BY <1>2, <2>1, <2>5 DEF FlowProven
  <2> QED
    BY <1>1, <1>2, <2>1, <2>2, <2>3, <2>4, <2>6, <2>7, <2>8, OwnFlowStep
<1> QED
  BY <1>3, <1>4

LEMMA ResumeHolds ==
  ASSUME SignInInv, NEW t \in Tabs, Resume(t)
  PROVE  SignInInv'
<1>1. SignInTyped /\ SidInv /\ TabInv(t) /\ tab[t].at = "resume" /\ tab[t].at \in Following
  BY DEF SignInInv, Resume, Following
<1>2. Flow(t) \in DOMAIN flows /\ flows[Flow(t)] \in FlowType /\ flows[Flow(t)].sid = 0
      /\ flows[Flow(t)].login \in Users /\ flows[Flow(t)].tab = t
  BY <1>1 DEF TabInv, SignInTyped
<1> DEFINE f == Flow(t)
           user == flows[f].login
           session == IF provider.account = user THEN provider
                      ELSE [sid |-> provider.next, account |-> user, next |-> provider.next + 1]
           new == [flows[f] EXCEPT !.code = "issued", !.account = session.account,
                                   !.sid = session.sid]
<1>3. /\ provider' = session /\ flows' = Issued(f, session) /\ Go(t, "callback")
      /\ UNCHANGED <<cookies, web_sessions, ended, disturbed, raced>>
  BY DEF Resume
<1>4. provider \in [sid : Nat, account : Accounts, next : Nat]
  BY <1>1 DEF SignInTyped
<1>5. session \in [sid : Nat, account : Accounts, next : Nat] /\ session.account = user
      /\ user # Nobody
  BY <1>2, <1>4, SignInAssumption DEF Accounts
<1>6. session.sid # 0 /\ session.sid < session.next /\ session.next > 0 /\ session.sid \notin ended
      /\ \A s \in ended : s < session.next
  <2>1. CASE provider.account = user
    BY <1>1, <1>5, <2>1 DEF SidInv
  <2>2. CASE provider.account # user
    <3>1. session.sid = provider.next /\ session.next = provider.next + 1
      BY <2>2
    <3>2. provider.next \in Nat /\ provider.next > 0
          /\ \A s \in ended : s \in Nat /\ s < provider.next
      BY <1>1, <1>4 DEF SidInv
    <3> HIDE DEF session
    <3> QED
      BY <3>1, <3>2
  <2> QED
    BY <2>1, <2>2
<1> HIDE DEF session
<1>7. SidInv'
  <2>1. ended' = ended /\ \A s \in ended : s \in Nat /\ 0 < s
    BY <1>1, <1>3 DEF SidInv
  <2> QED
    BY <1>3, <1>5, <1>6, <2>1 DEF SidInv
<1>8. new \in FlowType /\ new.login = user /\ new.sid = session.sid
  BY <1>2, <1>5 DEF FlowType
<1>9. flows' = [flows EXCEPT ![Flow(t)] = new]
  BY <1>3 DEF Issued
<1> HIDE DEF new
<1>10. DOMAIN flows' = DOMAIN flows /\ flows'[Flow(t)] = new
  BY <1>1, <1>2, <1>8, <1>9, OwnFlowWritten
<1>11. ProviderProven'
  <2>1. /\ f \in DOMAIN flows' /\ flows'[f].login = provider'.account
        /\ flows'[f].sid = provider'.sid
    BY <1>2, <1>3, <1>5, <1>8, <1>10
  <2>2. SUFFICES ASSUME NEW a, NEW s, a = provider'.account, s = provider'.sid
                 PROVE  Proven(a, s)'
    BY DEF ProviderProven, Proven
  <2> QED
    BY <2>1, <2>2 DEF Proven
<1> QED
  BY <1>1, <1>3, <1>5, <1>7, <1>11, CodeIssued

LEMMA StartHolds ==
  ASSUME SignInInv, NEW t \in Tabs, session_start(t)
  PROVE  SignInInv'
<1> DEFINE f == Cardinality(DOMAIN flows) + 1
<1>1. SignInTyped /\ FateInv(t) /\ 0 \notin DOMAIN flows
  BY FlowNumbers DEF SignInInv
<1>2. PICK k \in Nat : DOMAIN flows = 1 .. k
  BY <1>1 DEF SignInTyped
<1>3. f = k + 1
  <2>1. Cardinality(1 .. k) = IF 1 > k THEN 0 ELSE k - 1 + 1
    BY <1>2, FS_Interval
  <2> QED
    BY <1>2, <2>1
<1>4. /\ tab[t].at # "ended"
      /\ flows' = [g \in DOMAIN flows \cup {f} |-> IF g = f THEN NewFlow(t) ELSE flows[g]]
      /\ tab' = [tab EXCEPT ![t] = [at |-> "auth", flow |-> f, ending |-> NoFlow]]
      /\ SetAuth(f, f) /\ provider' = provider /\ web_sessions' = web_sessions
      /\ ended' = ended /\ raced' = raced
  BY DEF session_start
<1> HIDE DEF f
<1>5. DOMAIN flows' = 1 .. (k + 1) /\ f \notin DOMAIN flows /\ f \in Nat /\ k + 1 \in Nat
  BY <1>2, <1>3, <1>4
<1>6. flows'[f] = NewFlow(t) /\ \A g \in DOMAIN flows : flows'[g] = flows[g] /\ g \in DOMAIN flows'
  BY <1>4, <1>5
<1>7. NewFlow(t) \in FlowType
  BY DEF NewFlow, FlowType, Accounts, NoFlow
<1>8. flows' \in [DOMAIN flows' -> FlowType]
  BY <1>1, <1>4, <1>7 DEF SignInTyped
<1>9. /\ tab' \in [Tabs -> TabType] /\ \A u \in Tabs : u # t => tab'[u] = tab[u]
      /\ tab'[t] = [at |-> "auth", flow |-> f, ending |-> 0]
  BY <1>1, <1>4, <1>5 DEF SignInTyped, TabType, TabPlaces, Following, NoFlow
<1>10. /\ cookies' \in [auth : Nat, session : Nat] /\ cookies'.auth = f
       /\ cookies.auth \in disturbed' \/ cookies.auth \notin DOMAIN flows
       /\ disturbed \subseteq disturbed'
  BY <1>4, <1>5, AuthSet
<1>11. SidInv' /\ ProviderProven' /\ provider' \in [sid : Nat, account : Accounts, next : Nat]
  BY <1>4, <1>6, ProviderKept
<1>12. \A g \in DOMAIN flows' : (g \in DOMAIN flows /\ flows[g].sid # 0) \/ FlowProven(g)'
  <2>1. \A g \in DOMAIN flows' : g = f \/ g \in DOMAIN flows
    BY <1>4
  <2> QED
    BY <1>6, <2>1 DEF FlowProven, NewFlow, NoFlow
<1>13. TabInv(t)' /\ FateInv(t)'
  <2>1. Flow(t)' = f /\ f \in DOMAIN flows'
    BY <1>3, <1>5, <1>9 DEF Flow
  <2> QED
    BY <1>6, <1>9, <1>10, <2>1 DEF TabInv, FateInv, NewFlow, NoFlow
<1>14. tab'[t].at # "storing"
  BY <1>9
<1>15. \E m \in Nat : DOMAIN flows' = 1 .. m
  BY <1>5
<1>16. DOMAIN flows \subseteq DOMAIN flows' /\ \A g \in DOMAIN flows : flows'[g] = flows[g]
  BY <1>6
<1> QED
  BY <1>4, <1>8, <1>9, <1>10, <1>11, <1>12, <1>13, <1>14, <1>15, <1>16, TabStep

LEMMA FlowExpiresHolds ==
  ASSUME SignInInv, NEW f \in DOMAIN flows, FlowExpires(f)
  PROVE  SignInInv'
<1>1. SignInTyped /\ flows[f] \in FlowType
  BY DEF SignInInv, SignInTyped
<1>2. PICK t \in Tabs : t = flows[f].tab
  BY <1>1 DEF FlowType
<1>3. TabInv(t) /\ FateInv(t)
  BY DEF SignInInv
<1>4. /\ tab' = tab /\ provider' = provider /\ web_sessions' = web_sessions /\ ended' = ended
      /\ raced' = raced /\ disturbed' = disturbed \cup {f}
  BY DEF FlowExpires
<1>5. /\ flows' \in [DOMAIN flows' -> FlowType] /\ DOMAIN flows' = DOMAIN flows
      /\ \A g \in DOMAIN flows : g # f => flows'[g] = flows[g]
      /\ \A g \in DOMAIN flows : /\ flows'[g].login = flows[g].login /\ flows'[g].sid = flows[g].sid
                                 /\ flows'[g].account = flows[g].account
                                 /\ flows'[g].tab = flows[g].tab
  <2>1. CASE flows' = flows
    BY <1>1, <2>1 DEF SignInTyped
  <2>2. CASE flows' = [flows EXCEPT ![f].code = "expired"]
    <3> DEFINE new == [flows[f] EXCEPT !.code = "expired"]
    <3>1. /\ new \in FlowType /\ new.login = flows[f].login /\ new.sid = flows[f].sid
          /\ new.account = flows[f].account /\ new.tab = flows[f].tab
      BY <1>1 DEF FlowType
    <3>2. flows' = [flows EXCEPT ![f] = new]
      BY <2>2
    <3> HIDE DEF new
    <3>3. /\ flows' \in [DOMAIN flows' -> FlowType] /\ DOMAIN flows' = DOMAIN flows
          /\ flows'[f] = new /\ \A g \in DOMAIN flows : g # f => flows'[g] = flows[g]
      BY <1>1, <3>1, <3>2, FlowWritten
    <3> QED
      BY <3>1, <3>3
  <2> QED
    BY <2>1, <2>2 DEF FlowExpires
<1>6. /\ cookies' \in [auth : Nat, session : Nat]
      /\ cookies'.auth = cookies.auth \/ cookies.auth = f
  BY <1>1 DEF FlowExpires, SignInTyped, NoFlow
<1>7. \E k \in Nat : DOMAIN flows' = 1 .. k
  BY <1>1, <1>5 DEF SignInTyped
<1>8. SidInv' /\ ProviderProven' /\ provider' \in [sid : Nat, account : Accounts, next : Nat]
  BY <1>4, <1>5, ProviderKept
<1>9. \A g \in DOMAIN flows' : (g \in DOMAIN flows /\ flows[g].sid # 0) \/ FlowProven(g)'
  BY <1>5 DEF FlowProven
<1>10. Flow(t) = tab[t].flow /\ tab'[t] = tab[t] /\ tab'[t].flow = tab[t].flow
  BY <1>4 DEF Flow
<1>11. TabInv(t)'
  <2>1. Flow(t)' = Flow(t)
    BY <1>4 DEF Flow
  <2> QED
    BY <1>3, <1>5, <1>10, <2>1 DEF TabInv, Following
<1>12. FateInv(t)'
  <2>1. Flow(t)' = Flow(t)
    BY <1>4 DEF Flow
  <2>2. CASE Flow(t) = f
    BY <1>4, <2>1, <2>2 DEF FateInv
  <2>3. CASE Flow(t) # f /\ Flow(t) \notin disturbed
    <3>1. tab[t].at \in {"auth", "login", "resume", "callback"} => cookies.auth = Flow(t)
      BY <1>3, <2>3 DEF FateInv
    <3>2. tab[t].at = "callback" => CodeAccepted(Flow(t)) /\ Flow(t) \in DOMAIN flows
      BY <1>3, <2>3 DEF FateInv, TabInv, Following
    <3>3. tab[t].at = "callback" => CodeAccepted(Flow(t))'
      BY <1>4, <1>5, <2>1, <2>3, <3>2 DEF CodeAccepted
    <3>4. tab[t].at \notin {"failed", "refused"}
      BY <1>3, <2>3 DEF FateInv
    <3> QED
      BY <1>6, <1>10, <2>1, <2>3, <3>1, <3>3, <3>4 DEF FateInv
  <2>4. CASE Flow(t) \in disturbed
    BY <1>4, <1>10, <2>1, <2>4 DEF FateInv
  <2> QED
    BY <2>2, <2>3, <2>4
<1>13. \A g \in DOMAIN web_sessions' : g \in DOMAIN web_sessions /\ web_sessions'[g] = web_sessions[g]
  BY <1>4
<1>14. tab' \in [Tabs -> TabType]
  BY <1>1, <1>4 DEF SignInTyped
<1>15. \A g \in DOMAIN flows : flows'[g] = flows[g] \/ flows[g].tab = t
  BY <1>5, <1>2
<1>16. \/ cookies'.auth = cookies.auth \/ cookies.auth \in disturbed'
       \/ cookies.auth \notin DOMAIN flows \/ flows[cookies.auth].tab = t
  BY <1>6, <1>2
<1>17. \A u \in Tabs : u # t => tab'[u] = tab[u]
  BY <1>4
<1>18. tab'[t].at = "storing" => tab[t].at = "storing" /\ tab'[t].flow = tab[t].flow
  BY <1>10
<1>19. disturbed \subseteq disturbed' /\ DOMAIN flows \subseteq DOMAIN flows'
  BY <1>4, <1>5
<1>20. \A g \in DOMAIN flows : flows[g].sid # 0 =>
         /\ flows'[g].login = flows[g].login /\ flows'[g].sid = flows[g].sid
         /\ flows'[g].account = flows[g].account
  BY <1>5
<1> QED
  BY <1>4, <1>5, <1>6, <1>7, <1>8, <1>9, <1>10, <1>11, <1>12, <1>13, <1>14, <1>15, <1>16, <1>17,
     <1>18, <1>19, <1>20, TabStep

(* The provider's session goes, and every flow it issued a code for.       *)
LEMMA EndHolds ==
  ASSUME SignInInv, NEW t \in Tabs, end_session(t)
  PROVE  SignInInv'
<1> DEFINE p == provider.sid
<1>1. SignInTyped /\ SidInv /\ provider \in [sid : Nat, account : Accounts, next : Nat]
  BY DEF SignInInv, SignInTyped
<1>2. /\ tab[t].at \in {"ending", "home"} /\ provider.account # Nobody
      /\ tab' = [tab EXCEPT ![t].at = "ended", ![t].ending = p]
      /\ provider' = [provider EXCEPT !.account = Nobody] /\ ended' = ended \cup {p}
      /\ disturbed' = disturbed \cup {f \in DOMAIN flows : flows[f].sid = p}
      /\ flows' = flows /\ cookies' = cookies /\ web_sessions' = web_sessions /\ raced' = raced
  BY DEF end_session
<1>3. p \in Nat /\ 0 < p /\ p < provider.next
  BY <1>1, <1>2 DEF SidInv
<1>4. /\ provider'.account = Nobody /\ provider'.next = provider.next
      /\ provider' \in [sid : Nat, account : Accounts, next : Nat]
  BY <1>1, <1>2 DEF Accounts
<1>5. /\ tab' \in [Tabs -> TabType] /\ \A u \in Tabs : u # t => tab'[u] = tab[u]
      /\ tab'[t].at = "ended" /\ tab'[t].ending = p /\ Flow(t)' = Flow(t)
  BY <1>1, <1>2, <1>3 DEF SignInTyped, TabType, TabPlaces, Following, Flow
<1>6. SignInTyped'
  BY <1>1, <1>2, <1>4, <1>5 DEF SignInTyped
<1>7. SidInv'
  BY <1>1, <1>2, <1>3, <1>4 DEF SidInv
<1>8. ProvenInv'
  <2>1. \A a, s : Proven(a, s) => Proven(a, s)'
    BY <1>2 DEF Proven
  <2>2. ASSUME NEW f \in DOMAIN flows PROVE FlowProven(f)'
    <3>1. SUFFICES ASSUME NEW a, NEW s, a = flows[f].account, s = flows[f].sid, s # 0
                   PROVE  Proven(a, s)'
      BY <1>2 DEF FlowProven, Proven
    <3>2. Proven(a, s)
      BY <2>2, <3>1 DEF SignInInv, ProvenInv, FlowProven
    <3> QED
      BY <2>1, <3>2
  <2>3. ASSUME NEW f \in DOMAIN web_sessions PROVE RowProven(f)'
    <3>1. RowProven(f)
      BY <2>3 DEF SignInInv, ProvenInv
    <3>2. SUFFICES ASSUME NEW a, NEW s, a = web_sessions[f].id_user, s = web_sessions[f].sid
                   PROVE  s # 0 /\ Proven(a, s)'
      BY <1>2 DEF RowProven, Proven
    <3> QED
      BY <2>1, <3>1, <3>2 DEF RowProven
  <2>4. ProviderProven'
    BY <1>4 DEF ProviderProven
  <2> QED
    BY <1>2, <2>2, <2>3, <2>4 DEF ProvenInv
<1>9. ASSUME NEW u \in Tabs, u # t PROVE TabInv(u)' /\ FateInv(u)'
  <2>1. \A f \in DOMAIN flows : flows[f].sid \in ended' => flows[f].sid \in ended \/ f \in disturbed'
    BY <1>2
  <2> QED
    BY <1>2, <1>5, <1>9, <2>1, OtherTab
<1>10. TabInv(t)' /\ FateInv(t)'
  BY <1>5 DEF TabInv, FateInv, Following
<1>11. LogoutInv'
  <2>1. ASSUME NEW s, Ending(s) PROVE Ending(s)'
    BY <1>2, <1>5, <2>1 DEF Ending
  <2>3. ASSUME NEW f \in DOMAIN web_sessions', NEW s, s = web_sessions'[f].sid, s \in ended'
        PROVE  f \in raced' \/ Ending(s)'
    <3>1. CASE s \in ended
      BY <1>2, <2>1, <2>3, <3>1 DEF SignInInv, LogoutInv
    <3>2. CASE s = p
      BY <1>5, <3>2 DEF Ending
    <3> QED
      BY <1>2, <2>3, <3>1, <3>2
  <2>4. ASSUME NEW u \in Tabs, tab'[u].at = "storing",
               NEW f, f = tab'[u].flow, NEW s, s = flows'[f].sid, s \in ended'
        PROVE  f \in raced' \/ Ending(s)'
    <3>1. u # t /\ tab[u].at = "storing" /\ Flow(u) = f /\ flows[f].sid = s
      BY <1>2, <1>5, <2>4 DEF Flow
    <3>2. CASE s \in ended
      BY <1>2, <2>1, <3>1, <3>2 DEF SignInInv, LogoutInv
    <3>3. CASE s = p
      BY <1>5, <3>3 DEF Ending
    <3> QED
      BY <1>2, <2>4, <3>2, <3>3
  <2> QED
    BY <2>3, <2>4 DEF LogoutInv, Ending, Flow
<1> QED
  BY <1>6, <1>7, <1>8, <1>9, <1>10, <1>11 DEF SignInInv

(* The middleware deletes the rows; a callback that has its code but no    *)
(* row yet may still store one.                                            *)
LEMMA DeleteHolds ==
  ASSUME SignInInv, NEW t \in Tabs, DeleteBySid(t)
  PROVE  SignInInv'
<1>1. SignInTyped
  BY DEF SignInInv
<1>2. /\ tab[t].at = "ended" /\ Go(t, "out") /\ "out" \in TabPlaces
      /\ flows' = flows /\ provider' = provider /\ ended' = ended /\ disturbed' = disturbed
      /\ raced' = raced \cup {Flow(u) : u \in {v \in Tabs : tab[v].at = "storing"}}
      /\ web_sessions' = [f \in DOMAIN web_sessions \ RowsOf(tab[t].ending) |-> web_sessions[f]]
  BY DEF DeleteBySid, TabPlaces
<1>3. /\ tab' \in [Tabs -> TabType] /\ \A u \in Tabs : u # t => tab'[u] = tab[u]
      /\ tab'[t].at = "out"
  BY <1>1, <1>2, TabMoves
<1>4. cookies' \in [auth : Nat, session : Nat] /\ cookies'.auth = cookies.auth
  BY <1>1 DEF DeleteBySid, SignInTyped, NoFlow
<1>5. SignInTyped'
  BY <1>1, <1>2, <1>3, <1>4 DEF SignInTyped
<1>6. /\ DOMAIN flows \subseteq DOMAIN flows'
      /\ \A f \in DOMAIN flows : flows[f].sid # 0 =>
           flows'[f].login = flows[f].login /\ flows'[f].sid = flows[f].sid
  BY <1>2
<1>7. SidInv' /\ ProviderProven'
  BY <1>2, <1>6, ProviderKept
<1>8. \A f \in DOMAIN web_sessions' :
        /\ f \in DOMAIN web_sessions /\ web_sessions'[f] = web_sessions[f]
        /\ web_sessions[f].sid # tab[t].ending
  BY <1>2 DEF RowsOf
<1>9. ProvenInv'
  <2>1. \A a, s : Proven(a, s) => Proven(a, s)'
    BY <1>2 DEF Proven
  <2>2. ASSUME NEW f \in DOMAIN flows PROVE FlowProven(f)'
    <3>1. SUFFICES ASSUME NEW a, NEW s, a = flows[f].account, s = flows[f].sid, s # 0
                   PROVE  Proven(a, s)'
      BY <1>2 DEF FlowProven, Proven
    <3>2. Proven(a, s)
      BY <2>2, <3>1 DEF SignInInv, ProvenInv, FlowProven
    <3> QED
      BY <2>1, <3>2
  <2>3. ASSUME NEW f \in DOMAIN web_sessions' PROVE RowProven(f)'
    <3>1. RowProven(f)
      BY <1>8, <2>3 DEF SignInInv, ProvenInv
    <3>2. SUFFICES ASSUME NEW a, NEW s, a = web_sessions[f].id_user, s = web_sessions[f].sid
                   PROVE  s # 0 /\ Proven(a, s)'
      BY <1>8, <2>3 DEF RowProven, Proven
    <3> QED
      BY <2>1, <3>1, <3>2 DEF RowProven
  <2> QED
    BY <1>2, <1>7, <2>2, <2>3 DEF ProvenInv
<1>10. ASSUME NEW u \in Tabs, u # t PROVE TabInv(u)' /\ FateInv(u)'
  <2>1. \A f \in DOMAIN flows : flows[f].sid \in ended' => flows[f].sid \in ended \/ f \in disturbed'
    BY <1>2
  <2>2. \A f \in DOMAIN flows : flows[f].tab = u => flows'[f] = flows[f]
    BY <1>2
  <2> QED
    BY <1>2, <1>3, <1>4, <1>6, <1>10, <2>1, <2>2, OtherTab
<1>11. TabInv(t)' /\ FateInv(t)'
  BY <1>3 DEF TabInv, FateInv, Following
<1>12. LogoutInv'
  <2>1. ASSUME NEW s, s # tab[t].ending, Ending(s) PROVE Ending(s)'
    BY <1>3, <2>1 DEF Ending
  <2>2. ASSUME NEW f \in DOMAIN web_sessions', NEW s, s = web_sessions'[f].sid, s \in ended'
        PROVE  f \in raced' \/ Ending(s)'
    <3>1. f \in raced \/ Ending(s)
      BY <1>2, <1>8, <2>2 DEF SignInInv, LogoutInv
    <3> QED
      BY <1>2, <1>8, <2>1, <2>2, <3>1
  <2>3. ASSUME NEW u \in Tabs, tab'[u].at = "storing" PROVE tab'[u].flow \in raced'
    <3>1. u # t /\ tab[u].at = "storing" /\ tab'[u].flow = Flow(u)
      BY <1>3, <2>3 DEF Flow
    <3> QED
      BY <1>2, <3>1
  <2> QED
    BY <2>2, <2>3 DEF LogoutInv, Ending, Flow
<1> QED
  BY <1>5, <1>7, <1>9, <1>10, <1>11, <1>12 DEF SignInInv

LEMMA SignInInit == SInit => SignInInv
<1> SUFFICES ASSUME SInit PROVE SignInInv
  OBVIOUS
<1>1. DOMAIN flows = {} /\ DOMAIN web_sessions = {} /\ 1 .. 0 = {}
  BY DEF SInit
<1>2. SignInTyped
  <2>1. tab \in [Tabs -> TabType]
    BY DEF SInit, TabType, TabPlaces, NoFlow
  <2>2. flows \in [DOMAIN flows -> FlowType]
    BY <1>1 DEF SInit
  <2>3. \E k \in Nat : DOMAIN flows = 1 .. k
    BY <1>1
  <2>4. cookies \in [auth : Nat, session : Nat]
        /\ provider \in [sid : Nat, account : Accounts, next : Nat]
    BY DEF SInit, NoFlow, Accounts
  <2> QED
    BY <2>1, <2>2, <2>3, <2>4 DEF SignInTyped
<1>3. SidInv
  BY DEF SInit, SidInv
<1>4. ProvenInv /\ LogoutInv
  BY <1>1 DEF SInit, ProvenInv, ProviderProven, LogoutInv
<1>5. \A t \in Tabs : TabInv(t) /\ FateInv(t)
  BY DEF SInit, TabInv, FateInv, Following
<1> QED
  BY <1>2, <1>3, <1>4, <1>5 DEF SignInInv

LEMMA SignInStep == SignInInv /\ [SNext]_svars => SignInInv'
<1> SUFFICES ASSUME SignInInv, [SNext]_svars PROVE SignInInv'
  OBVIOUS
<1>1. ASSUME NEW t \in Tabs,
             \/ session_start(t) \/ Authorize(t) \/ Resume(t) \/ InteractionExpires(t)
             \/ \E user \in Users : PostLogin(t, user)
             \/ CallbackRefused(t) \/ ExchangeCode(t) \/ ExchangeFails(t) \/ ExchangeRefused(t)
             \/ StoreSession(t) \/ SignedIn(t) \/ CallbackFails(t)
             \/ session_logout(t) \/ end_session(t) \/ DeleteBySid(t) \/ NothingToEnd(t)
      PROVE  SignInInv'
  <2>1. CASE session_start(t)
    BY <2>1, StartHolds
  <2>2. CASE Authorize(t)
    BY <2>2, AuthorizeHolds
  <2>3. CASE Resume(t)
    BY <2>3, ResumeHolds
  <2>4. CASE \E user \in Users : PostLogin(t, user)
    BY <2>4, PostLoginHolds
  <2>5. CASE CallbackRefused(t) \/ ExchangeRefused(t)
    BY <2>5, RefusalHolds
  <2>6. CASE ExchangeCode(t) \/ ExchangeFails(t)
    BY <2>6, ExchangeHolds
  <2>7. CASE StoreSession(t) \/ session_logout(t)
    BY <2>7, StoringHolds
  <2>8. CASE SignedIn(t) \/ CallbackFails(t) \/ InteractionExpires(t) \/ NothingToEnd(t)
    BY <2>8, LeaveHolds
  <2>9. CASE end_session(t)
    BY <2>9, EndHolds
  <2>10. CASE DeleteBySid(t)
    BY <2>10, DeleteHolds
  <2> QED
    BY <1>1, <2>1, <2>2, <2>3, <2>4, <2>5, <2>6, <2>7, <2>8, <2>9, <2>10
<1>2. ASSUME NEW f \in DOMAIN flows, FlowExpires(f) PROVE SignInInv'
  BY <1>2, FlowExpiresHolds
<1>3. CASE UNCHANGED svars
  <2>1. /\ tab' = tab /\ flows' = flows /\ cookies' = cookies /\ provider' = provider
        /\ web_sessions' = web_sessions /\ ended' = ended /\ disturbed' = disturbed
        /\ raced' = raced
    BY <1>3 DEF svars
  <2>2. SignInTyped' /\ SidInv'
    BY <2>1 DEF SignInInv, SignInTyped, SidInv
  <2>3. ProvenInv'
    BY <2>1 DEF SignInInv, ProvenInv, FlowProven, ProviderProven, RowProven, Proven
  <2>4. LogoutInv'
    BY <2>1 DEF SignInInv, LogoutInv, Ending, Flow
  <2>5. ASSUME NEW t \in Tabs PROVE TabInv(t)' /\ FateInv(t)'
    <3>1. TabInv(t) /\ FateInv(t)
      BY <2>5 DEF SignInInv
    <3> QED
      BY <2>1, <3>1 DEF TabInv, FateInv, Flow, CodeAccepted
  <2> QED
    BY <2>2, <2>3, <2>4, <2>5 DEF SignInInv
<1> QED
  BY <1>1, <1>2, <1>3 DEF SNext

LEMMA SignInTrue == SignInInv => SignInsTrue
<1> SUFFICES ASSUME SignInInv PROVE SignInsTrue
  OBVIOUS
<1>1. SessionsProven
  BY DEF SignInInv, ProvenInv, RowProven, Proven, SessionsProven
<1>2. FailuresExplained
  BY DEF SignInInv, FateInv, FailuresExplained
<1>3. LogoutEnds
  BY DEF SignInInv, LogoutInv, Ending, LogoutEnds
<1> QED
  BY <1>1, <1>2, <1>3 DEF SignInsTrue

(* However the sign-ins and logouts of one browser's tabs interleave and   *)
(* whatever times out, a stored session is of an account that logged in    *)
(* (session_callback), a sign-in fails only for a reason, and a logout     *)
(* leaves no row of its provider session except one a callback was storing *)
(* (the middleware of provider.use).                                       *)
THEOREM SignInsTrueHolds == SSpec => []SignInsTrue
<1>1. SSpec => []SignInInv
  BY SignInInit, SignInStep, PTL DEF SSpec
<1> QED
  BY <1>1, SignInTrue, PTL

-----------------------------------------------------------------------------
(* Guesses at passwords (module AuthLimit).                                *)

EntryType == [fails : Nat, lastFail : Nat, blockedUntil : Nat]
IpEntries == failures["ip"]

(* The wrong answers an address got before it was blocked, and those of a  *)
(* stretch of the clock as long as a block.                                *)
Guesses(k) == {c \in counted : IpOf[c.login] = k /\ "ip" \notin c.late}
Recent(k, t) == {c \in Guesses(k) : c.when \in (t - Block + 1)..t}

LimitTyped ==
  /\ clock \in Nat /\ clock > 0 /\ IsFiniteSet(counted)
  /\ \A c \in counted : c.when \in Nat /\ c.when =< clock
  /\ IpEntries \in [DOMAIN IpEntries -> EntryType]
  /\ \A k \in DOMAIN IpEntries : IpEntries[k].fails < MaxFails["ip"]

(* The entry's count is of the guesses G; a block, or a pause as long as   *)
(* one, came after the others.                                             *)
CountedBy(k, G) ==
  /\ k \in DOMAIN IpEntries =>
       /\ Cardinality(G) =< IpEntries[k].fails
       /\ \A c \in G : c.when =< IpEntries[k].lastFail
       /\ \A c \in Guesses(k) \ G :
            c.when + Block =< clock \/ c.when + Block =< IpEntries[k].blockedUntil
  /\ k \notin DOMAIN IpEntries => G = {} /\ \A c \in Guesses(k) : c.when + Block =< clock

GuessInv(k) == \E G \in SUBSET Guesses(k) : CountedBy(k, G)
RecentInv(k) == \A t \in 1..clock : Cardinality(Recent(k, t)) =< MaxFails["ip"]

LimitInv ==
  LimitTyped /\ \A k : k \notin forgotten => GuessInv(k) /\ RecentInv(k)

(* What the limiter by IP holds after a failure of address i.              *)
LEMMA IpFailure ==
  ASSUME NEW g \in Logins, LoginFails(g)
  PROVE  \E a : /\ failures'["ip"] = Fail("ip", sweep(failures["ip"]), IpOf[g], a)
                /\ a \subseteq forgotten' /\ forgotten \subseteq forgotten'
<1>1. PICK a \in Evictable(sweep(failures["ip"]), IpOf[g]),
           b \in Evictable(sweep(failures["user"]), NameOf[g]) :
        /\ failures' = [ip |-> Fail("ip", sweep(failures["ip"]), IpOf[g], a),
                        user |-> Fail("user", sweep(failures["user"]), NameOf[g], b)]
        /\ forgotten' = forgotten \cup a \cup b
  BY DEF LoginFails
<1> QED
  BY <1>1

(* A failure's entry, new or counted on, and the entries beside it.        *)
LEMMA FailSpares ==
  ASSUME NEW i, NEW a, NEW f, f = Fail("ip", sweep(IpEntries), i, a),
         NEW k \in DOMAIN f, k # i
  PROVE  k \in DOMAIN IpEntries /\ f[k] = IpEntries[k]
<1> DEFINE kept == Except(sweep(IpEntries), a)
<1>1. f = [j \in DOMAIN kept \cup {i} |-> IF j = i THEN f[i] ELSE kept[j]]
  BY DEF Fail
<1>2. k \in DOMAIN kept => k \in DOMAIN IpEntries /\ kept[k] = IpEntries[k]
  BY DEF Except, sweep
<1> HIDE DEF kept
<1> QED
  BY <1>1, <1>2

(* The entry of an address that fails: one more failure, or a block.       *)
FailedEntry(f, i, a) ==
  \/ \E old \in EntryType :
       /\ \/ i \in DOMAIN IpEntries /\ old = IpEntries[i]
          \/ i \notin DOMAIN IpEntries \/ i \in a \/ Expired(IpEntries, i)
       /\ old.fails + 1 < MaxFails["ip"]
       /\ f[i] = [old EXCEPT !.fails = old.fails + 1, !.lastFail = clock]
  \/ f[i] = [fails |-> 0, lastFail |-> clock, blockedUntil |-> clock + Block]

LEMMA FailEntries ==
  ASSUME LimitTyped, NEW i, NEW a, NEW f, f = Fail("ip", sweep(IpEntries), i, a)
  PROVE  /\ i \in DOMAIN f /\ f \in [DOMAIN f -> EntryType]
         /\ \A k \in DOMAIN f : f[k].fails < MaxFails["ip"]
         /\ \A k \in DOMAIN IpEntries : k \notin DOMAIN f => k \in a \/ Expired(IpEntries, k)
         /\ FailedEntry(f, i, a)
<1> DEFINE kept == Except(sweep(IpEntries), a)
           none == [fails |-> 0, lastFail |-> 0, blockedUntil |-> 0]
           old == IF i \in DOMAIN kept THEN kept[i] ELSE none
           new == IF old.fails + 1 < MaxFails["ip"]
                  THEN [old EXCEPT !.fails = @ + 1, !.lastFail = clock]
                  ELSE [fails |-> 0, lastFail |-> clock, blockedUntil |-> clock + Block]
<1>1. f = [j \in DOMAIN kept \cup {i} |-> IF j = i THEN new ELSE kept[j]]
  BY DEF Fail
<1>2. /\ \A k \in DOMAIN kept : /\ k \in DOMAIN IpEntries /\ kept[k] = IpEntries[k]
                                /\ IpEntries[k] \in EntryType
      /\ \A k \in DOMAIN IpEntries : k \notin DOMAIN kept => k \in a \/ Expired(IpEntries, k)
  BY DEF Except, sweep, LimitTyped
<1>3. none \in EntryType /\ none.fails = 0
  BY DEF EntryType
<1> HIDE DEF kept, none
<1>4. old \in EntryType
  BY <1>2, <1>3
<1> HIDE DEF old
<1>5. clock \in Nat /\ clock + Block \in Nat /\ MaxFails["ip"] \in Nat /\ 0 < MaxFails["ip"]
  BY LimitAssumption DEF LimitTyped
<1>6. new \in EntryType /\ new.fails < MaxFails["ip"]
  <2>1. CASE old.fails + 1 < MaxFails["ip"]
    <3>1. new = [old EXCEPT !.fails = @ + 1, !.lastFail = clock]
      BY <2>1
    <3>2. old.fails + 1 \in Nat
      BY <1>4 DEF EntryType
    <3> HIDE DEF new
    <3> QED
      BY <1>4, <1>5, <2>1, <3>1, <3>2 DEF EntryType
  <2>2. CASE ~(old.fails + 1 < MaxFails["ip"])
    <3>1. new = [fails |-> 0, lastFail |-> clock, blockedUntil |-> clock + Block]
      BY <2>2
    <3> HIDE DEF new
    <3> QED
      BY <1>5, <3>1 DEF EntryType
  <2> QED
    BY <2>1, <2>2
<1>7. f[i] = new /\ i \in DOMAIN f /\ \A k \in DOMAIN f : k # i => k \in DOMAIN kept /\ f[k] = kept[k]
  BY <1>1
<1>8. f \in [DOMAIN f -> EntryType]
  BY <1>1, <1>2, <1>6
<1>9. \A k \in DOMAIN f : f[k].fails < MaxFails["ip"]
  BY <1>2, <1>6, <1>7 DEF LimitTyped
<1>10. \A k \in DOMAIN IpEntries : k \notin DOMAIN f => k \in a \/ Expired(IpEntries, k)
  BY <1>1, <1>2
<1>11. \/ i \in DOMAIN IpEntries /\ old = IpEntries[i]
       \/ i \notin DOMAIN IpEntries \/ i \in a \/ Expired(IpEntries, i)
  BY <1>2 DEF old
<1>12. FailedEntry(f, i, a)
  BY <1>4, <1>7, <1>11 DEF FailedEntry
<1> QED
  BY <1>7, <1>8, <1>9, <1>10, <1>12

(* An entry is forgotten when all its guesses are a block's length ago.     *)
LEMMA EntryExpired ==
  ASSUME LimitTyped, NEW k \in DOMAIN IpEntries, NEW G \in SUBSET Guesses(k), CountedBy(k, G),
         Expired(IpEntries, k)
  PROVE  \A c \in Guesses(k) : c.when + Block =< clock
<1>1. /\ IpEntries[k].lastFail \in Nat /\ IpEntries[k].blockedUntil \in Nat
      /\ IpEntries[k].blockedUntil =< clock /\ IpEntries[k].lastFail + Block =< clock
  BY DEF Expired, LimitTyped, EntryType
<1>2. clock \in Nat /\ Block \in Nat /\ \A c \in Guesses(k) : c.when \in Nat
  BY LimitAssumption DEF LimitTyped, Guesses
<1> QED
  BY <1>1, <1>2 DEF CountedBy

(* An address that fails counts its failure with those of its entry, or,   *)
(* after a pause or a block, as the first.                                 *)
LEMMA FailureCounts ==
  ASSUME LimitTyped, NEW k, NEW G \in SUBSET Guesses(k), CountedBy(k, G),
         NEW N, Guesses(k)' = Guesses(k) \cup N,
         \A c \in N : c.when = clock, \E c : N \subseteq {c}, clock' = clock,
         NEW a, k \notin a, NEW f, f = Fail("ip", sweep(IpEntries), k, a), IpEntries' = f
  PROVE  GuessInv(k)'
<1>1. /\ k \in DOMAIN f
      /\ \/ \E old \in EntryType :
              /\ \/ k \in DOMAIN IpEntries /\ old = IpEntries[k]
                 \/ k \notin DOMAIN IpEntries \/ k \in a \/ Expired(IpEntries, k)
              /\ old.fails + 1 < MaxFails["ip"]
              /\ f[k] = [old EXCEPT !.fails = old.fails + 1, !.lastFail = clock]
         \/ f[k] = [fails |-> 0, lastFail |-> clock, blockedUntil |-> clock + Block]
  <2>1. k \in DOMAIN f /\ FailedEntry(f, k, a)
    BY FailEntries
  <2> QED
    BY <2>1 DEF FailedEntry
<1>2. /\ \A c \in Guesses(k) : c.when \in Nat /\ c.when =< clock
      /\ clock \in Nat /\ IsFiniteSet(counted) /\ IsFiniteSet(G) /\ Block \in Nat
  BY FS_Subset, LimitAssumption DEF LimitTyped, Guesses
<1>3. ASSUME NEW H \in SUBSET Guesses(k), NEW old \in EntryType, Cardinality(H) =< old.fails,
             f[k] = [old EXCEPT !.fails = old.fails + 1, !.lastFail = clock],
             \A c \in Guesses(k) \ H : c.when + Block =< clock \/ c.when + Block =< old.blockedUntil
      PROVE  GuessInv(k)'
  <2>1. f[k].fails = old.fails + 1 /\ f[k].lastFail = clock /\ f[k].blockedUntil = old.blockedUntil
        /\ old.fails \in Nat
    BY <1>3 DEF EntryType
  <2>2. IsFiniteSet(H) /\ Cardinality(H) \in Nat
    BY <1>2, <1>3, FS_Subset, FS_CardinalityType DEF Guesses
  <2>3. Cardinality(H \cup N) =< f[k].fails
    <3>1. CASE N = {}
      BY <1>3, <2>1, <2>2, <3>1
    <3>2. ASSUME NEW c, N = {c} PROVE Cardinality(H \cup N) =< f[k].fails
      <4>1. Cardinality(H \cup {c}) = IF c \in H THEN Cardinality(H) ELSE Cardinality(H) + 1
        BY <2>2, FS_AddElement
      <4> QED
        BY <1>3, <2>1, <2>2, <3>2, <4>1
    <3>3. N = {} \/ \E c : N = {c}
      OBVIOUS
    <3> QED
      BY <3>1, <3>2, <3>3
  <2>4. \A c \in H \cup N : c.when =< f[k].lastFail
    BY <1>2, <1>3, <2>1
  <2>5. \A c \in Guesses(k)' \ (H \cup N) :
          c.when + Block =< clock' \/ c.when + Block =< f[k].blockedUntil
    BY <1>3, <2>1
  <2>6. H \cup N \in SUBSET Guesses(k)'
    BY <1>3
  <2> QED
    <3> DEFINE X == H \cup N
    <3>1. \A Y \in SUBSET Guesses(k)' :
            /\ Cardinality(Y) =< f[k].fails /\ \A c \in Y : c.when =< f[k].lastFail
            /\ \A c \in Guesses(k)' \ Y :
                 c.when + Block =< clock' \/ c.when + Block =< f[k].blockedUntil
            => CountedBy(k, Y)'
      BY <1>1 DEF CountedBy
    <3> HIDE DEF X
    <3> QED
      BY <2>3, <2>4, <2>5, <2>6, <3>1 DEF GuessInv, X
<1>4. CASE f[k] = [fails |-> 0, lastFail |-> clock, blockedUntil |-> clock + Block]
  <2>1. f[k].fails = 0 /\ f[k].blockedUntil = clock + Block
    BY <1>4
  <2>2. {} \in SUBSET Guesses(k)' /\ Cardinality({}) = 0
    BY FS_EmptySet
  <2>3. \A c \in Guesses(k)' : c.when + Block =< f[k].blockedUntil
    <3>1. \A c \in Guesses(k)' : c.when \in Nat /\ c.when =< clock
      BY <1>2
    <3> QED
      BY <1>2, <2>1, <3>1
  <2>4. Cardinality({}) =< f[k].fails
    BY <2>1, <2>2
  <2>5. CountedBy(k, {})'
    BY <1>1, <2>3, <2>4 DEF CountedBy
  <2> QED
    BY <2>2, <2>5 DEF GuessInv
<1>5. ASSUME NEW old \in EntryType,
             \/ k \in DOMAIN IpEntries /\ old = IpEntries[k]
             \/ k \notin DOMAIN IpEntries \/ k \in a \/ Expired(IpEntries, k),
             f[k] = [old EXCEPT !.fails = old.fails + 1, !.lastFail = clock]
      PROVE  GuessInv(k)'
  <2>1. CASE k \in DOMAIN IpEntries /\ old = IpEntries[k]
    BY <1>3, <1>5, <2>1 DEF CountedBy
  <2>2. CASE k \notin DOMAIN IpEntries \/ (k \in DOMAIN IpEntries /\ Expired(IpEntries, k))
    <3>1. \A c \in Guesses(k) : c.when + Block =< clock
      <4>1. CASE k \notin DOMAIN IpEntries
        BY <4>1 DEF CountedBy
      <4>2. CASE k \in DOMAIN IpEntries /\ Expired(IpEntries, k)
        BY <4>2, EntryExpired
      <4> QED
        BY <2>2, <4>1, <4>2
    <3>2. {} \in SUBSET Guesses(k) /\ Cardinality({}) = 0 /\ old.fails \in Nat
      BY <1>5, FS_EmptySet DEF EntryType
    <3>3. Cardinality({}) =< old.fails
      BY <3>2
    <3> QED
      BY <1>3, <1>5, <3>1, <3>2, <3>3
  <2> QED
    BY <1>5, <2>1, <2>2
<1> QED
  BY <1>1, <1>4, <1>5

(* Only an address that is not blocked adds to its recent guesses, and     *)
(* those of before its block are no longer recent.                         *)
LEMMA RecentBounded ==
  ASSUME LimitTyped, NEW k, NEW G \in SUBSET Guesses(k), CountedBy(k, G), RecentInv(k),
         NEW N, Guesses(k)' = Guesses(k) \cup N,
         \A c \in N : c.when = clock, \E c : N \subseteq {c}, clock' = clock,
         N # {} => ~(k \in DOMAIN IpEntries /\ IpEntries[k].blockedUntil > clock)
  PROVE  RecentInv(k)'
<1>1. /\ \A c \in Guesses(k) : c.when \in Nat /\ c.when =< clock
      /\ clock \in Nat /\ clock > 0 /\ IsFiniteSet(counted) /\ IsFiniteSet(G) /\ Block \in Nat
  BY FS_Subset, LimitAssumption DEF LimitTyped, Guesses
<1>2. SUFFICES ASSUME NEW t \in 1..clock PROVE Cardinality(Recent(k, t)') =< MaxFails["ip"]
  BY DEF RecentInv, Recent
<1>3. Cardinality(Recent(k, t)) =< MaxFails["ip"]
  BY DEF RecentInv
<1>4. CASE N = {} \/ t # clock
  <2>1. Recent(k, t)' = Recent(k, t)
    BY <1>1, <1>4 DEF Recent
  <2> QED
    BY <1>3, <2>1
<1>5. ASSUME NEW c, N = {c}, t = clock
      PROVE  Cardinality(Recent(k, t)') =< MaxFails["ip"]
  <2>1. \A o \in Guesses(k) \ G : o.when + Block =< clock
    <3>1. CASE k \in DOMAIN IpEntries
      <4>1. IpEntries[k].blockedUntil \in Nat /\ IpEntries[k].blockedUntil =< clock
        BY <1>1, <1>5, <3>1 DEF LimitTyped, EntryType
      <4> QED
        BY <1>1, <3>1, <4>1 DEF CountedBy
    <3>2. CASE k \notin DOMAIN IpEntries
      BY <3>2 DEF CountedBy
    <3> QED
      BY <3>1, <3>2
  <2>2. Recent(k, t)' \subseteq G \cup {c}
    <3>1. \A o \in Recent(k, t)' : o \in Guesses(k) \cup {c} /\ o.when \in (t - Block + 1)..t
      BY <1>5 DEF Recent
    <3>2. \A o \in Guesses(k) \ G : o.when \notin (t - Block + 1)..t
      BY <1>1, <1>5, <2>1
    <3> QED
      BY <3>1, <3>2
  <2>3. Cardinality(G) < MaxFails["ip"] /\ Cardinality(G) \in Nat /\ MaxFails["ip"] \in Nat
    <3>1. Cardinality(G) \in Nat /\ MaxFails["ip"] \in Nat /\ MaxFails["ip"] > 0
      BY <1>1, FS_CardinalityType, LimitAssumption
    <3>2. CASE k \in DOMAIN IpEntries
      <4>1. /\ IpEntries[k].fails \in Nat /\ IpEntries[k].fails < MaxFails["ip"]
            /\ Cardinality(G) =< IpEntries[k].fails
        BY <3>2 DEF LimitTyped, EntryType, CountedBy
      <4> QED
        BY <3>1, <4>1
    <3>3. CASE k \notin DOMAIN IpEntries
      <4>1. Cardinality(G) = 0
        BY <3>3, FS_EmptySet DEF CountedBy
      <4> QED
        BY <3>1, <4>1
    <3> QED
      BY <3>1, <3>2, <3>3
  <2>4. /\ IsFiniteSet(G \cup {c})
        /\ Cardinality(G \cup {c}) = IF c \in G THEN Cardinality(G) ELSE Cardinality(G) + 1
    BY <1>1, FS_AddElement
  <2>5. /\ Cardinality(Recent(k, t)') =< Cardinality(G \cup {c})
        /\ Cardinality(Recent(k, t)') \in Nat
    <3>1. \A X : X \subseteq G \cup {c} =>
            Cardinality(X) =< Cardinality(G \cup {c}) /\ Cardinality(X) \in Nat
      BY <2>4, FS_Subset, FS_CardinalityType
    <3> QED
      BY <2>2, <3>1
  <2> QED
    BY <2>3, <2>4, <2>5
<1> QED
  BY <1>4, <1>5

LEMMA LoginFailsHolds ==
  ASSUME LimitInv, NEW g \in Logins, LoginFails(g)
  PROVE  LimitInv'
<1> DEFINE i == IpOf[g]
           late == {l \in Limiters : block_remaining(l, KeyOf(l, g)) > 0}
           c == [login |-> g, when |-> clock, late |-> late]
<1>1. counted' = counted \cup {c} /\ clock' = clock /\ LimitTyped
  BY DEF LoginFails, LimitInv
<1>2. PICK a : /\ IpEntries' = Fail("ip", sweep(IpEntries), i, a)
               /\ a \subseteq forgotten' /\ forgotten \subseteq forgotten'
  BY IpFailure DEF IpEntries
<1>3. PICK f : f = Fail("ip", sweep(IpEntries), i, a) /\ IpEntries' = f
  BY <1>2
<1>4. c.login = g /\ c.when = clock /\ c.late = late
  OBVIOUS
<1>5. "ip" \notin late => ~(i \in DOMAIN IpEntries /\ IpEntries[i].blockedUntil > clock)
  <2>1. SUFFICES ASSUME i \in DOMAIN IpEntries, IpEntries[i].blockedUntil > clock
                 PROVE  "ip" \in late
    OBVIOUS
  <2>2. IpEntries[i].blockedUntil \in Nat /\ clock \in Nat
    BY <1>1, <2>1 DEF LimitTyped, EntryType
  <2>3. block_remaining("ip", i) = IpEntries[i].blockedUntil - clock
    BY <2>1 DEF block_remaining, IpEntries
  <2>4. block_remaining("ip", i) > 0
    BY <2>1, <2>2, <2>3
  <2>5. KeyOf("ip", g) = i
    BY DEF KeyOf
  <2> QED
    BY <2>4, <2>5 DEF Limiters
<1> HIDE DEF i, late, c
<1>6. LimitTyped'
  <2>1. IsFiniteSet(counted')
    BY <1>1, FS_AddElement DEF LimitTyped
  <2>2. \A e \in counted' : e.when \in Nat /\ e.when =< clock'
    BY <1>1, <1>4 DEF LimitTyped
  <2>3. f \in [DOMAIN f -> EntryType]
    BY <1>1, <1>3, FailEntries
  <2>4. \A k \in DOMAIN f : f[k].fails < MaxFails["ip"]
    BY <1>1, <1>3, FailEntries
  <2> QED
    BY <1>1, <1>3, <2>1, <2>2, <2>3, <2>4 DEF LimitTyped
<1>7. \A k \in DOMAIN f : k # i => k \in DOMAIN IpEntries /\ f[k] = IpEntries[k]
  BY <1>3, FailSpares
<1>8. ASSUME NEW k, k \notin forgotten' PROVE GuessInv(k)' /\ RecentInv(k)'
  <2>1. GuessInv(k) /\ RecentInv(k) /\ k \notin a
    BY <1>2, <1>8 DEF LimitInv
  <2>2. PICK G \in SUBSET Guesses(k) : CountedBy(k, G)
    BY <2>1 DEF GuessInv
  <2>3. CASE k = i
    <3> DEFINE N == IF "ip" \in late THEN {} ELSE {c}
    <3>1. Guesses(k)' = Guesses(k) \cup N
      BY <1>1, <1>4, <2>3 DEF Guesses, i
    <3>2. N # {} => ~(k \in DOMAIN IpEntries /\ IpEntries[k].blockedUntil > clock)
      BY <1>5, <2>3
    <3>3. (\A e \in N : e.when = clock) /\ \E e : N \subseteq {e}
      BY <1>4
    <3> HIDE DEF N
    <3>4. RecentInv(k)'
      BY <1>1, <2>1, <2>2, <3>1, <3>2, <3>3, RecentBounded
    <3>5. GuessInv(k)'
      BY <1>1, <1>3, <2>1, <2>2, <2>3, <3>1, <3>3, FailureCounts
    <3> QED
      BY <3>4, <3>5
  <2>4. CASE k # i
    <3>1. Guesses(k)' = Guesses(k)
      BY <1>1, <1>4, <2>4 DEF Guesses, i
    <3>2. RecentInv(k)'
      <4>1. \A t \in 1..clock : Recent(k, t)' = Recent(k, t)
        BY <3>1 DEF Recent
      <4> QED
        BY <1>1, <2>1, <4>1 DEF RecentInv
    <3>3. CASE k \in DOMAIN f
      <4>1. k \in DOMAIN IpEntries /\ f[k] = IpEntries[k]
        BY <1>7, <2>4, <3>3
      <4>2. CountedBy(k, G)'
        BY <1>1, <1>3, <2>2, <3>1, <3>3, <4>1 DEF CountedBy
      <4> QED
        BY <2>2, <3>1, <3>2, <4>2 DEF GuessInv
    <3>4. CASE k \notin DOMAIN f
      <4>1. \A e \in Guesses(k) : e.when + Block =< clock
        <5>1. CASE k \in DOMAIN IpEntries
          <6>1. Expired(IpEntries, k)
            BY <1>1, <1>3, <2>1, <3>4, <5>1, FailEntries
          <6> QED
            BY <1>1, <2>2, <5>1, <6>1, EntryExpired
        <5> QED
          BY <2>2, <5>1 DEF CountedBy
      <4>2. CountedBy(k, {})'
        BY <1>1, <1>3, <3>1, <3>4, <4>1 DEF CountedBy
      <4> QED
        BY <3>2, <4>2 DEF GuessInv
    <3> QED
      BY <3>2, <3>3, <3>4
  <2> QED
    BY <2>3, <2>4
<1> QED
  BY <1>2, <1>6, <1>8 DEF LimitInv

(* Time passes, and what is shown to a user does not touch the limiter.    *)
LEMMA ClockHolds ==
  ASSUME LimitInv, LTick
  PROVE  LimitInv'
<1>1. /\ clock' = clock + 1 /\ failures' = failures /\ counted' = counted
      /\ forgotten' = forgotten /\ LimitTyped /\ clock \in Nat /\ Block \in Nat /\ Block > 0
  BY LimitAssumption DEF LTick, LimitInv, LimitTyped
<1>2. IpEntries' = IpEntries /\ \A k : Guesses(k)' = Guesses(k)
  BY <1>1 DEF IpEntries, Guesses
<1>3. \A c \in counted : c.when \in Nat /\ c.when =< clock
  BY <1>1 DEF LimitTyped
<1>4. LimitTyped'
  BY <1>1, <1>2, <1>3 DEF LimitTyped
<1>5. ASSUME NEW k, k \notin forgotten PROVE GuessInv(k)' /\ RecentInv(k)'
  <2>1. GuessInv(k) /\ RecentInv(k)
    BY <1>5 DEF LimitInv
  <2>2. PICK G \in SUBSET Guesses(k) : CountedBy(k, G)
    BY <2>1 DEF GuessInv
  <2>3. \A c \in Guesses(k) : c \in counted
    BY DEF Guesses
  <2>4. CountedBy(k, G)'
    BY <1>1, <1>2, <1>3, <2>2, <2>3 DEF CountedBy
  <2>5. ASSUME NEW t \in 1..(clock + 1) PROVE Cardinality(Recent(k, t)') =< MaxFails["ip"]
    <3>1. CASE t \in 1..clock
      <4>1. Recent(k, t)' = Recent(k, t)
        BY <1>2 DEF Recent
      <4> QED
        BY <2>1, <3>1, <4>1 DEF RecentInv
    <3>2. CASE t = clock + 1 /\ clock > 0
      <4>1. Recent(k, t)' \subseteq Recent(k, clock)
        BY <1>1, <1>2, <1>3, <2>3, <3>2 DEF Recent
      <4>2. Cardinality(Recent(k, clock)) =< MaxFails["ip"]
        BY <1>1, <2>1, <3>2 DEF RecentInv
      <4>3. IsFiniteSet(Recent(k, clock))
        <5>1. Recent(k, clock) \subseteq counted /\ IsFiniteSet(counted)
          BY <1>1 DEF Recent, Guesses, LimitTyped
        <5> QED
          BY <5>1, FS_Subset
      <4>4. \A X : X \subseteq Recent(k, clock) =>
              /\ Cardinality(X) =< Cardinality(Recent(k, clock))
              /\ Cardinality(X) \in Nat /\ Cardinality(Recent(k, clock)) \in Nat
        BY <4>3, FS_Subset, FS_CardinalityType
      <4>5. MaxFails["ip"] \in Nat
        BY LimitAssumption
      <4> QED
        BY <4>1, <4>2, <4>4, <4>5
    <3>3. clock > 0
      BY <1>1 DEF LimitTyped
    <3> QED
      BY <1>1, <2>5, <3>1, <3>2, <3>3
  <2>6. RecentInv(k)'
    BY <1>1, <2>5 DEF RecentInv, Recent
  <2> QED
    BY <1>2, <2>2, <2>4, <2>6 DEF GuessInv
<1> QED
  BY <1>1, <1>4, <1>5 DEF LimitInv

LEMMA LimitStep == LimitInv /\ [LNext]_lvars => LimitInv'
<1> SUFFICES ASSUME LimitInv, [LNext]_lvars PROVE LimitInv'
  OBVIOUS
<1>1. ASSUME IpEntries' = IpEntries, clock' = clock, counted' = counted, forgotten' = forgotten
      PROVE  LimitInv'
  <2>1. LimitTyped'
    BY <1>1 DEF LimitInv, LimitTyped
  <2>2. ASSUME NEW k, k \notin forgotten PROVE GuessInv(k)' /\ RecentInv(k)'
    <3>1. GuessInv(k) /\ RecentInv(k)
      BY <2>2 DEF LimitInv
    <3>2. Guesses(k)' = Guesses(k) /\ \A t : Recent(k, t)' = Recent(k, t)
      BY <1>1 DEF Guesses, Recent
    <3>3. \A G : CountedBy(k, G)' <=> CountedBy(k, G)
      BY <1>1, <3>2 DEF CountedBy
    <3> QED
      BY <1>1, <3>1, <3>2, <3>3 DEF GuessInv, RecentInv
  <2> QED
    BY <1>1, <2>1, <2>2 DEF LimitInv
<1>2. ASSUME NEW g \in Logins, LoginSucceeds(g) PROVE LimitInv'
  <2>1. failures' = [failures EXCEPT !["user"] = Except(failures["user"], {NameOf[g]})]
    BY <1>2 DEF LoginSucceeds, Cleared
  <2>2. IpEntries' = IpEntries
    BY <2>1 DEF IpEntries
  <2> QED
    BY <1>1, <1>2, <2>2 DEF LoginSucceeds
<1>3. ASSUME NEW g \in Logins, LoginPost(g) PROVE LimitInv'
  BY <1>1, <1>3 DEF LoginPost, IpEntries
<1>4. CASE UNCHANGED lvars
  BY <1>1, <1>4 DEF lvars, IpEntries
<1> QED
  BY <1>2, <1>3, <1>4, LoginFailsHolds, ClockHolds DEF LNext

LEMMA LimitInit == LInit => LimitInv
<1> SUFFICES ASSUME LInit PROVE LimitInv
  OBVIOUS
<1>1. /\ DOMAIN IpEntries = {} /\ counted = {} /\ clock = 1
      /\ \A k : Guesses(k) = {} /\ \A t : Recent(k, t) = {}
  BY DEF LInit, IpEntries, Limiters, Guesses, Recent
<1>2. IpEntries \in [DOMAIN IpEntries -> EntryType]
  BY DEF LInit, IpEntries, Limiters
<1>3. LimitTyped
  BY <1>1, <1>2, FS_EmptySet DEF LimitTyped
<1>4. ASSUME NEW k PROVE GuessInv(k) /\ RecentInv(k)
  <2>1. CountedBy(k, {})
    BY <1>1 DEF CountedBy
  <2>2. RecentInv(k)
    <3>1. Cardinality({}) = 0 /\ MaxFails["ip"] \in Nat
      BY FS_EmptySet, LimitAssumption
    <3>2. \A t : Cardinality(Recent(k, t)) = 0
      BY <1>1, <3>1
    <3> QED
      BY <3>1, <3>2 DEF RecentInv
  <2> QED
    BY <2>1, <2>2 DEF GuessInv
<1> QED
  BY <1>3, <1>4 DEF LimitInv

LEMMA LimitBounds == LimitInv => GuessesBounded
<1> SUFFICES ASSUME LimitInv, NEW k, k \notin forgotten, NEW t \in 1..clock
             PROVE  Cardinality({c \in counted : /\ IpOf[c.login] = k
                                                 /\ "ip" \notin c.late
                                                 /\ c.when \in (t - Block + 1)..t})
                      =< MaxFails["ip"]
  BY DEF GuessesBounded
<1>1. Cardinality(Recent(k, t)) =< MaxFails["ip"]
  BY DEF LimitInv, RecentInv
<1>2. Recent(k, t) = {c \in counted : /\ IpOf[c.login] = k
                                      /\ "ip" \notin c.late
                                      /\ c.when \in (t - Block + 1)..t}
  BY DEF Recent, Guesses
<1> QED
  BY <1>1, <1>2

(* However many logins from however many addresses wait for their hash at  *)
(* once, within any stretch as long as a block an address gets no more     *)
(* wrong answers than the limiter is set to, save those past the check     *)
(* when its block began, unless its entry was evicted (block_remaining,    *)
(* register_failure).                                                      *)
THEOREM GuessesBoundedHolds == LSpec => []GuessesBounded
<1>1. LSpec => []LimitInv
  BY LimitInit, LimitStep, PTL DEF LSpec
<1> QED
  BY <1>1, LimitBounds, PTL
=============================================================================
