------------------------------ MODULE AdminPage ------------------------------
(***************************************************************************)
(* The uploads tab of the admin page (routes/admin/+page.svelte) and the   *)
(* endpoints behind it (admin.ts): signing in with the key, the list with  *)
(* its filter and pages, deleting.                                         *)
(*                                                                         *)
(* Every control starts a load of the list and nothing waits for an        *)
(* earlier one; an answer is shown whatever the controls say by then.      *)
(* Several uploads may be under deletion at once, and others upload and    *)
(* delete at any time.  The key is checked on every request, and a refusal *)
(* signs out.                                                              *)
(***************************************************************************)
EXTENDS Integers, FiniteSets

CONSTANTS
  Uploads,      \* numbers; the list is sorted by them
  Coming,       \* those that are not there at first
  Matching,     \* those a search finds
  PageSize,     \* pageSize
  Keys,         \* admin keys; the server's may change once, at a restart
  MaxSteps,     \* bound: what the admin and others do
  RequestsFail  \* BOOLEAN: requests may fail for another reason

VARIABLES
  uploads, coming,  \* the collection, and what is yet to be uploaded
  serverKey, \* AUTH_ADMIN_KEY
  adminKey, sessionKey, authenticated,  \* the page's key, sessionStorage's, signed in
  controls,  \* [search, page]: what the controls say
  data,      \* the answer shown: [items, page, search, totalPages], and the
             \* collection it was made of
  loading,   \* a load has begun since the last one to end
  requests,  \* loads and deletions under way
  steps,
  crossed,   \* history: requests overlapped or failed, and no first page was
             \* loaded alone since
  others     \* history: uploads others deleted since a first page was served

avars == <<uploads, coming, serverKey, adminKey, sessionKey, authenticated, controls, data,
           loading, requests, steps, crossed, others>>

(* Without AUTH_ADMIN_KEY nobody is let in: no key is empty. *)
AdminAssumption ==
  /\ IsFiniteSet(Uploads) /\ Uploads \subseteq Int /\ Coming \subseteq Uploads
  /\ PageSize \in Nat \ {0}
  /\ "" \notin Keys

session == <<adminKey, sessionKey, authenticated>>
collection == <<uploads, coming, others>>
NoData == [items |-> {}, page |-> 0, search |-> FALSE, totalPages |-> 0, of |-> {}]
Somebody == steps < MaxSteps /\ steps' = steps + 1

AInit ==
  /\ uploads = Uploads \ Coming /\ coming = Coming /\ others = {} /\ serverKey \in Keys
  /\ adminKey = "" /\ sessionKey = "" /\ authenticated = FALSE
  /\ controls = [search |-> FALSE, page |-> 1] /\ data = NoData /\ loading = FALSE
  /\ requests = {} /\ steps = 0 /\ crossed = FALSE

(***************************************************************************)
(* The server.                                                             *)
(***************************************************************************)

(* match, sort, skip and limit. *)
Matched(all, search) == IF search THEN all \cap Matching ELSE all

buildAdminPipeline(all, search, page) ==
  LET rank(u) == Cardinality({v \in Matched(all, search) : v =< u})
  IN {u \in Matched(all, search) : rank(u) \in (page - 1) * PageSize + 1 .. page * PageSize}

(* getAdminUploadPage. *)
Pages(all, search) == (Cardinality(Matched(all, search)) + PageSize - 1) \div PageSize

(* Somebody uploads, another admin deletes. *)
Uploaded(u) ==
  /\ Somebody
  /\ u \in coming
  /\ coming' = coming \ {u} /\ uploads' = uploads \cup {u}
  /\ UNCHANGED <<serverKey, session, controls, data, loading, requests, crossed, others>>

DeletedElsewhere(u) ==
  /\ Somebody
  /\ u \in uploads
  /\ uploads' = uploads \ {u} /\ others' = others \cup {u}
  /\ UNCHANGED <<coming, serverKey, session, controls, data, loading, requests, crossed>>

Replace(k, new) == requests' = (requests \ {k}) \cup {new}

adminAuthStatus(k) == k.key = serverKey

(* A list request, or a deletion: 401, 404, or what was asked for.         *)
ServeList(k) ==
  /\ k.kind = "list" /\ k.stage = "sent"
  /\ Replace(k, [k EXCEPT
       !.stage = IF adminAuthStatus(k) THEN "ok" ELSE "unauthorized",
       !.items = IF adminAuthStatus(k) THEN buildAdminPipeline(uploads, k.search, k.page) ELSE {},
       !.totalPages = Pages(uploads, k.search), !.of = uploads])
  /\ others' = IF adminAuthStatus(k) /\ k.page = 1 THEN {} ELSE others
  /\ UNCHANGED <<uploads, coming, serverKey, session, controls, data, loading, steps, crossed>>

ServeDelete(k) ==
  LET allowed == adminAuthStatus(k)
  IN
  /\ k.kind = "delete" /\ k.stage = "sent"
  /\ uploads' = IF allowed THEN uploads \ {k.upload} ELSE uploads
  /\ Replace(k, [k EXCEPT !.stage =
       IF ~allowed THEN "unauthorized" ELSE IF k.upload \in uploads THEN "ok" ELSE "gone"])
  /\ UNCHANGED <<coming, serverKey, session, controls, data, loading, steps, crossed, others>>

ChangeKey ==
  /\ Somebody
  /\ requests # {} \/ authenticated
  /\ serverKey' \in Keys \ {serverKey}
  /\ UNCHANGED <<collection, session, controls, data, loading, requests, crossed>>

(***************************************************************************)
(* The page.                                                               *)
(***************************************************************************)

NewRequest(kind, upload, key, at) ==
  [n |-> steps, kind |-> kind, upload |-> upload, key |-> key, search |-> at.search,
   page |-> at.page, signIn |-> FALSE, stage |-> "sent", items |-> {}, totalPages |-> 0,
   of |-> {}]

(* A request that leaves while another is under way makes what comes back  *)
(* a matter of order; a load of a first page, alone, settles what is shown.*)
Sending(new) ==
  /\ requests' = requests \cup {new}
  /\ loading' = (loading \/ new.kind = "list")
  /\ crossed' = (requests # {} \/ (crossed /\ (new.kind = "delete" \/ new.page # 1)))

loadUploads(at, key) == Sending(NewRequest("list", 0, key, at))

(* authenticate: the key is kept at once, and the first page loaded.       *)
SignIn(key) ==
  /\ Somebody
  /\ ~authenticated
  /\ \A k \in requests : ~k.signIn
  /\ adminKey' = key /\ sessionKey' = key
  /\ controls' = [controls EXCEPT !.page = 1]
  /\ Sending([NewRequest("list", 0, key, controls') EXCEPT !.signIn = TRUE])
  /\ UNCHANGED <<collection, serverKey, authenticated, data>>

SignedOut ==
  /\ adminKey' = "" /\ sessionKey' = "" /\ authenticated' = FALSE
  /\ data' = NoData

signOut ==
  /\ Somebody
  /\ authenticated
  /\ SignedOut
  /\ UNCHANGED <<collection, serverKey, controls, loading, requests, crossed>>

(* submitSearch and controlsChanged, at any time. *)
Filter(search) ==
  /\ Somebody
  /\ authenticated
  /\ controls' = [search |-> search, page |-> 1]
  /\ loadUploads(controls', adminKey)
  /\ UNCHANGED <<collection, serverKey, session, data>>

(* goToPage, from the buttons under a list that is not empty. *)
Turnable(page) == ~loading /\ page \in 1..data.totalPages

goToPage(page) ==
  /\ Somebody
  /\ authenticated /\ data.items # {}
  /\ Turnable(page)
  /\ controls' = [controls EXCEPT !.page = page]
  /\ loadUploads(controls', adminKey)
  /\ UNCHANGED <<collection, serverKey, session, data>>

deleteUpload(u) ==
  /\ Somebody
  /\ authenticated /\ u \in data.items
  /\ \A k \in requests : k.upload # u
  /\ Sending(NewRequest("delete", u, adminKey, controls))
  /\ UNCHANGED <<collection, serverKey, session, controls, data>>

(* The answer to a load; the one of authenticate signs in.                 *)
ListAnswer(k) ==
  /\ k.kind = "list" /\ k.stage = "ok"
  /\ data' = [items |-> k.items, page |-> k.page, search |-> k.search,
               totalPages |-> k.totalPages, of |-> k.of]
  /\ authenticated' = (authenticated \/ k.signIn)
  /\ requests' = requests \ {k}
  /\ loading' = FALSE
  /\ UNCHANGED <<collection, serverKey, adminKey, sessionKey, controls, steps, crossed>>

(* Mutant of PageAfterDeletion: the page stays. *)
SamePage == controls

(* The last upload of a page is gone: back to the page before.             *)
PageAfterDeletion ==
  IF Cardinality(data.items) = 1 /\ controls.page > 1
  THEN [controls EXCEPT !.page = @ - 1] ELSE controls

(* Deleted, or found deleted, when the page stays: the list is loaded      *)
(* again, and the button of this upload stays disabled until then.         *)
DeleteAnswer(k) ==
  LET rest == requests \ {k}
  IN
  /\ k.kind = "delete" /\ k.stage \in {"ok", "gone"}
  /\ controls' = IF k.stage = "ok" THEN PageAfterDeletion ELSE controls
  /\ requests' = rest \cup {[NewRequest("list", k.upload, adminKey, controls') EXCEPT !.n = k.n]}
  /\ loading' = TRUE
  /\ crossed' = (crossed \/ rest # {})
  /\ UNCHANGED <<collection, serverKey, session, data, steps>>

(* A refusal signs out, also when the key was entered again since.         *)
Unauthorized(k) ==
  /\ k.stage = "unauthorized"
  /\ SignedOut
  /\ requests' = requests \ {k}
  /\ loading' = (loading /\ k.kind # "list")
  /\ UNCHANGED <<collection, serverKey, controls, steps, crossed>>

(* Any other failure: an error is shown above the list there was.          *)
RequestFails(k) ==
  /\ RequestsFail /\ k.stage # "unauthorized"
  /\ authenticated' = (authenticated /\ ~k.signIn)
  /\ requests' = requests \ {k}
  /\ loading' = (loading /\ k.kind # "list")
  /\ crossed' = TRUE
  /\ UNCHANGED <<collection, serverKey, adminKey, sessionKey, controls, data, steps>>

ANext ==
  \/ ChangeKey \/ signOut
  \/ \E key \in Keys : SignIn(key)
  \/ \E search \in BOOLEAN : Filter(search)
  \/ \E page \in {controls.page - 1, controls.page + 1} : goToPage(page)
  \/ \E u \in Uploads : deleteUpload(u) \/ Uploaded(u) \/ DeletedElsewhere(u)
  \/ \E k \in requests : \/ ServeList(k) \/ ServeDelete(k) \/ ListAnswer(k) \/ DeleteAnswer(k)
                         \/ Unauthorized(k) \/ RequestFails(k)

ASpec == AInit /\ [][ANext]_avars

-----------------------------------------------------------------------------
(* Properties.                                                             *)

(* Once every request is answered, and unless requests overlapped, the     *)
(* list is what the server had for what the controls say; what is still on *)
(* it but gone was deleted by others, and never here; and it is empty only *)
(* when nothing matched, since deleting the last upload of a page goes     *)
(* back - or when others deleted since a first page was served: then a     *)
(* page that lost its last upload is shown empty.                          *)
ListCurrent ==
  authenticated /\ requests = {} /\ ~crossed =>
    /\ data.items = buildAdminPipeline(data.of, controls.search, controls.page)
    /\ data.page = controls.page /\ data.search = controls.search
    /\ data.of \ uploads \subseteq others
    /\ data.items = {} /\ others = {} => buildAdminPipeline(data.of, controls.search, 1) = {}
=============================================================================
