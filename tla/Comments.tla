------------------------------ MODULE Comments ------------------------------
(***************************************************************************)
(* Comments and reactions: the server (comments.ts), the calls of the      *)
(* client (lib/upload/comments.ts) and the comment list of an upload's     *)
(* page (CommentsView.svelte), with the browser's localStorage.            *)
(*                                                                         *)
(* A click sends the reaction the page wants to have, computed from what   *)
(* it shows; the server replaces what it kept of this browser and moves    *)
(* the totals in one update; only the answer changes the page and the      *)
(* storage.  Moving through the history from one upload to another keeps   *)
(* the view, its reply and its calls; a load starts over, and the answers  *)
(* of calls still under way reach nobody.                                  *)
(***************************************************************************)
EXTENDS Integers, FiniteSets

CONSTANTS
  Tabs, Browser,   \* open tabs, and the client UUID each one sends
  Uploads,         \* public uploads
  CommentIds,      \* that may be drawn
  FirstComment,    \* one of them, which exists from the start,
  Other,           \* with an upvote of another browser
  IdAttempts,      \* COMMENT_ID_ATTEMPTS
  MaxSteps,        \* bound: steps of users
  CallsFail        \* BOOLEAN: calls may fail, with or without effect, and storage

VARIABLES
  comments,  \* the collection: [upload, parent, reactions, stat] by id
  listed,    \* uploads that still exist
  stored,    \* fbc_comment_reactions: reactions by browser and comment
  page,      \* the view of each tab: [upload, mine, reply_to, pending, submitting]
  calls,     \* requests under way
  made,      \* steps of users so far
  unsure     \* history: <<browser, comment>> whose reactions overlapped, got lost or
             \* could not be stored

cvars == <<comments, listed, stored, page, calls, made, unsure>>

Browsers == {Browser[t] : t \in Tabs}
Nobody == "none"

(* A load leaves its calls to Nobody; Other is no browser of these tabs. *)
CommentsAssumption == Nobody \notin Tabs /\ Other \notin Browsers

Reaction == [rating : {"up", "down", "null"}, eyes : BOOLEAN]
defaultReaction == [rating |-> "null", eyes |-> FALSE]
Get(f, k) == IF k \in DOMAIN f THEN f[k] ELSE defaultReaction
Put(f, k, v) == [j \in DOMAIN f \cup {k} |-> IF j = k THEN v ELSE f[j]]

NoStat == [up |-> 0, down |-> 0, eyes |-> 0]
IdsOf(u) == {c \in DOMAIN comments : comments[c].upload = u}

(* What the page of upload u shows of the browser's own reactions.         *)
comments_from_source(u, b) == [c \in IdsOf(u) |-> Get(stored[b], c)]

NewView(u, b) ==
  [upload |-> u, mine |-> comments_from_source(u, b), reply_to |-> Nobody,
   pending |-> {}, submitting |-> FALSE]

CInit ==
  \E u \in Uploads :
    /\ comments = [c \in {FirstComment} |->
         [upload |-> u, parent |-> Nobody, stat |-> [NoStat EXCEPT !.up = 1],
          reactions |-> [b \in {Other} |-> [rating |-> "up", eyes |-> FALSE]]]]
    /\ stored = [b \in Browsers |-> <<>>]
    /\ page = [t \in Tabs |-> NewView(u, Browser[t])]
    /\ listed = Uploads /\ calls = {} /\ made = 0 /\ unsure = {}

(***************************************************************************)
(* The page.                                                               *)
(***************************************************************************)

UserStep == made < MaxSteps /\ made' = made + 1

Moves(call, stage) == calls' = (calls \ {call}) \cup {[call EXCEPT !.stage = stage]}

(* A second call of the same browser about the same comment, from another  *)
(* of its tabs or from a page that is gone: nobody knows which one counts. *)
Overlapping(b, c) == {k \in calls : k.kind = "react" /\ k.browser = b /\ k.about = c}

Send(t, kind, about, want) ==
  LET new == [n |-> made, kind |-> kind, tab |-> t, browser |-> Browser[t],
              about |-> about, want |-> want, tries |-> 0, stage |-> "sent"]
  IN /\ UserStep
     /\ calls' = calls \cup {new}

Clickable(t, c) == c \in DOMAIN page[t].mine /\ c \notin page[t].pending

Toggled(r, click) ==
  IF click = "eyes" THEN [r EXCEPT !.eyes = ~@]
  ELSE [r EXCEPT !.rating = IF @ = click THEN "null" ELSE click]

(* reaction_vote and reaction_eyes, with reaction_apply up to its call.    *)
React(t, c, click) ==
  /\ Clickable(t, c)
  /\ Send(t, "react", c, Toggled(page[t].mine[c], click))
  /\ page' = [page EXCEPT ![t].pending = @ \cup {c}]
  /\ unsure' = IF \E k \in Overlapping(Browser[t], c) : k.tab # t
               THEN unsure \cup {<<Browser[t], c>>} ELSE unsure
  /\ UNCHANGED <<comments, listed, stored>>

comment_reply(t, c) ==
  /\ UserStep
  /\ c \in DOMAIN page[t].mine
  /\ page' = [page EXCEPT ![t].reply_to = c]
  /\ UNCHANGED <<comments, listed, stored, calls, unsure>>

comment_reply_cancel(t) ==
  /\ UserStep
  /\ page[t].reply_to # Nobody
  /\ page' = [page EXCEPT ![t].reply_to = Nobody]
  /\ UNCHANGED <<comments, listed, stored, calls, unsure>>

comment_submit(t) ==
  /\ ~page[t].submitting
  /\ Send(t, "create", page[t].upload, page[t].reply_to)
  /\ page' = [page EXCEPT ![t].submitting = TRUE]
  /\ UNCHANGED <<comments, listed, stored, unsure>>

(* Through the history to another upload: the view stays, and is seeded.   *)
Navigate(t, u) ==
  /\ UserStep
  /\ u \in listed /\ u # page[t].upload
  /\ page' = [page EXCEPT ![t].upload = u, ![t].mine = comments_from_source(u, Browser[t])]
  /\ UNCHANGED <<comments, listed, stored, calls, unsure>>

(* A load: calls under way are on their own. *)
Load(t, u) ==
  LET cut == {k \in calls : k.tab = t}
  IN
  /\ UserStep
  /\ u \in listed
  /\ page' = [page EXCEPT ![t] = NewView(u, Browser[t])]
  /\ calls' = (calls \ cut) \cup {[k EXCEPT !.tab = Nobody] : k \in cut}
  /\ unsure' = unsure \cup {<<k.browser, k.about>> : k \in {k \in cut : k.kind = "react"}}
  /\ UNCHANGED <<comments, listed, stored>>

(***************************************************************************)
(* The server.  An upload may be deleted, its comments stay.               *)
(***************************************************************************)

publicUploadExists(u) == u \in listed

deleteUpload(u) ==
  /\ UserStep
  /\ u \in listed
  /\ listed' = listed \ {u}
  /\ UNCHANGED <<comments, stored, page, calls, unsure>>

(* updateCommentReaction up to its update; comments are never removed, so  *)
(* what is read of one still holds later; the upload may go meanwhile.     *)
ReactRead(k) ==
  /\ k.kind = "react" /\ k.stage = "sent"
  /\ Moves(k, IF publicUploadExists(comments[k.about].upload) THEN "updating" ELSE "failed")
  /\ UNCHANGED <<comments, listed, stored, page, made, unsure>>

Max0(n) == IF n < 0 THEN 0 ELSE n
One(test) == IF test THEN 1 ELSE 0

(* Mutant of buildReactionUpdatePipeline: the earlier reaction still counts. *)
AddReaction(doc, b, want) ==
  [doc EXCEPT !.reactions = Put(@, b, want),
    !.stat = [up |-> @.up + One(want.rating = "up"), down |-> @.down + One(want.rating = "down"),
              eyes |-> @.eyes + One(want.eyes)]]

buildReactionUpdatePipeline(doc, b, want) ==
  LET prior == Get(doc.reactions, b)
      Moved(n, was, is) == Max0(n - One(was) + One(is))
  IN [doc EXCEPT
       !.reactions = Put(@, b, want),
       !.stat = [up |-> Moved(@.up, prior.rating = "up", want.rating = "up"),
                 down |-> Moved(@.down, prior.rating = "down", want.rating = "down"),
                 eyes |-> Moved(@.eyes, prior.eyes, want.eyes)]]

(* The update, or its failure with or without effect.                      *)
ReactUpdate(k) ==
  LET c == k.about
      write == comments' = [comments EXCEPT ![c] =
                 buildReactionUpdatePipeline(@, k.browser, k.want)]
  IN
  /\ k.kind = "react" /\ k.stage = "updating"
  /\ \/ write /\ Moves(k, "answered") /\ UNCHANGED unsure
     \/ /\ CallsFail
        /\ Moves(k, "failed")
        /\ \/ write /\ unsure' = unsure \cup {<<k.browser, c>>}
           \/ UNCHANGED <<comments, unsure>>
  /\ UNCHANGED <<listed, stored, page, made>>

CreateCheck(k) ==
  /\ k.kind = "create" /\ k.stage = "sent"
  /\ Moves(k, IF ~publicUploadExists(k.about) THEN "failed"
              ELSE IF k.want = Nobody THEN "inserting" ELSE "parent")
  /\ UNCHANGED <<comments, listed, stored, page, made, unsure>>

Parents(u) == IdsOf(u)

CreateParent(k) ==
  /\ k.kind = "create" /\ k.stage = "parent"
  /\ Moves(k, IF k.want \in Parents(k.about) THEN "inserting" ELSE "failed")
  /\ UNCHANGED <<comments, listed, stored, page, made, unsure>>

(* insertCommentDocument with an id c drawn at random: a taken one is      *)
(* drawn again, up to IdAttempts times; other errors are final.            *)
CreateInsert(k, c) ==
  LET new == [upload |-> k.about, parent |-> k.want, reactions |-> <<>>, stat |-> NoStat]
      insert == comments' = Put(comments, c, new)
  IN
  /\ k.kind = "create" /\ k.stage = "inserting"
  /\ IF c \in DOMAIN comments
     THEN /\ IF k.tries + 1 < IdAttempts
             THEN calls' = (calls \ {k}) \cup {[k EXCEPT !.tries = @ + 1]}
             ELSE Moves(k, "failed")
          /\ UNCHANGED comments
     ELSE \/ /\ insert
             /\ calls' = (calls \ {k}) \cup {[k EXCEPT !.stage = "answered", !.want = c]}
          \/ CallsFail /\ Moves(k, "failed") /\ (insert \/ UNCHANGED comments)
  /\ UNCHANGED <<listed, stored, page, made, unsure>>

(***************************************************************************)
(* The answers.                                                            *)
(***************************************************************************)

(* An answer, or the news of a failure; one with no tab left is dropped.   *)
Gone(k) ==
  /\ k.tab = Nobody /\ k.stage \in {"answered", "failed"}
  /\ calls' = calls \ {k}
  /\ UNCHANGED <<comments, listed, stored, page, made, unsure>>

(* The answer may also be lost on its way: the page sees a failure.        *)
LoseAnswer(k) ==
  /\ CallsFail /\ k.stage = "answered" /\ k.tab # Nobody
  /\ Moves(k, "failed")
  /\ unsure' = IF k.kind = "react" THEN unsure \cup {<<k.browser, k.about>>} ELSE unsure
  /\ UNCHANGED <<comments, listed, stored, page, made>>

Settled(view, c) == [view EXCEPT !.pending = @ \ {c}]

(* The rest of reaction_apply: the page first, then the storage, which may *)
(* be full: the page keeps the reaction and tells the user.                *)
ReactAnswer(k) ==
  LET t == k.tab  c == k.about  b == k.browser
      shown == IF c \in DOMAIN page[t].mine THEN [page[t].mine EXCEPT ![c] = k.want]
               ELSE page[t].mine
  IN
  /\ k.kind = "react" /\ k.stage = "answered" /\ t # Nobody
  /\ page' = [page EXCEPT ![t] = Settled([@ EXCEPT !.mine = shown], c)]
  /\ \/ stored' = [stored EXCEPT ![b] = Put(@, c, k.want)] /\ UNCHANGED unsure
     \/ CallsFail /\ unsure' = unsure \cup {<<b, c>>} /\ UNCHANGED stored
  /\ calls' = calls \ {k}
  /\ UNCHANGED <<comments, listed, made>>

CreateAnswer(k) ==
  LET t == k.tab
  IN
  /\ k.kind = "create" /\ k.stage = "answered" /\ t # Nobody
  /\ page' = [page EXCEPT ![t].mine = Put(@, k.want, defaultReaction),
                          ![t].reply_to = Nobody, ![t].submitting = FALSE]
  /\ calls' = calls \ {k}
  /\ UNCHANGED <<comments, listed, stored, made, unsure>>

Failure(k) ==
  LET t == k.tab
  IN
  /\ k.stage = "failed" /\ t # Nobody
  /\ page' = [page EXCEPT ![t] =
       IF k.kind = "react" THEN Settled(@, k.about) ELSE [@ EXCEPT !.submitting = FALSE]]
  /\ calls' = calls \ {k}
  /\ UNCHANGED <<comments, listed, stored, made, unsure>>

CNext ==
  \/ \E t \in Tabs :
       \/ \E c \in CommentIds, click \in {"up", "down", "eyes"} : React(t, c, click)
       \/ \E c \in CommentIds : comment_reply(t, c)
       \/ comment_reply_cancel(t) \/ comment_submit(t)
       \/ \E u \in Uploads : Navigate(t, u) \/ Load(t, u)
  \/ \E u \in Uploads : deleteUpload(u)
  \/ \E k \in calls :
       \/ ReactRead(k) \/ ReactUpdate(k) \/ CreateCheck(k) \/ CreateParent(k)
       \/ \E c \in CommentIds : CreateInsert(k, c)
       \/ Gone(k) \/ LoseAnswer(k) \/ ReactAnswer(k) \/ CreateAnswer(k) \/ Failure(k)

CSpec == CInit /\ [][CNext]_cvars

-----------------------------------------------------------------------------
(* Properties.                                                             *)

Voters(of, rating) == {b \in DOMAIN of : of[b].rating = rating}
Watchers(of) == {b \in DOMAIN of : of[b].eyes}

(* The totals of a comment are the sum of the reactions it keeps, and what *)
(* a browser keeps in its storage, and shows after a reload, is what the   *)
(* server keeps of it, except for a comment its tabs reacted to at the     *)
(* same time, of which an answer never came, or that the storage could not *)
(* take.  Whatever the pages still hold when they move on to another       *)
(* upload, a reply belongs to the upload of the comment it replies to.     *)
ReactionsAgree ==
  \A c \in DOMAIN comments :
    LET parent == comments[c].parent
        of == comments[c].reactions
    IN /\ comments[c].stat = [up |-> Cardinality(Voters(of, "up")),
                              down |-> Cardinality(Voters(of, "down")),
                              eyes |-> Cardinality(Watchers(of))]
       /\ \A b \in Browsers :
            Overlapping(b, c) = {} /\ <<b, c>> \notin unsure => Get(stored[b], c) = Get(of, b)
       /\ parent # Nobody =>
            parent \in DOMAIN comments /\ comments[parent].upload = comments[c].upload
=============================================================================
