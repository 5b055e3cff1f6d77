-------------------------------- MODULE Feed --------------------------------
(***************************************************************************)
(* The in-memory feed of public uploads (feed.ts) beside the uploads       *)
(* collection, and the requests that change either: receiving an upload or *)
(* a note, counting a view, deleting (uploads.ts).                         *)
(*                                                                         *)
(* Each database call is a step of the server followed, later, by the      *)
(* handler's synchronous continuation; what the two do to an upload can    *)
(* interleave with every other request.  Receiving files and deleting hold *)
(* the storage mutation lock; notes and views do not.                      *)
(***************************************************************************)
EXTENDS Integers, Sequences, FiniteSets, SequencesExt

CONSTANTS
  Ids,             \* id_pub of the uploads to come: a finite set of numbers
  When,            \* their `when`, a function from Ids to numbers
  Public, Notes,   \* the public ones; the ones received without the lock
  Views, Deletes,  \* requests
  Target,          \* the id such a request names
  FeedFaults       \* which of "crash", "db" may happen

ASSUME FeedAssumption ==
  /\ IsFiniteSet(Ids) /\ Ids \subseteq Nat /\ When \in [Ids -> Int]
  /\ Public \subseteq Ids
  /\ Ids \cap (Views \cup Deletes) = {} /\ Views \cap Deletes = {}
  /\ Target \in [Views \cup Deletes -> Ids]

VARIABLES
  documents,   \* the uploads collection: stat.views by stored id
  feed,        \* `uploads` of feed.ts: a sequence of [id, views]
  handler,     \* the `await` each request is at
  read,        \* the document a view fetched: {} or {views}
  feed_raced   \* history: requests that reached the feed too late or too early

feed_vars == <<documents, feed, handler, read, feed_raced>>

FeedRequests == Ids \cup Views \cup Deletes
Stored == DOMAIN documents
Move(r, place) == handler' = [handler EXCEPT ![r] = place]

(* One holder of the storage mutation lock at a time. *)
Locked == \E r \in (Ids \ Notes) \cup Deletes : handler[r] \in {"inserted", "removing"}

(* findOneAndDelete, insertOne and $inc on the collection. *)
Without(id) == [i \in Stored \ {id} |-> documents[i]]
With(id) == [i \in Stored \cup {id} |-> IF i = id THEN 0 ELSE documents[i]]
Incremented(id) == [documents EXCEPT ![id] = @ + 1]

(* What will put upload id on the feed, whatever becomes of the document:  *)
(* its own request once it was inserted, and a view that fetched it.       *)
Racing(id) ==
  {r \in {id} : handler[r] = "inserted"}
    \cup {v \in Views : Target[v] = id /\ handler[v] = "fetched" /\ read[v] # {}}

(* Newest first, ties by id. *)
Before(i, j) == When[i] > When[j] \/ (When[i] = When[j] /\ i < j)

(* Ahead of the first entry the new one precedes; only if it is public.    *)
feed_upload_add(f, entry) ==
  LET later == {i \in DOMAIN f : Before(entry.id, f[i].id)}
  IN  IF entry.id \notin Public THEN f
      ELSE IF later = {} THEN Append(f, entry)
      ELSE InsertAt(f, CHOOSE i \in later : \A j \in later : i =< j, entry)

(* The first entry of that id, if there is one. *)
feed_upload_remove(f, id) ==
  LET found == {i \in DOMAIN f : f[i].id = id}
  IN  IF found = {} THEN f
      ELSE RemoveAt(f, CHOOSE i \in found : \A j \in found : i =< j)

(* The public documents in order, as find and sort return them. *)
SortedPublic ==
  LET order == CHOOSE s \in SetToSeqs(Public \cap Stored) :
                 \A j, k \in DOMAIN s : j < k => Before(s[j], s[k])
  IN  [k \in DOMAIN order |-> [id |-> order[k], views |-> documents[order[k]]]]

FInit ==
  /\ documents = <<>>
  /\ feed = <<>>
  /\ handler = [r \in FeedRequests |-> "idle"]
  /\ read = [v \in Views |-> {}]
  /\ feed_raced = {}

-----------------------------------------------------------------------------
(* receiveUploadUnlocked and receiveNoteReturnID.                          *)

Insert(id) ==
  /\ handler[id] = "idle"
  /\ id \in Notes \/ ~Locked
  /\ documents' = With(id)
  /\ Move(id, "inserted")
  /\ UNCHANGED <<feed, read, feed_raced>>

(* An error is reported, whether or not the document was stored. *)
InsertFails(id) ==
  /\ handler[id] = "idle" /\ "db" \in FeedFaults
  /\ id \in Notes \/ ~Locked
  /\ documents' \in {documents, With(id)}
  /\ Move(id, "error")
  /\ UNCHANGED <<feed, read, feed_raced>>

AddToFeed(id) ==
  /\ handler[id] = "inserted"
  /\ feed' = feed_upload_add(feed, [id |-> id, views |-> 0])
  /\ Move(id, "ok")
  /\ UNCHANGED <<documents, read, feed_raced>>

-----------------------------------------------------------------------------
(* incrementUploadView and feed_update_upload.                             *)

CountView(v) ==
  /\ handler[v] = "idle"
  /\ \/ /\ Target[v] \in Stored
        /\ documents' = Incremented(Target[v])
        /\ Move(v, "counted")
     \/ /\ Target[v] \notin Stored
        /\ Move(v, "missing")
        /\ UNCHANGED documents
  /\ UNCHANGED <<feed, read, feed_raced>>

CountViewFails(v) ==
  /\ handler[v] = "idle" /\ "db" \in FeedFaults
  /\ \/ UNCHANGED documents
     \/ Target[v] \in Stored /\ documents' = Incremented(Target[v])
  /\ Move(v, "error")
  /\ UNCHANGED <<feed, read, feed_raced>>

(* findOne answers with the document of this moment, or with none. *)
FetchUpload(v) ==
  /\ handler[v] = "counted"
  /\ read' = [read EXCEPT ![v] = {documents[i] : i \in Stored \cap {Target[v]}}]
  /\ Move(v, "fetched")
  /\ UNCHANGED <<documents, feed, feed_raced>>

FetchUploadFails(v) ==
  /\ handler[v] = "counted" /\ "db" \in FeedFaults
  /\ Move(v, "error")
  /\ UNCHANGED <<documents, feed, read, feed_raced>>

(* A view that lists an upload before its own request does makes that one  *)
(* list it a second time.                                                  *)
Overtaken(v) ==
  IF read[v] # {} /\ handler[Target[v]] = "inserted" THEN feed_raced \cup {Target[v]} ELSE feed_raced

(* Mutant of RefreshFeed: the view is added to what was fetched. *)
RefreshFeedCounting(v) ==
  LET rest == feed_upload_remove(feed, Target[v]) IN
  /\ handler[v] = "fetched"
  /\ feed' = IF read[v] = {} THEN rest
             ELSE feed_upload_add(rest, [id |-> Target[v],
                    views |-> 1 + CHOOSE n \in read[v] : TRUE])
  /\ read' = [read EXCEPT ![v] = {}]
  /\ feed_raced' = Overtaken(v)
  /\ Move(v, "ok")
  /\ UNCHANGED documents

(* The entry is replaced by what was fetched, or removed. *)
RefreshFeed(v) ==
  LET rest == feed_upload_remove(feed, Target[v]) IN
  /\ handler[v] = "fetched"
  /\ feed' = IF read[v] = {} THEN rest
             ELSE feed_upload_add(rest, [id |-> Target[v],
                    views |-> CHOOSE n \in read[v] : TRUE])
  /\ read' = [read EXCEPT ![v] = {}]
  /\ feed_raced' = Overtaken(v)
  /\ Move(v, "ok")
  /\ UNCHANGED documents

-----------------------------------------------------------------------------
(* deleteUploadByID.                                                       *)

FindAndDelete(d) ==
  /\ handler[d] = "idle" /\ ~Locked
  /\ \/ /\ Target[d] \in Stored
        /\ documents' = Without(Target[d])
        /\ feed_raced' = feed_raced \cup Racing(Target[d])
        /\ Move(d, "removing")
     \/ /\ Target[d] \notin Stored
        /\ Move(d, "missing")
        /\ UNCHANGED <<documents, feed_raced>>
  /\ UNCHANGED <<feed, read>>

FindAndDeleteFails(d) ==
  /\ handler[d] = "idle" /\ ~Locked /\ "db" \in FeedFaults
  /\ \/ UNCHANGED <<documents, feed_raced>>
     \/ /\ Target[d] \in Stored
        /\ documents' = Without(Target[d])
        /\ feed_raced' = feed_raced \cup Racing(Target[d]) \cup {d}
  /\ Move(d, "error")
  /\ UNCHANGED <<feed, read>>

RemoveFromFeed(d) ==
  /\ handler[d] = "removing"
  /\ feed' = feed_upload_remove(feed, Target[d])
  /\ Move(d, "ok")
  /\ UNCHANGED <<documents, read, feed_raced>>

-----------------------------------------------------------------------------
Over == {"ok", "missing", "error", "lost"}

(* The process dies and boots: every handler is gone, and feed_init loads  *)
(* the feed before the server listens.                                     *)
feed_init ==
  /\ "crash" \in FeedFaults
  /\ feed' = SortedPublic
  /\ handler' = [r \in FeedRequests |->
                   IF handler[r] \in Over \cup {"idle"} THEN handler[r] ELSE "lost"]
  /\ read' = [v \in Views |-> {}]
  /\ feed_raced' = {}
  /\ UNCHANGED documents

FNext ==
  \/ \E id \in Ids : Insert(id) \/ InsertFails(id) \/ AddToFeed(id)
  \/ \E v \in Views : \/ CountView(v) \/ CountViewFails(v)
                      \/ FetchUpload(v) \/ FetchUploadFails(v)
                      \/ RefreshFeed(v)
  \/ \E d \in Deletes : \/ FindAndDelete(d) \/ FindAndDeleteFails(d)
                        \/ RemoveFromFeed(d)
  \/ feed_init

FSpec == FInit /\ [][FNext]_feed_vars

-----------------------------------------------------------------------------
(* Properties.                                                             *)

Listed == {feed[k].id : k \in DOMAIN feed}

(* Newest first, ties by id, whatever order requests finish in: splicing   *)
(* refreshed entries and reloading at boot agree on the order that paging  *)
(* relies on.                                                              *)
Sorted == \A j, k \in DOMAIN feed : j < k => ~Before(feed[k].id, feed[j].id)

UploadOf(r) == IF r \in Ids THEN r ELSE Target[r]
Entries(id) == {k \in DOMAIN feed : feed[k].id = id}

(* An entry of an upload that is not stored is only ever due to a deletion *)
(* in flight, to one that was reported as failed but took effect, to the   *)
(* upload's own request or a view that had it in hand when it was deleted  *)
(* and listed it afterwards, or to an upload that was listed twice.        *)
GhostExplained ==
  \A id \in Listed \ Stored :
    \/ \E d \in Deletes : Target[d] = id /\ handler[d] = "removing"
    \/ \E r \in feed_raced : UploadOf(r) = id /\ handler[r] \in {"ok", "error"}

(* An upload is listed twice at most, and only when a view listed it       *)
(* before its own request did.                                             *)
TwiceExplained ==
  \A id \in Listed :
    \/ \A j, k \in Entries(id) : j = k
    \/ /\ id \in feed_raced /\ handler[id] = "ok"
       /\ \A i, j, k \in Entries(id) : i = j \/ j = k \/ i = k

(* No refresh, deletion or restart makes a public upload disappear: one    *)
(* that was answered as stored is listed while it is stored, in its place  *)
(* and never with more views than were counted; a private one never is,    *)
(* and one that is gone, or one a second time, only by a named race.       *)
FeedSound ==
  /\ Sorted /\ GhostExplained /\ TwiceExplained /\ Listed \subseteq Public
  /\ \A id \in Public \cap Stored : handler[id] \notin {"inserted", "error"}
                                      => id \in Listed
  /\ \A k \in DOMAIN feed :
       feed[k].id \in Stored => feed[k].views =< documents[feed[k].id]

(* `total` is the "Total number of currently available public uploads"     *)
(* (frontend_feed.md): when no request is in flight, and nothing failed,   *)
(* every entry is an upload that is stored.                                *)
Quiet == \A r \in FeedRequests : handler[r] \in {"idle", "ok", "missing"}
=============================================================================
