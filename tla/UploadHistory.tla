----------------------------- MODULE UploadHistory -----------------------------
(***************************************************************************)
(* The visitor's own uploads under the form (routes/+page.svelte,          *)
(* MiniUpload.svelte, lib/upload/history.ts and downloader.ts): their ids  *)
(* are remembered in localStorage, which all tabs share, and their cards   *)
(* are filled from the server in batches as they become visible.           *)
(*                                                                         *)
(* A batch is asked for in chunks and is applied when the last one has     *)
(* come; if one fails all of it has failed, and its ids are asked for      *)
(* again the next time other cards become visible.  The error of the first *)
(* time stays on the card even then.                                       *)
(***************************************************************************)
EXTENDS SequencesExt, FiniteSetsExt, Filters

CONSTANTS
  Known,      \* the ids remembered at first, newest first
  Coming,     \* ids of uploads still to be made, here or in another tab
  Links,      \* short links among Known: today's page remembers none
  FirstShown, \* visibleCount at first
  More,       \* what the button adds to it
  Chunk,      \* UPLOADS_BATCH_MAX_IDS
  MaxSteps, Fails  \* bounds: what happens, and whether requests fail

VARIABLES
  storage,       \* localStorage: a sequence of ids
  uploadHistory, \* what the page read of it last
  visibleCount,
  historyRequested, historyData, historyErrors,  \* ids: asked for, with data; the errors of all
  batches,       \* under way: [n, ids, next, items, missing]
  server,        \* the uploads that exist
  h_steps,
  retried        \* history: ids asked for again

hvars == <<storage, uploadHistory, visibleCount, historyRequested, historyData, historyErrors,
           batches, server, h_steps, retried>>

(* The ids remembered are no duplicates; new ids are new. *)
HistoryAssumption ==
  /\ Known \in Seq(ToSet(Known)) /\ IsInjective(Known)
  /\ Coming \cap ToSet(Known) = {} /\ Links \subseteq ToSet(Known)
  /\ FirstShown \in Nat /\ More \in Nat /\ Chunk \in Nat \ {0}

Ids == ToSet(Known) \cup Coming
First(s, n) == SubSeq(s, 1, Min({n, Len(s)}))
Happens == h_steps < MaxSteps /\ h_steps' = h_steps + 1

(***************************************************************************)
(* What the effects of the page and of its cards do, once the history is   *)
(* the one given, this much of it visible, and these ids have data.        *)
(***************************************************************************)

(* A card whose data says that it is a link asks the page to ignore it,    *)
(* and the card that moves up may do so too.                               *)
Ignored(list, shown, data) ==
  LET link(i) == list[i] \in Links \cap data
  IN {list[i] : i \in {i \in 1..Len(list) :
        link(i) /\ Cardinality({j \in 1..(i - 1) : ~link(j)}) < shown}}

(* Mutant of removeFromHistory: what the page remembers is written back. *)
removeFromPage(kept, list, ids) == Filtered(list, Ids \ ids)

(* localStorage is read again, and written without them. *)
removeFromHistory(kept, list, ids) == Filtered(kept, Ids \ ids)

(* ignoreUpload for those, then one request for what is newly visible.     *)
Shown(kept, list, shown, requested, data, loading) ==
  LET gone == Ignored(list, shown, data)
      keeps == IF gone = {} THEN kept ELSE removeFromHistory(kept, list, gone)
      lists == IF gone = {} THEN list ELSE keeps
      pending == Filtered(First(lists, shown), Ids \ requested)
  IN /\ storage' = keeps /\ uploadHistory' = lists /\ visibleCount' = shown
     /\ historyRequested' = requested \cup ToSet(pending)
     /\ batches' = loading \cup
          (IF pending = <<>> THEN {}
           ELSE {[n |-> h_steps', ids |-> pending, next |-> 0, items |-> {}, missing |-> {}]})
     /\ retried' = {id \in retried \cup ToSet(pending) : historyErrors'[id] # ""}

HInit ==
  /\ storage = Known /\ uploadHistory = Known /\ visibleCount = FirstShown
  /\ historyRequested = ToSet(First(Known, FirstShown))
  /\ historyData = {} /\ historyErrors = [id \in Ids |-> ""]
  /\ batches = {[n |-> 0, ids |-> First(Known, FirstShown), next |-> 0,
                 items |-> {}, missing |-> {}]}
  /\ server = ToSet(Known) /\ h_steps = 0 /\ retried = {}

-----------------------------------------------------------------------------

(* addToHistory, after an upload here. *)
addToHistory(id) ==
  /\ Happens
  /\ id \notin server /\ id \notin ToSet(storage) /\ id \in Coming
  /\ server' = server \cup {id}
  /\ UNCHANGED <<historyData, historyErrors>>
  /\ LET kept == <<id>> \o storage
     IN Shown(kept, kept, visibleCount, historyRequested, historyData, batches)

(* The same in another tab, which this one hears of when it next reads.    *)
AddedElsewhere(id) ==
  /\ Happens
  /\ id \notin server /\ id \notin ToSet(storage) /\ id \in Coming
  /\ server' = server \cup {id} /\ storage' = <<id>> \o storage
  /\ UNCHANGED <<uploadHistory, visibleCount, historyRequested, historyData, historyErrors,
                 batches, retried>>

(* An admin deletes an upload. *)
Deleted(id) ==
  /\ Happens
  /\ server' = server \ {id}
  /\ UNCHANGED <<storage, uploadHistory, visibleCount, historyRequested, historyData,
                 historyErrors, batches, retried>>

ShowMore ==
  /\ Happens
  /\ Len(uploadHistory) > visibleCount
  /\ UNCHANGED <<historyData, historyErrors, server>>
  /\ Shown(storage, uploadHistory, visibleCount + More, historyRequested, historyData, batches)

(* The page is opened again: all but localStorage is forgotten. *)
Reload ==
  /\ Happens
  /\ historyData' = {} /\ historyErrors' = [id \in Ids |-> ""]
  /\ Shown(storage, storage, FirstShown, {}, {}, {})
  /\ UNCHANGED server

-----------------------------------------------------------------------------
(* loadHistoryBatch, over fetchUploads and uploadsBatchHandler.            *)

NextChunk(b) == ToSet(SubSeq(b.ids, b.next + 1, Min({b.next + Chunk, Len(b.ids)})))

getUploadsByIDs(ids) == ids \cap server

(* The server looks a chunk up and says which of its ids do not exist.     *)
ChunkAnswer(b) ==
  LET found == getUploadsByIDs(NextChunk(b))
  IN
  /\ b.next < Len(b.ids)
  /\ batches' = (batches \ {b}) \cup
       {[b EXCEPT !.next = @ + Chunk, !.items = @ \cup found,
                  !.missing = @ \cup (NextChunk(b) \ found)]}
  /\ UNCHANGED <<storage, uploadHistory, visibleCount, historyRequested, historyData,
                 historyErrors, server, h_steps, retried>>

BatchLoaded(b) ==
  /\ b.next >= Len(b.ids)
  /\ historyData' = historyData \cup b.items
  /\ historyErrors' = [id \in Ids |-> IF id \in b.missing THEN "404" ELSE historyErrors[id]]
  /\ h_steps' = h_steps
  /\ Shown(storage, uploadHistory, visibleCount, historyRequested, historyData \cup b.items,
           batches \ {b})
  /\ UNCHANGED server

(* Its ids may be asked for again, the next time the visible set changes.  *)
BatchFails(b) ==
  /\ Fails /\ b.next < Len(b.ids)
  /\ historyErrors' = [id \in Ids |-> IF id \in ToSet(b.ids) THEN "failed" ELSE historyErrors[id]]
  /\ historyRequested' = historyRequested \ ToSet(b.ids)
  /\ batches' = batches \ {b}
  /\ UNCHANGED <<storage, uploadHistory, visibleCount, historyData, server, h_steps, retried>>

HNext ==
  \/ \E id \in Coming : addToHistory(id) \/ AddedElsewhere(id)
  \/ \E id \in server : Deleted(id)
  \/ ShowMore \/ Reload
  \/ \E b \in batches : ChunkAnswer(b) \/ BatchLoaded(b) \/ BatchFails(b)

-----------------------------------------------------------------------------
(* An error is shown before the data, and neither is a card that loads.    *)
CardShown(id) ==
  IF historyErrors[id] # "" THEN historyErrors[id]
  ELSE IF id \in historyData THEN "upload" ELSE "loading"

(***************************************************************************)
(* Property.  However batches fail, overlap and are asked for again, and   *)
(* whatever another tab adds: no card waits for an answer nobody was asked *)
(* for; "404" is said only of an upload that is gone; an error stays over  *)
(* data only on a card that was asked for again; a link has a card only    *)
(* until its data came, and nothing else is ever forgotten.                *)
(***************************************************************************)
CardsExplained ==
  LET visible == ToSet(First(uploadHistory, visibleCount))
  IN /\ \A id \in visible :
          CardShown(id) = "loading" => \E b \in batches : id \in ToSet(b.ids)
     /\ \A id \in Ids : CardShown(id) = "404" => id \notin server
     /\ \A id \in historyData : CardShown(id) # "upload" => id \in retried
     /\ visible \cap historyData \cap Links = {}
     /\ server \ Links \subseteq ToSet(storage)
     /\ IsInjective(storage) /\ IsInjective(uploadHistory)
=============================================================================
