------------------------------- MODULE Gallery -------------------------------
(***************************************************************************)
(* The public gallery of the home page (routes/+page.svelte, lib/upload/   *)
(* feed.ts) against a feed that changes under it: pages loaded one after   *)
(* the other, and a refresh of the whole loaded range every half minute    *)
(* and after an upload.                                                    *)
(*                                                                         *)
(* A page load keeps others out while it lasts; a refresh waits for no     *)
(* load to be under way, but lets loads and other refreshes start while    *)
(* its own requests, one for each chunk of the range, are answered.        *)
(***************************************************************************)
EXTENDS Integers, Sequences, FiniteSets, SequencesExt

CONSTANTS
  PageSize,      \* FEED_PAGE_SIZE
  Chunk,         \* items asked for in one request of a refresh
  Initial,       \* uploads in the feed at the start
  MaxSteps,      \* bound: loads, refreshes and changes of the feed
  RequestsFail   \* BOOLEAN

VARIABLES
  feed,      \* the server's public uploads, newest first: numbers
  galleryItems,  \* galleryPages: the cards of all its pages,
  galleryLast,   \* and its last page but for its items; one with end 0 is none
  loading,   \* galleryLoading
  requests,  \* loads and refreshes under way
  steps,     \* bound
  changes,   \* history: changes of the feed so far
  as_of,     \* history: how many of them the oldest card shown takes in
  mixed      \* history: a load overlapped a refresh, none came alone since

gallery == <<galleryItems, galleryLast>>
gvars == <<feed, gallery, loading, requests, steps, changes, as_of, mixed>>

GalleryAssumption ==
  PageSize \in Nat \ {0} /\ Chunk \in Nat \ {0} /\ Initial \in Nat

NoPage == [end |-> 0, total |-> 0, has_more |-> FALSE]
Numbers(page) == [end |-> page.end, total |-> page.total, has_more |-> page.has_more]
Min2(i, j) == IF i < j THEN i ELSE j

GInit ==
  /\ feed = [i \in 1..Initial |-> Initial + 1 - i]
  /\ galleryItems = <<>> /\ galleryLast = NoPage /\ requests = {} /\ loading = FALSE
  /\ steps = 0 /\ changes = 0 /\ as_of = 0 /\ mixed = FALSE

Counted == steps < MaxSteps /\ steps' = steps + 1
Replace(k, new) == requests' = (requests \ {k}) \cup {new}

(***************************************************************************)
(* The server.                                                             *)
(***************************************************************************)

feed_handle(start, end) ==
  [items |-> SubSeq(feed, start + 1, Min2(end, Len(feed))), end |-> end,
   total |-> Len(feed), has_more |-> end < Len(feed)]

(* A public upload comes, or one is deleted. *)
FeedChange ==
  /\ Counted
  /\ \/ feed' = <<Initial + changes + 1>> \o feed
     \/ \E i \in DOMAIN feed : feed' = RemoveAt(feed, i)
  /\ changes' = changes + 1
  /\ UNCHANGED <<gallery, loading, requests, as_of, mixed>>

(* A request, or the next chunk of a refresh, is answered by the server.   *)
Serve(k) ==
  LET upto == IF k.refresh THEN Min2(k.end, k.start + Chunk) ELSE k.end
      part == feed_handle(k.start, upto)
      got == [part EXCEPT !.items = k.got.items \o @]
  IN
  /\ k.start < k.end
  /\ Replace(k, [k EXCEPT !.start = upto, !.got = got,
                          !.since = IF k.got.end = 0 THEN changes ELSE @])
  /\ UNCHANGED <<feed, gallery, loading, steps, changes, as_of, mixed>>

(***************************************************************************)
(* The page.                                                               *)
(***************************************************************************)

Request(refresh, start, end) ==
  [n |-> steps, refresh |-> refresh, start |-> start, end |-> end, alone |-> TRUE, since |-> 0,
   got |-> [items |-> <<>>, end |-> 0, total |-> 0, has_more |-> FALSE]]

(* The early return of loadGalleryPage. *)
Free == ~loading

(* The button for the next page, or to try the first one again.            *)
Loadable == galleryLast.end # 0 => galleryLast.has_more

(* loadGalleryPage: the first page, when none is shown, or the next one.   *)
loadGalleryPage ==
  LET from == galleryLast.end
      refreshing == {k \in requests : k.refresh}
  IN
  /\ Counted
  /\ Free /\ Loadable
  /\ loading' = TRUE
  /\ requests' = {[k EXCEPT !.alone = FALSE] : k \in requests}
                   \cup {Request(FALSE, from, from + PageSize)}
  /\ mixed' = (mixed \/ refreshing # {})
  /\ UNCHANGED <<feed, gallery, changes, as_of>>

LoadAnswer(k) ==
  /\ ~k.refresh /\ k.start = k.end
  /\ galleryItems' = galleryItems \o k.got.items /\ galleryLast' = Numbers(k.got)
  /\ as_of' = IF galleryLast.end = 0 THEN k.since ELSE Min2(as_of, k.since)
  /\ loading' = FALSE
  /\ requests' = requests \ {k}
  /\ UNCHANGED <<feed, steps, changes, mixed>>

refreshGallery ==
  /\ Counted
  /\ galleryLast.end # 0 /\ ~loading
  /\ requests' = requests \cup {Request(TRUE, 0, galleryLast.end)}
  /\ UNCHANGED <<feed, gallery, loading, changes, as_of, mixed>>

(* Mutant of unchanged: the cards themselves are not compared. *)
unchangedNumbers(range) ==
  /\ Len(range.items) = Len(galleryItems)
  /\ range.total = galleryLast.total /\ range.has_more = galleryLast.has_more

unchanged(range) ==
  /\ range.items = galleryItems
  /\ range.total = galleryLast.total /\ range.has_more = galleryLast.has_more

RefreshAnswer(k) ==
  /\ k.refresh /\ k.start = k.end
  /\ \/ unchanged(k.got) /\ UNCHANGED gallery
     \/ ~unchanged(k.got) /\ galleryItems' = k.got.items /\ galleryLast' = Numbers(k.got)
  /\ as_of' = k.since
  /\ mixed' = (mixed /\ ~(k.alone /\ requests = {k}))
  /\ requests' = requests \ {k}
  /\ UNCHANGED <<feed, loading, steps, changes>>

(* A failed load shows its error, a failed refresh keeps the cards.        *)
RequestFails(k) ==
  /\ RequestsFail
  /\ requests' = requests \ {k}
  /\ loading' = (loading /\ k.refresh)
  /\ UNCHANGED <<feed, gallery, steps, changes, as_of, mixed>>

GNext ==
  \/ FeedChange \/ loadGalleryPage \/ refreshGallery
  \/ \E k \in requests : Serve(k) \/ LoadAnswer(k) \/ RefreshAnswer(k) \/ RequestFails(k)

GSpec == GInit /\ [][GNext]_gvars

-----------------------------------------------------------------------------
(* Properties.                                                             *)

(* Cards whose pages take in every change of the feed are its first ones,  *)
(* none missing, none twice, with the right total: whatever loads fail,    *)
(* refreshes overtake each other or come in between, and also after loads  *)
(* and refreshes overlapped, once a later refresh has come in alone.       *)
GalleryIsPrefix ==
  galleryLast.end # 0 /\ as_of = changes /\ ~mixed =>
    /\ galleryItems = SubSeq(feed, 1, Min2(galleryLast.end, Len(feed)))
    /\ galleryLast.total = Len(feed)
    /\ galleryLast.has_more = (galleryLast.end < Len(feed))

(* The comment on refreshGallery: "Current cards are kept untouched when   *)
(* nothing changed."  It fails: a page loaded while a refresh was under    *)
(* way is dropped when the refresh, of the shorter range, is answered.     *)
Cards == {galleryItems[i] : i \in DOMAIN galleryItems}
CardsKept == [][changes' = 0 => Cards \subseteq Cards']_gvars
=============================================================================
