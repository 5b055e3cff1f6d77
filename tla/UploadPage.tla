------------------------------ MODULE UploadPage ------------------------------
(***************************************************************************)
(* The pages of uploads (routes/[id=uploadid]: +page.server.ts,            *)
(* +page.svelte, AlbumView.svelte): the web server reads an upload and     *)
(* then its comments from the API, the page counts a view after two        *)
(* seconds, and an album shows its files one at a time.                    *)
(*                                                                         *)
(* Going from one upload to another keeps the page on the screen until the *)
(* next one is loaded, and its component: what it asked for before is      *)
(* answered to the upload it shows then.  Uploads may be deleted and       *)
(* viewed by others between any two of these steps, calls may fail, and    *)
(* the answer to a count may be lost.                                      *)
(***************************************************************************)
EXTENDS Integers, FiniteSets

CONSTANTS
  Uploads,
  Slides, Videos,  \* the files of an album; those that are videos
  MaxViews, MaxSteps, CallsFail  \* bounds

VARIABLES
  upload,        \* on the server, by id: [kind, public, exists, views]
  loading,       \* the navigation under way: {} or {[id, at, views]}
  screen,        \* an upload, or "closed", "moved", or an error
  data,          \* what the page got: [views, comments]
  visit,         \* how often the effect that counts views was run
  viewTimer, viewIncrement,
  viewing,       \* counts under way: [visit, id, stage, ours], ours if the component is still there
  selectedIndex, playing,  \* the album
  p_steps,
  late,          \* history: the increment is due to an earlier visit to the same upload
  uncounted      \* history: visits of which no view was counted

pagevars == <<upload, loading, screen, data, visit, viewTimer, viewIncrement, viewing,
              selectedIndex, playing, p_steps, late, uncounted>>
album == <<selectedIndex, playing>>
count == <<visit, viewTimer, viewIncrement, viewing, late, uncounted>>

(* What is on the screen when no upload is, is no upload. *)
PageAssumption == Uploads \cap {"closed", "moved", "404", "500", "502"} = {}

Visitor == p_steps < MaxSteps /\ p_steps' = p_steps + 1
Files == 1..Slides
NoData == [views |-> 0, comments |-> FALSE]
OnAlbum == screen \in Uploads /\ upload[screen].kind = "album"

PageInit ==
  /\ upload \in [Uploads -> [kind : {"album", "note", "link"}, public : BOOLEAN,
                             exists : {TRUE}, views : {0}]]
  /\ loading = {} /\ screen = "closed" /\ data = NoData
  /\ visit = 0 /\ viewTimer = FALSE /\ viewIncrement = 0 /\ viewing = {}
  /\ selectedIndex = 1 /\ playing = {} /\ p_steps = 0 /\ late = FALSE /\ uncounted = {}

(***************************************************************************)
(* load.                                                                   *)
(***************************************************************************)

(* A navigation replaces one under way; the page's own link only stops it. *)
Open(id) ==
  /\ Visitor
  /\ loading' = IF id = screen THEN {} ELSE {[id |-> id, at |-> "upload", views |-> 0]}
  /\ UNCHANGED <<upload, screen, data, count, album>>

(* The effect runs again: no increment, a new timer.  From one album to    *)
(* another the carousel stays where it is.                                 *)
Shown(id, views, comments) ==
  /\ loading' = {} /\ screen' = id /\ data' = [views |-> views, comments |-> comments]
  /\ visit' = visit + 1 /\ viewTimer' = TRUE /\ viewIncrement' = 0
  /\ late' = FALSE /\ uncounted' = uncounted \cup {visit + 1}
  /\ selectedIndex' = IF OnAlbum /\ upload[id].kind = "album" THEN selectedIndex ELSE 1
  /\ playing' = {}
  /\ UNCHANGED viewing

(* The component goes, with its timer and all it showed; what it asked for *)
(* is for nobody.                                                          *)
Ended(how) ==
  /\ loading' = {} /\ screen' = how /\ data' = NoData
  /\ viewTimer' = FALSE /\ viewIncrement' = 0 /\ late' = FALSE
  /\ viewing' = {[k EXCEPT !.ours = FALSE] : k \in viewing}
  /\ selectedIndex' = 1 /\ playing' = {}
  /\ UNCHANGED <<visit, uncounted>>

(* A link leads away, comments are read of what is public. *)
fetchUpload(l) ==
  LET u == upload[l.id]
  IN
  /\ l.at = "upload"
  /\ \/ ~u.exists /\ Ended("404")
     \/ u.exists /\ u.kind = "link" /\ Ended("moved")
     \/ /\ u.exists /\ u.kind # "link" /\ u.public
        /\ loading' = {[l EXCEPT !.at = "comments", !.views = u.views]}
        /\ UNCHANGED <<screen, data, count, album>>
     \/ u.exists /\ u.kind # "link" /\ ~u.public /\ Shown(l.id, u.views, FALSE)
  /\ UNCHANGED <<upload, p_steps>>

(* An upload that was deleted since is taken for a server without comments. *)
fetchUploadComments(l) ==
  /\ l.at = "comments"
  /\ IF upload[l.id].exists THEN Shown(l.id, l.views, TRUE) ELSE Ended("502")
  /\ UNCHANGED <<upload, p_steps>>

LoadFails(l) ==
  /\ CallsFail
  /\ Ended(IF l.at = "upload" THEN "500" ELSE "502")
  /\ UNCHANGED <<upload, p_steps>>

Leave ==
  /\ Visitor
  /\ screen \in Uploads
  /\ Ended("closed")
  /\ UNCHANGED upload

(***************************************************************************)
(* Counting the view.                                                      *)
(***************************************************************************)

markUploadViewed ==
  /\ viewTimer
  /\ viewTimer' = FALSE
  /\ viewing' = viewing \cup {[visit |-> visit, id |-> screen, stage |-> "sent", ours |-> TRUE]}
  /\ UNCHANGED <<upload, loading, screen, data, visit, viewIncrement, late, uncounted,
                 album, p_steps>>

(* incrementUploadView: 404 when it is gone, 500 when the database fails.  *)
Counted(k) ==
  /\ k.stage = "sent" /\ upload[k.id].exists
  /\ upload' = [upload EXCEPT ![k.id].views = @ + 1]
  /\ viewing' = (viewing \ {k}) \cup {[k EXCEPT !.stage = "counted"]}
  /\ uncounted' = uncounted \ {k.visit}
  /\ UNCHANGED <<loading, screen, data, visit, viewTimer, viewIncrement, late, album, p_steps>>

(* Mutant of Concerns: whatever the page shows by now. *)
AnyAnswer(k) == k.ours

(* The page shows the upload that was counted. *)
Concerns(k) == k.ours /\ k.id = screen

Answered(k) ==
  /\ k.stage = "counted"
  /\ viewing' = viewing \ {k}
  /\ IF Concerns(k)
     THEN /\ viewIncrement' = 1
          /\ late' = (k.id = screen /\ k.visit # visit /\ (viewIncrement = 0 \/ late))
     ELSE UNCHANGED <<viewIncrement, late>>
  /\ UNCHANGED <<upload, loading, screen, data, visit, viewTimer, uncounted, album, p_steps>>

ViewFails(k) ==
  /\ CallsFail \/ (k.stage = "sent" /\ ~upload[k.id].exists)
  /\ viewing' = viewing \ {k}
  /\ UNCHANGED <<upload, loading, screen, data, visit, viewTimer, viewIncrement, late,
                 uncounted, album, p_steps>>

OtherViews(id) ==
  /\ upload[id].exists /\ upload[id].views < MaxViews
  /\ upload' = [upload EXCEPT ![id].views = @ + 1]
  /\ UNCHANGED <<loading, screen, data, count, album, p_steps>>

Deleted(id) ==
  /\ upload[id].exists
  /\ upload' = [upload EXCEPT ![id].exists = FALSE]
  /\ UNCHANGED <<loading, screen, data, count, album, p_steps>>

(***************************************************************************)
(* AlbumView: a loop of slides; only the one on screen can be played.      *)
(***************************************************************************)

syncSelection(index) ==
  /\ selectedIndex' = index
  /\ playing' = playing \cap {index}
  /\ UNCHANGED <<upload, loading, screen, data, count>>

showFile(index) == Visitor /\ OnAlbum /\ index # selectedIndex /\ syncSelection(index)
showNext == Visitor /\ OnAlbum /\ Slides > 1 /\ syncSelection((selectedIndex % Slides) + 1)
showPrevious ==
  /\ Visitor
  /\ OnAlbum /\ Slides > 1
  /\ syncSelection(((selectedIndex + Slides - 2) % Slides) + 1)

PlayOrPause ==
  /\ Visitor
  /\ OnAlbum /\ selectedIndex \in Videos
  /\ playing' = (playing \ {selectedIndex}) \cup ({selectedIndex} \ playing)
  /\ UNCHANGED <<upload, loading, screen, data, count, selectedIndex>>

PageNext ==
  \/ \E id \in Uploads : Open(id) \/ OtherViews(id) \/ Deleted(id)
  \/ \E l \in loading : fetchUpload(l) \/ fetchUploadComments(l) \/ LoadFails(l)
  \/ Leave \/ markUploadViewed
  \/ \E k \in viewing : Counted(k) \/ Answered(k) \/ ViewFails(k)
  \/ (\E index \in Files : showFile(index)) \/ showNext \/ showPrevious \/ PlayOrPause

PageSpec == PageInit /\ [][PageNext]_pagevars

-----------------------------------------------------------------------------
(***************************************************************************)
(* Property.  Wherever the visitor goes, and whatever is deleted, viewed   *)
(* or lost in between: the page shows no more views of its upload than     *)
(* were counted, but for the one more that an answer to an earlier visit   *)
(* to the same upload may add; a visit counts one view at most; comments   *)
(* belong to a public upload; and no two files of an album play, nor one   *)
(* that is not on screen.                                                  *)
(***************************************************************************)
PageTrue ==
  /\ screen \in Uploads =>
       /\ data.views + viewIncrement <= upload[screen].views + (IF late THEN 1 ELSE 0)
       /\ data.comments = upload[screen].public
  /\ \A k \in viewing : k.stage = "sent" => k.visit \in uncounted
  /\ playing \subseteq {selectedIndex} \cap Videos
=============================================================================
