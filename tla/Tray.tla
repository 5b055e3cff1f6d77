--------------------------------- MODULE Tray ---------------------------------
(***************************************************************************)
(* The tray of the upload form (routes/+page.svelte): files are picked,    *)
(* removed, and put in another order with the mouse, a finger or the       *)
(* arrow keys; while they are sent each tile shows how far its file is.    *)
(*                                                                         *)
(* Progress is kept by position.  What starts a move looks whether an      *)
(* upload is under way, the move itself does not: a tile that was picked   *)
(* up before the upload was started, with the keyboard or another finger,  *)
(* still takes other tiles' places during it.  A removed tile leaves the   *)
(* page at once here; its 160 ms of animation are left out.                *)
(***************************************************************************)
EXTENDS SequencesExt, FiniteSetsExt, Filters, Weights

CONSTANTS
  Size,         \* of each file that may be picked, a sequence
  MaxCount,     \* files allowed
  MaxSize,      \* size allowed
  Mouse, Touch, \* pointers, of two kinds
  Columns,      \* TRAY_COLUMNS
  MaxSteps      \* bound: what the visitor does

VARIABLES
  tray,         \* the tiles, a sequence of files
  picked,       \* files picked so far, removed ones included
  down,         \* the tile each pointer is pressed on, or NoTile
  pending,      \* reorderPending: [tile, armed]
  hold,         \* reorderHoldTimer is running for the pending press
  isUploading, preparingShown, done,
  order,        \* the files of the upload, as they are sent
  loaded,       \* bytes of it sent
  progress,     \* uploadProgress: bytes by position, or none
  moved,        \* history: tiles changed places during the upload
  t_steps

traytvars == <<tray, picked, down, pending, hold, isUploading, preparingShown, done,
               order, loaded, progress, moved, t_steps>>
upload == <<isUploading, preparingShown, done, order, loaded>>
pointers == <<down, pending, hold>>

(* File.size is no fraction. *)
TrayAssumption == Size \in Seq(Nat) /\ MaxCount \in Nat /\ MaxSize \in Nat /\ Columns \in Nat

Pointers == Mouse \cup Touch
NoTile == 0
NoPress == [tile |-> NoTile, armed |-> FALSE]
Files == 1..Len(Size)

(* The bytes of the first k files of s, and of all of them. *)
FirstBytes(s, k) == Weight(1..k, [i \in 1..Len(s) |-> Size[s[i]]])
TotalBytes(s) == FirstBytes(s, Len(s))

TrayInit ==
  /\ tray = <<>> /\ picked = {} /\ down = [p \in Pointers |-> NoTile]
  /\ pending = NoPress /\ hold = FALSE
  /\ isUploading = FALSE /\ preparingShown = FALSE /\ done = FALSE
  /\ order = <<>> /\ loaded = 0 /\ progress = <<>> /\ moved = FALSE /\ t_steps = 0

Visitor == t_steps < MaxSteps /\ t_steps' = t_steps + 1

(***************************************************************************)
(* Picking and removing.                                                   *)
(***************************************************************************)

(* The files that are small enough, as long as there is room. *)
processFiles(selected) ==
  LET fitting == Filtered(selected, {f \in Files : Size[f] <= MaxSize})
      room == MaxCount - Len(tray)
  IN tray \o SubSeq(fitting, 1, Min({room, Len(fitting)}))

(* From the picker, which is locked during the upload, or dropped. *)
addFiles(selected) ==
  /\ Visitor
  /\ ~isUploading /\ ~done /\ Len(tray) < MaxCount
  /\ tray' = processFiles(selected)
  /\ picked' = picked \cup ToSet(selected)
  /\ UNCHANGED <<pointers, upload, progress, moved>>

(* The button of the tile, pressed or reached with the keyboard: a pointer *)
(* that held the tile is never heard of again.                             *)
removeFile(index) ==
  /\ Visitor
  /\ ~isUploading /\ ~done
  /\ tray' = RemoveAt(tray, index)
  /\ progress' = <<>>
  /\ down' = [p \in Pointers |-> IF down[p] = tray[index] THEN NoTile ELSE down[p]]
  /\ UNCHANGED <<picked, pending, hold, upload, moved>>

(***************************************************************************)
(* Reordering.                                                             *)
(***************************************************************************)

(* Mutant of moveFile: progress stays. *)
moveTileOnly(from, to) ==
  /\ tray' = InsertAt(RemoveAt(tray, from), to, tray[from])
  /\ moved' = (moved \/ isUploading)
  /\ progress' = progress

(* The progress by position no longer lines up, and is forgotten. *)
moveFile(from, to) ==
  /\ tray' = InsertAt(RemoveAt(tray, from), to, tray[from])
  /\ moved' = (moved \/ isUploading)
  /\ progress' = <<>>

(* A mouse drags at once, a finger after it held still. *)
reorderStart(p, index) ==
  /\ Visitor
  /\ down[p] = NoTile /\ ~done
  /\ ~isUploading /\ Len(tray) >= 2
  /\ down' = [down EXCEPT ![p] = tray[index]]
  /\ pending' = [tile |-> tray[index], armed |-> p \in Mouse]
  /\ hold' = (p \in Touch)
  /\ UNCHANGED <<tray, picked, upload, progress, moved>>

HoldFires ==
  /\ hold
  /\ hold' = FALSE /\ pending' = [pending EXCEPT !.armed = TRUE]
  /\ UNCHANGED <<tray, picked, down, upload, progress, moved, t_steps>>

(* Whichever pointer moves, the pending tile goes where it is; a finger    *)
(* that has not held still scrolls instead.  A tile that is gone has no    *)
(* place to leave.                                                         *)
reorderMove(p, to) ==
  /\ Visitor
  /\ down[p] # NoTile /\ ~done /\ pending # NoPress
  /\ IF pending.armed
     THEN LET from == SelectInSeq(tray, LAMBDA f : f = pending.tile)
          IN /\ from # 0 /\ to # from
             /\ moveFile(from, to)
             /\ UNCHANGED <<pending, hold>>
     ELSE /\ pending' = NoPress /\ hold' = FALSE
          /\ UNCHANGED <<tray, progress, moved>>
  /\ UNCHANGED <<picked, down, upload>>

(* The pointer is lifted or taken by the browser. *)
reorderEnd(p) ==
  /\ Visitor
  /\ down[p] # NoTile
  /\ down' = [down EXCEPT ![p] = NoTile]
  /\ IF done THEN UNCHANGED <<pending, hold>> ELSE pending' = NoPress /\ hold' = FALSE
  /\ UNCHANGED <<tray, picked, upload, progress, moved>>

reorderKeydown(index, step) ==
  LET to == Max({1, Min({Len(tray), index + step})})
  IN /\ Visitor
     /\ ~isUploading /\ ~done /\ Len(tray) > 1
     /\ to # index /\ moveFile(index, to)
     /\ UNCHANGED <<picked, pointers, upload>>

(***************************************************************************)
(* Uploading.                                                              *)
(***************************************************************************)

(* uploadFiles keeps the files as they are now. *)
uploadFiles ==
  /\ Visitor
  /\ ~isUploading /\ ~done /\ tray # <<>>
  /\ isUploading' = TRUE /\ order' = tray /\ loaded' = 0 /\ progress' = <<>>
  /\ moved' = FALSE
  /\ UNCHANGED <<tray, picked, pointers, preparingShown, done>>

(* PREPARING_DELAY_MS after the click. *)
StillPreparing ==
  /\ isUploading /\ ~preparingShown
  /\ preparingShown' = TRUE
  /\ UNCHANGED <<tray, picked, pointers, isUploading, done, order, loaded, progress, moved, t_steps>>

(* fileProgress and the callback of sendUpload: createUploadProgress. *)
Progressed(bytes) ==
  [i \in 1..Len(order) |->
     Max({0, Min({Size[order[i]], bytes - FirstBytes(order, i - 1)})})]

OnProgress(bytes) ==
  /\ isUploading /\ bytes > loaded
  /\ loaded' = bytes /\ progress' = Progressed(bytes)
  /\ UNCHANGED <<tray, picked, pointers, isUploading, preparingShown, done, order, moved, t_steps>>

(* The answer: on success the tray stays, inert, under the summary. *)
Answered(ok) ==
  /\ isUploading /\ (ok => loaded = TotalBytes(order))
  /\ isUploading' = FALSE /\ preparingShown' = FALSE /\ done' = ok
  /\ UNCHANGED <<tray, picked, pointers, order, loaded, progress, moved, t_steps>>

startNewUpload ==
  /\ Visitor
  /\ done
  /\ done' = FALSE /\ tray' = <<>> /\ progress' = <<>>
  /\ UNCHANGED <<picked, pointers, isUploading, preparingShown, order, loaded, moved>>

TrayNext ==
  \/ \E f, g \in Files \ picked : addFiles(IF f = g THEN <<f>> ELSE <<f, g>>)
  \/ \E index \in 1..Len(tray) : removeFile(index)
  \/ \E p \in Pointers, index \in 1..Len(tray) : reorderStart(p, index) \/ reorderMove(p, index)
  \/ HoldFires \/ \E p \in Pointers : reorderEnd(p)
  \/ \E index \in 1..Len(tray), step \in {-1, 1, -Columns, Columns} : reorderKeydown(index, step)
  \/ uploadFiles \/ StillPreparing \/ startNewUpload
  \/ \E bytes \in 1..TotalBytes(order) : OnProgress(bytes)
  \/ \E ok \in BOOLEAN : Answered(ok)

-----------------------------------------------------------------------------
(* What the tiles and the button show.                                     *)

uploadShown == isUploading /\ (progress # <<>> \/ preparingShown)

tileState(i) ==
  CASE i <= Len(progress) /\ Size[order[i]] > 0 /\ progress[i] = Size[order[i]] -> "done"
    [] uploadShown /\ i <= Len(progress) /\ progress[i] > 0 -> "active"
    [] uploadShown -> "queued"
    [] OTHER -> "idle"

filesDone == Quantify(1..Len(progress), LAMBDA i : Size[order[i]] > 0 /\ progress[i] = Size[order[i]])

(***************************************************************************)
(* Property.  Whatever is dragged, removed or sent again: a tile that says *)
(* that its file is uploaded, or on its way, is right, unless tiles        *)
(* changed places while they were sent; no tile is lost or doubled, and    *)
(* the summary of a finished upload lies over the files that were sent.    *)
(***************************************************************************)
TilesTrue ==
  /\ \A i \in 1..Len(tray) :
       tileState(i) = "done" /\ ~moved =>
         \E k \in 1..Len(order) : /\ order[k] = tray[i]
                                  /\ FirstBytes(order, k) <= loaded
  /\ isUploading /\ ~moved => tray = order /\ filesDone <= Len(tray)
  /\ IsInjective(tray) /\ ToSet(tray) \subseteq picked
  /\ isUploading \/ done => ToSet(tray) = ToSet(order)
=============================================================================
