------------------------------ MODULE UploadForm ------------------------------
(***************************************************************************)
(* The upload form of the home page (routes/+page.svelte, lib/upload/      *)
(* uploader.ts, history.ts): its modes, the tray of files, the token field *)
(* and one upload at a time.                                               *)
(*                                                                         *)
(* A typed token is checked by the server after a pause, and the answer    *)
(* may come when the field holds another one.  While an upload is under    *)
(* way the form is locked; what the page shows of it afterwards is read    *)
(* when the answer has come, not when it was sent.                         *)
(***************************************************************************)
EXTENDS Integers, FiniteSets

CONSTANTS
  Tokens, Short,   \* texts typed in the field: full tokens, and one too short
  MaxCount,        \* files allowed: by token, and at "" without one
  MaxSteps,        \* bound: what the visitor does
  Fails            \* BOOLEAN: checks and uploads may fail

VARIABLES
  mode,         \* "files", "link" or "note"
  files,        \* number of files in the tray
  isPublic,
  field,        \* the token field: [open, value, n], n the step of the last typing
  holding,      \* the upload button: "no", "pressed", "fired" (tokenHoldFired)
  tokenLimits,  \* the token whose limits were fetched, or ""
  timer,        \* the value the pending check will send, or ""
  checks,       \* checks under way: [n, token, valid]
  isUploading, sent,      \* the upload under way, or the last one
  result, lastUpload,     \* uploadResultId present; what the done screen says
  history,      \* fbc_upload_history: numbers of successful uploads
  steps

uvars == <<mode, files, isPublic, field, holding, tokenLimits, timer, checks, isUploading,
           sent, result, lastUpload, history, steps>>

tray == <<mode, files, isPublic>>
token == <<field, tokenLimits, timer, checks>>
upload == <<isUploading, sent, result, lastUpload, history>>

NoUpload == [n |-> 0, kind |-> "none", token |-> "", typed |-> "", files |-> 0, public |-> FALSE]
NoSummary == [count |-> 0, public |-> FALSE]
isDone == mode = "files" /\ result /\ lastUpload # NoSummary
effectiveMax == MaxCount[tokenLimits]

(* Mutant of tokenPending: only a check under way holds an upload back. *)
tokenChecked == field.open /\ checks # {}

tokenPending == field.open /\ field.value # "" /\ tokenLimits = ""

UInit ==
  /\ mode = "files" /\ files = 0 /\ isPublic = FALSE
  /\ field = [open |-> FALSE, value |-> "", n |-> 0] /\ holding = "no"
  /\ tokenLimits = "" /\ timer = "" /\ checks = {}
  /\ isUploading = FALSE /\ sent = NoUpload /\ result = FALSE /\ lastUpload = NoSummary
  /\ history = {} /\ steps = 0

Visitor == steps < MaxSteps /\ steps' = steps + 1

(***************************************************************************)
(* The token field.                                                        *)
(***************************************************************************)

(* What the effect does when the value changes: the limits go, the timer   *)
(* starts again when the value may be a token.                             *)
Typed(value) ==
  /\ field' = [field EXCEPT !.value = value, !.n = steps']
  /\ tokenLimits' = ""
  /\ timer' = IF value \in Tokens THEN value ELSE ""

(* Holding the upload button opens the field.  The timer looks at nothing   *)
(* when it fires: the mode may have been switched, or an upload started,   *)
(* with the keyboard.                                                      *)
tokenHoldStart ==
  /\ Visitor
  /\ mode = "files" /\ ~isUploading /\ ~isDone /\ holding # "pressed"
  /\ holding' = "pressed"
  /\ UNCHANGED <<tray, token, upload>>

HoldFires ==
  /\ holding = "pressed"
  /\ holding' = "fired" /\ field' = [field EXCEPT !.open = TRUE]
  /\ UNCHANGED <<tray, tokenLimits, timer, checks, upload, steps>>

tokenHoldCancel ==
  /\ holding = "pressed"
  /\ holding' = "no"
  /\ UNCHANGED <<tray, token, upload, steps>>

TypeToken(value) ==
  /\ Visitor
  /\ mode = "files" /\ field.open /\ ~isUploading /\ value # field.value
  /\ Typed(value)
  /\ UNCHANGED <<tray, holding, checks, upload>>

tokenClosed ==
  /\ field' = [open |-> FALSE, value |-> "", n |-> 0]
  /\ tokenLimits' = IF field.value = "" THEN tokenLimits ELSE ""
  /\ timer' = IF field.value = "" THEN timer ELSE ""

tokenClose ==
  /\ Visitor
  /\ mode = "files" /\ field.open /\ ~isUploading
  /\ tokenClosed
  /\ UNCHANGED <<tray, holding, checks, upload>>

StartCheck ==
  /\ timer # ""
  /\ \E valid \in {TRUE} \cup (IF Fails THEN {FALSE} ELSE {}) :
       checks' = checks \cup {[n |-> steps, token |-> timer, valid |-> valid]}
  /\ timer' = ""
  /\ UNCHANGED <<tray, field, holding, tokenLimits, upload, steps>>

StillTyped(t) == field.value = t

(* A rejected token leaves an error and no limits. *)
CheckAnswer(c) ==
  /\ checks' = checks \ {c}
  /\ tokenLimits' = IF c.valid /\ StillTyped(c.token) THEN c.token ELSE tokenLimits
  /\ UNCHANGED <<tray, field, holding, timer, upload, steps>>

(***************************************************************************)
(* The tray and the rest of the form.                                      *)
(***************************************************************************)

(* processFiles, from the picker or a drop: those above the limit stay out. *)
AddFile ==
  /\ Visitor
  /\ mode = "files" /\ ~isDone /\ ~isUploading
  /\ files < effectiveMax
  /\ files' = files + 1
  /\ UNCHANGED <<mode, isPublic, holding, token, upload>>

removeFile ==
  /\ Visitor
  /\ mode = "files" /\ ~isDone /\ ~isUploading /\ files > 0
  /\ files' = files - 1
  /\ UNCHANGED <<mode, isPublic, holding, token, upload>>

TogglePublic ==
  /\ Visitor
  /\ mode # "link" /\ ~isUploading /\ ~isDone
  /\ isPublic' = ~isPublic
  /\ UNCHANGED <<mode, files, holding, token, upload>>

startNewUpload ==
  /\ Visitor
  /\ isDone
  /\ files' = 0 /\ result' = FALSE /\ lastUpload' = NoSummary
  /\ UNCHANGED <<mode, isPublic, holding, token, isUploading, sent, history>>

(* Leaving the done screen starts over. *)
switchMode(next) ==
  /\ Visitor
  /\ ~isUploading /\ next # mode
  /\ mode' = next /\ result' = FALSE
  /\ IF isDone THEN files' = 0 /\ lastUpload' = NoSummary
     ELSE UNCHANGED <<files, lastUpload>>
  /\ UNCHANGED <<isPublic, holding, token, isUploading, sent, history>>

(***************************************************************************)
(* Uploading.                                                              *)
(***************************************************************************)

(* uploadClick, and the start of uploadFiles, uploadLink or uploadNote;    *)
(* texts that are empty or too long keep the button disabled.              *)
uploadClick ==
  /\ Visitor
  /\ holding # "fired" /\ ~isUploading /\ ~isDone
  /\ mode = "files" => files > 0 /\ ~tokenPending
  /\ isUploading' = TRUE /\ result' = FALSE
  /\ sent' = [n |-> steps', kind |-> mode, files |-> files,
              public |-> mode # "link" /\ isPublic,
              token |-> IF mode = "files" THEN tokenLimits ELSE "",
              typed |-> IF mode = "files" /\ field.open THEN field.value ELSE ""]
  /\ UNCHANGED <<tray, holding, token, lastUpload, history>>

(* The click that ends the hold, and any that comes in its stead, does     *)
(* nothing else.                                                           *)
ClickAfterHold ==
  /\ Visitor
  /\ holding = "fired" /\ ~isDone
  /\ holding' = "no"
  /\ UNCHANGED <<tray, token, upload>>

(* A token covers one upload: the field is emptied. *)
UploadSucceeds ==
  /\ isUploading /\ sent.kind = "files"
  /\ isUploading' = FALSE /\ result' = TRUE
  /\ lastUpload' = [count |-> files, public |-> isPublic]
  /\ history' = history \cup {sent.n}
  /\ IF sent.token # "" THEN tokenClosed ELSE UNCHANGED <<field, tokenLimits, timer>>
  /\ UNCHANGED <<tray, holding, checks, sent, steps>>

(* Links leave no trace in the history. *)
LinkUploaded ==
  /\ isUploading /\ sent.kind = "link"
  /\ isUploading' = FALSE /\ result' = TRUE
  /\ UNCHANGED <<tray, token, holding, sent, lastUpload, history, steps>>

NoteUploaded ==
  /\ isUploading /\ sent.kind = "note"
  /\ isUploading' = FALSE /\ result' = TRUE
  /\ history' = history \cup {sent.n}
  /\ UNCHANGED <<tray, token, holding, sent, lastUpload, steps>>

(* An error, which when it is about the token makes its limits go, until   *)
(* the field is changed.                                                   *)
UploadFails ==
  /\ Fails /\ isUploading
  /\ isUploading' = FALSE
  /\ tokenLimits' \in {tokenLimits} \cup (IF sent.kind = "files" THEN {""} ELSE {})
  /\ UNCHANGED <<tray, field, holding, timer, checks, sent, result, lastUpload,
                 history, steps>>

UNext ==
  \/ tokenHoldStart \/ HoldFires \/ tokenHoldCancel \/ ClickAfterHold
  \/ (\E value \in Tokens \cup {Short, ""} : TypeToken(value)) \/ tokenClose
  \/ StartCheck \/ (\E c \in checks : CheckAnswer(c))
  \/ AddFile \/ removeFile \/ TogglePublic \/ startNewUpload
  \/ \E next \in {"files", "link", "note"} : switchMode(next)
  \/ uploadClick \/ UploadSucceeds \/ LinkUploaded \/ NoteUploaded \/ UploadFails

UploadSpec == UInit /\ [][UNext]_uvars

-----------------------------------------------------------------------------
(* Properties.                                                             *)

(* However slowly and in whatever order the checks are answered: limits    *)
(* are shown only for the token in the field, an upload made with a token  *)
(* typed in an open field carries that token, never none and never another *)
(* one, a token typed once is used by one successful upload, and the done  *)
(* screen tells of the files and the visibility that were sent.            *)
UploadAsShown ==
  /\ tokenLimits \in {"", field.value}
  /\ sent.token = sent.typed
  /\ result /\ sent.kind = "files" /\ sent.token # "" => field.value = "" \/ field.n > sent.n
  /\ isDone => lastUpload = [count |-> sent.files, public |-> sent.public]
=============================================================================
