# Verification of femboyz-cloud-node

TLA+ models of this repository's API process (`src/src/*.ts`) and web client
(`src/client/src/`), TLC configurations that check them on small instances, and proofs
checked by TLAPS. File names below are relative to the part of the system they belong to.

## 1. The system

One Node.js process (Fastify) receives uploads, serves them by short ids, and keeps a
public feed; with accounts enabled it is also the sign-up, account and OpenID service of a
mail server (Stalwart). State lives in MongoDB, in a directory of content-addressed blobs,
at Stalwart, and in the memory of the process. The process is single-threaded: between two
`await`s a handler runs alone, and at every `await` any other handler may run. A Svelte
client in the browser calls it; its components keep state of their own and in
`localStorage`, shared by tabs, and the same rule holds for them: a handler runs to its
`await`, and answers, timers and clicks come in any order. All models take their steps at
exactly those points.

### Components

| Component | State it keeps | Operations | What makes it correct |
| --- | --- | --- | --- |
| Blob store (`storage.ts`, lock in `admin.ts`) | `filesInStorage256`, `storageUsage`, `reservedBytes`, promise chain `storageMutationQueue`; on disk the blobs and `.incoming` | `initStorage`, `storage_reserve/release`, `commitFile`, `deleteFile`, `cleanupUnreferencedFiles`, `withStorageMutationLock` | documents never name missing blobs; the books equal the disk; the limit is kept; nothing leaks unseen |
| Upload reception (`api.ts` udstream, `stream.ts`, `uploads.ts`) | part files, the `uploads` collection | preHandler, `parseUploadStream`, `receiveUploadUnlocked`, notes, links, `deleteUploadByID`, range downloads | an admitted upload fits; a failed one leaves nothing; what is stored and served is what was sent |
| Upload tokens (`tokens.ts`) | `tokens`, `token_uses` | reserve, release, log, create, update, delete, prerequest | a use is never overspent, never given back twice, always given back; the audit tells the truth |
| Public feed (`feed.ts`) | sorted array in memory | `feed_init`, add, remove, refresh on a view | sorted, complete, only what is stored, counts never ahead |
| Attempt limiter (`authlimit.ts`) | map address -> failures | register, block, sweep, evict | enough failures block, for long enough; a block is not cut short |
| Account lock (`accountLock.ts`) | map key -> tail promise | `account_lock(keys, work)` | exclusion per key, no deadlock with several keys or nested calls |
| Email codes (`emailcodes.ts`) | `email_codes` | `code_send`, `code_check` | one usable code, bounded attempts, consumed once, bounded mail |
| Requests, invites, sign-up (`accounts.ts`) | `account_requests`, `invites`, `users`, mailboxes | create, approve, reject, invite, reserve, `signup` with rollback | an invite makes at most one account; no half-made account goes unexplained |
| Settings and redirect (`accounts.ts`, `stalwart.ts`) | `users`, Sieve script at Stalwart | verify/remove address, redirect on/off, bounces | mail is forwarded only to a proven address; database and Stalwart agree |
| User administration (`accounts.ts`, timers in `accountApi.ts`) | `users`, sessions, Stalwart accounts, new-sender list | disable, delete, delayed destruction, synchronise the list | a deleted user cannot come back and is destroyed; young accounts are throttled |
| Sessions and OpenID adapter (`oidc.ts`) | `web_sessions`, provider documents, two cookies | start, interaction, callback, logout, end of session | a code is consumed once; a session is its user's; sessions end together |
| Comments (`comments.ts`, `CommentsView.svelte`) | `comments`, `localStorage` | create, reply, react | totals equal the kept reactions, browser and server agree, replies stay in their thread |
| Error log (`logger.ts`, `errorlog.ts`, `LogsView.svelte`) | a file that grows | append, read the tail, filter, page | each line once and whole, in order |
| Upload form (`routes/+page.svelte`, `uploader.ts`) | mode, tray, token field, upload under way | pick, drag, remove, type a token, upload | what is sent, shown and remembered is what the form said |
| Own uploads, cards (`+page.svelte`, `MiniUpload.svelte`, `history.ts`) | `localStorage`, batches, a carousel and timers | show, retry, ignore, hover, click | cards load or say why not; a card stays on the chosen slide |
| Gallery (`+page.svelte`, `lib/upload/feed.ts`) | pages of the feed | load, refresh | the cards are the first ones of the feed |
| Page of an upload (`routes/[id=uploadid]`) | the upload, a delayed view, an album | load, count a view, choose a file | shows what exists; views are not invented |
| Admin pages (`routes/admin/`) | lists, controls, calls under way | load, search, change, create, delete | the rows are the server's for what the controls say |
| Sign-up, sign-in, account pages | forms, codes, cooldowns | check, send, verify, submit | what is sent was shown, what is shown is the account's |
| Emptying on startup (`utils.ts`) | all of the above | `emptyStorageAndDB` | not modelled |

### Interactions

* An upload passes tokens (one use reserved), the blob store (bytes reserved), the stream,
  the lock (blobs committed, document inserted) and the feed (entry added), then gives back
  the bytes, and on failure the use.
* A deletion takes the same lock, removes the document, removes the feed entry, and unlinks
  blobs no other document references.
* A view counts in the database and refreshes the feed outside the lock.
* Account operations take `account_lock`, then change MongoDB and Stalwart, which fail
  separately. Sending a code takes further keys inside the account's. Sign-up holds no
  account lock and meets the admin, the deletion worker and the expiry of its invite.
* The list of new senders is computed from `users` by runs that wait for each other, at
  boot, by a timer and after each sign-up.
* Signing in goes from the login page through the provider's interaction to the callback,
  with its state in cookies all tabs share; the provider's tokens look the user up again.
* The pages of the client call these routes; answers may be lost after the server acted.

### What is hard here

Deletion against commit of the same content; bookkeeping done before or after the system
call it describes; several reservations in flight; database calls whose effect is unknown
when they fail; documents read before an `await` and applied after it; a crash between any
two steps; a failed task in a promise chain; timeouts of reservations held by slow
handlers; two stores that must agree; cookies and storage shared by tabs; answers that
arrive out of order or never. `PROJECT.json` lists each hazard at its line, with the
property that covers it.

## 2. Modules

| Module | Role |
| --- | --- |
| `Weights`, `Filters` | sums of byte counts over finite sets, and `Array.filter`, written without recursion |
| `Library_proofs` | lemmas the other proof modules share: on weights (naturals, additive, monotone, grouped), on sequences that are cut, joined and changed, on ranks and filters |
| `UploadStore`, `UploadStore_proofs`, `MCUploadStore` | blob store, upload and deletion, faults and restart; its safety theorems; instances |
| `UploadTokens`, `MCUploadTokens` | token uses and audit around an upload |
| `Feed`, `MCFeed` | the in-memory feed beside the database; instances |
| `Transfer` | the bytes of an upload: body, packets, parts, hashes, ranges |
| `KeyedLock`, `AccountLock` | an abstract lock by key, and the promise chains that implement it |
| `EmailCodes`, `EmailCodes_proofs`, `MCEmailCodes` | verification codes through that lock (EXTENDS `AccountLock`); the theorems of both |
| `AccessRequests` | requests, approval, rejection |
| `Signup`, `Signup_proofs`, `MCSignup` | invites, sign-up and its rollback, the admin, the deletion worker; their theorems |
| `Account`, `Account_proofs` | settings, redirect, bounces, deletion, sessions of one account; their theorems |
| `NewSenders` | the list of new senders |
| `SignIn` | sign-ins of several tabs over shared cookies |
| `AuthLimit` | the attempt limiter under the login |
| `Server_proofs` | the theorems of `UploadTokens`, `Feed`, `AccessRequests`, `NewSenders`, `SignIn` and `AuthLimit` |
| `ErrorLog` | log file, window, pages, tab |
| `Comments` | comments and reactions, server and client |
| `UploadForm`, `Tray` | the upload form; its tray of tiles |
| `UploadHistory`, `UploadCard`, `Gallery` | own uploads, the card of an album, the public gallery |
| `UploadPage` | the pages of uploads, from one to another |
| `AdminPage`, `AdminViews` | the admin's uploads tab; its other tabs |
| `SignupPage`, `AccountPage` | the two forms with the routes they call |
| `Pages_proofs` | the theorems of `Comments`, `UploadPage`, `UploadCard`, `UploadForm`, `SignupPage` and `AccountPage` |
| `Lists_proofs` | the theorems of `Tray`, `UploadHistory`, `Gallery` and `AdminPage` |
| `MCServer`; `Pages`, `MCPages` | compositions, see below; instances |

Two modules compose others. `MCServer` puts the server's components that share no state, and
`Pages` the client's pages, under one specification: a variable `component`, chosen by the
initial state and never changed, says which of them is at work; the variables of the others
keep their first value or, where the module is instantiated and not extended, are the
constant `Off`. Interleaving components that share nothing would multiply states and show
nothing more. `MCServer` extends the modules whose theorems section 4 lists, so that TLC
evaluates their assumptions and checks their properties as they stand; this is why their
names do not clash (`FInit`, `RInit`, `SInit`...). In `Pages` too everything is a parameter: the
theorems about the pages are about its specification, `PagesSpec`, which `MCPages` checks with
the values of its configuration; the assumptions of the pages are its `PagesAssumption`. Its
properties are those of its pages, each when its page is open. `LogsTrue` of `MCServer` is the
conjunction of `TailTrue`, `PagesCover` and `LogsShown`.

Where components do interact they are in one module: `EmailCodes` runs on `AccountLock`,
`Signup` and `Account` hold the sign-up, the admin, the deletion worker and Stalwart, and
every page is modelled with its routes.

### UploadStore

`pc[j]` is the `await` a request's handler is suspended at; the other variables are named
after the code's.

| Code | Model |
| --- | --- |
| preHandler refusing / `storage_reserve` | `Refuse`, `Admit` |
| `parseUploadStream` | `ReceiveFile` (one whole file written and verified), `StreamFails`, `EndOfStream` |
| `withStorageMutationLock` | `Enqueue`, `Holds`, `Settle` on the sequence `storageMutationQueue` |
| `commitFile` | `CommitFile` up to the first `await`; then `DropPart` for a duplicate, `RenamePart` or `RenamePartFails` |
| `insertUploadDocument` | `InsertDocument`, `InsertDocumentFails` (an error with or without effect) |
| `finally` of `udstreamHandler` | `storage_release`, `SweepParts` |
| `deleteUploadByID` | `RequestDelete`, `FindAndDelete(Fails)`, `CheckReference(Fails)` per hash, `UnlinkBlob(Fails)`, `ForgetBlob`, `FinishDelete` |
| death and boot | `Crash`, `initStorage` |

Abstractions. A request is a constant (its hashes, its Content-Length, the id it deletes),
so a run covers every interleaving of a fixed set of requests. A hash is a model value and
content is its hash: a hash mismatch is one of the reasons of `StreamFails`. The bytes of
a file that is still arriving are not counted, only whole parts. Deleting processes hashes
in any order (the code: order of first occurrence), which covers the code's. A retry of the
insert after an id collision draws a fresh id and is part of the same step. A
database request that was sent before a crash either happened before the crash or never: one that
lands after the next boot is not modelled, and neither is an insert that lands after its
error was reported and the lock passed on. Both need an operation that outlives its connection.

### UploadTokens

`token_reserve` is one step (`findOneAndUpdate`), its second query for the reason another
(`LookupReason`). `CheckLimits` is the synchronous stretch of preHandler after it:
`upload_limits_check`, then `storage_reserve`. The upload itself is one step with three
outcomes, stored, failed, or reported as failed although stored; `UploadStore` has the
detail. `held[u]` is `request.upload_token`. Time only matters through `expires_at`, so a
token carries the Boolean `expired`, set by `Expire` and reset by an edit. `granted`
is a history variable, the values of `uses_max` a token ever had. Deletion of the stored
uploads is left to the other modules, so `uploads` here only grows. The guess limiter
appears only as a refusal.

### Feed

Every database call is one step and the handler's continuation another. Deletions hold the
storage lock longer in the code (the blobs are cleaned up after the entry is removed); the
model frees it once the entry is gone, which only adds behaviours. Links are private and
never reach the feed. `feed_init` is a crash and the boot after it in one step, since
nothing else runs while the process is down. What it loads is the one sorted sequence of the
public documents.

### Transfer

A byte is named by its file and its place, so that content tells bytes apart and a hash is
the content. `createFileEntry`, `hashFileSha256` and `Announcements` are what the page sends;
the body is cut into packets anywhere (`Packet`), may end early or go on, and the announced
sizes and hashes may be wrong. `WriteChunk`, `finishCompleted` and `openNext` follow the loop
of `parseUploadStream`; `getUploadHandler` and `parseByteRange` answer every range over what
was stored. A download from the start, its resumptions, a `HEAD` and a file shown in a page
(without `dl=1`) are `Download`; the increment of the counter is not awaited in the code, so
it is a step of its own that may fail (`incrementFileDownload`). The progress bars are a
function of the bytes that have left, which the browser reports whenever it likes; they say
nothing of what has arrived. A short write (`bytesWritten`) is not modelled, as the code does
not look at it.

### AccountLock and EmailCodes

`AccountLock` keeps the map from keys to the last promise, and for each call what it has
queued for, awaits and holds. Keys are numbered in the order the code sorts them, so a call
takes the least of what is missing (`NextKey`). A call locks sets of keys one inside the other (`Wants`), as
`me_email_send` does around `code_send`. Its `Abstract` is `KeyedLock` with the holders of
each key computed from the chain; `LockImplemented` is the refinement. `code_send` is one
step per query under the keys; `code_check` holds no key and reads, spends an attempt and
consumes in three steps. Codes are the names of the sends that made them; HMACs are equality.

### Signup, Account, NewSenders, AccessRequests

One step per call to MongoDB or Stalwart. `Call(s, what, effect, ...)` in `Signup` is a call
that succeeds, or, when `what` is in `Faults`, fails with its effect or without; `Crash`
leaves the handler where it is for ever. In `Account` one `job` holds the account's lock;
signing in (`Reach`, `ExchangeCode`, `SignMailToken`) holds none and meets the endings of
sessions. Time is the number of ticks left until a deletion is due and until a mail token
has expired. Variables called history in the modules record what a property needs to name a
race: `strays` and `torn` in `Signup`, `doubt`, `old` and `replaced` in `Account`. `NewSenders`
has the users as the list's runs see them, the list, and the queue of runs; a run takes its
cutoff when it is queued, as `now` is the default of a parameter. Requests to Stalwart that
land after they were given up are not modelled.

### SignIn and AuthLimit

A flow goes from `session_start` through `Authorize`, `PostLogin` or an existing provider
session, to the callback. `cookies` are the browser's, which its tabs share. An interaction
lives for an hour and the cookie of a flow for ten minutes, so `FlowExpires` and
`InteractionExpires` are free to happen. `AuthLimit` keeps both limiters of the login.

### The client

| Module | Correspondence |
| --- | --- |
| `UploadForm` | `mode`, `files`, `field`, `tokenLimits` are the page's state; a check of a token is a timer (`timer`) and a request (`checks`); `uploadClick` to `UploadSucceeds`, `LinkUploaded`, `NoteUploaded` or `UploadFails` is one upload |
| `Tray` | pointers press, hold, move and let go (`reorderStart`, `HoldFires`, `reorderMove`, `reorderEnd`), the keyboard moves (`reorderKeydown`); `loaded` is what has left of the body, `tileState` what a tile says; sizes are summed with `Weights`, and too large files left out with `Filters` |
| `UploadHistory` | the effects of the page run to their end in one step (`Shown`); a batch is fetched chunk by chunk (`ChunkAnswer`) and applied whole; a cleaned list is one of `Filters` |
| `UploadCard` | the carousel is external and is its slide; `select` events come only when it changes |
| `Gallery` | the cards of all pages are one sequence, with the numbers of the last page beside it; a load and a refresh overlap; the server's feed changes between chunks |
| `UploadPage` | one component for all uploads the visitor goes to, also back and forth: two requests of the server-side `load` (a navigation replaces the one under way, and the page's own link only stops it), the effect with the timer of the view, whose answer is compared with the id on the screen (`Concerns`), the album |
| `Comments` | a call is sent, read, updated and answered in separate steps; `localStorage` is written when the answer comes, and may refuse it: the page shows the reaction all the same |
| `AdminPage`, `AdminViews`, `ErrorLog` | loads do not wait for each other; others upload and delete (`Uploaded`, `DeletedElsewhere`); rows are changed in place; the log grows while it is read |
| `SignupPage`, `AccountPage` | one call per `busy` flag, availability checks beside them, answers with all settings |

Left out of the client: layout, animation (a removed tile leaves at once), thumbnails,
wording, `focusId` "all", the list of a token's uses, and, but for the page of an upload,
navigation within the application away from a page and back. The account page is alone with
its account: the webmail embedded beside it and another tab that changes the settings are not
modelled. The log's tab never loads the page it is on again, and batches of cards are asked
again whether or not the visible ones changed, which only adds behaviour. The carousel of an
album (Embla) is external; all albums of an instance have the same number of slides. In all
of them a call may fail after it took effect.

## 3. What is checked

Deadlock checking is off in every run: requests, clicks and faults are finitely many, and
when all have ended the system may stop.

| Run | Instance | Shows |
| --- | --- | --- |
| `store` | uploads of `<<a, b>>`, `<<b>>`, `<<c>>` of 3, 2 and 3 bytes, limit 5; deletions of the first two; all faults | `TypeOK`, `NoDanglingReference`, `BooksBalance`, `AdmittedUploadFits`, `DiskWithinLimit`, `UnreferencedBlobExplained` |
| `store_live` | a file twice in one upload, the same file in another, an upload longer than its header, one deletion; crashes and database errors | `LockedWorkEnds` under fairness; `NoLeftoverPart` |
| `signup` | two attempts with one invite, different names, one with an address; two admin operations, one fault of any kind, expiry, revocation | `InviteSpentOnce`, `MailboxExplained` |
| `account` | two addresses, of which another account may take one; a browser, four operations, one fault of any kind | `ForwardsOnlyProven`, `ScriptMatches`, `SurvivorsRaced`, `DeletionIsFinal`, `DeletionEnds` under fairness |
| `codes` | an invite's address asked for twice, and beside that a user's code to the same address and one guess, or three guesses (`MCSpec`, which is `FairSpec` of the callers present); one fault | `BudgetKept`, `SendsLimited`, `SingleUse`, `LockImplemented` (refinement), `NobodyStarves` under fairness |
| `server` | `MCServer`: two uploads, and one beside a prerequest, for a token with one use left; a feed of two uploads of the same millisecond, the first a note, and a newer one, with two views of the second, a deletion of it and one of the first note; five logins from two addresses; three posts, two approvals and a rejection; four log lines over a window of six; two tabs, two users, three sign-ins; two new names over two days | `UsesKept`, `AuditTruthful`, `FeedSound`, `GuessesBounded`, `OneInvitePerRequest`, `LogsTrue`, `SignInsTrue`, `NewSendersHeld` |
| `pages` | `MCPages`, one instance of each page, with 3 to 8 actions of the visitor (and of others, on the lists) and every call failing or losing its answer | `ReactionsAgree`, `GalleryIsPrefix`, `UploadAsShown`, `TilesTrue`, `CardsExplained`, `CardAsChosen`, `PageTrue`, `BytesIntact`, `ListCurrent`, `RowsCurrent`, `SignupAsShown`, `AccountAsShown` |
| `tokens_audit`, `feed_ghost`, `signup_orphan`, `account_stale`, `gallery_refresh` | small instances with the fewest faults that show it | expected violations, see findings |

Bounds. The state is bounded by finite sets of requests, by counters of what users, admins
and the world do (`MaxSteps`, `MaxJobs`, `MaxAdmin`, `MaxViews`, `MaxSends`, `MaxCuts`,
`MaxFlows`, `MaxLoads`), of faults (`MaxFaults`) and of clocks (`MaxNow`), all of which are
constants used in guards; there are no other constraints. What they are chosen for:

* Two deletions and three uploads are enough for a deletion to run between any two steps of
  a commit of the same blob, while a third request holds a reservation; the blobs together
  exceed the limit, so that two claims that should not coexist would meet the 507 of
  `commitFile`.
* Two uploads race for a token's last use, and two ids let a token be replaced by one of the
  same value between reserve and release.
* One view and one deletion of the same upload give every stale refresh of the feed, a
  second view makes refreshes overtake each other; a deleted note takes no lock. Views of a
  private upload only occur in the theorem.
* Two sign-ups with one invite are the least that can spend it twice; with different names,
  so that the first rollback meets the second reservation. One fault is enough for every
  path of a rollback to be cut; what two independent faults do is not shown.
* One account is enough, as the lock is per account and the only thing accounts share is an
  address (`Contested`). Four operations allow switch on, change, suspend and delete, with
  bounces in between.
* Two sends of one subject and one of another meet in the address; nested and flat callers
  meet in the lock. Three guesses race for a budget of two attempts; two that each spend one on
  the same code leave it to the consumption that the second is not accepted as well.
* Three flows (`MaxFlows`), two tabs and two users are the least in which a
  callback meets another tab's cookie and another person's provider session.
* Two names let a run remove one and add the other; two days let an account age between a
  run's read and its change, with another run waiting.
* The pages have one element more than a page, chunk or tray holds, so that turning,
  chunking and refusing happen; most counters allow a change, its undoing, and one action
  between sending and answer.
* A sign-up with a code takes an address, the request of a code, its digits and the creation;
  six such actions (names are counted apart, passwords are not) leave room to
  change the address and ask for a second code, or for a digit that is wrong.
* Three navigations on the page of an upload go from A to B and back to A; a navigation is
  counted, what others view or delete is not.
* Four uploads on pages of two, one of them to come, and four actions of the admin and of
  others: enough to turn to page 2, lose its last upload to another admin, delete it in vain
  (404) and be left with an empty page while page 1 has uploads.
* Four requests for a file of two bytes: a download cut twice, and a `HEAD` or a view beside
  it.

Symmetry is used in `server` (uploads, token ids, views of the same upload) only: they are
interchangeable there, and the properties are invariants.

Fairness. `UploadStore!FairSpec` has weak fairness of each request's server-side steps: the
event loop runs every continuation whose promise settled, and file system and database calls
settle, with success or error. There is none for `Admit`, `ReceiveFile` and `StreamFails`: a
client may stall for ever, and the code sets no timeout on a body. That is why that liveness
property starts where a request has queued for the lock. `EmailCodes!FairSpec` has weak
fairness of the calls' steps together, for the same reason; calls are finitely many, so each
of them gets its turn. `Account!FairSpec` has it for the steps of the operation that holds the lock,
for signing a mail token once begun, for time, and for the deletion worker, which
`setInterval` starts every minute and which boot runs before the routes exist. It has none for users,
admins or faults; faults are finitely many (`MaxFaults`), without which a store that always
fails would rightly stop every deletion.

Each property of a passing run has a mutant, a plausible bug (undo forgotten, lock that
does not exclude, check that ignores reservations, release by the token's value, runs that
do not wait for each other...) under which TLC finds it violated. Mutant operators stand
beside the definitions they replace and no specification uses them.

### Findings

* `feed_ghost`: a deleted upload can come back into the public feed. `feed_update_upload`
  (`src/feed.ts:54`) awaits `findOne` and then replaces the entry without asking again; a
  deletion that runs in between has already removed it. It stays listed until the next
  view or restart. `schema/frontend_feed.md:92` promises `total` counts "currently
  available public uploads".
* `tokens_audit`: an upload refused by `storage_reserve` after its token use was reserved
  (`src/api.ts:707`) gives the use back but writes no `token_uses` entry, where
  `schema/frontend_file_upload.md:121` says every outcome is written.
* `signup_orphan`: a mailbox that Stalwart made although the answer was lost is not destroyed
  by the rollback (`src/accounts.ts:471` knows no id), while its username and invite are
  released. The comment at line 470 says the mailbox goes first.
* `account_stale`: the process dies between switching the redirect on at Stalwart and
  recording it (`src/accounts.ts:599`, `601`). The database says it is off, so removing the
  address leaves a script that forwards to it; line 555 says mail never goes to a stale
  address.
* `gallery_refresh`: a page of the gallery loaded during a refresh is dropped when the
  refresh ends although nothing changed (`+page.svelte:460`); line 447 says the cards are
  kept untouched.

Behaviour the models show that no document contradicts, so that the properties except it by
name: `signup` activates a user an admin suspended meanwhile (`torn`); a user of an
unfinished sign-up that is deleted leaves its mailbox (`strays`); on the account page two
answers may cross, and a refused change of the redirect leaves its box as clicked (`amiss`),
and the error of a failed `load()` is never cleared; a card of a retried batch keeps its error over its data
(`retried`); new data sets a card's count back without moving its carousel (`displaced`); tiles
picked up before an upload still change places during it (`moved`); a callback with the wrong
state clears the cookie of another tab's flow (`disturbed`); a login past its check when the
block begins is still answered (`late`); the answer to a view of an earlier visit to the same
upload adds one to a number that has it already (`late` of `UploadPage`); a page of the admin's
list that lost its last upload to another admin is shown empty (`others`); a reaction the
browser's storage refused is forgotten at the next load (`unsure`).

## 4. What is proved

Seven modules prove theorems; an eighth, `Library_proofs`, holds the lemmas on weights, sequences
and filters that several of them cite. Each theorem is about the specification of its module, for every value
of the constants that the module's named `ASSUME`s admit: finite sets of requests, disjoint
kinds of requests, naturals where the code has counts. TLC evaluates these assumptions in
every run. Most properties are not inductive; the strengthened invariants below were checked
by TLC on the instances of section 3 before they were proved.

### UploadStore

For all finite sets of requests and blobs, any sizes, Content-Lengths and limit, and any set
of faults (`FilesAssumption` is not needed).

* `TypeCorrect`: type correctness needs control facts: the lock's
  holder is at the head of the queue (so `Tail` is legal), a file number is in range where
  `commitFile` is suspended, and nothing is under way while the process is down. Together
  they are `ControlInv`.
* `NoDanglingReferenceHolds`: `StoreInv` strengthens it:
  files an upload has committed stay on disk while it holds the lock; a blob being unlinked
  is referenced by no document, and everything the index believes in is on disk or is being
  renamed or unlinked by the holder of the lock. Mutual exclusion (`LockInv`) gives that
  no insert can fall between `CheckReference` and `UnlinkBlob`.
* `BooksBalanceHolds`: from `StoreInv` and `BooksInv`: usage is the
  weight of the index, the reservation total is the weight of the claims held.
* `AdmittedUploadFitsHolds`: `ReserveInv` says that what is stored plus what every admitted
  upload may still add (`Due`: its whole claim while streaming, the files not yet committed
  afterwards) fits into the limit. It uses that a body that passed `EndOfStream` has exactly
  its declared length.
* `NoLeftoverPartHolds`: `PartsInv` says for each place a handler can be in which of its
  files may be in `.incoming`: those before `next` while streaming, those from `next` on
  while committing, none once it has ended and removals work.
* `DiskWithinLimitHolds`: the parts of each holder weigh at most `Kept`, which is `Owed`
  except for the file being renamed, whose bytes `storageUsage` counts already while they
  are still in `.incoming`. So the disk and the parts together weigh at most what
  `ReserveInv` bounds. The parts, indexed by upload and file, are summed group by group
  (`WeightGroups`).
* `UnreferencedBlobExplainedHolds`: `LeakInv` is the property, with `DoomInv` beside it: a
  deletion only looks at hashes of the upload it removed, inside the lock.

The sums use lemmas on `Weight` (a weight splits, grows, is injected into a
larger one, is the sum of its groups), proved from the library's finite-set theorems.

### UploadTokens

`CountInv` says of each existing token that its counter is at least the number of uploads
that hold or spent a use of it, and equal to that plus the leaked uses as long as no
database call failed; `GrantInv` says the same uses, of deleted tokens too, fit into some
limit the token was given. With types they give `UsesKeptHolds`. `AuditTruthfulHolds` adds
`AuditInv`: while the database answers, a request has no entry before its last step.

### AccountLock and EmailCodes

* `LockImplementedHolds`: the promise chains implement `KeyedLock`, step by step: a grant, a
  release or a stutter. The invariant numbers the calls in line at a key (`RankedAt`): the
  holder or first waiter has the least number, each other waiter awaits the call just before
  it, the map holds the last, and a resolved promise is that of a call that left. The
  numbers exist at each moment (`LineInv` quantifies over them), so no variable records
  them. A release that grants the next key in the same step is covered (`Second`).
  `NestingAssumption` says that a call never wants one of its own keys again, as the kinds
  of keys are disjoint in the code.
* `BudgetKeptHolds`: a send reads and invalidates under its subject's keys, so what it has
  read of them still holds when it inserts (`PaceInv`), and only the latest code of a
  subject can be unused (`BudgetInv`).
* `SingleUseHolds`: the action property follows from the same invariant: the step that
  accepts finds the code unused, and marks it.
* `SendsLimitedHolds`: a window that ends with a code contains only codes made before it, so
  it is counted when that code is made and never grows. That needs that codes to one address
  are made in the order of their times although a send takes its time when it is called and
  not when it is served: `Timely` (calls stand in line in the order of their times) and
  `AfterInv` (a send in line comes after every code of its address). `OwnKeysAssumption`
  names what they use: the address's key of a send is the first of its innermost pair, as
  `code-address:` sorts before `code-subject:`.

### Signup

`SignupInv` is `SpentInv` (an invite names the sign-up that is past `Finalize`) and, for
each sign-up, `ProgressInv` (how far it is, and what exists of its user and mailbox),
`AdminInv` (what an operation that holds the lock of that user may count on) and
`SwitchInv` (a user that may not use mail has a mailbox that is off). One lemma per action
shows that a step keeps these for its own sign-up and leaves the user, mailbox and operation
of the others alone (`Same`). They give `InviteSpentOnceHolds` and `MailboxExplainedHolds`.

### Account

* `DeletionIsFinalHolds` (an action property): `StatusInv` says which statuses are possible
  while an operation has the lock, so that a settings operation never writes over a user
  queued for deletion; `TokenInv` that the wait for the deletion outlives every mail token
  in use or being signed.
* `ForwardsOnlyProvenHolds`: `ProvenInv` covers every place an address waits in: the
  document, the script, the copy an operation read, its argument.
* `ScriptMatchesHolds`: `ScriptInv` says where the script stands in the course of an
  operation: as the database has it until the operation touches it, as the operation planned
  it before the write; and that what the operation read is still in the database (`Agrees`).
* `SurvivorsRacedHolds`: `SessionInv`, about the stage at which a sign-in was overtaken.

### Feed

`FeedSoundHolds`. The invariant `FeedInv` says of each upload (`UploadInv`) that it is
nowhere before it is received, that a file between its insert and its feed entry is still
stored, because deletions take the same lock, and that one that is listed twice was listed by a
view before its own request did (`TwiceExplained`), one that is gone by a request that was past
its read when the document went (`GhostExplained`); of each view (`ViewInv`) that what it
read is a count the document has reached, and that it read nothing only if the upload is
gone; of each deletion (`DeleteInv`) that what it deleted stays deleted. `Added` and
`Removed` say what `feed_upload_add` and `feed_upload_remove` do to the order, the ids and
the duplicates of a sequence. `SortedPublicLists` shows that `feed_init` finds a sorted
sequence of every set of public documents: by adding one to a sorted sequence of the others,
with the least counterexample in place of an induction.

### AccessRequests

`OneInvitePerRequestHolds`. `ClaimInv` says that an approval that won a request, and only one,
has it from its update on: it is creating the invite, linking it, has linked it, or was cut
short after either. `CountInv` says that what a post counted still bounds the pending
requests, those apart that were inserted since (`stale`); decisions only make fewer pending.

### NewSenders

`NewSendersHeldAlways`. `QueueInv` follows the runs in their order. Only the first is under
way, and what each knows is right, at any time, of every name that did not change under it
(`Informed`): its cutoff still tells new accounts from old ones, its copy of the users and
of the list still holds. A new account that changed under a run has a later run behind it
(`Followed`). So the last run in the queue settles each name.

### SignIn

`SignInsTrueHolds`. `ProvenInv`: the account of every provider session, code and row logged
in to some flow. `FateInv`: as long as nothing disturbed a tab's flow, the cookie is its own
and its code will be accepted. `LogoutInv`: a row, or a callback about to store one, whose
provider session has ended has a logout under way that will delete it, unless it is `raced`.
`SidInv` (numbers of provider sessions are not used twice) and `TabInv` (whose flow a tab
follows) support them. `TabStep` says what a step of one tab may do without disturbing the
others; a lemma per action shows that it does no more.

### AuthLimit

`GuessesBoundedHolds`, for any logins, addresses, limits, room and clock. `GuessInv` says
that for each address not evicted the wrong answers fall in two parts: the entry's counter is
at least the number of the later ones, and the earlier ones lie a block's length back, or
will when the block that is running ends. So when a failure is counted and the address was
not blocked, those within the block's length are the later part and itself, at most
`MaxFails`. An entry that is swept has nothing recent.

### Comments

`ReactionsAgreeHolds`. `DocsInv`: the totals of a comment are those of its reactions, and its
parent is in its thread. `CallsInv`: what each call read, wants and will be answered, and that
its tab holds the comment in `pending`. `AloneInv`: two reactions of one browser to one comment
are `unsure`, as are those whose tab was left. `AgreeInv`: a browser's storage is what
the server keeps, or an answer on its way carries that, or the browser is `unsure` of it, as it
is of a reaction its storage did not take.

### The page of an upload and the card of an album

* `PageTrueHolds`, for any set of uploads and any way through them: `OneCount` says that each
  visit asks for one view at most, from its timer on; `OwnCount` that the view counted for what
  the page shows came after the number it got; `LoadTrue` that what the first request read
  still holds at the second; `ScreenTrue` that the number shown is one too large only by the
  answer to an earlier visit (`late`). `PageAssumption`: no upload is called like an error.
* `CardAsChosenHolds`: `ChosenStays`, a chosen slide is on screen and no timer is running
  that would leave it; `SlideTold`, the card and the carousel agree unless `displaced`.

### Upload form, sign-up form and account page

* `UploadAsShownHolds`: `FormLocked` (what is under way is what the form says),
  `TokenSpent` and `SummaryTrue`.
* `SignupAsShownHolds`: `CodeTold`: a live code is for the address the boxes stand under, will
  be when the answer on its way comes, or the answer of its call was lost (`unsure`);
  `AccountTold` the same of the account. `SignupAssumption`: `Null` is no value of the form.
* `AccountAsShownHolds`: `Versions` compares everything that carries settings, in `view` or on
  its way, by the number of the change that made them; `LatestKnown` says that the newest
  are shown or on their way unless a mishap is in `amiss`; `BoxesFollow` that a box is as
  `view` has it or as the redirect under way asked. `AccountAssumption` is like the one above.

### Tray of the upload form

`TilesTrueHolds`, for any number of files of any sizes, pointers and columns, and any limits
(`TrayAssumption`: sizes and limits are naturals). `TilesInv`: the tray is made of picked files
without repetition; while files are sent and no tile changed places it is `order`; and what the
tiles show is `Progressed` of the bytes sent, `ProgressTrue`, over a tray that begins with
`order` (a tile may be added after an upload failed, and is behind those). The step from a full
bar to a file that is sent needs that the bytes of the first k files are those of the first
k - 1 and its own (`BytesOfNext`), a lemma on `Weight`. Removing and moving a tile rest on what
`RemoveAt` and `InsertAt` do to a sequence, adding on `Filtered`.

### Own uploads

`CardsExplainedHolds`, for any list of remembered ids, any short links among them, any
number of uploads to come and any sizes of a page of cards and of a chunk
(`HistoryAssumption`: the remembered ids are distinct, new ids are new and no links, a chunk is
not empty). `HistoryInv` has three parts.

* `ListsTyped`: what `localStorage` holds is what the page knows with the uploads of other tabs in
  front (`InFront`), which are no links.
* `RequestsTrue`: an id that was asked for has data, an error or a batch that will answer it; no
  two batches ask for the same id; a batch (`BatchTrue`) has an answer for just the ids it
  has come to, and what was missing has not come back; whatever exists is still remembered
  or is a link (`Seen`).
* `VisibleTrue`: every visible card was asked for or has an error, and is no link whose data came.

The hard part is `ignoreUpload`: links are taken out of what `localStorage` holds *now*, while
the page decided which of them are visible from the list it read before, so that cards of
other tabs appear at the same moment and push others down. `NoLinkLeft` shows that no
link with data becomes visible: one that stays had `visibleCount` others before it, and each
of these is kept, so its rank among the kept ids is beyond them.

### Gallery

`GalleryIsPrefixHolds`, for any length of the feed, page and chunk (`GalleryAssumption`: these
are positive). Entries are numbered as they are added, so the feed falls (`FeedInv`).
`LoadsInv` says of each load that the chunks it has are a slice of the feed, of today's if
nothing changed since it began; `ShownInv` the same of the cards. Both carry `FewBelow`: not more
entries lie below the last card than its page said, though the feed changed, so a
load that found the end is not followed by a page out of place. `TurnsInv` says how loads and
refreshes that do not overlap follow each other.

### Admin list

`ListCurrentHolds`, for any finite set of uploads, numbered by age, and any page size
(`AdminAssumption`; the key is not empty, as the server refuses every request when none is
configured). The model places an upload on a page by its rank, the number of newer ones. The lemmas
say that ranks are distinct and without holes (`RankTaken`, a pigeonhole), that a page is empty only
beyond the last one (`LastPage`, `PageThere`), and what a deletion does to a page
(`AfterDeletion`): it is emptied only if it held one upload, and then the page before is not.
Others upload and delete between any two steps, so the list shown is a page of the collection it
was made of (`of`), which lacks today only what others deleted (`others`); more uploads leave
every page there is (`NoGapGrows`). `LoneInv` says, while no requests overlapped, what the one
under way will bring: a deletion that finds nothing had others before it (`DeleteCarries`).

### Only model-checked

* Liveness under fairness: `LockedWorkEnds`, `DeletionEnds`, `NobodyStarves`.
* `LogsTrue`: `ErrorLog` cuts a window into lines and pages, which would need an induction over
  its lines; `BytesIntact`: parts grow packet by packet and hashes fold over them;
  `RowsCurrent`: `AdminViews` sorts with `SetToSortSeq`, a `CHOOSE` over permutations.

## 5. Not modelled

`PROJECT.json` lists every component with its status. Left out altogether: emptying storage
on startup (`utils.ts`: a development switch that erases everything; it unlinks the directory
`.incoming`, which fails, while other unlinks are still running), schemas and configuration
(declarative; the models enumerate valid inputs only), mail rendering and SMTP, link previews
and their images, the page frame, one-off scripts, deployment files. Left out of modelled
components: the content of documents and links, byte limits of tokens, quotas and usage of
mailboxes, identity defaults, the `oidc-provider` library beyond what the adapter and the hooks
of `oidc.ts` see, and the comparison of strings (addresses, usernames and keys are normalised
values already). Recursive reference definitions are not needed; byte ranges and pages are
checked against definitions by sets and `SubSeq`.

## 6. Plan

All invariants the runs check are proved but for the three above. What could follow:

1. `AdminViews` with the n-th row named by its rank, as in `AdminPage` and `Filters`:
   `RowsCurrent`.
2. The action property of `KeyedLock` that a holder is never joined by another, from
   `LockImplemented`.
