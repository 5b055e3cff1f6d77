---------------------------- MODULE UploadStore ----------------------------
(***************************************************************************)
(* The blob store and the two operations that change it.                   *)
(*                                                                         *)
(* An upload (udstreamVal.preHandler and udstreamHandler of api.ts,        *)
(* parseUploadStream of stream.ts, receiveUploadUnlocked of uploads.ts)    *)
(* reserves its bytes, streams each declared file to a part file in        *)
(* .incoming, then, under the storage mutation lock, moves the parts into  *)
(* content-addressed blobs and inserts its document.  A deletion           *)
(* (deleteUploadByID) takes the same lock, removes the document and        *)
(* unlinks the blobs no other document references.  A step ends where the  *)
(* code awaits; the process may crash between any two steps and boots with *)
(* initStorage.                                                            *)
(*                                                                         *)
(* What a request asks is a constant: Files[u] the hashes upload u         *)
(* declares, ContentLength[u] its header, Target[d] the id deletion d      *)
(* names.  Size[b] is the length of the content that hashes to b.          *)
(***************************************************************************)
EXTENDS Integers, Sequences, FiniteSets, Weights

CONSTANTS Uploads, Deletions, Blobs, Size, Files, ContentLength, Target,
          storageLimit,
          Faults          \* which of "crash", "db", "disk" may happen

ASSUME RequestsAssumption ==
  /\ IsFiniteSet(Uploads)
  /\ Uploads \cap Deletions = {}
  /\ Files \in [Uploads -> Seq(Blobs)]
  /\ ContentLength \in [Uploads -> Nat]
  /\ Target \in [Deletions -> Uploads]

(* XMetaFilesSchema: at least one file. *)
ASSUME FilesAssumption == \A u \in Uploads : Files[u] # <<>>

ASSUME StorageAssumption ==
  /\ IsFiniteSet(Blobs)
  /\ Size \in [Blobs -> Nat]
  /\ storageLimit \in Nat

VARIABLES
  up,                    \* the API process is running
  pc,                    \* where each request's handler is
  next,                  \* the file an upload streams or commits next
  doomed,                \* hashes a deletion has still to look at
  victim,                \* the hash whose blob a deletion is unlinking
  failures,              \* the hashes a deletion could not clean up
  filesInStorage256,     \* in memory: the blobs the process believes in
  storageUsage,          \* in memory: their total size
  reservedBytes,         \* in memory: bytes claimed by uploads
  storageMutationQueue,  \* the promise chain; its head is the running job
  disk,                  \* blobs in STORAGE_DIR
  incoming,              \* part files in .incoming: <<upload, file number>>
  uploads                \* documents of the uploads collection

work == <<next, doomed, victim, failures>>
memory == <<filesInStorage256, storageUsage, reservedBytes>>
durable == <<disk, incoming, uploads>>
vars == <<up, pc, work, memory, storageMutationQueue, durable>>

Jobs == Uploads \cup Deletions
FileNumbers(u) == 1 .. Len(Files[u])
FileSize(u) == [i \in FileNumbers(u) |-> Size[Files[u][i]]]
Hashes(u) == {Files[u][i] : i \in FileNumbers(u)}
Parts == UNION {{u} \X FileNumbers(u) : u \in Uploads}
PartsOf(u) == {p \in incoming : p[1] = u}
Referenced(b) == \E u \in uploads : b \in Hashes(u)

UploadPlaces == {"idle", "streaming", "queued", "committing", "renaming",
                 "dropping", "landed", "aborted", "broken", "sweeping"}
DeletionPlaces == {"idle", "queued", "cleaning", "unlinking", "forgetting"}
Ended == {"ok", "failed", "rejected", "deleted", "missing", "error", "lost"}

At(j, place) == up /\ pc[j] = place
Goto(j, place) == pc' = [pc EXCEPT ![j] = place]

(* Mutant of Holds: a queue that counts its jobs and orders none. *)
AnyoneHolds(j) == storageMutationQueue # <<>>

(* withStorageMutationLock: work runs when everything before it settled,   *)
(* and the chain goes on whether the work resolved or rejected.            *)
Holds(j) == storageMutationQueue # <<>> /\ Head(storageMutationQueue) = j
Enqueue(j) == storageMutationQueue' = Append(storageMutationQueue, j)
Settle == storageMutationQueue' = Tail(storageMutationQueue)

(* Mutant: the check forgets what other uploads have claimed. *)
EnoughBesideUsage(n) == storageUsage + n =< storageLimit

isThereEnoughStorageFor(n) == storageUsage + reservedBytes + n =< storageLimit

Init ==
  /\ up = TRUE
  /\ pc = [j \in Jobs |-> "idle"]
  /\ next = [u \in Uploads |-> 1]
  /\ doomed = [d \in Deletions |-> {}]
  /\ victim = [d \in Deletions |-> {}]
  /\ failures = [d \in Deletions |-> {}]
  /\ filesInStorage256 = {}
  /\ storageUsage = 0
  /\ reservedBytes = 0
  /\ storageMutationQueue = <<>>
  /\ disk = {}
  /\ incoming = {}
  /\ uploads = {}

-----------------------------------------------------------------------------
(* Receiving an upload: api.ts preHandler, stream.ts.                      *)

(* The request is turned down before it claimed space: full storage, a     *)
(* malformed header, a token or a limit.  Nothing changes here.            *)
Refuse(u) ==
  /\ At(u, "idle")
  /\ Goto(u, "rejected")
  /\ UNCHANGED <<up, work, memory, storageMutationQueue, durable>>

(* Mutant of Admit: the space is checked and not claimed. *)
AdmitWithoutClaim(u) ==
  /\ At(u, "idle")
  /\ isThereEnoughStorageFor(ContentLength[u])
  /\ Goto(u, "streaming")
  /\ UNCHANGED <<up, work, memory, storageMutationQueue, durable>>

(* storage_reserve: the check and the claim are one step. *)
Admit(u) ==
  /\ At(u, "idle")
  /\ isThereEnoughStorageFor(ContentLength[u])
  /\ reservedBytes' = reservedBytes + ContentLength[u]
  /\ Goto(u, "streaming")
  /\ UNCHANGED <<up, work, filesInStorage256, storageUsage,
                 storageMutationQueue, durable>>

(* The next declared file arrives whole and its hash is the declared one.  *)
(* The body never carries more than its Content-Length.                    *)
ReceiveFile(u) ==
  /\ At(u, "streaming")
  /\ next[u] \in FileNumbers(u)
  /\ Weight(1 .. next[u], FileSize(u)) =< ContentLength[u]
  /\ incoming' = incoming \cup {<<u, next[u]>>}
  /\ next' = [next EXCEPT ![u] = @ + 1]
  /\ UNCHANGED <<up, pc, doomed, victim, failures, memory,
                 storageMutationQueue, disk, uploads>>

(* The client went away, the hash differs, or the body is too long or too  *)
(* short: every part is removed; a removal that fails is swallowed.        *)
StreamFails(u) ==
  /\ At(u, "streaming")
  /\ \/ incoming' = incoming \ PartsOf(u)
     \/ "disk" \in Faults /\ incoming' = incoming
  /\ Goto(u, "aborted")
  /\ UNCHANGED <<up, work, memory, storageMutationQueue, disk, uploads>>

(* The body ended exactly after the last declared file: queue for the lock. *)
EndOfStream(u) ==
  /\ At(u, "streaming")
  /\ next[u] > Len(Files[u])
  /\ Weight(FileNumbers(u), FileSize(u)) = ContentLength[u]
  /\ next' = [next EXCEPT ![u] = 1]
  /\ Enqueue(u)
  /\ Goto(u, "queued")
  /\ UNCHANGED <<up, doomed, victim, failures, memory, durable>>

-----------------------------------------------------------------------------
(* receiveUploadUnlocked and commitFile, under the lock.                   *)

StartReceive(u) ==
  /\ At(u, "queued") /\ Holds(u)
  /\ Goto(u, "committing")
  /\ UNCHANGED <<up, work, memory, storageMutationQueue, durable>>

(* commitFile up to its first await: the blob exists and the part is       *)
(* dropped; or it does not fit (507); or it is entered before the rename.  *)
CommitFile(u) ==
  LET b == Files[u][next[u]] IN
  /\ At(u, "committing")
  /\ next[u] \in FileNumbers(u)
  /\ \/ /\ b \in filesInStorage256
        /\ Goto(u, "dropping")
        /\ UNCHANGED <<memory, storageMutationQueue>>
     \/ /\ b \notin filesInStorage256
        /\ IF storageUsage + Size[b] > storageLimit
             THEN /\ Goto(u, "broken")
                  /\ Settle
                  /\ UNCHANGED memory
             ELSE /\ filesInStorage256' = filesInStorage256 \cup {b}
                  /\ storageUsage' = storageUsage + Size[b]
                  /\ Goto(u, "renaming")
                  /\ UNCHANGED <<reservedBytes, storageMutationQueue>>
  /\ UNCHANGED <<up, work, durable>>

(* fs.unlink of a duplicate's part. *)
DropPart(u) ==
  /\ At(u, "dropping")
  /\ incoming' = incoming \ {<<u, next[u]>>}
  /\ next' = [next EXCEPT ![u] = @ + 1]
  /\ Goto(u, "committing")
  /\ UNCHANGED <<up, doomed, victim, failures, memory, storageMutationQueue,
                 disk, uploads>>

DropPartFails(u) ==
  /\ At(u, "dropping") /\ "disk" \in Faults
  /\ Settle
  /\ Goto(u, "broken")
  /\ UNCHANGED <<up, work, memory, durable>>

(* fs.rename of a new blob, atomic on one file system. *)
RenamePart(u) ==
  /\ At(u, "renaming")
  /\ disk' = disk \cup {Files[u][next[u]]}
  /\ incoming' = incoming \ {<<u, next[u]>>}
  /\ next' = [next EXCEPT ![u] = @ + 1]
  /\ Goto(u, "committing")
  /\ UNCHANGED <<up, doomed, victim, failures, memory, storageMutationQueue,
                 uploads>>

(* Mutant of RenamePartFails: no undo of the optimistic bookkeeping. *)
RenamePartFailsKept(u) ==
  /\ At(u, "renaming") /\ "disk" \in Faults
  /\ Settle
  /\ Goto(u, "broken")
  /\ UNCHANGED <<up, work, memory, durable>>

RenamePartFails(u) ==
  LET b == Files[u][next[u]] IN
  /\ At(u, "renaming") /\ "disk" \in Faults
  /\ filesInStorage256' = filesInStorage256 \ {b}
  /\ storageUsage' = storageUsage - Size[b]
  /\ Settle
  /\ Goto(u, "broken")
  /\ UNCHANGED <<up, work, reservedBytes, durable>>

(* insertUploadDocument; an id collision is retried with a fresh id. *)
InsertDocument(u) ==
  /\ At(u, "committing")
  /\ next[u] > Len(Files[u])
  /\ uploads' = uploads \cup {u}
  /\ Settle
  /\ Goto(u, "landed")
  /\ UNCHANGED <<up, work, memory, disk, incoming>>

(* Mutant of InsertDocumentFails: a rejection blocks the promise chain. *)
InsertDocumentFailsBlocking(u) ==
  /\ At(u, "committing") /\ "db" \in Faults
  /\ next[u] > Len(Files[u])
  /\ uploads' \in {uploads, uploads \cup {u}}
  /\ Goto(u, "broken")
  /\ UNCHANGED <<up, work, memory, storageMutationQueue, disk, incoming>>

(* The insert reports an error, before or after the server applied it.     *)
(* The blobs committed so far stay.                                        *)
InsertDocumentFails(u) ==
  /\ At(u, "committing") /\ "db" \in Faults
  /\ next[u] > Len(Files[u])
  /\ uploads' \in {uploads, uploads \cup {u}}
  /\ Settle
  /\ Goto(u, "broken")
  /\ UNCHANGED <<up, work, memory, disk, incoming>>

Answer == [landed |-> "ok", aborted |-> "failed", broken |-> "sweeping"]

(* Mutant of storage_release: catch and finally both release, unclamped. *)
ReleaseTwice(u) ==
  /\ up /\ pc[u] \in {"landed", "aborted", "broken"}
  /\ reservedBytes' = reservedBytes
       - (IF pc[u] = "broken" THEN 2 ELSE 1) * ContentLength[u]
  /\ Goto(u, Answer[pc[u]])
  /\ UNCHANGED <<up, work, filesInStorage256, storageUsage,
                 storageMutationQueue, durable>>

(* The finally block of udstreamHandler: storage_release, then the parts   *)
(* a failed commit left are removed (errors swallowed).  A failed stream   *)
(* returned no files to remove.                                            *)
storage_release(u) ==
  /\ up /\ pc[u] \in {"landed", "aborted", "broken"}
  /\ reservedBytes' = IF reservedBytes >= ContentLength[u]
                        THEN reservedBytes - ContentLength[u] ELSE 0
  /\ Goto(u, Answer[pc[u]])
  /\ UNCHANGED <<up, work, filesInStorage256, storageUsage,
                 storageMutationQueue, durable>>

SweepParts(u) ==
  /\ At(u, "sweeping")
  /\ \/ incoming' = incoming \ PartsOf(u)
     \/ "disk" \in Faults /\ incoming' = incoming
  /\ Goto(u, "failed")
  /\ UNCHANGED <<up, work, memory, storageMutationQueue, disk, uploads>>

-----------------------------------------------------------------------------
(* deleteUploadByID, cleanupUnreferencedFiles and deleteFile.              *)

RequestDelete(d) ==
  /\ At(d, "idle")
  /\ Enqueue(d)
  /\ Goto(d, "queued")
  /\ UNCHANGED <<up, work, memory, durable>>

FindAndDelete(d) ==
  /\ At(d, "queued") /\ Holds(d)
  /\ \/ /\ Target[d] \in uploads
        /\ uploads' = uploads \ {Target[d]}
        /\ doomed' = [doomed EXCEPT ![d] = Hashes(Target[d])]
        /\ Goto(d, "cleaning")
        /\ UNCHANGED storageMutationQueue
     \/ /\ Target[d] \notin uploads
        /\ Settle
        /\ Goto(d, "missing")
        /\ UNCHANGED <<uploads, doomed>>
  /\ UNCHANGED <<up, next, victim, failures, memory, disk, incoming>>

(* The database reports an error, before or after it removed the document. *)
FindAndDeleteFails(d) ==
  /\ At(d, "queued") /\ Holds(d) /\ "db" \in Faults
  /\ uploads' \in {uploads, uploads \ {Target[d]}}
  /\ Settle
  /\ Goto(d, "error")
  /\ UNCHANGED <<up, work, memory, disk, incoming>>

(* isReferenced; an unreferenced hash goes on to deleteFile, which returns *)
(* at once for a blob the process does not believe in.                     *)
CheckReference(d, b) ==
  /\ At(d, "cleaning") /\ b \in doomed[d]
  /\ doomed' = [doomed EXCEPT ![d] = @ \ {b}]
  /\ IF Referenced(b) \/ b \notin filesInStorage256
       THEN UNCHANGED <<pc, victim>>
       ELSE /\ victim' = [victim EXCEPT ![d] = {b}]
            /\ Goto(d, "unlinking")
  /\ UNCHANGED <<up, next, failures, memory, storageMutationQueue, durable>>

(* A failed lookup is collected and the blob kept. *)
CheckReferenceFails(d, b) ==
  /\ At(d, "cleaning") /\ b \in doomed[d] /\ "db" \in Faults
  /\ doomed' = [doomed EXCEPT ![d] = @ \ {b}]
  /\ failures' = [failures EXCEPT ![d] = @ \cup {b}]
  /\ UNCHANGED <<up, pc, next, victim, memory, storageMutationQueue, durable>>

(* fs.stat and fs.unlink, then the in-memory bookkeeping. *)
UnlinkBlob(d) ==
  /\ At(d, "unlinking")
  /\ disk' = disk \ victim[d]
  /\ Goto(d, "forgetting")
  /\ UNCHANGED <<up, work, memory, storageMutationQueue, incoming, uploads>>

UnlinkBlobFails(d) ==
  /\ At(d, "unlinking") /\ "disk" \in Faults
  /\ victim' = [victim EXCEPT ![d] = {}]
  /\ failures' = [failures EXCEPT ![d] = @ \cup victim[d]]
  /\ Goto(d, "cleaning")
  /\ UNCHANGED <<up, next, doomed, memory, storageMutationQueue, durable>>

ForgetBlob(d) ==
  /\ At(d, "forgetting")
  /\ filesInStorage256' = filesInStorage256 \ victim[d]
  /\ storageUsage' = storageUsage - Weight(victim[d], Size)
  /\ victim' = [victim EXCEPT ![d] = {}]
  /\ Goto(d, "cleaning")
  /\ UNCHANGED <<up, next, doomed, failures, reservedBytes,
                 storageMutationQueue, durable>>

(* Mutant of FinishDelete: the clean-up stops early, without reporting. *)
FinishDeleteEarly(d) ==
  /\ At(d, "cleaning")
  /\ doomed' = [doomed EXCEPT ![d] = {}]
  /\ Settle
  /\ Goto(d, "deleted")
  /\ UNCHANGED <<up, next, victim, failures, memory, durable>>

FinishDelete(d) ==
  /\ At(d, "cleaning") /\ doomed[d] = {}
  /\ Settle
  /\ Goto(d, "deleted")
  /\ UNCHANGED <<up, work, memory, durable>>

-----------------------------------------------------------------------------
(* The process dies: memory and every handler are gone.  An insert or a    *)
(* delete already sent may still be applied.                               *)
Crash ==
  /\ up /\ "crash" \in Faults
  /\ up' = FALSE
  /\ pc' = [j \in Jobs |-> IF pc[j] \in Ended \cup {"idle"} THEN pc[j]
                           ELSE "lost"]
  /\ filesInStorage256' = {}
  /\ storageUsage' = 0
  /\ reservedBytes' = 0
  /\ storageMutationQueue' = <<>>
  /\ next' = [u \in Uploads |-> 1]
  /\ doomed' = [d \in Deletions |-> {}]
  /\ victim' = [d \in Deletions |-> {}]
  /\ UNCHANGED <<failures, durable>>

(* Mutant of initStorage: parts of an earlier life are kept. *)
InitKeepingParts ==
  /\ ~up
  /\ up' = TRUE
  /\ filesInStorage256' = disk
  /\ storageUsage' = Weight(disk, Size)
  /\ UNCHANGED <<pc, work, reservedBytes, storageMutationQueue, durable>>

(* index.ts: initStorage empties .incoming and measures what is on disk    *)
(* before the server listens.                                              *)
initStorage ==
  /\ ~up
  /\ up' = TRUE
  /\ incoming' = {}
  /\ filesInStorage256' = disk
  /\ storageUsage' = Weight(disk, Size)
  /\ UNCHANGED <<pc, work, reservedBytes, storageMutationQueue, disk, uploads>>

UploadStep(u) ==
  \/ EndOfStream(u) \/ StartReceive(u) \/ CommitFile(u)
  \/ DropPart(u) \/ DropPartFails(u) \/ RenamePart(u) \/ RenamePartFails(u)
  \/ InsertDocument(u) \/ InsertDocumentFails(u)
  \/ storage_release(u) \/ SweepParts(u)

DeletionStep(d) ==
  \/ FindAndDelete(d) \/ FindAndDeleteFails(d)
  \/ \E b \in Blobs : CheckReference(d, b) \/ CheckReferenceFails(d, b)
  \/ UnlinkBlob(d) \/ UnlinkBlobFails(d) \/ ForgetBlob(d) \/ FinishDelete(d)

Next ==
  \/ \E u \in Uploads : \/ Refuse(u) \/ Admit(u)
                        \/ ReceiveFile(u) \/ StreamFails(u)
                        \/ UploadStep(u)
  \/ \E d \in Deletions : RequestDelete(d) \/ DeletionStep(d)
  \/ Crash
  \/ initStorage

Spec == Init /\ [][Next]_vars

(* The event loop runs every continuation whose await settled; file system *)
(* and database calls settle, one way or the other.  Clients owe nothing:  *)
(* a body may stall for ever.                                              *)
Fairness == /\ \A u \in Uploads : WF_vars(UploadStep(u))
            /\ \A d \in Deletions : WF_vars(DeletionStep(d))

FairSpec == Spec /\ Fairness

-----------------------------------------------------------------------------
(* Properties.                                                             *)

(* Every variable has its type. *)
TypeOK ==
  /\ up \in BOOLEAN
  /\ pc \in [Jobs -> UploadPlaces \cup DeletionPlaces \cup Ended]
  /\ next \in [Uploads -> Nat]
  /\ doomed \in [Deletions -> SUBSET Blobs]
  /\ victim \in [Deletions -> SUBSET Blobs]
  /\ failures \in [Deletions -> SUBSET Blobs]
  /\ filesInStorage256 \subseteq Blobs
  /\ storageUsage \in Int
  /\ reservedBytes \in Nat
  /\ storageMutationQueue \in Seq(Jobs)
  /\ disk \subseteq Blobs
  /\ incoming \subseteq Parts
  /\ uploads \subseteq Uploads

(* Every file a document names is on disk, whatever uploads, deletions,    *)
(* failures and crashes interleave: no download of a listed upload finds   *)
(* its blob missing (withStorageMutationLock around commit and cleanup).   *)
NoDanglingReference == \A u \in uploads : Hashes(u) \subseteq disk

(* Uploads whose handler has claimed space and not yet released it. *)
Holding == {u \in Uploads : pc[u] \in {"streaming", "queued", "committing",
                                      "renaming", "dropping", "landed",
                                      "aborted", "broken"}}

(* The blobs the process believes in and does not have on disk: one being  *)
(* renamed into place, or one unlinked and not yet forgotten.              *)
InTransit == {Files[u][next[u]] : u \in {v \in Uploads : pc[v] = "renaming"}}
             \cup UNION {victim[d] : d \in {e \in Deletions :
                                               pc[e] = "forgetting"}}

(* The in-memory books agree with the disk and with the requests in        *)
(* flight, also after a failed rename, a failed unlink and a restart.      *)
BooksBalance ==
  up => /\ filesInStorage256 = disk \cup InTransit
        /\ disk \cap InTransit = {}
        /\ storageUsage = Weight(filesInStorage256, Size)
        /\ reservedBytes = Weight(Holding, ContentLength)

(* An upload that was admitted never meets the 507 of commitFile: the      *)
(* reservation taken in preHandler still covers every file it commits.     *)
AdmittedUploadFits ==
  \A u \in Uploads :
    /\ pc[u] = "committing"
    /\ next[u] \in FileNumbers(u)
    /\ Files[u][next[u]] \notin filesInStorage256
    => storageUsage + Size[Files[u][next[u]]] =< storageLimit

(* Blobs and the parts of uploads in flight together never take more of    *)
(* the disk than STORAGE_LIMIT_BYTES.                                      *)
PartSize == [p \in Parts |-> Size[Files[p[1]][p[2]]]]
HeldParts == {p \in incoming : p[1] \in Holding}
DiskWithinLimit ==
  up => Weight(disk, Size) + Weight(HeldParts, PartSize) =< storageLimit

(* A blob nothing references is never a silent leak: an upload is about to *)
(* insert its document or was answered with an error after committing it;  *)
(* or a deletion has still to look at it, reported it among its cleanup    *)
(* failures, or was itself answered with an error; or a crash cut the      *)
(* request short.                                                          *)
UnreferencedBlobExplained ==
  \A b \in disk :
    \/ Referenced(b)
    \/ \E u \in Uploads :
         /\ b \in Hashes(u)
         /\ \/ pc[u] \in {"broken", "sweeping", "failed", "lost"}
            \/ /\ pc[u] \in {"committing", "renaming", "dropping"}
               /\ \E i \in 1 .. next[u] - 1 : b = Files[u][i]
    \/ \E d \in Deletions :
         \/ b \in doomed[d] \cup victim[d] \cup failures[d]
         \/ pc[d] \in {"error", "lost"} /\ b \in Hashes(Target[d])

(* When removals work, a request that is over left no part in .incoming;   *)
(* the parts of requests lost in a crash are gone before the server is up. *)
NoLeftoverPart ==
  up /\ "disk" \notin Faults => \A p \in incoming : pc[p[1]] \notin Ended

(* Whatever queues for the lock is eventually done with it and answered,   *)
(* whether the work before it succeeded or failed.                         *)
LockedWorkEnds == \A j \in Jobs : pc[j] = "queued" ~> pc[j] \in Ended
=============================================================================
