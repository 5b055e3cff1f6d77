------------------------- MODULE UploadStore_proofs -------------------------
(***************************************************************************)
(* Safety of UploadStore for every set of requests, every size and limit   *)
(* and every choice of faults.                                             *)
(***************************************************************************)
EXTENDS UploadStore, Library_proofs

-----------------------------------------------------------------------------
(* The store. *)

(* Where a handler runs inside withStorageMutationLock. *)
Locked == {"committing", "renaming", "dropping",
           "cleaning", "unlinking", "forgetting"}

(* Only the head of the promise chain is inside the lock. *)
LockInv == \A j \in Jobs : pc[j] \in Locked => Holds(j)

(* commitFile is suspended only on a file that is declared, and every       *)
(* upload starts committing with its first.                                 *)
PlaceInv == \A u \in Uploads :
  /\ pc[u] \in {"renaming", "dropping"} => next[u] \in FileNumbers(u)
  /\ pc[u] = "queued" => next[u] = 1

(* No handler is under way while the process is down. *)
DownInv == ~up => \A j \in Jobs : pc[j] \in Ended \cup {"idle"}

ControlInv == TypeOK /\ LockInv /\ PlaceInv /\ DownInv

USE RequestsAssumption, StorageAssumption

LEMMA ControlInit == Init => ControlInv
BY DEF Init, ControlInv, TypeOK, LockInv, PlaceInv, DownInv, Jobs, Locked,
       UploadPlaces, Ended, Parts

(* What a request declares. *)
LEMMA FilesTyped ==
  ASSUME NEW u \in Uploads
  PROVE  /\ Files[u] \in Seq(Blobs)
         /\ Len(Files[u]) \in Nat
         /\ \A i \in FileNumbers(u) : Files[u][i] \in Blobs
         /\ Hashes(u) \subseteq Blobs
<1>1. Files[u] \in Seq(Blobs)
  OBVIOUS
<1> QED
  BY <1>1 DEF FileNumbers, Hashes

(* Changing a function at one argument. *)
LEMMA FunUpdate ==
  ASSUME NEW S, NEW T, NEW f \in [S -> T], NEW x \in S, NEW v \in T
  PROVE  [f EXCEPT ![x] = v] \in [S -> T]
OBVIOUS

(* Queueing behind a running job leaves it running. *)
LEMMA QueueAppend ==
  ASSUME NEW q \in Seq(Jobs), NEW j \in Jobs
  PROVE  /\ Append(q, j) \in Seq(Jobs)
         /\ Append(q, j) # <<>>
         /\ q # <<>> => Head(Append(q, j)) = Head(q)
BY AppendProperties, HeadTailAppend

LEMMA QueueTail ==
  ASSUME NEW q \in Seq(Jobs), q # <<>>
  PROVE  Tail(q) \in Seq(Jobs)
OBVIOUS

LEMMA ControlStep == ControlInv /\ [Next]_vars => ControlInv'
<1> SUFFICES ASSUME ControlInv, [Next]_vars PROVE ControlInv'
  OBVIOUS
<1> USE DEF ControlInv, TypeOK, LockInv, PlaceInv, DownInv, At, Goto, Holds,
            work, memory, durable, Jobs, Locked, UploadPlaces,
            DeletionPlaces, Ended, FileNumbers
<1>1. ASSUME NEW u \in Uploads, Refuse(u) PROVE ControlInv'
  BY <1>1 DEF Refuse
<1>2. ASSUME NEW u \in Uploads, Admit(u) PROVE ControlInv'
  BY <1>2 DEF Admit
<1>3. ASSUME NEW u \in Uploads, ReceiveFile(u) PROVE ControlInv'
  BY <1>3 DEF ReceiveFile, Parts
<1>4. ASSUME NEW u \in Uploads, StreamFails(u) PROVE ControlInv'
  BY <1>4 DEF StreamFails, PartsOf
<1>5. ASSUME NEW u \in Uploads, EndOfStream(u) PROVE ControlInv'
  BY <1>5, QueueAppend DEF EndOfStream, Enqueue
<1>6. ASSUME NEW u \in Uploads, StartReceive(u) PROVE ControlInv'
  BY <1>6 DEF StartReceive
<1>7. ASSUME NEW u \in Uploads, CommitFile(u) PROVE ControlInv'
  <2>1. TypeOK'
    <3>1. pc' \in [Jobs -> UploadPlaces \cup DeletionPlaces \cup Ended]
      BY <1>7, ZenonT(40) DEF CommitFile
    <3>2. Size[Files[u][next[u]]] \in Nat /\ Files[u][next[u]] \in Blobs
      BY <1>7, FilesTyped DEF CommitFile
    <3>3. /\ filesInStorage256' \subseteq Blobs
          /\ storageUsage' \in Int
          /\ reservedBytes' \in Nat
      BY <1>7, <3>2 DEF CommitFile
    <3>4. storageMutationQueue' \in Seq(Jobs)
      <4>1. \/ storageMutationQueue' = storageMutationQueue
            \/ storageMutationQueue' = Tail(storageMutationQueue)
        BY <1>7 DEF CommitFile, Settle
      <4>2. Tail(storageMutationQueue) \in Seq(Jobs)
        BY <1>7, QueueTail DEF CommitFile
      <4> QED
        BY <4>1, <4>2
    <3> QED
      BY <1>7, <3>1, <3>3, <3>4 DEF CommitFile
  <2>2. /\ \A j \in Jobs \ {u} : pc'[j] = pc[j]
        /\ pc[u] = "committing" /\ UNCHANGED next /\ up /\ up'
        /\ next[u] \in FileNumbers(u)
    BY <1>7 DEF CommitFile
  <2>3. \/ /\ pc'[u] \in {"dropping", "renaming"}
           /\ UNCHANGED storageMutationQueue
        \/ pc'[u] = "broken"
    BY <1>7 DEF CommitFile
  <2>4. LockInv'
    <3>1. \A j \in Jobs \ {u} : pc'[j] \notin Locked
      BY <2>2
    <3>2. pc'[u] \in Locked => Holds(u)'
      BY <2>2, <2>3
    <3> QED
      BY <3>1, <3>2
  <2>5. PlaceInv'
    BY <2>2, <2>3
  <2>6. DownInv'
    BY <2>2
  <2> QED
    BY <2>1, <2>4, <2>5, <2>6
<1>8. ASSUME NEW u \in Uploads, DropPart(u) PROVE ControlInv'
  BY <1>8 DEF DropPart
<1>9. ASSUME NEW u \in Uploads, DropPartFails(u) PROVE ControlInv'
  BY <1>9, QueueTail DEF DropPartFails, Settle
<1>10. ASSUME NEW u \in Uploads, RenamePart(u) PROVE ControlInv'
  BY <1>10 DEF RenamePart
<1>11. ASSUME NEW u \in Uploads, RenamePartFails(u) PROVE ControlInv'
  <2>1. TypeOK'
    BY <1>11, QueueTail, FilesTyped, SMTT(30) DEF RenamePartFails, Settle
  <2>2. LockInv'
    BY <1>11, QueueTail, FilesTyped DEF RenamePartFails, Settle
  <2>3. PlaceInv'
    BY <1>11, QueueTail, FilesTyped DEF RenamePartFails, Settle
  <2>4. DownInv'
    BY <1>11, QueueTail, FilesTyped DEF RenamePartFails, Settle
  <2> QED
    BY <2>1, <2>2, <2>3, <2>4
<1>12. ASSUME NEW u \in Uploads, InsertDocument(u) PROVE ControlInv'
  BY <1>12, QueueTail DEF InsertDocument, Settle
<1>13. ASSUME NEW u \in Uploads, InsertDocumentFails(u) PROVE ControlInv'
  BY <1>13, QueueTail DEF InsertDocumentFails, Settle
<1>14. ASSUME NEW u \in Uploads, storage_release(u) PROVE ControlInv'
  BY <1>14, SMTT(30) DEF storage_release, Answer
<1>15. ASSUME NEW u \in Uploads, SweepParts(u) PROVE ControlInv'
  BY <1>15 DEF SweepParts, PartsOf
<1>16. ASSUME NEW d \in Deletions, RequestDelete(d) PROVE ControlInv'
  BY <1>16, QueueAppend DEF RequestDelete, Enqueue
<1>17. ASSUME NEW d \in Deletions, FindAndDelete(d) PROVE ControlInv'
  <2>1. TypeOK'
    <3>1. pc' \in [Jobs -> UploadPlaces \cup DeletionPlaces \cup Ended]
      BY <1>17 DEF FindAndDelete
    <3>2. Hashes(Target[d]) \in SUBSET Blobs
      BY FilesTyped
    <3>3. doomed' \in [Deletions -> SUBSET Blobs]
      <4>1. \/ doomed' = doomed
            \/ doomed' = [doomed EXCEPT ![d] = Hashes(Target[d])]
        BY <1>17 DEF FindAndDelete
      <4>2. [doomed EXCEPT ![d] = Hashes(Target[d])] \in [Deletions -> SUBSET Blobs]
        BY <3>2, FunUpdate
      <4> QED
        BY <4>1, <4>2
    <3>5. uploads' \subseteq Uploads
      BY <1>17 DEF FindAndDelete
    <3>4. storageMutationQueue' \in Seq(Jobs)
      <4>1. \/ storageMutationQueue' = storageMutationQueue
            \/ storageMutationQueue' = Tail(storageMutationQueue)
        BY <1>17 DEF FindAndDelete, Settle
      <4>2. Tail(storageMutationQueue) \in Seq(Jobs)
        BY <1>17, QueueTail DEF FindAndDelete
      <4> QED
        BY <4>1, <4>2
    <3> QED
      BY <1>17, <3>1, <3>3, <3>4, <3>5 DEF FindAndDelete
  <2>2. LockInv'
    BY <1>17, QueueTail, FilesTyped DEF FindAndDelete, Settle
  <2>3. PlaceInv'
    BY <1>17, QueueTail, FilesTyped DEF FindAndDelete, Settle
  <2>4. DownInv'
    BY <1>17, QueueTail, FilesTyped DEF FindAndDelete, Settle
  <2> QED
    BY <2>1, <2>2, <2>3, <2>4
<1>18. ASSUME NEW d \in Deletions, FindAndDeleteFails(d) PROVE ControlInv'
  BY <1>18, QueueTail DEF FindAndDeleteFails, Settle
<1>19. ASSUME NEW d \in Deletions, NEW b \in Blobs, CheckReference(d, b)
       PROVE  ControlInv'
  <2>1. TypeOK'
    <3>1. pc' \in [Jobs -> UploadPlaces \cup DeletionPlaces \cup Ended]
      BY <1>19, ZenonT(40) DEF CheckReference
    <3>2. doomed[d] \ {b} \in SUBSET Blobs /\ {b} \in SUBSET Blobs
      OBVIOUS
    <3>3. doomed' \in [Deletions -> SUBSET Blobs]
      BY <1>19, <3>2 DEF CheckReference
    <3>4. victim' \in [Deletions -> SUBSET Blobs]
      <4>1. victim' = victim \/ victim' = [victim EXCEPT ![d] = {b}]
        BY <1>19 DEF CheckReference
      <4>2. [victim EXCEPT ![d] = {b}] \in [Deletions -> SUBSET Blobs]
        BY <3>2, FunUpdate
      <4> QED
        BY <4>1, <4>2
    <3> QED
      BY <1>19, <3>1, <3>3, <3>4 DEF CheckReference
  <2>2. LockInv'
    BY <1>19 DEF CheckReference
  <2>3. PlaceInv'
    BY <1>19 DEF CheckReference
  <2>4. DownInv'
    BY <1>19 DEF CheckReference
  <2> QED
    BY <2>1, <2>2, <2>3, <2>4
<1>20. ASSUME NEW d \in Deletions, NEW b \in Blobs, CheckReferenceFails(d, b)
       PROVE  ControlInv'
  BY <1>20 DEF CheckReferenceFails
<1>21. ASSUME NEW d \in Deletions, UnlinkBlob(d) PROVE ControlInv'
  BY <1>21 DEF UnlinkBlob
<1>22. ASSUME NEW d \in Deletions, UnlinkBlobFails(d) PROVE ControlInv'
  BY <1>22 DEF UnlinkBlobFails
<1>23. ASSUME NEW d \in Deletions, ForgetBlob(d) PROVE ControlInv'
  BY <1>23 DEF ForgetBlob
<1>24. ASSUME NEW d \in Deletions, FinishDelete(d) PROVE ControlInv'
  BY <1>24, QueueTail DEF FinishDelete, Settle
<1>25. CASE Crash
  <2>1. TypeOK'
    <3>1. pc' \in [Jobs -> UploadPlaces \cup DeletionPlaces \cup Ended]
      <4>1. \A j \in Jobs : pc'[j] \in {pc[j], "lost"}
        BY <1>25 DEF Crash
      <4>2. pc' = [j \in Jobs |-> pc'[j]]
        BY <1>25 DEF Crash
      <4> QED
        BY <4>1, <4>2
    <3>2. storageMutationQueue' \in Seq(Jobs)
      BY <1>25 DEF Crash
    <3>3. /\ next' \in [Uploads -> Nat]
          /\ doomed' \in [Deletions -> SUBSET Blobs]
          /\ victim' \in [Deletions -> SUBSET Blobs]
      BY <1>25 DEF Crash
    <3>4. up' = FALSE /\ storageUsage' = 0 /\ reservedBytes' = 0
      BY <1>25 DEF Crash
    <3>6. filesInStorage256' = {}
      BY <1>25 DEF Crash
    <3>5. UNCHANGED <<failures, disk, incoming, uploads>>
      BY <1>25 DEF Crash
    <3>7. storageUsage' \in Int /\ reservedBytes' \in Nat
      BY <3>4
    <3>9. up' \in BOOLEAN /\ filesInStorage256' \subseteq Blobs
      BY <3>4, <3>6, Zenon
    <3>8. /\ failures' \in [Deletions -> SUBSET Blobs]
          /\ disk' \subseteq Blobs
          /\ incoming' \subseteq Parts
          /\ uploads' \subseteq Uploads
      BY <3>5
    <3> QED
      BY <3>1, <3>2, <3>3, <3>7, <3>8, <3>9, Zenon
  <2>2. LockInv'
    BY <1>25 DEF Crash
  <2>3. PlaceInv'
    BY <1>25 DEF Crash
  <2>4. DownInv'
    BY <1>25 DEF Crash
  <2> QED
    BY <2>1, <2>2, <2>3, <2>4
<1>26. CASE initStorage
  <2>1. IsFiniteSet(disk) /\ \A b \in disk : Size[b] \in Nat
    BY FS_Subset
  <2>2. Weight(disk, Size) \in Nat
    BY <2>1, WeightNat
  <2> QED
    BY <1>26, <2>2 DEF initStorage
<1>27. CASE UNCHANGED vars
  BY <1>27 DEF vars
<1> QED
  BY <1>1, <1>2, <1>3, <1>4, <1>5, <1>6, <1>7, <1>8, <1>9, <1>10, <1>11,
     <1>12, <1>13, <1>14, <1>15, <1>16, <1>17, <1>18, <1>19, <1>20, <1>21,
     <1>22, <1>23, <1>24, <1>25, <1>26, <1>27
     DEF Next, UploadStep, DeletionStep

(* Every variable keeps its type, however requests, faults and restarts     *)
(* interleave.                                                              *)
THEOREM TypeCorrect == Spec => []TypeOK
<1>1. ControlInv => TypeOK
  BY DEF ControlInv
<1> QED
  BY <1>1, ControlInit, ControlStep, PTL DEF Spec

-----------------------------------------------------------------------------
(* The store: every hash a document names is on disk.                      *)

(* Where an upload is between its first commit and its insert. *)
Committing == {"committing", "renaming", "dropping"}

(* Two jobs are never inside the lock together. *)
LEMMA OneInside ==
  ASSUME ControlInv, NEW j \in Jobs, NEW k \in Jobs,
         pc[j] \in Locked, pc[k] \in Locked
  PROVE  j = k
BY DEF ControlInv, LockInv, Holds

(* What an upload has committed stays on disk until its insert; a file it   *)
(* renames is not there yet, and the original of a duplicate is.            *)
CommittedInv == \A u \in Uploads :
  /\ pc[u] \in Committing =>
       \A i \in FileNumbers(u) : i < next[u] => Files[u][i] \in disk
  /\ pc[u] = "renaming" => Files[u][next[u]] \in filesInStorage256 \ disk
  /\ pc[u] = "dropping" => Files[u][next[u]] \in disk

(* The process never forgets a blob it has; it believes in one it has not   *)
(* only while the lock holder renames or unlinks it.                        *)
IndexInv == up =>
  /\ disk \subseteq filesInStorage256
  /\ \A b \in filesInStorage256 \ disk :
       \/ \E u \in Uploads : pc[u] = "renaming" /\ b = Files[u][next[u]]
       \/ \E d \in Deletions : pc[d] = "forgetting" /\ b \in victim[d]

(* Nothing references a blob while it is unlinked. *)
VictimInv == \A d \in Deletions :
  /\ pc[d] \in {"unlinking", "forgetting"} =>
       /\ victim[d] \subseteq filesInStorage256
       /\ \A b \in victim[d] : ~Referenced(b)
  /\ pc[d] = "forgetting" => victim[d] \cap disk = {}

StoreInv == NoDanglingReference /\ CommittedInv /\ IndexInv /\ VictimInv

LEMMA StoreInit == Init => StoreInv
BY DEF Init, StoreInv, NoDanglingReference, CommittedInv, IndexInv, VictimInv,
       Jobs, Committing

(* A step that leaves the store, the documents and every handler inside the *)
(* commit or the cleanup alone keeps the invariant.                         *)
LEMMA StoreFrame ==
  ASSUME StoreInv,
         UNCHANGED <<up, filesInStorage256, disk, uploads, victim>>,
         \A u \in Uploads :
           \/ pc'[u] = pc[u] /\ next'[u] = next[u]
           \/ pc[u] \notin Committing /\ pc'[u] \notin Committing,
         \A d \in Deletions :
           \/ pc'[d] = pc[d]
           \/ /\ pc[d] \notin {"unlinking", "forgetting"}
              /\ pc'[d] \notin {"unlinking", "forgetting"}
  PROVE  StoreInv'
<1> USE DEF StoreInv, Committing
<1>1. NoDanglingReference'
  BY DEF NoDanglingReference
<1>2. CommittedInv'
  BY DEF CommittedInv
<1>3. IndexInv'
  BY DEF IndexInv
<1>4. VictimInv'
  BY DEF VictimInv, Referenced
<1> QED
  BY <1>1, <1>2, <1>3, <1>4

LEMMA StoreStep == ControlInv /\ StoreInv /\ [Next]_vars => StoreInv'
<1> SUFFICES ASSUME ControlInv, StoreInv, [Next]_vars PROVE StoreInv'
  OBVIOUS
<1>0. pc \in [Jobs -> UploadPlaces \cup DeletionPlaces \cup Ended]
  BY DEF ControlInv, TypeOK
<1> USE DEF At, Goto, work, memory, durable, Jobs, Committing
<1>1. ASSUME NEW u \in Uploads, Refuse(u) PROVE StoreInv'
  BY <1>0, <1>1, StoreFrame DEF Refuse
<1>2. ASSUME NEW u \in Uploads, Admit(u) PROVE StoreInv'
  BY <1>0, <1>2, StoreFrame DEF Admit
<1>3. ASSUME NEW u \in Uploads, ReceiveFile(u) PROVE StoreInv'
  <2>1. next \in [Uploads -> Nat]
    BY DEF ControlInv, TypeOK
  <2> QED
    BY <1>0, <1>3, <2>1, StoreFrame DEF ReceiveFile
<1>4. ASSUME NEW u \in Uploads, StreamFails(u) PROVE StoreInv'
  BY <1>0, <1>4, StoreFrame DEF StreamFails
<1>5. ASSUME NEW u \in Uploads, EndOfStream(u) PROVE StoreInv'
  <2>1. next \in [Uploads -> Nat]
    BY DEF ControlInv, TypeOK
  <2> QED
    BY <1>0, <1>5, <2>1, StoreFrame DEF EndOfStream
<1>14. ASSUME NEW u \in Uploads, storage_release(u) PROVE StoreInv'
  BY <1>0, <1>14, StoreFrame DEF storage_release, Answer
<1>15. ASSUME NEW u \in Uploads, SweepParts(u) PROVE StoreInv'
  BY <1>0, <1>15, StoreFrame DEF SweepParts
<1>16. ASSUME NEW d \in Deletions, RequestDelete(d) PROVE StoreInv'
  BY <1>0, <1>16, StoreFrame DEF RequestDelete
<1>20. ASSUME NEW d \in Deletions, NEW b \in Blobs, CheckReferenceFails(d, b)
       PROVE  StoreInv'
  BY <1>0, <1>20, StoreFrame DEF CheckReferenceFails
<1>24. ASSUME NEW d \in Deletions, FinishDelete(d) PROVE StoreInv'
  BY <1>0, <1>24, StoreFrame DEF FinishDelete
<1>6. ASSUME NEW u \in Uploads, StartReceive(u) PROVE StoreInv'
  <2>1. up /\ pc[u] = "queued"
    BY <1>6 DEF StartReceive
  <2>2. \A k \in Jobs : pc[k] \notin Locked
    BY <1>6, <2>1 DEF ControlInv, LockInv, Locked, Holds, StartReceive
  <2>3. next[u] = 1
    BY <2>1 DEF ControlInv, PlaceInv
  <2>4. NoDanglingReference'
    BY <1>0, <1>6, <2>1, <2>2, <2>3 DEF StartReceive, StoreInv, NoDanglingReference
  <2>5. CommittedInv'
    BY <1>0, <1>6, <2>1, <2>2, <2>3 DEF StartReceive, StoreInv, CommittedInv, Locked, FileNumbers
  <2>6. IndexInv'
    BY <1>0, <1>6, <2>1, <2>2, <2>3 DEF StartReceive, StoreInv, IndexInv, Locked
  <2>7. VictimInv'
    BY <1>0, <1>6, <2>1, <2>2, <2>3 DEF StartReceive, StoreInv, VictimInv, Referenced, Locked
  <2> QED
    BY <2>4, <2>5, <2>6, <2>7 DEF StoreInv
<1>7. ASSUME NEW u \in Uploads, CommitFile(u) PROVE StoreInv'
  <2>1. up /\ pc[u] = "committing"
    BY <1>7 DEF CommitFile
  <2>2. \A k \in Jobs : pc[k] \in Locked => k = u
    BY <2>1, OneInside DEF Locked
  <2>3. disk = filesInStorage256
    BY <2>1, <2>2 DEF StoreInv, IndexInv, Locked
  <2>4. NoDanglingReference'
    BY <1>0, <1>7, <2>1, <2>2, <2>3 DEF CommitFile, StoreInv, NoDanglingReference
  <2>5. CommittedInv'
    BY <1>0, <1>7, <2>1, <2>2, <2>3 DEF CommitFile, StoreInv, CommittedInv, Locked
  <2>6. IndexInv'
    BY <1>0, <1>7, <2>1, <2>2, <2>3 DEF CommitFile, StoreInv, IndexInv, Locked
  <2>7. VictimInv'
    BY <1>0, <1>7, <2>1, <2>2, <2>3, ZenonT(40) DEF CommitFile, StoreInv, VictimInv, Referenced, Locked
  <2> QED
    BY <2>4, <2>5, <2>6, <2>7 DEF StoreInv
<1>8. ASSUME NEW u \in Uploads, DropPart(u) PROVE StoreInv'
  <2>1. up /\ pc[u] = "dropping"
    BY <1>8 DEF DropPart
  <2>2. \A k \in Jobs : pc[k] \in Locked => k = u
    BY <2>1, OneInside DEF Locked
  <2>3. next \in [Uploads -> Nat] /\ disk \subseteq Blobs
    BY DEF ControlInv, TypeOK
  <2>4. NoDanglingReference'
    BY <1>0, <1>8, <2>1, <2>2, <2>3 DEF DropPart, StoreInv, NoDanglingReference
  <2>5. CommittedInv'
    BY <1>0, <1>8, <2>1, <2>2, <2>3 DEF DropPart, StoreInv, CommittedInv, Locked, FileNumbers
  <2>6. IndexInv'
    BY <1>0, <1>8, <2>1, <2>2, <2>3 DEF DropPart, StoreInv, IndexInv, Locked
  <2>7. VictimInv'
    BY <1>0, <1>8, <2>1, <2>2, <2>3 DEF DropPart, StoreInv, VictimInv, Referenced, Locked
  <2> QED
    BY <2>4, <2>5, <2>6, <2>7 DEF StoreInv
<1>9. ASSUME NEW u \in Uploads, DropPartFails(u) PROVE StoreInv'
  <2>1. up /\ pc[u] = "dropping"
    BY <1>9 DEF DropPartFails
  <2>2. \A k \in Jobs : pc[k] \in Locked => k = u
    BY <2>1, OneInside DEF Locked
  <2>4. NoDanglingReference'
    BY <1>0, <1>9, <2>1, <2>2 DEF DropPartFails, StoreInv, NoDanglingReference
  <2>5. CommittedInv'
    BY <1>0, <1>9, <2>1, <2>2 DEF DropPartFails, StoreInv, CommittedInv, Locked
  <2>6. IndexInv'
    BY <1>0, <1>9, <2>1, <2>2 DEF DropPartFails, StoreInv, IndexInv, Locked
  <2>7. VictimInv'
    BY <1>0, <1>9, <2>1, <2>2 DEF DropPartFails, StoreInv, VictimInv, Referenced, Locked
  <2> QED
    BY <2>4, <2>5, <2>6, <2>7 DEF StoreInv
<1>10. ASSUME NEW u \in Uploads, RenamePart(u) PROVE StoreInv'
  <2>1. up /\ pc[u] = "renaming"
    BY <1>10 DEF RenamePart
  <2>2. \A k \in Jobs : pc[k] \in Locked => k = u
    BY <2>1, OneInside DEF Locked
  <2>3. next \in [Uploads -> Nat] /\ disk \subseteq Blobs
    BY DEF ControlInv, TypeOK
  <2>4. NoDanglingReference'
    BY <1>0, <1>10, <2>1, <2>2, <2>3 DEF RenamePart, StoreInv, NoDanglingReference
  <2>5. CommittedInv'
    BY <1>0, <1>10, <2>1, <2>2, <2>3 DEF RenamePart, StoreInv, CommittedInv, Locked, FileNumbers
  <2>6. IndexInv'
    <3>1. filesInStorage256 \ disk \subseteq {Files[u][next[u]]}
      BY <2>1, <2>2 DEF StoreInv, IndexInv, Locked
    <3>2. Files[u][next[u]] \in filesInStorage256
      BY <2>1 DEF StoreInv, CommittedInv
    <3>3. disk' = disk \cup {Files[u][next[u]]} /\ UNCHANGED filesInStorage256
      BY <1>10 DEF RenamePart
    <3>4. disk \subseteq filesInStorage256
      BY <2>1 DEF StoreInv, IndexInv
    <3>5. disk' = filesInStorage256'
      BY <3>1, <3>2, <3>3, <3>4
    <3> QED
      BY <3>5 DEF IndexInv
  <2>7. VictimInv'
    BY <1>0, <1>10, <2>1, <2>2, <2>3 DEF RenamePart, StoreInv, VictimInv, Referenced, Locked
  <2> QED
    BY <2>4, <2>5, <2>6, <2>7 DEF StoreInv
<1>11. ASSUME NEW u \in Uploads, RenamePartFails(u) PROVE StoreInv'
  <2>1. up /\ pc[u] = "renaming"
    BY <1>11 DEF RenamePartFails
  <2>2. \A k \in Jobs : pc[k] \in Locked => k = u
    BY <2>1, OneInside DEF Locked
  <2>4. NoDanglingReference'
    BY <1>0, <1>11, <2>1, <2>2 DEF RenamePartFails, StoreInv, NoDanglingReference
  <2>5. CommittedInv'
    BY <1>0, <1>11, <2>1, <2>2 DEF RenamePartFails, StoreInv, CommittedInv, Locked
  <2>6. IndexInv'
    <3>1. filesInStorage256 \ disk \subseteq {Files[u][next[u]]}
      BY <2>1, <2>2 DEF StoreInv, IndexInv, Locked
    <3>2. Files[u][next[u]] \notin disk
      BY <2>1 DEF StoreInv, CommittedInv
    <3>3. /\ filesInStorage256' = filesInStorage256 \ {Files[u][next[u]]}
          /\ UNCHANGED disk
      BY <1>11 DEF RenamePartFails
    <3>4. disk \subseteq filesInStorage256
      BY <2>1 DEF StoreInv, IndexInv
    <3>5. disk' = filesInStorage256'
      BY <3>1, <3>2, <3>3, <3>4
    <3> QED
      BY <3>5 DEF IndexInv
  <2>7. VictimInv'
    BY <1>0, <1>11, <2>1, <2>2 DEF RenamePartFails, StoreInv, VictimInv, Referenced, Locked
  <2> QED
    BY <2>4, <2>5, <2>6, <2>7 DEF StoreInv
<1>12. ASSUME NEW u \in Uploads, InsertDocument(u) PROVE StoreInv'
  <2>1. up /\ pc[u] = "committing"
    BY <1>12 DEF InsertDocument
  <2>2. \A k \in Jobs : pc[k] \in Locked => k = u
    BY <2>1, OneInside DEF Locked
  <2>4. NoDanglingReference'
    <3>1. next[u] > Len(Files[u]) /\ next[u] \in Nat
      BY <1>12 DEF InsertDocument, ControlInv, TypeOK
    <3>2. \A i \in FileNumbers(u) : i < next[u]
      BY <3>1, FilesTyped DEF FileNumbers
    <3>3. Hashes(u) \subseteq disk
      BY <2>1, <3>2 DEF StoreInv, CommittedInv, Hashes
    <3>4. uploads' \subseteq uploads \cup {u} /\ UNCHANGED disk
      BY <1>12 DEF InsertDocument
    <3> QED
      BY <3>3, <3>4 DEF StoreInv, NoDanglingReference
  <2>5. CommittedInv'
    BY <1>0, <1>12, <2>1, <2>2 DEF InsertDocument, StoreInv, CommittedInv, Locked
  <2>6. IndexInv'
    BY <1>0, <1>12, <2>1, <2>2 DEF InsertDocument, StoreInv, IndexInv, Locked
  <2>7. VictimInv'
    BY <1>0, <1>12, <2>1, <2>2 DEF InsertDocument, StoreInv, VictimInv, Referenced, Locked
  <2> QED
    BY <2>4, <2>5, <2>6, <2>7 DEF StoreInv
<1>13. ASSUME NEW u \in Uploads, InsertDocumentFails(u) PROVE StoreInv'
  <2>1. up /\ pc[u] = "committing"
    BY <1>13 DEF InsertDocumentFails
  <2>2. \A k \in Jobs : pc[k] \in Locked => k = u
    BY <2>1, OneInside DEF Locked
  <2>4. NoDanglingReference'
    <3>1. next[u] > Len(Files[u]) /\ next[u] \in Nat
      BY <1>13 DEF InsertDocumentFails, ControlInv, TypeOK
    <3>2. \A i \in FileNumbers(u) : i < next[u]
      BY <3>1, FilesTyped DEF FileNumbers
    <3>3. Hashes(u) \subseteq disk
      BY <2>1, <3>2 DEF StoreInv, CommittedInv, Hashes
    <3>4. uploads' \subseteq uploads \cup {u} /\ UNCHANGED disk
      BY <1>13 DEF InsertDocumentFails
    <3> QED
      BY <3>3, <3>4 DEF StoreInv, NoDanglingReference
  <2>5. CommittedInv'
    BY <1>0, <1>13, <2>1, <2>2 DEF InsertDocumentFails, StoreInv, CommittedInv, Locked
  <2>6. IndexInv'
    BY <1>0, <1>13, <2>1, <2>2 DEF InsertDocumentFails, StoreInv, IndexInv, Locked
  <2>7. VictimInv'
    BY <1>0, <1>13, <2>1, <2>2 DEF InsertDocumentFails, StoreInv, VictimInv, Referenced, Locked
  <2> QED
    BY <2>4, <2>5, <2>6, <2>7 DEF StoreInv
<1>17. ASSUME NEW d \in Deletions, FindAndDelete(d) PROVE StoreInv'
  <2>1. up /\ pc[d] = "queued"
    BY <1>17 DEF FindAndDelete
  <2>2. \A k \in Jobs : pc[k] \notin Locked
    BY <1>17, <2>1 DEF ControlInv, LockInv, Locked, Holds, FindAndDelete
  <2>4. NoDanglingReference'
    BY <1>0, <1>17, <2>1, <2>2 DEF FindAndDelete, StoreInv, NoDanglingReference
  <2>5. CommittedInv'
    BY <1>0, <1>17, <2>1, <2>2 DEF FindAndDelete, StoreInv, CommittedInv, Locked
  <2>6. IndexInv'
    BY <1>0, <1>17, <2>1, <2>2 DEF FindAndDelete, StoreInv, IndexInv, Locked
  <2>7. VictimInv'
    BY <1>0, <1>17, <2>1, <2>2 DEF FindAndDelete, StoreInv, VictimInv, Referenced, Locked
  <2> QED
    BY <2>4, <2>5, <2>6, <2>7 DEF StoreInv
<1>18. ASSUME NEW d \in Deletions, FindAndDeleteFails(d) PROVE StoreInv'
  <2>1. up /\ pc[d] = "queued"
    BY <1>18 DEF FindAndDeleteFails
  <2>2. \A k \in Jobs : pc[k] \notin Locked
    BY <1>18, <2>1 DEF ControlInv, LockInv, Locked, Holds, FindAndDeleteFails
  <2>4. NoDanglingReference'
    BY <1>0, <1>18, <2>1, <2>2 DEF FindAndDeleteFails, StoreInv, NoDanglingReference
  <2>5. CommittedInv'
    BY <1>0, <1>18, <2>1, <2>2 DEF FindAndDeleteFails, StoreInv, CommittedInv, Locked
  <2>6. IndexInv'
    BY <1>0, <1>18, <2>1, <2>2 DEF FindAndDeleteFails, StoreInv, IndexInv, Locked
  <2>7. VictimInv'
    BY <1>0, <1>18, <2>1, <2>2 DEF FindAndDeleteFails, StoreInv, VictimInv, Referenced, Locked
  <2> QED
    BY <2>4, <2>5, <2>6, <2>7 DEF StoreInv
<1>19. ASSUME NEW d \in Deletions, NEW b \in Blobs, CheckReference(d, b)
       PROVE  StoreInv'
  <2>1. up /\ pc[d] = "cleaning"
    BY <1>19 DEF CheckReference
  <2>2. \A k \in Jobs : pc[k] \in Locked => k = d
    BY <2>1, OneInside DEF Locked
  <2>3. victim \in [Deletions -> SUBSET Blobs]
    BY DEF ControlInv, TypeOK
  <2>4. NoDanglingReference'
    BY <1>0, <1>19, <2>1, <2>2, <2>3 DEF CheckReference, StoreInv, NoDanglingReference
  <2>5. CommittedInv'
    BY <1>0, <1>19, <2>1, <2>2, <2>3 DEF CheckReference, StoreInv, CommittedInv, Locked
  <2>6. IndexInv'
    BY <1>0, <1>19, <2>1, <2>2, <2>3 DEF CheckReference, StoreInv, IndexInv, Locked
  <2>7. VictimInv'
    <3>1. UNCHANGED <<uploads, disk, filesInStorage256>>
      BY <1>19 DEF CheckReference
    <3>2. \A e \in Deletions \ {d} : victim'[e] = victim[e] /\ pc'[e] = pc[e]
      BY <1>0, <1>19, <2>3 DEF CheckReference
    <3>3. \/ pc'[d] = "cleaning"
          \/ /\ pc'[d] = "unlinking" /\ victim'[d] = {b}
             /\ ~Referenced(b) /\ b \in filesInStorage256
      BY <1>0, <1>19, <2>1, <2>3 DEF CheckReference
    <3> QED
      BY <3>1, <3>2, <3>3 DEF StoreInv, VictimInv, Referenced
  <2> QED
    BY <2>4, <2>5, <2>6, <2>7 DEF StoreInv
<1>21. ASSUME NEW d \in Deletions, UnlinkBlob(d) PROVE StoreInv'
  <2>1. up /\ pc[d] = "unlinking"
    BY <1>21 DEF UnlinkBlob
  <2>2. \A k \in Jobs : pc[k] \in Locked => k = d
    BY <2>1, OneInside DEF Locked
  <2>3. disk = filesInStorage256
    BY <2>1, <2>2 DEF StoreInv, IndexInv, Locked
  <2>4. NoDanglingReference'
    BY <1>0, <1>21, <2>1, <2>2, <2>3 DEF UnlinkBlob, StoreInv, NoDanglingReference, VictimInv, Referenced
  <2>5. CommittedInv'
    BY <1>0, <1>21, <2>1, <2>2, <2>3 DEF UnlinkBlob, StoreInv, CommittedInv, Locked
  <2>6. IndexInv'
    BY <1>0, <1>21, <2>1, <2>2, <2>3 DEF UnlinkBlob, StoreInv, IndexInv, Locked
  <2>7. VictimInv'
    BY <1>0, <1>21, <2>1, <2>2, <2>3 DEF UnlinkBlob, StoreInv, VictimInv, Referenced, Locked
  <2> QED
    BY <2>4, <2>5, <2>6, <2>7 DEF StoreInv
<1>22. ASSUME NEW d \in Deletions, UnlinkBlobFails(d) PROVE StoreInv'
  <2>1. up /\ pc[d] = "unlinking"
    BY <1>22 DEF UnlinkBlobFails
  <2>2. \A k \in Jobs : pc[k] \in Locked => k = d
    BY <2>1, OneInside DEF Locked
  <2>3. victim \in [Deletions -> SUBSET Blobs]
    BY DEF ControlInv, TypeOK
  <2>4. NoDanglingReference'
    BY <1>0, <1>22, <2>1, <2>2, <2>3 DEF UnlinkBlobFails, StoreInv, NoDanglingReference
  <2>5. CommittedInv'
    BY <1>0, <1>22, <2>1, <2>2, <2>3 DEF UnlinkBlobFails, StoreInv, CommittedInv, Locked
  <2>6. IndexInv'
    BY <1>0, <1>22, <2>1, <2>2, <2>3 DEF UnlinkBlobFails, StoreInv, IndexInv, Locked
  <2>7. VictimInv'
    BY <1>0, <1>22, <2>1, <2>2, <2>3 DEF UnlinkBlobFails, StoreInv, VictimInv, Referenced, Locked
  <2> QED
    BY <2>4, <2>5, <2>6, <2>7 DEF StoreInv
<1>23. ASSUME NEW d \in Deletions, ForgetBlob(d) PROVE StoreInv'
  <2>1. up /\ pc[d] = "forgetting"
    BY <1>23 DEF ForgetBlob
  <2>2. \A k \in Jobs : pc[k] \in Locked => k = d
    BY <2>1, OneInside DEF Locked
  <2>3. victim \in [Deletions -> SUBSET Blobs]
    BY DEF ControlInv, TypeOK
  <2>4. NoDanglingReference'
    BY <1>0, <1>23, <2>1, <2>2, <2>3 DEF ForgetBlob, StoreInv, NoDanglingReference
  <2>5. CommittedInv'
    BY <1>0, <1>23, <2>1, <2>2, <2>3 DEF ForgetBlob, StoreInv, CommittedInv, Locked
  <2>6. IndexInv'
    BY <1>0, <1>23, <2>1, <2>2, <2>3 DEF ForgetBlob, StoreInv, IndexInv, Locked, VictimInv
  <2>7. VictimInv'
    BY <1>0, <1>23, <2>1, <2>2, <2>3 DEF ForgetBlob, StoreInv, VictimInv, Referenced, Locked
  <2> QED
    BY <2>4, <2>5, <2>6, <2>7 DEF StoreInv
<1>25. CASE Crash
  <2>1. \A j \in Jobs : pc'[j] \in Ended \cup {"idle"}
    <3> SUFFICES ASSUME NEW j \in Jobs PROVE pc'[j] \in Ended \cup {"idle"}
      OBVIOUS
    <3>1. pc'[j] = IF pc[j] \in Ended \cup {"idle"} THEN pc[j] ELSE "lost"
      BY <1>25 DEF Crash
    <3> QED
      BY <3>1 DEF Ended
  <2>2. ~up' /\ UNCHANGED <<disk, uploads>>
    BY <1>25 DEF Crash
  <2> QED
    BY <2>1, <2>2 DEF StoreInv, NoDanglingReference, CommittedInv, IndexInv,
                      VictimInv, Ended
<1>26. CASE initStorage
  <2>1. \A j \in Jobs : pc[j] \in Ended \cup {"idle"}
    BY <1>26 DEF initStorage, ControlInv, DownInv
  <2>2. filesInStorage256' = disk /\ UNCHANGED <<pc, next, victim, disk, uploads>>
    BY <1>26 DEF initStorage
  <2> QED
    BY <2>1, <2>2 DEF StoreInv, NoDanglingReference, CommittedInv, IndexInv,
                      VictimInv, Ended
<1>27. CASE UNCHANGED vars
  BY <1>27, StoreFrame DEF vars
<1> QED
  BY <1>1, <1>2, <1>3, <1>4, <1>5, <1>6, <1>7, <1>8, <1>9, <1>10, <1>11,
     <1>12, <1>13, <1>14, <1>15, <1>16, <1>17, <1>18, <1>19, <1>20, <1>21,
     <1>22, <1>23, <1>24, <1>25, <1>26, <1>27
     DEF Next, UploadStep, DeletionStep

(* No document ever names a blob that is not on disk: not while uploads and *)
(* deletions of shared content interleave, not after a failed rename,       *)
(* unlink or database call, and not across a crash.                         *)
THEOREM NoDanglingReferenceHolds == Spec => []NoDanglingReference
<1>1. Init => ControlInv /\ StoreInv
  BY ControlInit, StoreInit
<1>2. ControlInv /\ StoreInv /\ [Next]_vars => (ControlInv /\ StoreInv)'
  BY ControlStep, StoreStep
<1>3. ControlInv /\ StoreInv => NoDanglingReference
  BY DEF StoreInv
<1> QED
  BY <1>1, <1>2, <1>3, PTL DEF Spec

-----------------------------------------------------------------------------
(* The books: storageUsage and reservedBytes are the sums they stand for.  *)

UsageInv == up => storageUsage = Weight(filesInStorage256, Size)
ReservedInv == reservedBytes = Weight(Holding, ContentLength)
BooksInv == UsageInv /\ ReservedInv

LEMMA BooksInit == Init => BooksInv
<1> SUFFICES ASSUME Init PROVE BooksInv
  OBVIOUS
<1>1. Holding = {}
  BY DEF Init, Holding, Jobs
<1> QED
  BY <1>1, WeightEmpty DEF Init, BooksInv, UsageInv, ReservedInv

LEMMA HoldingFinite ==
  /\ IsFiniteSet(Holding)
  /\ \A u \in Holding : ContentLength[u] \in Nat
BY FS_Subset DEF Holding

LEMMA FilesFinite ==
  ASSUME NEW S, S \subseteq Blobs
  PROVE  IsFiniteSet(S) /\ \A b \in S : Size[b] \in Nat
BY FS_Subset

(* A step that moves no bytes and no claim. *)
LEMMA BooksFrame ==
  ASSUME BooksInv,
         UNCHANGED <<up, filesInStorage256, storageUsage, reservedBytes>>,
         Holding' = Holding
  PROVE  BooksInv'
BY DEF BooksInv, UsageInv, ReservedInv

LEMMA BooksStep ==
  ControlInv /\ StoreInv /\ BooksInv /\ [Next]_vars => BooksInv'
<1> SUFFICES ASSUME ControlInv, StoreInv, BooksInv, [Next]_vars PROVE BooksInv'
  OBVIOUS
<1>0. pc \in [Jobs -> UploadPlaces \cup DeletionPlaces \cup Ended]
  BY DEF ControlInv, TypeOK
<1> USE DEF At, Goto, work, memory, durable, Jobs
<1>1. ASSUME NEW u \in Uploads, Refuse(u) PROVE BooksInv'
  <2>1. Holding' = Holding
    BY <1>0, <1>1 DEF Refuse, Holding
  <2> QED
    BY <1>1, <2>1, BooksFrame DEF Refuse
<1>2. ASSUME NEW u \in Uploads, Admit(u) PROVE BooksInv'
  <2>1. u \notin Holding /\ Holding' = Holding \cup {u}
    BY <1>0, <1>2 DEF Admit, Holding
  <2>2. Weight(Holding \cup {u}, ContentLength)
          = Weight(Holding, ContentLength) + ContentLength[u]
    BY <2>1, HoldingFinite, WeightAdd
  <2>3. /\ reservedBytes' = reservedBytes + ContentLength[u]
        /\ UNCHANGED <<up, filesInStorage256, storageUsage>>
    BY <1>2 DEF Admit
  <2> QED
    BY <2>1, <2>2, <2>3 DEF BooksInv, UsageInv, ReservedInv
<1>3. ASSUME NEW u \in Uploads, ReceiveFile(u) PROVE BooksInv'
  <2>1. Holding' = Holding
    BY <1>0, <1>3 DEF ReceiveFile, Holding
  <2> QED
    BY <1>3, <2>1, BooksFrame DEF ReceiveFile
<1>4. ASSUME NEW u \in Uploads, StreamFails(u) PROVE BooksInv'
  <2>1. Holding' = Holding
    BY <1>0, <1>4 DEF StreamFails, Holding
  <2> QED
    BY <1>4, <2>1, BooksFrame DEF StreamFails
<1>5. ASSUME NEW u \in Uploads, EndOfStream(u) PROVE BooksInv'
  <2>1. Holding' = Holding
    BY <1>0, <1>5 DEF EndOfStream, Holding
  <2> QED
    BY <1>5, <2>1, BooksFrame DEF EndOfStream
<1>6. ASSUME NEW u \in Uploads, StartReceive(u) PROVE BooksInv'
  <2>1. Holding' = Holding
    BY <1>0, <1>6 DEF StartReceive, Holding
  <2> QED
    BY <1>6, <2>1, BooksFrame DEF StartReceive
<1>7. ASSUME NEW u \in Uploads, CommitFile(u) PROVE BooksInv'
  <2> DEFINE b == Files[u][next[u]]
  <2>1. Holding' = Holding /\ UNCHANGED <<up, reservedBytes>> /\ up
    BY <1>0, <1>7 DEF CommitFile, Holding
  <2>2. b \in Blobs /\ filesInStorage256 \subseteq Blobs
    BY <1>7, FilesTyped DEF CommitFile, ControlInv, TypeOK
  <2>3. \/ UNCHANGED <<filesInStorage256, storageUsage>>
        \/ /\ b \notin filesInStorage256
           /\ filesInStorage256' = filesInStorage256 \cup {b}
           /\ storageUsage' = storageUsage + Size[b]
    BY <1>7 DEF CommitFile
  <2>4. b \notin filesInStorage256 =>
          Weight(filesInStorage256 \cup {b}, Size)
            = Weight(filesInStorage256, Size) + Size[b]
    BY <2>2, FilesFinite, WeightAdd
  <2> HIDE DEF b
  <2> QED
    BY <2>1, <2>3, <2>4 DEF BooksInv, UsageInv, ReservedInv
<1>8. ASSUME NEW u \in Uploads, DropPart(u) PROVE BooksInv'
  <2>1. Holding' = Holding
    BY <1>0, <1>8 DEF DropPart, Holding
  <2> QED
    BY <1>8, <2>1, BooksFrame DEF DropPart
<1>9. ASSUME NEW u \in Uploads, DropPartFails(u) PROVE BooksInv'
  <2>1. Holding' = Holding
    BY <1>0, <1>9 DEF DropPartFails, Holding
  <2> QED
    BY <1>9, <2>1, BooksFrame DEF DropPartFails
<1>10. ASSUME NEW u \in Uploads, RenamePart(u) PROVE BooksInv'
  <2>1. Holding' = Holding
    BY <1>0, <1>10 DEF RenamePart, Holding
  <2> QED
    BY <1>10, <2>1, BooksFrame DEF RenamePart
<1>11. ASSUME NEW u \in Uploads, RenamePartFails(u) PROVE BooksInv'
  <2> DEFINE b == Files[u][next[u]]
  <2>1. Holding' = Holding /\ UNCHANGED <<up, reservedBytes>> /\ up
    BY <1>0, <1>11 DEF RenamePartFails, Holding
  <2>2. b \in filesInStorage256 /\ filesInStorage256 \subseteq Blobs
    BY <1>11 DEF RenamePartFails, StoreInv, CommittedInv, ControlInv, TypeOK
  <2>3. /\ filesInStorage256' = filesInStorage256 \ {b}
        /\ storageUsage' = storageUsage - Size[b]
    BY <1>11 DEF RenamePartFails
  <2>4. Weight(filesInStorage256, Size)
          = Weight(filesInStorage256 \ {b}, Size) + Size[b]
    BY <2>2, FilesFinite, WeightRemove
  <2>5. /\ Weight(filesInStorage256 \ {b}, Size) \in Nat
        /\ Size[b] \in Nat
    <3>1. filesInStorage256 \ {b} \subseteq Blobs
      BY <2>2
    <3> QED
      BY <2>2, <3>1, FilesFinite, WeightNat
  <2> HIDE DEF b
  <2> QED
    BY <2>1, <2>3, <2>4, <2>5 DEF BooksInv, UsageInv, ReservedInv
<1>12. ASSUME NEW u \in Uploads, InsertDocument(u) PROVE BooksInv'
  <2>1. Holding' = Holding
    BY <1>0, <1>12 DEF InsertDocument, Holding
  <2> QED
    BY <1>12, <2>1, BooksFrame DEF InsertDocument
<1>13. ASSUME NEW u \in Uploads, InsertDocumentFails(u) PROVE BooksInv'
  <2>1. Holding' = Holding
    BY <1>0, <1>13 DEF InsertDocumentFails, Holding
  <2> QED
    BY <1>13, <2>1, BooksFrame DEF InsertDocumentFails
<1>14. ASSUME NEW u \in Uploads, storage_release(u) PROVE BooksInv'
  <2>1. u \in Holding /\ Holding' = Holding \ {u}
    BY <1>0, <1>14 DEF storage_release, Answer, Holding
  <2>2. Weight(Holding, ContentLength)
          = Weight(Holding \ {u}, ContentLength) + ContentLength[u]
    BY <2>1, HoldingFinite, WeightRemove
  <2>3. Weight(Holding \ {u}, ContentLength) \in Nat
    <3>1. IsFiniteSet(Holding \ {u})
      BY HoldingFinite, FS_RemoveElement
    <3> QED
      BY <3>1, HoldingFinite, WeightNat
  <2>4. reservedBytes' = IF reservedBytes >= ContentLength[u]
                           THEN reservedBytes - ContentLength[u] ELSE 0
    BY <1>14 DEF storage_release, Answer
  <2>5. UNCHANGED <<up, filesInStorage256, storageUsage>>
    BY <1>14 DEF storage_release, Answer
  <2>6. ContentLength[u] \in Nat
    OBVIOUS
  <2>7. reservedBytes' = Weight(Holding \ {u}, ContentLength)
    BY <2>2, <2>3, <2>4, <2>6 DEF BooksInv, ReservedInv
  <2> QED
    BY <2>1, <2>5, <2>7 DEF BooksInv, UsageInv, ReservedInv
<1>15. ASSUME NEW u \in Uploads, SweepParts(u) PROVE BooksInv'
  <2>1. Holding' = Holding
    BY <1>0, <1>15 DEF SweepParts, Holding
  <2> QED
    BY <1>15, <2>1, BooksFrame DEF SweepParts
<1>16. ASSUME NEW d \in Deletions, RequestDelete(d) PROVE BooksInv'
  <2>1. Holding' = Holding
    BY <1>0, <1>16 DEF RequestDelete, Holding
  <2> QED
    BY <1>16, <2>1, BooksFrame DEF RequestDelete
<1>17. ASSUME NEW d \in Deletions, FindAndDelete(d) PROVE BooksInv'
  <2>1. Holding' = Holding
    BY <1>0, <1>17 DEF FindAndDelete, Holding
  <2> QED
    BY <1>17, <2>1, BooksFrame DEF FindAndDelete
<1>18. ASSUME NEW d \in Deletions, FindAndDeleteFails(d) PROVE BooksInv'
  <2>1. Holding' = Holding
    BY <1>0, <1>18 DEF FindAndDeleteFails, Holding
  <2> QED
    BY <1>18, <2>1, BooksFrame DEF FindAndDeleteFails
<1>19. ASSUME NEW d \in Deletions, NEW b \in Blobs, CheckReference(d, b)
       PROVE  BooksInv'
  <2>1. Holding' = Holding
    BY <1>0, <1>19 DEF CheckReference, Holding
  <2> QED
    BY <1>19, <2>1, BooksFrame DEF CheckReference
<1>20. ASSUME NEW d \in Deletions, NEW b \in Blobs, CheckReferenceFails(d, b)
       PROVE  BooksInv'
  <2>1. Holding' = Holding
    BY <1>0, <1>20 DEF CheckReferenceFails, Holding
  <2> QED
    BY <1>20, <2>1, BooksFrame DEF CheckReferenceFails
<1>21. ASSUME NEW d \in Deletions, UnlinkBlob(d) PROVE BooksInv'
  <2>1. Holding' = Holding
    BY <1>0, <1>21 DEF UnlinkBlob, Holding
  <2> QED
    BY <1>21, <2>1, BooksFrame DEF UnlinkBlob
<1>22. ASSUME NEW d \in Deletions, UnlinkBlobFails(d) PROVE BooksInv'
  <2>1. Holding' = Holding
    BY <1>0, <1>22 DEF UnlinkBlobFails, Holding
  <2> QED
    BY <1>22, <2>1, BooksFrame DEF UnlinkBlobFails
<1>23. ASSUME NEW d \in Deletions, ForgetBlob(d) PROVE BooksInv'
  <2>1. Holding' = Holding /\ UNCHANGED <<up, reservedBytes>> /\ up
    BY <1>0, <1>23 DEF ForgetBlob, Holding
  <2>2. victim[d] \subseteq filesInStorage256 /\ filesInStorage256 \subseteq Blobs
    BY <1>23 DEF ForgetBlob, StoreInv, VictimInv, ControlInv, TypeOK
  <2>3. /\ filesInStorage256' = filesInStorage256 \ victim[d]
        /\ storageUsage' = storageUsage - Weight(victim[d], Size)
    BY <1>23 DEF ForgetBlob
  <2>4. Weight(filesInStorage256, Size)
          = Weight(filesInStorage256 \ victim[d], Size) + Weight(victim[d], Size)
    <3> DEFINE S == filesInStorage256
               V == victim[d]
    <3>1. IsFiniteSet(S) /\ (\A x \in S : Size[x] \in Nat) /\ V \subseteq S
      BY <2>2, FilesFinite
    <3> HIDE DEF S, V
    <3>2. Weight(S, Size) = Weight(S \ V, Size) + Weight(V, Size)
      BY <3>1, WeightSplit
    <3> QED
      BY <3>2 DEF S, V
  <2>5. /\ Weight(filesInStorage256 \ victim[d], Size) \in Nat
        /\ Weight(victim[d], Size) \in Nat
    <3>1. /\ filesInStorage256 \ victim[d] \subseteq Blobs
          /\ victim[d] \subseteq Blobs
      BY <2>2
    <3> QED
      BY <3>1, FilesFinite, WeightNat
  <2> QED
    BY <2>1, <2>3, <2>4, <2>5 DEF BooksInv, UsageInv, ReservedInv
<1>24. ASSUME NEW d \in Deletions, FinishDelete(d) PROVE BooksInv'
  <2>1. Holding' = Holding
    BY <1>0, <1>24 DEF FinishDelete, Holding
  <2> QED
    BY <1>24, <2>1, BooksFrame DEF FinishDelete
<1>25. CASE Crash
  <2>1. \A u \in Uploads : pc'[u] \in Ended \cup {"idle"}
    <3> SUFFICES ASSUME NEW j \in Uploads PROVE pc'[j] \in Ended \cup {"idle"}
      OBVIOUS
    <3>1. pc'[j] = IF pc[j] \in Ended \cup {"idle"} THEN pc[j] ELSE "lost"
      BY <1>25 DEF Crash
    <3> QED
      BY <3>1 DEF Ended
  <2>2. Holding' = {}
    BY <2>1 DEF Holding, Ended
  <2> QED
    BY <1>25, <2>2, WeightEmpty DEF Crash, BooksInv, UsageInv, ReservedInv
<1>26. CASE initStorage
  <2>1. Holding' = Holding
    BY <1>26 DEF initStorage, Holding
  <2> QED
    BY <1>26, <2>1 DEF initStorage, BooksInv, UsageInv, ReservedInv
<1>27. CASE UNCHANGED vars
  BY <1>27, BooksFrame DEF vars, Holding
<1> QED
  BY <1>1, <1>2, <1>3, <1>4, <1>5, <1>6, <1>7, <1>8, <1>9, <1>10, <1>11,
     <1>12, <1>13, <1>14, <1>15, <1>16, <1>17, <1>18, <1>19, <1>20, <1>21,
     <1>22, <1>23, <1>24, <1>25, <1>26, <1>27
     DEF Next, UploadStep, DeletionStep

LEMMA InvariantsHold == Spec => [](ControlInv /\ StoreInv /\ BooksInv)
<1>1. Init => ControlInv /\ StoreInv /\ BooksInv
  BY ControlInit, StoreInit, BooksInit
<1>2. ControlInv /\ StoreInv /\ BooksInv /\ [Next]_vars
        => (ControlInv /\ StoreInv /\ BooksInv)'
  BY ControlStep, StoreStep, BooksStep
<1> QED
  BY <1>1, <1>2, PTL DEF Spec

(* The in-memory set, the usage and the reservation total always agree with *)
(* the disk and the requests in flight: no failed step and no restart makes *)
(* them drift.                                                              *)
THEOREM BooksBalanceHolds == Spec => []BooksBalance
<1>1. ControlInv /\ StoreInv /\ BooksInv => BooksBalance
  <2> SUFFICES ASSUME ControlInv, StoreInv, BooksInv, up PROVE BooksBalance
    BY DEF BooksBalance
  <2>1. \A b \in InTransit : b \in filesInStorage256 /\ b \notin disk
    BY DEF InTransit, StoreInv, CommittedInv, VictimInv
  <2>2. \A b \in filesInStorage256 \ disk : b \in InTransit
    BY DEF InTransit, StoreInv, IndexInv
  <2>3. disk \subseteq filesInStorage256
    BY DEF StoreInv, IndexInv
  <2> QED
    BY <2>1, <2>2, <2>3 DEF BooksBalance, BooksInv, UsageInv, ReservedInv
<1> QED
  BY <1>1, InvariantsHold, PTL

-----------------------------------------------------------------------------
(* The reservation: what is stored and what is still owed to admitted       *)
(* uploads fit together, so commitFile never has to refuse one of them.     *)

Remaining(u, k) == Weight({i \in FileNumbers(u) : i >= k}, FileSize(u))

(* The bytes upload u may still add to storageUsage, or leaves in .incoming *)
(* until it releases its claim.                                             *)
Due(u, place, k) ==
  IF place \in {"streaming", "queued", "aborted"} THEN ContentLength[u]
  ELSE IF place \in {"committing", "dropping", "broken"} THEN Remaining(u, k)
  ELSE IF place = "renaming" THEN Remaining(u, k + 1)
  ELSE 0

Owed == [u \in Uploads |-> Due(u, pc[u], next[u])]

(* Where the body is known to have had exactly the declared length. *)
Declared == {"queued", "committing", "renaming", "dropping", "broken"}
Exact(u) == Weight(FileNumbers(u), FileSize(u)) = ContentLength[u]

ReserveInv ==
  /\ \A u \in Uploads : pc[u] \in Declared => Exact(u)
  /\ up => storageUsage + Weight(Holding, Owed) =< storageLimit
  /\ ~up => Weight(disk, Size) =< storageLimit

LEMMA FileSizeNat ==
  ASSUME NEW u \in Uploads
  PROVE  /\ IsFiniteSet(FileNumbers(u))
         /\ \A i \in FileNumbers(u) : FileSize(u)[i] = Size[Files[u][i]]
         /\ \A i \in FileNumbers(u) : FileSize(u)[i] \in Nat
<1>1. 1 \in Int /\ Len(Files[u]) \in Int
  BY FilesTyped
<1>2. IsFiniteSet(FileNumbers(u))
  BY <1>1, FS_Interval DEF FileNumbers
<1> QED
  BY <1>2, FilesTyped DEF FileSize

LEMMA RemainingFacts ==
  ASSUME NEW u \in Uploads, NEW k \in Nat
  PROVE  /\ Remaining(u, k) \in Nat
         /\ Remaining(u, k) =< Weight(FileNumbers(u), FileSize(u))
         /\ Weight(FileNumbers(u), FileSize(u)) \in Nat
         /\ Remaining(u, 1) = Weight(FileNumbers(u), FileSize(u))
         /\ k \in FileNumbers(u) =>
              Remaining(u, k) = Remaining(u, k + 1) + Size[Files[u][k]]
         /\ Remaining(u, k + 1) =< Remaining(u, k)
<1> DEFINE From(n) == {i \in FileNumbers(u) : i >= n}
<1>1. \A n : IsFiniteSet(From(n)) /\ From(n) \subseteq FileNumbers(u)
  BY FileSizeNat, FS_Subset
<1>2. \A i \in FileNumbers(u) : FileSize(u)[i] \in Nat
  BY FileSizeNat
<1>3. Remaining(u, k) \in Nat
  BY <1>1, <1>2, WeightNat DEF Remaining
<1>4. Remaining(u, k) =< Weight(FileNumbers(u), FileSize(u))
  <2> DEFINE S == From(k)
             T == FileNumbers(u)
             w == FileSize(u)
  <2>1. /\ IsFiniteSet(T) /\ S \subseteq T
        /\ \A i \in T : w[i] \in Nat
    BY <1>1, <1>2, FileSizeNat
  <2>2. \A i \in S : w[i] =< w[i]
    BY <2>1
  <2> HIDE DEF S, T, w
  <2>3. Weight(S, w) =< Weight(T, w)
    BY <2>1, <2>2, WeightMonotone
  <2> QED
    BY <2>3 DEF Remaining, S, T, w
<1>5. Weight(FileNumbers(u), FileSize(u)) \in Nat
  BY FileSizeNat, WeightNat
<1>6. Remaining(u, 1) = Weight(FileNumbers(u), FileSize(u))
  <2>1. From(1) = FileNumbers(u)
    BY FilesTyped DEF FileNumbers
  <2> QED
    BY <2>1 DEF Remaining
<1>7. ASSUME k \in FileNumbers(u)
      PROVE  Remaining(u, k) = Remaining(u, k + 1) + Size[Files[u][k]]
  <2>1. From(k) = From(k + 1) \cup {k} /\ k \notin From(k + 1)
    BY <1>7, FilesTyped DEF FileNumbers
  <2>2. \A i \in From(k + 1) \cup {k} : FileSize(u)[i] \in Nat
    BY <1>2, <1>7
  <2>3. Weight(From(k + 1) \cup {k}, FileSize(u))
          = Weight(From(k + 1), FileSize(u)) + FileSize(u)[k]
    BY <1>1, <2>1, <2>2, WeightAdd
  <2> QED
    BY <1>7, <2>1, <2>3, FileSizeNat DEF Remaining
<1>8. Remaining(u, k + 1) =< Remaining(u, k)
  <2>1. From(k + 1) \subseteq From(k)
    BY FilesTyped DEF FileNumbers
  <2> QED
    <3> DEFINE S == From(k + 1)
               T == From(k)
               w == FileSize(u)
    <3>1. /\ IsFiniteSet(T) /\ S \subseteq T
          /\ \A i \in T : w[i] \in Nat
      BY <1>1, <1>2, <2>1
    <3>2. \A i \in S : w[i] =< w[i]
      BY <3>1
    <3> HIDE DEF S, T, w
    <3>3. Weight(S, w) =< Weight(T, w)
      BY <3>1, <3>2, WeightMonotone
    <3> QED
      BY <3>3 DEF Remaining, S, T, w
<1> QED
  BY <1>3, <1>4, <1>5, <1>6, <1>7, <1>8

LEMMA DueNat ==
  ASSUME NEW u \in Uploads, NEW place, NEW k \in Nat
  PROVE  Due(u, place, k) \in Nat
<1>1. k + 1 \in Nat
  OBVIOUS
<1>2. Remaining(u, k) \in Nat
  BY RemainingFacts
<1>3. Remaining(u, k + 1) \in Nat
  BY <1>1, RemainingFacts
<1>4. ContentLength[u] \in Nat
  BY RequestsAssumption
<1> QED
  BY <1>2, <1>3, <1>4 DEF Due

(* An upload is never owed more than it reserved. *)
LEMMA OwedWithinClaim ==
  ASSUME ControlInv, ReserveInv, NEW u \in Uploads
  PROVE  Owed[u] \in Nat /\ Owed[u] =< ContentLength[u]
<1>1. next[u] \in Nat /\ next[u] + 1 \in Nat /\ ContentLength[u] \in Nat
  BY DEF ControlInv, TypeOK
<1>2. Owed[u] = Due(u, pc[u], next[u])
  BY DEF Owed
<1>3. Owed[u] \in Nat
  BY <1>1, <1>2, DueNat
<1>4. CASE pc[u] \in {"committing", "dropping", "renaming", "broken"}
  <2>1. Exact(u)
    BY <1>4 DEF ReserveInv, Declared
  <2>2. /\ Remaining(u, next[u]) =< Weight(FileNumbers(u), FileSize(u))
        /\ Remaining(u, next[u] + 1) =< Weight(FileNumbers(u), FileSize(u))
    BY <1>1, RemainingFacts
  <2> QED
    BY <1>2, <1>3, <1>4, <2>1, <2>2 DEF Due, Exact
<1>5. CASE pc[u] \notin {"committing", "dropping", "renaming", "broken"}
  BY <1>1, <1>2, <1>5 DEF Due
<1> QED
  BY <1>3, <1>4, <1>5

LEMMA ReserveInit == Init => ReserveInv
<1> SUFFICES ASSUME Init PROVE ReserveInv
  OBVIOUS
<1>1. Holding = {}
  BY DEF Init, Holding, Jobs
<1> QED
  BY <1>1, WeightEmpty DEF Init, ReserveInv, Jobs, Declared

(* A step that stores no more and owes nobody more. *)
LEMMA ReserveFrame ==
  ASSUME ControlInv, ControlInv', ReserveInv, up, up',
         storageUsage' =< storageUsage,
         Holding' \subseteq Holding,
         \A v \in Uploads : Due(v, pc'[v], next'[v]) =< Due(v, pc[v], next[v]),
         \A v \in Uploads : pc'[v] \in Declared => pc[v] \in Declared \/ Exact(v)
  PROVE  ReserveInv'
<1>1. \A v \in Uploads : /\ Owed[v] = Due(v, pc[v], next[v])
                         /\ Owed'[v] = Due(v, pc'[v], next'[v])
  BY DEF Owed
<1>2. \A v \in Uploads : Owed[v] \in Nat /\ Owed'[v] \in Nat
  BY <1>1, DueNat DEF ControlInv, TypeOK
<1>3. Holding' \subseteq Holding /\ Holding \subseteq Uploads
  BY DEF Holding
<1>4. IsFiniteSet(Holding) /\ IsFiniteSet(Holding')
  BY <1>3, FS_Subset
<1>5. \A v \in Holding' : Owed'[v] =< Owed[v]
  BY <1>1, <1>3
<1>6. \A v \in Holding : Owed'[v] \in Nat /\ Owed[v] \in Nat
  BY <1>2, <1>3
<1>7. Weight(Holding', Owed') =< Weight(Holding, Owed)
  BY <1>3, <1>4, <1>5, <1>6, WeightMonotone
<1>8. Weight(Holding', Owed') \in Nat /\ Weight(Holding, Owed) \in Nat
  BY <1>3, <1>4, <1>6, WeightNat
<1>9. storageUsage' \in Int /\ storageUsage \in Int
  BY DEF ControlInv, TypeOK
<1>10. storageUsage' + Weight(Holding', Owed') =< storageLimit
  BY <1>7, <1>8, <1>9 DEF ReserveInv
<1> QED
  BY <1>10 DEF ReserveInv, Exact

(* Due under the small moves a handler makes. *)
LEMMA DueMoves ==
  ASSUME NEW u \in Uploads, NEW k \in Nat
  PROVE  /\ Due(u, "landed", k) = 0
         /\ Due(u, "ok", k) = 0 /\ Due(u, "sweeping", k) = 0
         /\ Due(u, "failed", k) = 0
         /\ Due(u, "rejected", k) = 0 /\ Due(u, "idle", k) = 0
         /\ Due(u, "streaming", k) = ContentLength[u]
         /\ Due(u, "queued", k) = ContentLength[u]
         /\ Due(u, "aborted", k) = ContentLength[u]
         /\ Due(u, "broken", k) = Due(u, "committing", k)
         /\ Due(u, "dropping", k) = Due(u, "committing", k)
         /\ Due(u, "renaming", k) = Due(u, "committing", k + 1)
         /\ Due(u, "committing", k + 1) =< Due(u, "committing", k)
         /\ k \in FileNumbers(u) =>
              Due(u, "committing", k) = Due(u, "renaming", k) + Size[Files[u][k]]
         /\ Exact(u) => Due(u, "committing", 1) = ContentLength[u]
<1>1. \A i \in FileNumbers(u) : Size[Files[u][i]] \in Nat
  BY FilesTyped
<1>2. Remaining(u, k) \in Nat /\ Remaining(u, k + 1) \in Nat
  <2>1. k + 1 \in Nat
    OBVIOUS
  <2>2. Remaining(u, k) \in Nat
    BY RemainingFacts
  <2>3. Remaining(u, k + 1) \in Nat
    BY <2>1, RemainingFacts
  <2> QED
    BY <2>2, <2>3
<1>3. Remaining(u, k + 1) =< Remaining(u, k)
  BY RemainingFacts
<1> QED
  BY <1>3, RemainingFacts DEF Due, Exact

LEMMA ReserveStep ==
  ControlInv /\ ControlInv' /\ StoreInv /\ BooksInv /\ ReserveInv /\ [Next]_vars
    => ReserveInv'
<1> SUFFICES ASSUME ControlInv, ControlInv', StoreInv, BooksInv, ReserveInv,
                    [Next]_vars
             PROVE  ReserveInv'
  OBVIOUS
<1>0. /\ pc \in [Jobs -> UploadPlaces \cup DeletionPlaces \cup Ended]
      /\ next \in [Uploads -> Nat]
      /\ storageUsage \in Int
      /\ ContentLength \in [Uploads -> Nat]
  BY DEF ControlInv, TypeOK
<1>a. \A v \in Uploads : Due(v, pc[v], next[v]) \in Nat
  BY <1>0, DueNat
<1> USE DEF At, Goto, work, memory, durable, Jobs
<1>1. ASSUME NEW u \in Uploads, Refuse(u) PROVE ReserveInv'
  <2>1. \A v \in Uploads \ {u} : pc'[v] = pc[v] /\ next'[v] = next[v]
    BY <1>0, <1>1 DEF Refuse
  <2>2. Due(u, pc'[u], next'[u]) =< Due(u, pc[u], next[u])
    BY <1>0, <1>a, <1>1, DueMoves DEF Refuse
  <2>3. pc'[u] \in Declared => pc[u] \in Declared \/ Exact(u)
    BY <1>0, <1>1 DEF Refuse, Declared, Exact
  <2>4. Holding' \subseteq Holding
    BY <1>0, <1>1 DEF Refuse, Holding
  <2>5. up /\ up' /\ storageUsage' =< storageUsage
    BY <1>0, <1>1 DEF Refuse
  <2>6. \A v \in Uploads : Due(v, pc'[v], next'[v]) =< Due(v, pc[v], next[v])
    BY <1>a, <2>1, <2>2
  <2>7. \A v \in Uploads : pc'[v] \in Declared => pc[v] \in Declared \/ Exact(v)
    BY <2>1, <2>3
  <2> QED
    BY <2>4, <2>5, <2>6, <2>7, ReserveFrame
<1>2. ASSUME NEW u \in Uploads, Admit(u) PROVE ReserveInv'
  <2>1. u \notin Holding /\ Holding' = Holding \cup {u}
    BY <1>0, <1>2 DEF Admit, Holding
  <2>2. /\ \A v \in Uploads \ {u} : pc'[v] = pc[v]
        /\ pc'[u] = "streaming"
        /\ UNCHANGED <<up, next, storageUsage>> /\ up
    BY <1>0, <1>2 DEF Admit
  <2>3. \A v \in Holding : Owed'[v] = Owed[v]
    BY <2>1, <2>2 DEF Owed, Holding
  <2>4. Owed'[u] = ContentLength[u]
    <3>1. Owed'[u] = Due(u, "streaming", next[u])
      BY <2>2 DEF Owed
    <3> QED
      BY <1>0, <3>1, DueMoves
  <2>5. \A v \in Holding : Owed[v] \in Nat /\ Owed[v] =< ContentLength[v]
    BY OwedWithinClaim DEF Holding
  <2>6. IsFiniteSet(Holding) /\ \A v \in Holding : ContentLength[v] \in Nat
    BY HoldingFinite
  <2>7. Weight(Holding \cup {u}, Owed') = Weight(Holding, Owed') + Owed'[u]
    <3>1. \A v \in Holding \cup {u} : Owed'[v] \in Nat
      BY <1>0, <2>3, <2>4, <2>5
    <3> QED
      BY <2>1, <2>6, <3>1, WeightAdd
  <2>8. Weight(Holding, Owed') = Weight(Holding, Owed)
    BY <2>3, WeightSame
  <2>9. Weight(Holding, Owed) =< Weight(Holding, ContentLength)
    BY <2>5, <2>6, WeightMonotone
  <2>10. Weight(Holding, Owed) \in Nat /\ Weight(Holding, ContentLength) \in Nat
    BY <2>5, <2>6, WeightNat
  <2>11. storageUsage + Weight(Holding, ContentLength) + ContentLength[u]
           =< storageLimit
    BY <1>2 DEF Admit, isThereEnoughStorageFor, BooksInv, ReservedInv
  <2>12. storageUsage' + Weight(Holding', Owed') =< storageLimit
    BY <1>0, <2>1, <2>2, <2>4, <2>7, <2>8, <2>9, <2>10, <2>11
  <2> QED
    BY <2>2, <2>12 DEF ReserveInv, Declared, Exact
<1>3. ASSUME NEW u \in Uploads, ReceiveFile(u) PROVE ReserveInv'
  <2>1. \A v \in Uploads \ {u} : pc'[v] = pc[v] /\ next'[v] = next[v]
    BY <1>0, <1>3 DEF ReceiveFile
  <2>2. Due(u, pc'[u], next'[u]) =< Due(u, pc[u], next[u])
    BY <1>0, <1>a, <1>3, DueMoves DEF ReceiveFile
  <2>3. pc'[u] \in Declared => pc[u] \in Declared \/ Exact(u)
    BY <1>0, <1>3 DEF ReceiveFile, Declared, Exact
  <2>4. Holding' \subseteq Holding
    BY <1>0, <1>3 DEF ReceiveFile, Holding
  <2>5. up /\ up' /\ storageUsage' =< storageUsage
    BY <1>0, <1>3 DEF ReceiveFile
  <2>6. \A v \in Uploads : Due(v, pc'[v], next'[v]) =< Due(v, pc[v], next[v])
    BY <1>a, <2>1, <2>2
  <2>7. \A v \in Uploads : pc'[v] \in Declared => pc[v] \in Declared \/ Exact(v)
    BY <2>1, <2>3
  <2> QED
    BY <2>4, <2>5, <2>6, <2>7, ReserveFrame
<1>4. ASSUME NEW u \in Uploads, StreamFails(u) PROVE ReserveInv'
  <2>1. \A v \in Uploads \ {u} : pc'[v] = pc[v] /\ next'[v] = next[v]
    BY <1>0, <1>4 DEF StreamFails
  <2>2. Due(u, pc'[u], next'[u]) =< Due(u, pc[u], next[u])
    BY <1>0, <1>a, <1>4, DueMoves DEF StreamFails
  <2>3. pc'[u] \in Declared => pc[u] \in Declared \/ Exact(u)
    BY <1>0, <1>4 DEF StreamFails, Declared, Exact
  <2>4. Holding' \subseteq Holding
    BY <1>0, <1>4 DEF StreamFails, Holding
  <2>5. up /\ up' /\ storageUsage' =< storageUsage
    BY <1>0, <1>4 DEF StreamFails
  <2>6. \A v \in Uploads : Due(v, pc'[v], next'[v]) =< Due(v, pc[v], next[v])
    BY <1>a, <2>1, <2>2
  <2>7. \A v \in Uploads : pc'[v] \in Declared => pc[v] \in Declared \/ Exact(v)
    BY <2>1, <2>3
  <2> QED
    BY <2>4, <2>5, <2>6, <2>7, ReserveFrame
<1>5. ASSUME NEW u \in Uploads, EndOfStream(u) PROVE ReserveInv'
  <2>1. \A v \in Uploads \ {u} : pc'[v] = pc[v] /\ next'[v] = next[v]
    BY <1>0, <1>5 DEF EndOfStream
  <2>2. Due(u, pc'[u], next'[u]) =< Due(u, pc[u], next[u])
    BY <1>0, <1>a, <1>5, DueMoves DEF EndOfStream
  <2>3. pc'[u] \in Declared => pc[u] \in Declared \/ Exact(u)
    BY <1>0, <1>5 DEF EndOfStream, Declared, Exact
  <2>4. Holding' \subseteq Holding
    BY <1>0, <1>5 DEF EndOfStream, Holding
  <2>5. up /\ up' /\ storageUsage' =< storageUsage
    BY <1>0, <1>5 DEF EndOfStream
  <2>6. \A v \in Uploads : Due(v, pc'[v], next'[v]) =< Due(v, pc[v], next[v])
    BY <1>a, <2>1, <2>2
  <2>7. \A v \in Uploads : pc'[v] \in Declared => pc[v] \in Declared \/ Exact(v)
    BY <2>1, <2>3
  <2> QED
    BY <2>4, <2>5, <2>6, <2>7, ReserveFrame
<1>6. ASSUME NEW u \in Uploads, StartReceive(u) PROVE ReserveInv'
  <2>1. \A v \in Uploads \ {u} : pc'[v] = pc[v] /\ next'[v] = next[v]
    BY <1>0, <1>6 DEF StartReceive
  <2>2. Due(u, pc'[u], next'[u]) =< Due(u, pc[u], next[u])
    BY <1>0, <1>a, <1>6, DueMoves DEF StartReceive, ControlInv, PlaceInv, ReserveInv, Declared
  <2>3. pc'[u] \in Declared => pc[u] \in Declared \/ Exact(u)
    BY <1>0, <1>6 DEF StartReceive, Declared, Exact
  <2>4. Holding' \subseteq Holding
    BY <1>0, <1>6 DEF StartReceive, Holding
  <2>5. up /\ up' /\ storageUsage' =< storageUsage
    BY <1>0, <1>6 DEF StartReceive
  <2>6. \A v \in Uploads : Due(v, pc'[v], next'[v]) =< Due(v, pc[v], next[v])
    BY <1>a, <2>1, <2>2
  <2>7. \A v \in Uploads : pc'[v] \in Declared => pc[v] \in Declared \/ Exact(v)
    BY <2>1, <2>3
  <2> QED
    BY <2>4, <2>5, <2>6, <2>7, ReserveFrame
<1>7. ASSUME NEW u \in Uploads, CommitFile(u) PROVE ReserveInv'
  <2> DEFINE b == Files[u][next[u]]
  <2>1. /\ \A v \in Uploads \ {u} : pc'[v] = pc[v]
        /\ UNCHANGED <<up, next>> /\ up /\ pc[u] = "committing"
        /\ next[u] \in FileNumbers(u)
    BY <1>0, <1>7 DEF CommitFile
  <2>2. Holding' = Holding /\ u \in Holding
    BY <1>0, <1>7 DEF CommitFile, Holding
  <2>3. CASE storageUsage' = storageUsage /\ pc'[u] \in {"dropping", "broken"}
    <3>1. Due(u, pc'[u], next'[u]) =< Due(u, pc[u], next[u])
      <4>1. next'[u] = next[u] /\ next[u] \in Nat
        BY <1>0, <2>1
      <4>2. Due(u, pc[u], next[u]) \in Nat
        BY <1>a
      <4>3. CASE pc'[u] = "dropping"
        <5>1. Due(u, "dropping", next[u]) = Due(u, "committing", next[u])
          BY DEF Due
        <5> QED
          BY <2>1, <4>1, <4>2, <4>3, <5>1
      <4>4. CASE pc'[u] = "broken"
        <5>1. Due(u, "broken", next[u]) = Due(u, "committing", next[u])
          BY DEF Due
        <5> QED
          BY <2>1, <4>1, <4>2, <4>4, <5>1
      <4> QED
        BY <2>3, <4>3, <4>4
    <3>2. \A v \in Uploads : Due(v, pc'[v], next'[v]) =< Due(v, pc[v], next[v])
      <4>1. \A v \in Uploads \ {u} : pc'[v] = pc[v] /\ next'[v] = next[v]
        BY <2>1
      <4> QED
        BY <1>a, <3>1, <4>1
    <3>3. \A v \in Uploads : pc'[v] \in Declared => pc[v] \in Declared
      BY <2>1 DEF Declared
    <3>4. up' /\ storageUsage' =< storageUsage
      BY <1>0, <2>1, <2>3
    <3> QED
      BY <2>1, <2>2, <3>2, <3>3, <3>4, ReserveFrame
  <2>4. CASE storageUsage' = storageUsage + Size[b] /\ pc'[u] = "renaming"
    <3>1. \A v \in Holding \ {u} : Owed'[v] = Owed[v]
      BY <2>1 DEF Owed, Holding
    <3>2. Owed[u] = Owed'[u] + Size[b]
      BY <1>0, <2>1, <2>4, DueMoves, SMTT(30) DEF Owed
    <3>3. \A v \in Holding : Owed[v] \in Nat /\ Owed'[v] \in Nat
      BY DueNat DEF Owed, Holding, ControlInv, TypeOK
    <3>4. Weight(Holding, Owed') = Weight(Holding, Owed) - Owed[u] + Owed'[u]
      <4> DEFINE v == Owed'
      <4>1. \A x \in Holding : v[x] \in Nat /\ Owed[x] \in Nat
        BY <3>3
      <4>2. \A x \in Holding \ {u} : v[x] = Owed[x]
        BY <3>1
      <4>3. IsFiniteSet(Holding)
        BY HoldingFinite
      <4> HIDE DEF v
      <4>4. Weight(Holding, v) = Weight(Holding, Owed) - Owed[u] + v[u]
        BY <2>2, <4>1, <4>2, <4>3, WeightUpdate, ZenonT(40)
      <4> QED
        BY <4>4 DEF v
    <3>5. Weight(Holding, Owed) \in Nat
      BY <3>3, HoldingFinite, WeightNat
    <3>6. Size[b] \in Nat
      BY <2>1, FilesTyped
    <3>7. storageUsage + Weight(Holding, Owed) =< storageLimit
      BY <2>1 DEF ReserveInv
    <3>8. Owed'[u] \in Nat /\ Owed[u] \in Nat
      BY <2>2, <3>3
    <3>9. storageUsage' + Weight(Holding', Owed') =< storageLimit
      <4> HIDE DEF b
      <4>1. storageUsage \in Int
        BY DEF ControlInv, TypeOK
      <4>2. storageUsage + Size[b] + (Weight(Holding, Owed) - Owed[u] + Owed'[u])
              = storageUsage + Weight(Holding, Owed)
        BY <4>1, <3>2, <3>5, <3>6, <3>8, SMTT(30)
      <4>3. Weight(Holding', Owed') = Weight(Holding, Owed) - Owed[u] + Owed'[u]
        BY <2>2, <3>4
      <4> QED
        BY <2>4, <3>7, <4>2, <4>3
    <3> QED
      BY <2>1, <2>4, <3>9 DEF ReserveInv, Declared, Exact
  <2>5. \/ storageUsage' = storageUsage /\ pc'[u] \in {"dropping", "broken"}
        \/ storageUsage' = storageUsage + Size[b] /\ pc'[u] = "renaming"
    BY <1>0, <1>7 DEF CommitFile
  <2> QED
    BY <2>3, <2>4, <2>5
<1>8. ASSUME NEW u \in Uploads, DropPart(u) PROVE ReserveInv'
  <2>1. \A v \in Uploads \ {u} : pc'[v] = pc[v] /\ next'[v] = next[v]
    BY <1>0, <1>8 DEF DropPart
  <2>2. Due(u, pc'[u], next'[u]) =< Due(u, pc[u], next[u])
    BY <1>0, <1>a, <1>8, DueMoves DEF DropPart
  <2>3. pc'[u] \in Declared => pc[u] \in Declared \/ Exact(u)
    BY <1>0, <1>8 DEF DropPart, Declared, Exact
  <2>4. Holding' \subseteq Holding
    BY <1>0, <1>8 DEF DropPart, Holding
  <2>5. up /\ up' /\ storageUsage' =< storageUsage
    BY <1>0, <1>8 DEF DropPart
  <2>6. \A v \in Uploads : Due(v, pc'[v], next'[v]) =< Due(v, pc[v], next[v])
    BY <1>a, <2>1, <2>2
  <2>7. \A v \in Uploads : pc'[v] \in Declared => pc[v] \in Declared \/ Exact(v)
    BY <2>1, <2>3
  <2> QED
    BY <2>4, <2>5, <2>6, <2>7, ReserveFrame
<1>9. ASSUME NEW u \in Uploads, DropPartFails(u) PROVE ReserveInv'
  <2>1. \A v \in Uploads \ {u} : pc'[v] = pc[v] /\ next'[v] = next[v]
    BY <1>0, <1>9 DEF DropPartFails
  <2>2. Due(u, pc'[u], next'[u]) =< Due(u, pc[u], next[u])
    BY <1>0, <1>a, <1>9, DueMoves DEF DropPartFails
  <2>3. pc'[u] \in Declared => pc[u] \in Declared \/ Exact(u)
    BY <1>0, <1>9 DEF DropPartFails, Declared, Exact
  <2>4. Holding' \subseteq Holding
    BY <1>0, <1>9 DEF DropPartFails, Holding
  <2>5. up /\ up' /\ storageUsage' =< storageUsage
    BY <1>0, <1>9 DEF DropPartFails
  <2>6. \A v \in Uploads : Due(v, pc'[v], next'[v]) =< Due(v, pc[v], next[v])
    BY <1>a, <2>1, <2>2
  <2>7. \A v \in Uploads : pc'[v] \in Declared => pc[v] \in Declared \/ Exact(v)
    BY <2>1, <2>3
  <2> QED
    BY <2>4, <2>5, <2>6, <2>7, ReserveFrame
<1>10. ASSUME NEW u \in Uploads, RenamePart(u) PROVE ReserveInv'
  <2>1. \A v \in Uploads \ {u} : pc'[v] = pc[v] /\ next'[v] = next[v]
    BY <1>0, <1>10 DEF RenamePart
  <2>2. Due(u, pc'[u], next'[u]) =< Due(u, pc[u], next[u])
    BY <1>0, <1>a, <1>10, DueMoves DEF RenamePart
  <2>3. pc'[u] \in Declared => pc[u] \in Declared \/ Exact(u)
    BY <1>0, <1>10 DEF RenamePart, Declared, Exact
  <2>4. Holding' \subseteq Holding
    BY <1>0, <1>10 DEF RenamePart, Holding
  <2>5. up /\ up' /\ storageUsage' =< storageUsage
    BY <1>0, <1>10 DEF RenamePart
  <2>6. \A v \in Uploads : Due(v, pc'[v], next'[v]) =< Due(v, pc[v], next[v])
    BY <1>a, <2>1, <2>2
  <2>7. \A v \in Uploads : pc'[v] \in Declared => pc[v] \in Declared \/ Exact(v)
    BY <2>1, <2>3
  <2> QED
    BY <2>4, <2>5, <2>6, <2>7, ReserveFrame
<1>11. ASSUME NEW u \in Uploads, RenamePartFails(u) PROVE ReserveInv'
  <2> DEFINE b == Files[u][next[u]]
  <2>1. /\ \A v \in Uploads \ {u} : pc'[v] = pc[v]
        /\ UNCHANGED <<up, next>> /\ up
        /\ pc[u] = "renaming" /\ pc'[u] = "broken"
        /\ storageUsage' = storageUsage - Size[b]
    BY <1>0, <1>11 DEF RenamePartFails
  <2>2. next[u] \in FileNumbers(u) /\ next[u] \in Nat /\ Size[b] \in Nat
    BY <1>0, <2>1, FilesTyped DEF ControlInv, PlaceInv
  <2>3. Holding' = Holding /\ u \in Holding
    BY <1>0, <1>11 DEF RenamePartFails, Holding
  <2>4. \A v \in Holding \ {u} : Owed'[v] = Owed[v]
    BY <2>1 DEF Owed, Holding
  <2>5. Owed'[u] = Owed[u] + Size[b]
    <3>1. Owed[u] = Due(u, "renaming", next[u]) /\ Owed'[u] = Due(u, "broken", next[u])
      BY <2>1 DEF Owed
    <3>2. /\ Due(u, "broken", next[u]) = Due(u, "committing", next[u])
          /\ Due(u, "committing", next[u]) = Due(u, "renaming", next[u]) + Size[b]
      BY <2>2, DueMoves
    <3> QED
      BY <3>1, <3>2
  <2>6. \A v \in Holding : Owed[v] \in Nat /\ Owed'[v] \in Nat
    BY DueNat DEF Owed, Holding, ControlInv, TypeOK
  <2>7. Weight(Holding, Owed') = Weight(Holding, Owed) - Owed[u] + Owed'[u]
    <3> DEFINE v == Owed'
    <3>1. \A x \in Holding : v[x] \in Nat /\ Owed[x] \in Nat
      BY <2>6
    <3>2. \A x \in Holding \ {u} : v[x] = Owed[x]
      BY <2>4
    <3>3. IsFiniteSet(Holding)
      BY HoldingFinite
    <3> HIDE DEF v
    <3>4. Weight(Holding, v) = Weight(Holding, Owed) - Owed[u] + v[u]
      BY <2>3, <3>1, <3>2, <3>3, WeightUpdate, ZenonT(40)
    <3> QED
      BY <3>4 DEF v
  <2>8. Weight(Holding, Owed) \in Nat
    BY <2>6, HoldingFinite, WeightNat
  <2>9. storageUsage + Weight(Holding, Owed) =< storageLimit
    BY <2>1 DEF ReserveInv
  <2>10. storageUsage' + Weight(Holding', Owed') =< storageLimit
    <3> HIDE DEF b
    <3>1. Owed[u] \in Nat /\ Owed'[u] \in Nat
      BY <2>3, <2>6
    <3>2. Weight(Holding', Owed') = Weight(Holding, Owed) + Size[b]
      BY <2>2, <2>3, <2>5, <2>7, <2>8, <3>1
    <3> QED
      BY <1>0, <2>1, <2>2, <2>8, <2>9, <3>2
  <2>11. \A v \in Uploads : pc'[v] \in Declared => pc[v] \in Declared
    BY <2>1 DEF Declared
  <2> QED
    BY <2>1, <2>10, <2>11 DEF ReserveInv, Exact
<1>12. ASSUME NEW u \in Uploads, InsertDocument(u) PROVE ReserveInv'
  <2>1. \A v \in Uploads \ {u} : pc'[v] = pc[v] /\ next'[v] = next[v]
    BY <1>0, <1>12 DEF InsertDocument
  <2>2. Due(u, pc'[u], next'[u]) =< Due(u, pc[u], next[u])
    BY <1>0, <1>a, <1>12, DueMoves DEF InsertDocument
  <2>3. pc'[u] \in Declared => pc[u] \in Declared \/ Exact(u)
    BY <1>0, <1>12 DEF InsertDocument, Declared, Exact
  <2>4. Holding' \subseteq Holding
    BY <1>0, <1>12 DEF InsertDocument, Holding
  <2>5. up /\ up' /\ storageUsage' =< storageUsage
    BY <1>0, <1>12 DEF InsertDocument
  <2>6. \A v \in Uploads : Due(v, pc'[v], next'[v]) =< Due(v, pc[v], next[v])
    BY <1>a, <2>1, <2>2
  <2>7. \A v \in Uploads : pc'[v] \in Declared => pc[v] \in Declared \/ Exact(v)
    BY <2>1, <2>3
  <2> QED
    BY <2>4, <2>5, <2>6, <2>7, ReserveFrame
<1>13. ASSUME NEW u \in Uploads, InsertDocumentFails(u) PROVE ReserveInv'
  <2>1. \A v \in Uploads \ {u} : pc'[v] = pc[v] /\ next'[v] = next[v]
    BY <1>0, <1>13 DEF InsertDocumentFails
  <2>2. Due(u, pc'[u], next'[u]) =< Due(u, pc[u], next[u])
    BY <1>0, <1>a, <1>13, DueMoves DEF InsertDocumentFails
  <2>3. pc'[u] \in Declared => pc[u] \in Declared \/ Exact(u)
    BY <1>0, <1>13 DEF InsertDocumentFails, Declared, Exact
  <2>4. Holding' \subseteq Holding
    BY <1>0, <1>13 DEF InsertDocumentFails, Holding
  <2>5. up /\ up' /\ storageUsage' =< storageUsage
    BY <1>0, <1>13 DEF InsertDocumentFails
  <2>6. \A v \in Uploads : Due(v, pc'[v], next'[v]) =< Due(v, pc[v], next[v])
    BY <1>a, <2>1, <2>2
  <2>7. \A v \in Uploads : pc'[v] \in Declared => pc[v] \in Declared \/ Exact(v)
    BY <2>1, <2>3
  <2> QED
    BY <2>4, <2>5, <2>6, <2>7, ReserveFrame
<1>14. ASSUME NEW u \in Uploads, storage_release(u) PROVE ReserveInv'
  <2>1. \A v \in Uploads \ {u} : pc'[v] = pc[v] /\ next'[v] = next[v]
    BY <1>0, <1>14 DEF storage_release, Answer
  <2>2. Due(u, pc'[u], next'[u]) =< Due(u, pc[u], next[u])
    <3>1. next'[u] = next[u] /\ pc'[u] \in {"ok", "failed", "sweeping"}
      BY <1>0, <1>14 DEF storage_release, Answer
    <3>2. Due(u, pc'[u], next'[u]) = 0
      BY <3>1 DEF Due
    <3> QED
      BY <1>a, <3>2
  <2>3. pc'[u] \in Declared => pc[u] \in Declared \/ Exact(u)
    BY <1>0, <1>14 DEF storage_release, Answer, Declared, Exact
  <2>4. Holding' \subseteq Holding
    BY <1>0, <1>14 DEF storage_release, Answer, Holding
  <2>5. up /\ up' /\ storageUsage' =< storageUsage
    BY <1>0, <1>14 DEF storage_release, Answer
  <2>6. \A v \in Uploads : Due(v, pc'[v], next'[v]) =< Due(v, pc[v], next[v])
    BY <1>a, <2>1, <2>2
  <2>7. \A v \in Uploads : pc'[v] \in Declared => pc[v] \in Declared \/ Exact(v)
    BY <2>1, <2>3
  <2> QED
    BY <2>4, <2>5, <2>6, <2>7, ReserveFrame
<1>15. ASSUME NEW u \in Uploads, SweepParts(u) PROVE ReserveInv'
  <2>1. \A v \in Uploads \ {u} : pc'[v] = pc[v] /\ next'[v] = next[v]
    BY <1>0, <1>15 DEF SweepParts
  <2>2. Due(u, pc'[u], next'[u]) =< Due(u, pc[u], next[u])
    BY <1>0, <1>a, <1>15, DueMoves DEF SweepParts
  <2>3. pc'[u] \in Declared => pc[u] \in Declared \/ Exact(u)
    BY <1>0, <1>15 DEF SweepParts, Declared, Exact
  <2>4. Holding' \subseteq Holding
    BY <1>0, <1>15 DEF SweepParts, Holding
  <2>5. up /\ up' /\ storageUsage' =< storageUsage
    BY <1>0, <1>15 DEF SweepParts
  <2>6. \A v \in Uploads : Due(v, pc'[v], next'[v]) =< Due(v, pc[v], next[v])
    BY <1>a, <2>1, <2>2
  <2>7. \A v \in Uploads : pc'[v] \in Declared => pc[v] \in Declared \/ Exact(v)
    BY <2>1, <2>3
  <2> QED
    BY <2>4, <2>5, <2>6, <2>7, ReserveFrame
<1>16. ASSUME NEW d \in Deletions, RequestDelete(d) PROVE ReserveInv'
  <2>1. \A v \in Uploads : pc'[v] = pc[v] /\ next'[v] = next[v]
    BY <1>0, <1>16 DEF RequestDelete
  <2>2. Holding' \subseteq Holding
    BY <2>1 DEF Holding
  <2>3. up /\ up' /\ storageUsage' =< storageUsage
    BY <1>0, <1>16 DEF RequestDelete
  <2> QED
    BY <1>a, <2>1, <2>2, <2>3, ReserveFrame
<1>17. ASSUME NEW d \in Deletions, FindAndDelete(d) PROVE ReserveInv'
  <2>1. \A v \in Uploads : pc'[v] = pc[v] /\ next'[v] = next[v]
    BY <1>0, <1>17 DEF FindAndDelete
  <2>2. Holding' \subseteq Holding
    BY <2>1 DEF Holding
  <2>3. up /\ up' /\ storageUsage' =< storageUsage
    BY <1>0, <1>17 DEF FindAndDelete
  <2> QED
    BY <1>a, <2>1, <2>2, <2>3, ReserveFrame
<1>18. ASSUME NEW d \in Deletions, FindAndDeleteFails(d) PROVE ReserveInv'
  <2>1. \A v \in Uploads : pc'[v] = pc[v] /\ next'[v] = next[v]
    BY <1>0, <1>18 DEF FindAndDeleteFails
  <2>2. Holding' \subseteq Holding
    BY <2>1 DEF Holding
  <2>3. up /\ up' /\ storageUsage' =< storageUsage
    BY <1>0, <1>18 DEF FindAndDeleteFails
  <2> QED
    BY <1>a, <2>1, <2>2, <2>3, ReserveFrame
<1>19. ASSUME NEW d \in Deletions, NEW b \in Blobs, CheckReference(d, b)
       PROVE  ReserveInv'
  <2>1. \A v \in Uploads : pc'[v] = pc[v] /\ next'[v] = next[v]
    BY <1>0, <1>19 DEF CheckReference
  <2>2. Holding' \subseteq Holding
    BY <2>1 DEF Holding
  <2>3. up /\ up' /\ storageUsage' =< storageUsage
    BY <1>0, <1>19 DEF CheckReference
  <2> QED
    BY <1>a, <2>1, <2>2, <2>3, ReserveFrame
<1>20. ASSUME NEW d \in Deletions, NEW b \in Blobs, CheckReferenceFails(d, b)
       PROVE  ReserveInv'
  <2>1. \A v \in Uploads : pc'[v] = pc[v] /\ next'[v] = next[v]
    BY <1>0, <1>20 DEF CheckReferenceFails
  <2>2. Holding' \subseteq Holding
    BY <2>1 DEF Holding
  <2>3. up /\ up' /\ storageUsage' =< storageUsage
    BY <1>0, <1>20 DEF CheckReferenceFails
  <2> QED
    BY <1>a, <2>1, <2>2, <2>3, ReserveFrame
<1>21. ASSUME NEW d \in Deletions, UnlinkBlob(d) PROVE ReserveInv'
  <2>1. \A v \in Uploads : pc'[v] = pc[v] /\ next'[v] = next[v]
    BY <1>0, <1>21 DEF UnlinkBlob
  <2>2. Holding' \subseteq Holding
    BY <2>1 DEF Holding
  <2>3. up /\ up' /\ storageUsage' =< storageUsage
    BY <1>0, <1>21 DEF UnlinkBlob
  <2> QED
    BY <1>a, <2>1, <2>2, <2>3, ReserveFrame
<1>22. ASSUME NEW d \in Deletions, UnlinkBlobFails(d) PROVE ReserveInv'
  <2>1. \A v \in Uploads : pc'[v] = pc[v] /\ next'[v] = next[v]
    BY <1>0, <1>22 DEF UnlinkBlobFails
  <2>2. Holding' \subseteq Holding
    BY <2>1 DEF Holding
  <2>3. up /\ up' /\ storageUsage' =< storageUsage
    BY <1>0, <1>22 DEF UnlinkBlobFails
  <2> QED
    BY <1>a, <2>1, <2>2, <2>3, ReserveFrame
<1>23. ASSUME NEW d \in Deletions, ForgetBlob(d) PROVE ReserveInv'
  <2>1. \A v \in Uploads : pc'[v] = pc[v] /\ next'[v] = next[v]
    BY <1>0, <1>23 DEF ForgetBlob
  <2>2. Holding' \subseteq Holding
    BY <2>1 DEF Holding
  <2>3. up /\ up' /\ storageUsage' =< storageUsage
    <3>1. victim[d] \subseteq Blobs
      BY DEF ControlInv, TypeOK
    <3>2. Weight(victim[d], Size) \in Nat
      BY <3>1, FilesFinite, WeightNat
    <3> QED
      BY <1>0, <1>23, <3>2 DEF ForgetBlob
  <2> QED
    BY <1>a, <2>1, <2>2, <2>3, ReserveFrame
<1>24. ASSUME NEW d \in Deletions, FinishDelete(d) PROVE ReserveInv'
  <2>1. \A v \in Uploads : pc'[v] = pc[v] /\ next'[v] = next[v]
    BY <1>0, <1>24 DEF FinishDelete
  <2>2. Holding' \subseteq Holding
    BY <2>1 DEF Holding
  <2>3. up /\ up' /\ storageUsage' =< storageUsage
    BY <1>0, <1>24 DEF FinishDelete
  <2> QED
    BY <1>a, <2>1, <2>2, <2>3, ReserveFrame
<1>25. CASE Crash
  <2>1. \A u \in Uploads : pc'[u] \in {pc[u], "lost"} /\ ~up'
    BY <1>25 DEF Crash
  <2>2. disk \subseteq filesInStorage256 /\ filesInStorage256 \subseteq Blobs
    BY <1>25 DEF Crash, StoreInv, IndexInv, ControlInv, TypeOK
  <2>3. Weight(disk, Size) =< Weight(filesInStorage256, Size)
    <3>1. IsFiniteSet(filesInStorage256) /\ \A b \in filesInStorage256 : Size[b] \in Nat
      BY <2>2, FilesFinite
    <3>2. \A b \in disk : Size[b] =< Size[b]
      BY <2>2, <3>1
    <3> QED
      BY <2>2, <3>1, <3>2, WeightMonotone
  <2>4. Weight(Holding, Owed) \in Nat
    <3>1. \A v \in Holding : Owed[v] \in Nat
      BY DueNat DEF Owed, Holding, ControlInv, TypeOK
    <3> QED
      BY <3>1, HoldingFinite, WeightNat
  <2>5. Weight(disk, Size) \in Nat
    <3>1. disk \subseteq Blobs
      BY <2>2
    <3> QED
      BY <3>1, FilesFinite, WeightNat
  <2>6. Weight(disk, Size) =< storageLimit /\ disk' = disk
    BY <1>0, <1>25, <2>3, <2>4, <2>5
       DEF Crash, ReserveInv, BooksInv, UsageInv
  <2>7. \A u \in Uploads : pc'[u] \in Declared => Exact(u)
    BY <2>1 DEF ReserveInv, Declared
  <2>8. ~up' => Weight(disk', Size) =< storageLimit
    BY <2>6
  <2>9. ~up'
    BY <1>25 DEF Crash
  <2>10. (\A u \in Uploads : pc[u] \in Declared => Exact(u))'
    BY <2>7 DEF Exact
  <2>11. (up => storageUsage + Weight(Holding, Owed) =< storageLimit)'
    BY <2>9
  <2>12. (~up => Weight(disk, Size) =< storageLimit)'
    BY <2>8
  <2> QED
    BY <2>10, <2>11, <2>12 DEF ReserveInv
<1>26. CASE initStorage
  <2>1. Holding' = {}
    BY <1>26 DEF initStorage, ControlInv, DownInv, Holding, Ended
  <2>2. /\ ~up /\ up' /\ UNCHANGED <<pc, disk>>
        /\ storageUsage' = Weight(disk, Size)
    BY <1>26 DEF initStorage
  <2>3. Weight(Holding', Owed') = 0
    BY <2>1, WeightEmpty
  <2>4. Weight(disk, Size) \in Nat /\ Weight(disk, Size) =< storageLimit
    BY <2>2, FilesFinite, WeightNat DEF ReserveInv, ControlInv, TypeOK
  <2> QED
    BY <2>2, <2>3, <2>4 DEF ReserveInv, Exact
<1>27. CASE UNCHANGED vars
  <2>1. Holding' = Holding /\ Owed' = Owed
    BY <1>27 DEF vars, Holding, Owed
  <2> QED
    BY <1>27, <2>1 DEF vars, ReserveInv, Exact
<1> QED
  BY <1>1, <1>2, <1>3, <1>4, <1>5, <1>6, <1>7, <1>8, <1>9, <1>10, <1>11,
     <1>12, <1>13, <1>14, <1>15, <1>16, <1>17, <1>18, <1>19, <1>20, <1>21,
     <1>22, <1>23, <1>24, <1>25, <1>26, <1>27
     DEF Next, UploadStep, DeletionStep

LEMMA ReservationHolds == Spec => [](ControlInv /\ ReserveInv)
<1> DEFINE I == ControlInv /\ StoreInv /\ BooksInv /\ ReserveInv
<1>1. Init => I
  BY ControlInit, StoreInit, BooksInit, ReserveInit
<1>2. I /\ [Next]_vars => I'
  BY ControlStep, StoreStep, BooksStep, ReserveStep
<1>3. I => ControlInv /\ ReserveInv
  OBVIOUS
<1> HIDE DEF I
<1> QED
  BY <1>1, <1>2, <1>3, PTL DEF Spec

(* The claim preHandler makes is enough: an admitted upload is never        *)
(* refused for space by commitFile after its body was received, whatever    *)
(* other uploads, deletions, failures and restarts do meanwhile.            *)
THEOREM AdmittedUploadFitsHolds == Spec => []AdmittedUploadFits
<1>1. (ControlInv /\ ReserveInv) /\ DownInv => AdmittedUploadFits
  <2> SUFFICES ASSUME ControlInv, ReserveInv, NEW u \in Uploads,
                      pc[u] = "committing", next[u] \in FileNumbers(u)
               PROVE  storageUsage + Size[Files[u][next[u]]] =< storageLimit
    BY DEF AdmittedUploadFits
  <2>1. up /\ next[u] \in Nat /\ storageUsage \in Int
    BY DEF ControlInv, DownInv, Jobs, Ended, TypeOK
  <2>2. u \in Holding
    BY DEF Holding
  <2>3. \A v \in Holding : Owed[v] \in Nat
    BY DueNat DEF Owed, Holding, ControlInv, TypeOK
  <2>4. IsFiniteSet(Holding \ {u}) /\ IsFiniteSet(Holding)
    BY HoldingFinite, FS_RemoveElement
  <2>5. Weight(Holding, Owed) = Weight(Holding \ {u}, Owed) + Owed[u]
    BY <2>2, <2>3, <2>4, WeightRemove
  <2>6. Weight(Holding \ {u}, Owed) \in Nat
    BY <2>3, <2>4, WeightNat
  <2>7. /\ Owed[u] = Due(u, "renaming", next[u]) + Size[Files[u][next[u]]]
        /\ Due(u, "renaming", next[u]) \in Nat
        /\ Size[Files[u][next[u]]] \in Nat
    BY <2>1, DueMoves, DueNat, FilesTyped, ZenonT(40) DEF Owed
  <2> QED
    BY <2>1, <2>5, <2>6, <2>7, SMTT(30) DEF ReserveInv
<1>2. ControlInv => DownInv
  BY DEF ControlInv
<1> QED
  BY <1>1, <1>2, ReservationHolds, PTL

-----------------------------------------------------------------------------
(* Part files: which of them an upload has in .incoming at each place.      *)

Own(u) == {i \in FileNumbers(u) : <<u, i>> \in incoming}

(* A body that is still streamed left the files before next[u]; a commit    *)
(* has taken away those before next[u]; an upload that landed left none,    *)
(* and one that is over left none either, unless a removal may fail.        *)
PartsOk(u) ==
  /\ pc[u] \in {"idle", "landed"} => Own(u) = {}
  /\ pc[u] \in {"streaming", "aborted"} =>
       /\ \A i \in Own(u) : i < next[u]
       /\ Weight(Own(u), FileSize(u)) =< ContentLength[u]
  /\ pc[u] \in {"committing", "dropping", "renaming", "broken"} =>
       \A i \in Own(u) : i >= next[u]
  /\ up /\ "disk" \notin Faults /\ pc[u] \in Ended \cup {"aborted"} =>
       Own(u) = {}

PartsInv == \A u \in Uploads : PartsOk(u)

LEMMA PartsInit == Init => PartsInv
<1> SUFFICES ASSUME Init, NEW u \in Uploads PROVE PartsOk(u)
  BY DEF PartsInv
<1>1. Own(u) = {} /\ pc[u] = "idle"
  BY DEF Init, Own, Jobs
<1> QED
  BY <1>1 DEF PartsOk

(* A step of something else leaves an upload's parts as they were. *)
LEMMA PartsFrame ==
  ASSUME NEW v \in Uploads, PartsOk(v), up' = up, pc'[v] = pc[v],
         next'[v] = next[v], Own(v)' = Own(v)
  PROVE  PartsOk(v)'
<1>1. FileSize(v)' = FileSize(v)
  BY DEF FileSize, FileNumbers
<1> QED
  BY <1>1 DEF PartsOk

LEMMA OwnTyped ==
  ASSUME NEW u \in Uploads
  PROVE  /\ Own(u) \subseteq FileNumbers(u)
         /\ \A i \in Own(u) : i \in Nat /\ 1 =< i /\ i =< Len(Files[u])
BY FilesTyped DEF Own, FileNumbers

(* Files received in order weigh what the guard of the stream allowed. *)
LEMMA OwnWeighs ==
  ASSUME NEW u \in Uploads, NEW S, NEW T, S \subseteq T, T \subseteq FileNumbers(u)
  PROVE  /\ Weight(S, FileSize(u)) =< Weight(T, FileSize(u))
         /\ Weight(S, FileSize(u)) \in Nat
         /\ Weight(T, FileSize(u)) \in Nat
<1> DEFINE w == FileSize(u)
<1>1. IsFiniteSet(S) /\ IsFiniteSet(T)
  BY FileSizeNat, FS_Subset
<1>2. \A i \in T : w[i] \in Nat
  BY FileSizeNat
<1> HIDE DEF w
<1>3. \A i \in S : w[i] \in Nat /\ w[i] =< w[i]
  BY <1>2
<1>4. Weight(S, w) =< Weight(T, w)
  BY <1>1, <1>2, <1>3, WeightMonotone
<1>5. Weight(S, w) \in Nat /\ Weight(T, w) \in Nat
  BY <1>1, <1>2, <1>3, WeightNat
<1> QED
  BY <1>4, <1>5 DEF w

LEMMA PartsStep == ControlInv /\ PartsInv /\ [Next]_vars => PartsInv'
<1> SUFFICES ASSUME ControlInv, PartsInv, [Next]_vars PROVE PartsInv'
  OBVIOUS
<1>0. /\ pc \in [Jobs -> UploadPlaces \cup DeletionPlaces \cup Ended]
      /\ next \in [Uploads -> Nat]
      /\ ContentLength \in [Uploads -> Nat]
  BY DEF ControlInv, TypeOK
<1>a. \A v \in Uploads : PartsOk(v)
  BY DEF PartsInv
<1>b. ASSUME NEW u \in Uploads,
             \A v \in Uploads \ {u} : /\ pc'[v] = pc[v]
                                      /\ next'[v] = next[v]
                                      /\ Own(v)' = Own(v),
             PartsOk(u)', up' = up
      PROVE  PartsInv'
  <2> SUFFICES ASSUME NEW v \in Uploads PROVE PartsOk(v)'
    BY DEF PartsInv
  <2>1. CASE v = u
    BY <1>b, <2>1
  <2>2. CASE v # u
    BY <1>a, <1>b, <2>2, PartsFrame
  <2> QED
    BY <2>1, <2>2
<1> USE DEF At, Goto, work, memory, durable, Jobs
<1>1. ASSUME NEW u \in Uploads, Refuse(u) PROVE PartsInv'
  <2>1. \A v \in Uploads \ {u} : /\ pc'[v] = pc[v] /\ next'[v] = next[v]
                                 /\ Own(v)' = Own(v)
    BY <1>0, <1>1 DEF Refuse, Own, FileNumbers
  <2>2. pc[u] = "idle" /\ pc'[u] = "rejected" /\ Own(u)' = Own(u)
    BY <1>0, <1>1 DEF Refuse, Own, FileNumbers
  <2>3. PartsOk(u)'
    BY <1>a, <2>2 DEF PartsOk
  <2> QED
    BY <1>1, <1>b, <2>1, <2>3 DEF Refuse
<1>2. ASSUME NEW u \in Uploads, Admit(u) PROVE PartsInv'
  <2>1. \A v \in Uploads \ {u} : /\ pc'[v] = pc[v] /\ next'[v] = next[v]
                                 /\ Own(v)' = Own(v)
    BY <1>0, <1>2 DEF Admit, Own, FileNumbers
  <2>2. pc[u] = "idle" /\ pc'[u] = "streaming" /\ Own(u)' = Own(u)
    BY <1>0, <1>2 DEF Admit, Own, FileNumbers
  <2>3. Own(u) = {}
    BY <1>a, <2>2 DEF PartsOk
  <2>4. Weight({}, FileSize(u)') = 0
    BY WeightEmpty
  <2>5. PartsOk(u)'
    BY <1>0, <2>2, <2>3, <2>4 DEF PartsOk, Ended
  <2> QED
    BY <1>2, <1>b, <2>1, <2>5 DEF Admit
<1>3. ASSUME NEW u \in Uploads, ReceiveFile(u) PROVE PartsInv'
  <2>1. \A v \in Uploads \ {u} : /\ pc'[v] = pc[v] /\ next'[v] = next[v]
                                 /\ Own(v)' = Own(v)
    BY <1>0, <1>3 DEF ReceiveFile, Own, FileNumbers
  <2>2. /\ pc[u] = "streaming" /\ pc'[u] = "streaming"
        /\ next'[u] = next[u] + 1 /\ next[u] \in FileNumbers(u)
        /\ Own(u)' = Own(u) \cup {next[u]}
        /\ Weight(1 .. next[u], FileSize(u)) =< ContentLength[u]
    BY <1>0, <1>3 DEF ReceiveFile, Own, FileNumbers
  <2>3. \A i \in Own(u) : i < next[u] /\ i \in FileNumbers(u)
    BY <1>a, <2>2 DEF PartsOk, Own
  <2>4. Own(u)' \subseteq 1 .. next[u] /\ 1 .. next[u] \subseteq FileNumbers(u)
    BY <1>0, <2>2, <2>3, FilesTyped DEF FileNumbers
  <2>5. Weight(Own(u)', FileSize(u)) =< ContentLength[u]
    <3> DEFINE S == Own(u)'
               T == 1 .. next[u]
    <3>1. S \subseteq T /\ T \subseteq FileNumbers(u)
      BY <2>4
    <3>2. Weight(T, FileSize(u)) =< ContentLength[u]
      BY <2>2
    <3> HIDE DEF S, T
    <3>3. /\ Weight(S, FileSize(u)) =< Weight(T, FileSize(u))
          /\ Weight(S, FileSize(u)) \in Nat /\ Weight(T, FileSize(u)) \in Nat
      BY <3>1, OwnWeighs
    <3>4. Weight(S, FileSize(u)) =< ContentLength[u]
      BY <1>0, <3>2, <3>3
    <3> QED
      BY <3>4 DEF S
  <2>6. FileSize(u)' = FileSize(u)
    BY DEF FileSize, FileNumbers
  <2>7. \A i \in Own(u)' : i < next'[u]
    BY <1>0, <2>2, <2>3 DEF FileNumbers
  <2>8. PartsOk(u)'
    BY <2>2, <2>5, <2>6, <2>7 DEF PartsOk, Ended
  <2> QED
    BY <1>3, <1>b, <2>1, <2>8 DEF ReceiveFile
<1>4. ASSUME NEW u \in Uploads, StreamFails(u) PROVE PartsInv'
  <2>1. \A v \in Uploads \ {u} : /\ pc'[v] = pc[v] /\ next'[v] = next[v]
                                 /\ Own(v)' = Own(v)
    BY <1>0, <1>4 DEF StreamFails, Own, FileNumbers, PartsOf
  <2>2. /\ pc[u] = "streaming" /\ pc'[u] = "aborted" /\ next'[u] = next[u]
        /\ \/ Own(u)' = {}
           \/ "disk" \in Faults /\ Own(u)' = Own(u)
    BY <1>0, <1>4 DEF StreamFails, Own, FileNumbers, PartsOf
  <2>3. FileSize(u)' = FileSize(u) /\ Weight({}, FileSize(u)) = 0
    BY WeightEmpty DEF FileSize, FileNumbers
  <2>4. PartsOk(u)'
    <3>1. PartsOk(u) /\ ContentLength[u] \in Nat
      BY <1>0, <1>a
    <3>2. CASE Own(u)' = {}
      BY <2>2, <2>3, <3>1, <3>2 DEF PartsOk
    <3>3. CASE "disk" \in Faults /\ Own(u)' = Own(u)
      BY <2>2, <2>3, <3>1, <3>3 DEF PartsOk
    <3> QED
      BY <2>2, <3>2, <3>3
  <2> QED
    BY <1>4, <1>b, <2>1, <2>4 DEF StreamFails
<1>5. ASSUME NEW u \in Uploads, EndOfStream(u) PROVE PartsInv'
  <2>1. \A v \in Uploads \ {u} : /\ pc'[v] = pc[v] /\ next'[v] = next[v]
                                 /\ Own(v)' = Own(v)
    BY <1>0, <1>5 DEF EndOfStream, Own, FileNumbers
  <2>2. pc'[u] = "queued"
    BY <1>0, <1>5 DEF EndOfStream
  <2>3. PartsOk(u)'
    BY <2>2 DEF PartsOk, Ended
  <2> QED
    BY <1>5, <1>b, <2>1, <2>3 DEF EndOfStream
<1>6. ASSUME NEW u \in Uploads, StartReceive(u) PROVE PartsInv'
  <2>1. \A v \in Uploads \ {u} : /\ pc'[v] = pc[v] /\ next'[v] = next[v]
                                 /\ Own(v)' = Own(v)
    BY <1>0, <1>6 DEF StartReceive, Own, FileNumbers
  <2>2. pc[u] = "queued" /\ pc'[u] = "committing" /\ next'[u] = next[u]
    BY <1>0, <1>6 DEF StartReceive
  <2>3. next[u] = 1
    BY <2>2 DEF ControlInv, PlaceInv
  <2>4. \A i \in Own(u)' : i >= 1
    BY FilesTyped DEF Own, FileNumbers
  <2>5. PartsOk(u)'
    BY <2>2, <2>3, <2>4 DEF PartsOk, Ended
  <2> QED
    BY <1>6, <1>b, <2>1, <2>5 DEF StartReceive
<1>7. ASSUME NEW u \in Uploads, CommitFile(u) PROVE PartsInv'
  <2>1. \A v \in Uploads \ {u} : /\ pc'[v] = pc[v] /\ next'[v] = next[v]
                                 /\ Own(v)' = Own(v)
    BY <1>0, <1>7 DEF CommitFile, Own, FileNumbers
  <2>2. /\ pc[u] = "committing" /\ pc'[u] \in {"dropping", "renaming", "broken"}
        /\ next'[u] = next[u] /\ Own(u)' = Own(u)
    BY <1>0, <1>7 DEF CommitFile, Own, FileNumbers
  <2>3. PartsOk(u)'
    BY <1>a, <2>2 DEF PartsOk, Ended
  <2> QED
    BY <1>7, <1>b, <2>1, <2>3 DEF CommitFile
<1>8. ASSUME NEW u \in Uploads, DropPart(u) PROVE PartsInv'
  <2>1. \A v \in Uploads \ {u} : /\ pc'[v] = pc[v] /\ next'[v] = next[v]
                                 /\ Own(v)' = Own(v)
    BY <1>0, <1>8 DEF DropPart, Own, FileNumbers
  <2>2. /\ pc[u] = "dropping" /\ pc'[u] = "committing"
        /\ next'[u] = next[u] + 1 /\ Own(u)' = Own(u) \ {next[u]}
    BY <1>0, <1>8 DEF DropPart, Own, FileNumbers
  <2>3. \A i \in Own(u) : i >= next[u] /\ i \in Int
    BY <1>a, <2>2, OwnTyped DEF PartsOk
  <2>4. PartsOk(u)'
    BY <1>0, <2>2, <2>3 DEF PartsOk, Ended
  <2> QED
    BY <1>8, <1>b, <2>1, <2>4 DEF DropPart
<1>9. ASSUME NEW u \in Uploads, DropPartFails(u) PROVE PartsInv'
  <2>1. \A v \in Uploads \ {u} : /\ pc'[v] = pc[v] /\ next'[v] = next[v]
                                 /\ Own(v)' = Own(v)
    BY <1>0, <1>9 DEF DropPartFails, Own, FileNumbers
  <2>2. /\ pc[u] = "dropping" /\ pc'[u] = "broken"
        /\ next'[u] = next[u] /\ Own(u)' = Own(u)
    BY <1>0, <1>9 DEF DropPartFails, Own, FileNumbers
  <2>3. PartsOk(u)'
    BY <1>a, <2>2 DEF PartsOk, Ended
  <2> QED
    BY <1>9, <1>b, <2>1, <2>3 DEF DropPartFails
<1>10. ASSUME NEW u \in Uploads, RenamePart(u) PROVE PartsInv'
  <2>1. \A v \in Uploads \ {u} : /\ pc'[v] = pc[v] /\ next'[v] = next[v]
                                 /\ Own(v)' = Own(v)
    BY <1>0, <1>10 DEF RenamePart, Own, FileNumbers
  <2>2. /\ pc[u] = "renaming" /\ pc'[u] = "committing"
        /\ next'[u] = next[u] + 1 /\ Own(u)' = Own(u) \ {next[u]}
    BY <1>0, <1>10 DEF RenamePart, Own, FileNumbers
  <2>3. \A i \in Own(u) : i >= next[u] /\ i \in Int
    BY <1>a, <2>2, OwnTyped DEF PartsOk
  <2>4. PartsOk(u)'
    BY <1>0, <2>2, <2>3 DEF PartsOk, Ended
  <2> QED
    BY <1>10, <1>b, <2>1, <2>4 DEF RenamePart
<1>11. ASSUME NEW u \in Uploads, RenamePartFails(u) PROVE PartsInv'
  <2>1. \A v \in Uploads \ {u} : /\ pc'[v] = pc[v] /\ next'[v] = next[v]
                                 /\ Own(v)' = Own(v)
    BY <1>0, <1>11 DEF RenamePartFails, Own, FileNumbers
  <2>2. /\ pc[u] = "renaming" /\ pc'[u] = "broken"
        /\ next'[u] = next[u] /\ Own(u)' = Own(u)
    BY <1>0, <1>11 DEF RenamePartFails, Own, FileNumbers
  <2>3. PartsOk(u)'
    BY <1>a, <2>2 DEF PartsOk, Ended
  <2> QED
    BY <1>11, <1>b, <2>1, <2>3 DEF RenamePartFails
<1>12. ASSUME NEW u \in Uploads, InsertDocument(u) PROVE PartsInv'
  <2>1. \A v \in Uploads \ {u} : /\ pc'[v] = pc[v] /\ next'[v] = next[v]
                                 /\ Own(v)' = Own(v)
    BY <1>0, <1>12 DEF InsertDocument, Own, FileNumbers
  <2>2. /\ pc[u] = "committing" /\ pc'[u] = "landed"
        /\ next[u] > Len(Files[u]) /\ Own(u)' = Own(u)
    BY <1>0, <1>12 DEF InsertDocument, Own, FileNumbers
  <2>3. Own(u) = {}
    <3>1. \A i \in Own(u) : i >= next[u] /\ i =< Len(Files[u]) /\ i \in Int
      BY <1>a, <2>2, OwnTyped DEF PartsOk
    <3> QED
      BY <1>0, <2>2, <3>1, FilesTyped
  <2>4. PartsOk(u)'
    BY <2>2, <2>3 DEF PartsOk, Ended
  <2> QED
    BY <1>12, <1>b, <2>1, <2>4 DEF InsertDocument
<1>13. ASSUME NEW u \in Uploads, InsertDocumentFails(u) PROVE PartsInv'
  <2>1. \A v \in Uploads \ {u} : /\ pc'[v] = pc[v] /\ next'[v] = next[v]
                                 /\ Own(v)' = Own(v)
    BY <1>0, <1>13 DEF InsertDocumentFails, Own, FileNumbers
  <2>2. /\ pc[u] = "committing" /\ pc'[u] = "broken"
        /\ next'[u] = next[u] /\ Own(u)' = Own(u)
    BY <1>0, <1>13 DEF InsertDocumentFails, Own, FileNumbers
  <2>3. PartsOk(u)'
    BY <1>a, <2>2 DEF PartsOk, Ended
  <2> QED
    BY <1>13, <1>b, <2>1, <2>3 DEF InsertDocumentFails
<1>14. ASSUME NEW u \in Uploads, storage_release(u) PROVE PartsInv'
  <2>1. \A v \in Uploads \ {u} : /\ pc'[v] = pc[v] /\ next'[v] = next[v]
                                 /\ Own(v)' = Own(v)
    BY <1>0, <1>14 DEF storage_release, Own, FileNumbers
  <2>2. /\ \/ pc[u] \in {"landed", "aborted"} /\ pc'[u] \in {"ok", "failed"}
           \/ pc'[u] = "sweeping"
        /\ up /\ up' /\ Own(u)' = Own(u)
    BY <1>0, <1>14 DEF storage_release, Answer, Own, FileNumbers
  <2>3. PartsOk(u)'
    BY <1>a, <2>2 DEF PartsOk, Ended
  <2> QED
    BY <1>14, <1>b, <2>1, <2>3 DEF storage_release
<1>15. ASSUME NEW u \in Uploads, SweepParts(u) PROVE PartsInv'
  <2>1. \A v \in Uploads \ {u} : /\ pc'[v] = pc[v] /\ next'[v] = next[v]
                                 /\ Own(v)' = Own(v)
    BY <1>0, <1>15 DEF SweepParts, Own, FileNumbers, PartsOf
  <2>2. /\ pc'[u] = "failed"
        /\ \/ Own(u)' = {}
           \/ "disk" \in Faults
    BY <1>0, <1>15 DEF SweepParts, Own, FileNumbers, PartsOf
  <2>3. PartsOk(u)'
    BY <2>2 DEF PartsOk
  <2> QED
    BY <1>15, <1>b, <2>1, <2>3 DEF SweepParts
<1>16. ASSUME NEW d \in Deletions, RequestDelete(d) \/ DeletionStep(d)
       PROVE  PartsInv'
  <2>1. UNCHANGED <<up, next, incoming>> /\ \A v \in Uploads : pc'[v] = pc[v]
    BY <1>0, <1>16 DEF DeletionStep, RequestDelete, FindAndDelete,
         FindAndDeleteFails, CheckReference, CheckReferenceFails, UnlinkBlob,
         UnlinkBlobFails, ForgetBlob, FinishDelete
  <2>2. \A v \in Uploads : Own(v)' = Own(v)
    BY <2>1 DEF Own, FileNumbers
  <2>3. \A v \in Uploads : PartsOk(v)'
    BY <1>a, <2>1, <2>2, PartsFrame
  <2> QED
    BY <2>3 DEF PartsInv
<1>25. CASE Crash
  <2>1. ~up' /\ incoming' = incoming
    BY <1>25 DEF Crash
  <2> SUFFICES ASSUME NEW u \in Uploads PROVE PartsOk(u)'
    BY DEF PartsInv
  <2>2. pc'[u] \in Ended \/ (pc'[u] = "idle" /\ pc[u] = "idle")
    <3>1. pc'[u] = IF pc[u] \in Ended \cup {"idle"} THEN pc[u] ELSE "lost"
      BY <1>25 DEF Crash
    <3> QED
      BY <3>1 DEF Ended
  <2>3. Own(u)' = Own(u)
    BY <2>1 DEF Own, FileNumbers
  <2> QED
    BY <1>a, <2>1, <2>2, <2>3 DEF PartsOk, Ended
<1>26. CASE initStorage
  <2>1. incoming' = {} /\ UNCHANGED pc
    BY <1>26 DEF initStorage
  <2> SUFFICES ASSUME NEW u \in Uploads PROVE PartsOk(u)'
    BY DEF PartsInv
  <2>2. Own(u)' = {} /\ pc'[u] \in Ended \cup {"idle"}
    BY <1>26, <2>1 DEF Own, initStorage, ControlInv, DownInv
  <2> QED
    BY <2>2 DEF PartsOk, Ended
<1>27. CASE UNCHANGED vars
  <2>1. \A v \in Uploads : /\ pc'[v] = pc[v] /\ next'[v] = next[v]
                           /\ Own(v)' = Own(v)
    BY <1>27 DEF vars, Own, FileNumbers
  <2>2. \A v \in Uploads : PartsOk(v)'
    BY <1>27, <1>a, <2>1, PartsFrame DEF vars
  <2> QED
    BY <2>2 DEF PartsInv
<1> QED
  BY <1>1, <1>2, <1>3, <1>4, <1>5, <1>6, <1>7, <1>8, <1>9, <1>10, <1>11,
     <1>12, <1>13, <1>14, <1>15, <1>16, <1>25, <1>26, <1>27
     DEF Next, UploadStep

(* A request that is over leaves no part file behind when removals work,    *)
(* and the parts of requests lost in a crash are gone before the server is  *)
(* up again.                                                                *)
THEOREM NoLeftoverPartHolds == Spec => []NoLeftoverPart
<1>1. Init => ControlInv /\ PartsInv
  BY ControlInit, PartsInit
<1>2. ControlInv /\ PartsInv /\ [Next]_vars => (ControlInv /\ PartsInv)'
  BY ControlStep, PartsStep
<1>3. ControlInv /\ PartsInv => NoLeftoverPart
  <2> SUFFICES ASSUME ControlInv, PartsInv, up, "disk" \notin Faults,
                      NEW p \in incoming, pc[p[1]] \in Ended
               PROVE  FALSE
    BY DEF NoLeftoverPart
  <2>1. PICK u \in Uploads : p \in {u} \X FileNumbers(u)
    BY DEF ControlInv, TypeOK, Parts
  <2>2. p[1] = u /\ p[2] \in FileNumbers(u) /\ p = <<u, p[2]>>
    BY <2>1
  <2>3. p[2] \in Own(u)
    BY <2>2 DEF Own
  <2> QED
    BY <2>2, <2>3 DEF PartsInv, PartsOk
<1> QED
  BY <1>1, <1>2, <1>3, PTL DEF Spec

(* What upload u may have in .incoming: what it is still owed, and the file *)
(* it renames, which storageUsage already counts.                           *)
Kept == [u \in Uploads |->
           Due(u, IF pc[u] = "renaming" THEN "committing" ELSE pc[u], next[u])]

LEMMA KeptNat ==
  ASSUME ControlInv, NEW u \in Uploads
  PROVE  Kept[u] \in Nat
<1>1. next[u] \in Nat
  BY DEF ControlInv, TypeOK
<1> QED
  BY <1>1, DueNat DEF Kept

LEMMA OwnWithinKept ==
  ASSUME ControlInv, ReserveInv, PartsInv, NEW u \in Uploads, u \in Holding
  PROVE  Weight(Own(u), FileSize(u)) =< Kept[u]
<1>1. /\ next[u] \in Nat
      /\ Own(u) \subseteq FileNumbers(u)
      /\ PartsOk(u)
      /\ ContentLength[u] \in Nat
  BY OwnTyped DEF ControlInv, TypeOK, PartsInv
<1>2. CASE pc[u] \in {"streaming", "aborted"}
  BY <1>1, <1>2 DEF PartsOk, Kept, Due
<1>3. CASE pc[u] = "queued"
  <2>1. Exact(u)
    BY <1>3 DEF ReserveInv, Declared
  <2>2. Weight(Own(u), FileSize(u)) =< Weight(FileNumbers(u), FileSize(u))
    BY <1>1, OwnWeighs
  <2> QED
    BY <1>3, <2>1, <2>2 DEF Exact, Kept, Due
<1>4. CASE pc[u] \in {"committing", "dropping", "renaming", "broken"}
  <2>1. Own(u) \subseteq {i \in FileNumbers(u) : i >= next[u]}
    BY <1>1, <1>4 DEF PartsOk
  <2>2. Weight(Own(u), FileSize(u)) =< Remaining(u, next[u])
    BY <2>1, OwnWeighs DEF Remaining
  <2> QED
    BY <1>4, <2>2 DEF Kept, Due
<1>5. CASE pc[u] = "landed"
  <2>1. Own(u) = {}
    BY <1>1, <1>5 DEF PartsOk
  <2>2. Weight(Own(u), FileSize(u)) = 0
    BY <2>1, WeightEmpty
  <2> QED
    BY <1>5, <2>2 DEF Kept, Due
<1> QED
  BY <1>2, <1>3, <1>4, <1>5 DEF Holding

LEMMA PartsTyped ==
  ASSUME ControlInv
  PROVE  /\ \A p \in incoming :
              /\ p[1] \in Uploads /\ p[2] \in FileNumbers(p[1])
              /\ p = <<p[1], p[2]>>
              /\ PartSize[p] = FileSize(p[1])[p[2]]
              /\ PartSize[p] \in Nat
         /\ \A u \in Uploads : IsFiniteSet({p \in incoming : p[1] = u})
         /\ IsFiniteSet(incoming)
<1>1. \A p \in incoming : /\ p[1] \in Uploads /\ p[2] \in FileNumbers(p[1])
                          /\ p = <<p[1], p[2]>> /\ p \in Parts
  BY DEF ControlInv, TypeOK, Parts
<1>2. \A p \in incoming : PartSize[p] = FileSize(p[1])[p[2]] /\ PartSize[p] \in Nat
  <2> SUFFICES ASSUME NEW p \in incoming
               PROVE  PartSize[p] = FileSize(p[1])[p[2]] /\ PartSize[p] \in Nat
    OBVIOUS
  <2>1. p \in Parts /\ p[1] \in Uploads /\ p[2] \in FileNumbers(p[1])
    BY <1>1
  <2>2. PartSize[p] = Size[Files[p[1]][p[2]]]
    BY <2>1 DEF PartSize
  <2> QED
    BY <2>1, <2>2, FileSizeNat
<1>3. IsFiniteSet(Parts)
  <2>1. ASSUME NEW u \in Uploads PROVE IsFiniteSet({u} \X FileNumbers(u))
    BY FS_Singleton, FileSizeNat, FS_Product
  <2> DEFINE groups == {{u} \X FileNumbers(u) : u \in Uploads}
             f == [u \in Uploads |-> {u} \X FileNumbers(u)]
  <2>2. f \in Surjection(Uploads, groups)
    BY DEF Surjection
  <2>3. IsFiniteSet(groups)
    BY <2>2, FS_Surjection
  <2>4. \A T \in groups : IsFiniteSet(T)
    BY <2>1
  <2> QED
    BY <2>3, <2>4, FS_UNION DEF Parts
<1>4. IsFiniteSet(incoming)
  BY <1>3, FS_Subset DEF ControlInv, TypeOK
<1>5. \A u \in Uploads : IsFiniteSet({p \in incoming : p[1] = u})
  BY <1>4, FS_Subset
<1> QED
  BY <1>1, <1>2, <1>4, <1>5

(* The parts of all uploads in flight weigh no more than they may keep. *)
LEMMA PartsWithinKept ==
  ASSUME ControlInv, ReserveInv, PartsInv
  PROVE  /\ Weight(HeldParts, PartSize) =< Weight(Holding, Kept)
         /\ Weight(HeldParts, PartSize) \in Nat
<1> DEFINE S == HeldParts
           T == Holding
           w == PartSize
           claim == Kept
           owner == [p \in S |-> p[1]]
<1>1. S \subseteq incoming /\ IsFiniteSet(S)
  BY PartsTyped, FS_Subset DEF HeldParts
<1>2. \A p \in S : w[p] \in Nat
  BY <1>1, PartsTyped
<1>3. IsFiniteSet(T) /\ T \subseteq Uploads
  BY HoldingFinite DEF Holding
<1>4. owner \in [S -> T]
  BY DEF HeldParts
<1>5. \A u \in T : claim[u] \in Nat
  BY <1>3, KeptNat
<1>6. ASSUME NEW u \in T
      PROVE  Weight({p \in S : owner[p] = u}, w) =< claim[u]
  <2> DEFINE G == {p \in S : owner[p] = u}
             f == [p \in G |-> p[2]]
             O == Own(u)
             z == FileSize(u)
  <2>0. u \in Uploads
    BY <1>3
  <2>1. \A p \in G : /\ p = <<u, p[2]>> /\ p[2] \in O
                     /\ w[p] = z[p[2]] /\ w[p] \in Nat
    <3> SUFFICES ASSUME NEW p \in G
                 PROVE  /\ p = <<u, p[2]>> /\ p[2] \in O
                        /\ w[p] = z[p[2]] /\ w[p] \in Nat
      OBVIOUS
    <3>1. p \in incoming /\ p[1] = u
      BY <1>1
    <3>2. /\ p[2] \in FileNumbers(u) /\ p = <<u, p[2]>>
          /\ PartSize[p] = FileSize(u)[p[2]] /\ PartSize[p] \in Nat
      BY <3>1, PartsTyped
    <3> QED
      BY <3>1, <3>2 DEF Own
  <2>2. f \in Injection(G, O)
    <3>1. f \in [G -> O]
      BY <2>1
    <3>2. ASSUME NEW p \in G, NEW q \in G, f[p] = f[q] PROVE p = q
      <4>1. p[2] = q[2]
        BY <3>2
      <4>2. p = <<u, p[2]>> /\ q = <<u, q[2]>>
        BY <2>1
      <4> QED
        BY <4>1, <4>2
    <3> HIDE DEF f, G, O
    <3> QED
      BY <3>1, <3>2, Fun_IsInj
  <2>3. IsFiniteSet(O) /\ \A i \in O : z[i] \in Nat
    BY <2>0, FileSizeNat, OwnTyped, FS_Subset
  <2>4. \A p \in G : w[p] \in Nat /\ w[p] =< z[f[p]]
    <3> SUFFICES ASSUME NEW p \in G PROVE w[p] \in Nat /\ w[p] =< z[f[p]]
      OBVIOUS
    <3>1. f[p] = p[2]
      OBVIOUS
    <3> HIDE DEF f, w, z, G
    <3> QED
      BY <2>1, <3>1
  <2>5. Weight(O, z) =< claim[u]
    BY <2>0, OwnWithinKept
  <2>6. Weight(O, z) \in Nat
    BY <2>3, WeightNat
  <2>7. claim[u] \in Nat
    BY <1>5
  <2>8. IsFiniteSet(G)
    BY <1>1, FS_Subset
  <2> HIDE DEF f, w, z, G, O, claim
  <2>9. Weight(G, w) =< Weight(O, z)
    BY <2>2, <2>3, <2>4, WeightInject
  <2>10. Weight(G, w) \in Nat
    BY <2>4, <2>8, WeightNat
  <2>11. Weight(G, w) =< claim[u]
    BY <2>5, <2>6, <2>7, <2>9, <2>10
  <2> QED
    BY <2>11 DEF G
<1> HIDE DEF S, T, w, claim, owner
<1>7. Weight(S, w) =< Weight(T, claim)
  BY <1>1, <1>2, <1>3, <1>4, <1>5, <1>6, WeightGroups
<1>8. Weight(S, w) \in Nat
  BY <1>1, <1>2, WeightNat
<1> QED
  BY <1>7, <1>8 DEF S, T, w, claim

(* The blobs on disk and the parts of the uploads in flight never take more *)
(* of the disk than STORAGE_LIMIT_BYTES, although parts are written before  *)
(* storageUsage counts them and stay behind after a failed commit.          *)
THEOREM DiskWithinLimitHolds == Spec => []DiskWithinLimit
<1> DEFINE I == ControlInv /\ StoreInv /\ BooksInv /\ ReserveInv /\ PartsInv
<1>1. Init => I
  BY ControlInit, StoreInit, BooksInit, ReserveInit, PartsInit
<1>2. I /\ [Next]_vars => I'
  BY ControlStep, StoreStep, BooksStep, ReserveStep, PartsStep
<1>3. I => DiskWithinLimit
  <2> SUFFICES ASSUME I, up
               PROVE  Weight(disk, Size) + Weight(HeldParts, PartSize) =< storageLimit
    BY DEF DiskWithinLimit
  <2>1. /\ Weight(HeldParts, PartSize) =< Weight(Holding, Kept)
        /\ Weight(HeldParts, PartSize) \in Nat
    BY PartsWithinKept
  <2>2. \A v \in Holding : v \in Uploads /\ Owed[v] \in Nat /\ Kept[v] \in Nat
    BY OwedWithinClaim, KeptNat DEF Holding
  <2>3. Weight(Holding, Owed) \in Nat /\ Weight(Holding, Kept) \in Nat
    BY <2>2, HoldingFinite, WeightNat
  <2>4. storageUsage = Weight(filesInStorage256, Size)
    BY DEF BooksInv, UsageInv
  <2>5. storageUsage + Weight(Holding, Owed) =< storageLimit
    BY DEF ReserveInv
  <2>6. /\ disk \subseteq filesInStorage256
        /\ filesInStorage256 \subseteq Blobs
        /\ disk \subseteq Blobs
    BY DEF ControlInv, TypeOK, StoreInv, IndexInv
  <2>7. Weight(disk, Size) \in Nat /\ Weight(filesInStorage256, Size) \in Nat
    BY <2>6, FilesFinite, WeightNat
  <2> DEFINE d0 == disk
             f0 == filesInStorage256
  <2>8. CASE \A v \in Uploads : pc[v] # "renaming"
    <3>1. \A v \in Holding : Kept[v] = Owed[v]
      BY <2>2, <2>8 DEF Kept, Owed
    <3>2. Weight(Holding, Kept) = Weight(Holding, Owed)
      BY <3>1, WeightSame
    <3>3. Weight(disk, Size) =< Weight(filesInStorage256, Size)
      <4>1. IsFiniteSet(f0) /\ \A b \in f0 : Size[b] \in Nat /\ Size[b] =< Size[b]
        BY <2>6, FilesFinite
      <4>2. d0 \subseteq f0
        BY <2>6
      <4> HIDE DEF d0, f0
      <4>3. Weight(d0, Size) =< Weight(f0, Size)
        BY <4>1, <4>2, WeightMonotone
      <4> QED
        BY <4>3 DEF d0, f0
    <3> QED
      BY <2>1, <2>3, <2>4, <2>5, <2>7, <3>2, <3>3
  <2>9. CASE \E v \in Uploads : pc[v] = "renaming"
    <3>1. PICK u \in Uploads : pc[u] = "renaming"
      BY <2>9
    <3> DEFINE b == Files[u][next[u]]
    <3>2. /\ next[u] \in FileNumbers(u) /\ next[u] \in Nat
          /\ b \in filesInStorage256 \ disk
          /\ u \in Holding
      BY <3>1 DEF ControlInv, TypeOK, PlaceInv, StoreInv, CommittedInv, Holding
    <3>3. \A v \in Holding \ {u} : Kept[v] = Owed[v]
      <4>1. \A v \in Uploads \ {u} : pc[v] # "renaming"
        BY <3>1, OneInside DEF Locked, Jobs
      <4> QED
        BY <2>2, <4>1 DEF Kept, Owed
    <3>4. Kept[u] = Owed[u] + Size[b]
      <4>1. Kept[u] = Due(u, "committing", next[u]) /\ Owed[u] = Due(u, "renaming", next[u])
        BY <3>1 DEF Kept, Owed
      <4>2. Due(u, "committing", next[u]) = Due(u, "renaming", next[u]) + Size[b]
        BY <3>2, DueMoves
      <4> QED
        BY <4>1, <4>2
    <3>5. Weight(Holding, Kept) = Weight(Holding, Owed) - Owed[u] + Kept[u]
      <4>1. IsFiniteSet(Holding)
        BY HoldingFinite
      <4> QED
        BY <2>2, <3>2, <3>3, <4>1, WeightUpdate, ZenonT(40)
    <3>6. Weight(disk, Size) + Size[b] =< Weight(filesInStorage256, Size)
      <4> DEFINE e0 == disk \cup {b}
      <4>0. disk \cup {b} \subseteq filesInStorage256
        BY <2>6, <3>2
      <4>1. Weight(disk \cup {b}, Size) = Weight(disk, Size) + Size[b]
        <5>1. IsFiniteSet(disk) /\ \A x \in disk \cup {b} : Size[x] \in Nat
          BY <2>6, <3>2, FilesFinite
        <5> QED
          BY <3>2, <5>1, WeightAdd
      <4>2. IsFiniteSet(f0) /\ \A x \in f0 : Size[x] \in Nat /\ Size[x] =< Size[x]
        BY <2>6, FilesFinite
      <4>3. e0 \subseteq f0
        BY <4>0
      <4> HIDE DEF e0, f0
      <4>4. Weight(e0, Size) =< Weight(f0, Size)
        BY <4>2, <4>3, WeightMonotone
      <4> QED
        BY <4>1, <4>4 DEF e0, f0
    <3>7. Size[b] \in Nat /\ Owed[u] \in Nat /\ Kept[u] \in Nat
      BY <2>2, <2>6, <3>2
    <3> HIDE DEF b
    <3>8. Weight(Holding, Kept) = Weight(Holding, Owed) + Size[b]
      BY <2>3, <3>4, <3>5, <3>7
    <3> QED
      BY <2>1, <2>3, <2>4, <2>5, <2>7, <3>6, <3>7, <3>8
  <2> QED
    BY <2>8, <2>9
<1> HIDE DEF I
<1> QED
  BY <1>1, <1>2, <1>3, PTL DEF Spec

-----------------------------------------------------------------------------
(* Leaks: a blob nothing references has an explanation.                     *)

(* A deletion looks only at the hashes of the upload it removed, and only   *)
(* inside the lock; it has picked none while it checks references.          *)
DoomInv == \A d \in Deletions :
  /\ doomed[d] \cup victim[d] \subseteq Hashes(Target[d])
  /\ doomed[d] \cup victim[d] # {} =>
       pc[d] \in {"cleaning", "unlinking", "forgetting"}
  /\ pc[d] = "cleaning" => victim[d] = {}

LEMMA DoomInit == Init => DoomInv
BY DEF Init, DoomInv, Jobs

LEMMA DoomStep == ControlInv /\ DoomInv /\ [Next]_vars => DoomInv'
<1> SUFFICES ASSUME ControlInv, DoomInv, [Next]_vars PROVE DoomInv'
  OBVIOUS
<1>0. /\ pc \in [Jobs -> UploadPlaces \cup DeletionPlaces \cup Ended]
      /\ doomed \in [Deletions -> SUBSET Blobs]
      /\ victim \in [Deletions -> SUBSET Blobs]
      /\ \A d \in Deletions : d \notin Uploads
  BY DEF ControlInv, TypeOK
<1>a. ASSUME UNCHANGED <<doomed, victim>>,
             \A d \in Deletions : pc'[d] = pc[d]
      PROVE  DoomInv'
  BY <1>a DEF DoomInv, Hashes, FileNumbers
<1>b. ASSUME NEW d \in Deletions,
             \A e \in Deletions \ {d} : /\ doomed'[e] = doomed[e]
                                        /\ victim'[e] = victim[e]
                                        /\ pc'[e] = pc[e],
             doomed'[d] \cup victim'[d] \subseteq Hashes(Target[d]),
             doomed'[d] \cup victim'[d] # {} =>
               pc'[d] \in {"cleaning", "unlinking", "forgetting"},
             pc'[d] = "cleaning" => victim'[d] = {}
      PROVE  DoomInv'
  <2>1. \A e \in Deletions : Hashes(Target[e])' = Hashes(Target[e])
    BY DEF Hashes, FileNumbers
  <2>2. ASSUME NEW e \in Deletions
        PROVE  /\ doomed'[e] \cup victim'[e] \subseteq Hashes(Target[e])
               /\ doomed'[e] \cup victim'[e] # {} =>
                    pc'[e] \in {"cleaning", "unlinking", "forgetting"}
               /\ pc'[e] = "cleaning" => victim'[e] = {}
    <3>1. CASE e = d
      BY <1>b, <3>1
    <3>2. CASE e # d
      BY <1>b, <3>2 DEF DoomInv
    <3> QED
      BY <3>1, <3>2
  <2> QED
    BY <2>1, <2>2 DEF DoomInv
<1>c. \A d \in Deletions :
        /\ doomed[d] \cup victim[d] \subseteq Hashes(Target[d])
        /\ doomed[d] \cup victim[d] # {} =>
             pc[d] \in {"cleaning", "unlinking", "forgetting"}
        /\ pc[d] = "cleaning" => victim[d] = {}
  BY DEF DoomInv
<1> USE DEF At, Goto, work, memory, durable, Jobs
<1>1. ASSUME NEW u \in Uploads,
             \/ Refuse(u) \/ Admit(u) \/ ReceiveFile(u) \/ StreamFails(u)
             \/ UploadStep(u)
      PROVE  DoomInv'
  <2>1. UNCHANGED <<doomed, victim>>
    BY <1>1 DEF Refuse, Admit, ReceiveFile, StreamFails, UploadStep,
         EndOfStream, StartReceive, CommitFile, DropPart, DropPartFails,
         RenamePart, RenamePartFails, InsertDocument, InsertDocumentFails,
         storage_release, SweepParts
  <2>2. \A d \in Deletions : pc'[d] = pc[d]
    BY <1>0, <1>1 DEF Refuse, Admit, ReceiveFile, StreamFails, UploadStep,
         EndOfStream, StartReceive, CommitFile, DropPart, DropPartFails,
         RenamePart, RenamePartFails, InsertDocument, InsertDocumentFails,
         storage_release, SweepParts
  <2> QED
    BY <1>a, <2>1, <2>2
<1>2. ASSUME NEW d \in Deletions, RequestDelete(d) PROVE DoomInv'
  BY <1>0, <1>2, <1>b, <1>c DEF RequestDelete
<1>3. ASSUME NEW d \in Deletions, FindAndDelete(d) PROVE DoomInv'
  <2>1. \A e \in Deletions \ {d} : /\ doomed'[e] = doomed[e]
                                   /\ victim'[e] = victim[e]
                                   /\ pc'[e] = pc[e]
    BY <1>0, <1>3 DEF FindAndDelete
  <2>2. doomed[d] = {} /\ victim[d] = {} /\ victim'[d] = victim[d]
    BY <1>3, <1>c DEF FindAndDelete
  <2>3. \/ pc'[d] = "cleaning" /\ doomed'[d] = Hashes(Target[d])
        \/ doomed'[d] = doomed[d] /\ pc'[d] = "missing"
    BY <1>0, <1>3 DEF FindAndDelete
  <2> QED
    BY <1>b, <2>1, <2>2, <2>3
<1>4. ASSUME NEW d \in Deletions, FindAndDeleteFails(d) PROVE DoomInv'
  BY <1>0, <1>4, <1>b, <1>c DEF FindAndDeleteFails
<1>5. ASSUME NEW d \in Deletions, NEW b \in Blobs, CheckReference(d, b)
      PROVE  DoomInv'
  <2>1. \A e \in Deletions \ {d} : /\ doomed'[e] = doomed[e]
                                   /\ victim'[e] = victim[e]
                                   /\ pc'[e] = pc[e]
    BY <1>0, <1>5 DEF CheckReference
  <2>2. /\ doomed'[d] = doomed[d] \ {b} /\ b \in doomed[d]
        /\ pc[d] = "cleaning"
        /\ \/ pc'[d] = "cleaning" /\ victim'[d] = victim[d]
           \/ pc'[d] = "unlinking" /\ victim'[d] = {b}
    BY <1>0, <1>5 DEF CheckReference
  <2>3. victim[d] = {} /\ doomed[d] \subseteq Hashes(Target[d])
    BY <1>c, <2>2
  <2>4. /\ doomed'[d] \cup victim'[d] \subseteq Hashes(Target[d])
        /\ pc'[d] \in {"cleaning", "unlinking"}
        /\ pc'[d] = "cleaning" => victim'[d] = {}
    BY <2>2, <2>3
  <2> QED
    BY <1>b, <2>1, <2>4
<1>6. ASSUME NEW d \in Deletions, NEW b \in Blobs, CheckReferenceFails(d, b)
      PROVE  DoomInv'
  BY <1>0, <1>6, <1>b, <1>c DEF CheckReferenceFails
<1>7. ASSUME NEW d \in Deletions, UnlinkBlob(d) PROVE DoomInv'
  BY <1>0, <1>7, <1>b, <1>c DEF UnlinkBlob
<1>8. ASSUME NEW d \in Deletions, UnlinkBlobFails(d) PROVE DoomInv'
  BY <1>0, <1>8, <1>b, <1>c DEF UnlinkBlobFails
<1>9. ASSUME NEW d \in Deletions, ForgetBlob(d) PROVE DoomInv'
  BY <1>0, <1>9, <1>b, <1>c DEF ForgetBlob
<1>10. ASSUME NEW d \in Deletions, FinishDelete(d) PROVE DoomInv'
  BY <1>0, <1>10, <1>b, <1>c DEF FinishDelete
<1>11. CASE Crash
  <2>1. \A d \in Deletions : doomed'[d] = {} /\ victim'[d] = {}
    BY <1>11 DEF Crash
  <2>2. \A d \in Deletions : doomed'[d] \cup victim'[d] = {}
    BY <2>1
  <2> QED
    BY <2>1, <2>2 DEF DoomInv
<1>12. CASE initStorage
  BY <1>12, <1>a DEF initStorage
<1>13. CASE UNCHANGED vars
  BY <1>13, <1>a DEF vars
<1> QED
  BY <1>1, <1>2, <1>3, <1>4, <1>5, <1>6, <1>7, <1>8, <1>9, <1>10, <1>11,
     <1>12, <1>13
     DEF Next, DeletionStep

(* The two kinds of explanation UnreferencedBlobExplained admits. *)
UploadExplains(u, b) ==
  /\ b \in Hashes(u)
  /\ \/ pc[u] \in {"broken", "sweeping", "failed", "lost"}
     \/ /\ pc[u] \in {"committing", "renaming", "dropping"}
        /\ \E i \in 1 .. next[u] - 1 : b = Files[u][i]
DeletionExplains(d, b) ==
  \/ b \in doomed[d] \cup victim[d] \cup failures[d]
  \/ pc[d] \in {"error", "lost"} /\ b \in Hashes(Target[d])
Explained(b) == \/ Referenced(b)
                \/ \E u \in Uploads : UploadExplains(u, b)
                \/ \E d \in Deletions : DeletionExplains(d, b)
LeakInv == \A b \in disk : Explained(b)

LEMMA LeakInit == Init => LeakInv
BY DEF Init, LeakInv

(* No explanation is lost while its witness stands still. *)
LEMMA UploadExplainsSame ==
  ASSUME NEW u \in Uploads, NEW b, UploadExplains(u, b),
         pc'[u] = pc[u], next'[u] = next[u]
  PROVE  UploadExplains(u, b)'
BY DEF UploadExplains, Hashes, FileNumbers

LEMMA DeletionExplainsSame ==
  ASSUME NEW d \in Deletions, NEW b, DeletionExplains(d, b),
         pc'[d] = pc[d], doomed'[d] = doomed[d], victim'[d] = victim[d],
         failures'[d] = failures[d]
  PROVE  DeletionExplains(d, b)'
BY DEF DeletionExplains, Hashes, FileNumbers

(* A step of an upload that takes no document away: what it explained       *)
(* before, it explains or references after.                                 *)
LEMMA UploadLeak ==
  ASSUME ControlInv, LeakInv, NEW u \in Uploads,
         UNCHANGED <<doomed, victim, failures>>,
         \A d \in Deletions : pc'[d] = pc[d],
         \A v \in Uploads \ {u} : pc'[v] = pc[v] /\ next'[v] = next[v],
         uploads \subseteq uploads',
         \A b \in disk : UploadExplains(u, b) =>
                           UploadExplains(u, b)' \/ Referenced(b)',
         \A b \in disk' \ disk : UploadExplains(u, b)'
  PROVE  LeakInv'
<1> SUFFICES ASSUME NEW b \in disk' PROVE Explained(b)'
  BY DEF LeakInv
<1>1. CASE b \notin disk
  BY <1>1 DEF Explained
<1>2. CASE b \in disk
  <2>1. Explained(b)
    BY <1>2 DEF LeakInv
  <2>2. CASE Referenced(b)
    BY <2>2 DEF Referenced, Explained, Hashes, FileNumbers
  <2>3. ASSUME NEW v \in Uploads, UploadExplains(v, b) PROVE Explained(b)'
    <3>1. CASE v = u
      BY <1>2, <2>3, <3>1 DEF Explained
    <3>2. CASE v # u
      BY <2>3, <3>2, UploadExplainsSame DEF Explained
    <3> QED
      BY <3>1, <3>2
  <2>4. ASSUME NEW d \in Deletions, DeletionExplains(d, b) PROVE Explained(b)'
    BY <2>4, DeletionExplainsSame DEF Explained
  <2> QED
    BY <2>1, <2>2, <2>3, <2>4 DEF Explained
<1> QED
  BY <1>1, <1>2

(* A step of a deletion: the documents it takes away and what it explained  *)
(* before, it explains after.                                               *)
LEMMA DeletionLeak ==
  ASSUME ControlInv, LeakInv, NEW d \in Deletions,
         UNCHANGED next,
         \A u \in Uploads : pc'[u] = pc[u],
         \A e \in Deletions \ {d} :
           /\ pc'[e] = pc[e] /\ doomed'[e] = doomed[e]
           /\ victim'[e] = victim[e] /\ failures'[e] = failures[e],
         disk' \subseteq disk,
         \A b \in disk' : DeletionExplains(d, b) =>
                            DeletionExplains(d, b)' \/ Referenced(b)',
         \A b \in disk' : Referenced(b) =>
                            DeletionExplains(d, b)' \/ Referenced(b)'
  PROVE  LeakInv'
<1> SUFFICES ASSUME NEW b \in disk' PROVE Explained(b)'
  BY DEF LeakInv
<1>1. Explained(b)
  BY DEF LeakInv
<1>2. CASE Referenced(b)
  BY <1>2 DEF Explained
<1>3. ASSUME NEW v \in Uploads, UploadExplains(v, b) PROVE Explained(b)'
  BY <1>3, UploadExplainsSame DEF Explained
<1>4. ASSUME NEW e \in Deletions, DeletionExplains(e, b) PROVE Explained(b)'
  <2>1. CASE e = d
    BY <1>4, <2>1 DEF Explained
  <2>2. CASE e # d
    BY <1>4, <2>2, DeletionExplainsSame DEF Explained
  <2> QED
    BY <2>1, <2>2
<1> QED
  BY <1>1, <1>2, <1>3, <1>4 DEF Explained

LEMMA LeakStep ==
  ControlInv /\ StoreInv /\ DoomInv /\ LeakInv /\ [Next]_vars => LeakInv'
<1> SUFFICES ASSUME ControlInv, StoreInv, DoomInv, LeakInv, [Next]_vars
             PROVE  LeakInv'
  OBVIOUS
<1>0. /\ pc \in [Jobs -> UploadPlaces \cup DeletionPlaces \cup Ended]
      /\ next \in [Uploads -> Nat]
      /\ doomed \in [Deletions -> SUBSET Blobs]
      /\ victim \in [Deletions -> SUBSET Blobs]
      /\ failures \in [Deletions -> SUBSET Blobs]
      /\ \A d \in Deletions : d \notin Uploads
  BY DEF ControlInv, TypeOK
<1>f. \A u \in Uploads : FileNumbers(u)' = FileNumbers(u) /\ Hashes(u)' = Hashes(u)
  BY DEF FileNumbers, Hashes
<1> USE DEF At, Goto, work, memory, durable, Jobs
<1>1. ASSUME NEW u \in Uploads, Refuse(u) PROVE LeakInv'
  <2>1. /\ UNCHANGED <<doomed, victim, failures>>
        /\ \A d \in Deletions : pc'[d] = pc[d]
        /\ \A v \in Uploads \ {u} : pc'[v] = pc[v] /\ next'[v] = next[v]
        /\ uploads \subseteq uploads' /\ disk' = disk
    BY <1>0, <1>1 DEF Refuse
  <2>2. pc[u] = "idle"
    BY <1>0, <1>1 DEF Refuse
  <2>3. \A b \in disk : UploadExplains(u, b) => UploadExplains(u, b)'
    BY <1>0, <1>f, <2>2 DEF UploadExplains
  <2> QED
    BY <2>1, <2>3, UploadLeak
<1>2. ASSUME NEW u \in Uploads, Admit(u) PROVE LeakInv'
  <2>1. /\ UNCHANGED <<doomed, victim, failures>>
        /\ \A d \in Deletions : pc'[d] = pc[d]
        /\ \A v \in Uploads \ {u} : pc'[v] = pc[v] /\ next'[v] = next[v]
        /\ uploads \subseteq uploads' /\ disk' = disk
    BY <1>0, <1>2 DEF Admit
  <2>2. pc[u] = "idle"
    BY <1>0, <1>2 DEF Admit
  <2>3. \A b \in disk : UploadExplains(u, b) => UploadExplains(u, b)'
    BY <1>0, <1>f, <2>2 DEF UploadExplains
  <2> QED
    BY <2>1, <2>3, UploadLeak
<1>3. ASSUME NEW u \in Uploads, ReceiveFile(u) PROVE LeakInv'
  <2>1. /\ UNCHANGED <<doomed, victim, failures>>
        /\ \A d \in Deletions : pc'[d] = pc[d]
        /\ \A v \in Uploads \ {u} : pc'[v] = pc[v] /\ next'[v] = next[v]
        /\ uploads \subseteq uploads' /\ disk' = disk
    BY <1>0, <1>3 DEF ReceiveFile
  <2>2. pc[u] = "streaming"
    BY <1>0, <1>3 DEF ReceiveFile
  <2>3. \A b \in disk : UploadExplains(u, b) => UploadExplains(u, b)'
    BY <1>0, <1>f, <2>2 DEF UploadExplains
  <2> QED
    BY <2>1, <2>3, UploadLeak
<1>4. ASSUME NEW u \in Uploads, StreamFails(u) PROVE LeakInv'
  <2>1. /\ UNCHANGED <<doomed, victim, failures>>
        /\ \A d \in Deletions : pc'[d] = pc[d]
        /\ \A v \in Uploads \ {u} : pc'[v] = pc[v] /\ next'[v] = next[v]
        /\ uploads \subseteq uploads' /\ disk' = disk
    BY <1>0, <1>4 DEF StreamFails
  <2>2. pc[u] = "streaming"
    BY <1>0, <1>4 DEF StreamFails
  <2>3. \A b \in disk : UploadExplains(u, b) => UploadExplains(u, b)'
    BY <1>0, <1>f, <2>2 DEF UploadExplains
  <2> QED
    BY <2>1, <2>3, UploadLeak
<1>5. ASSUME NEW u \in Uploads, EndOfStream(u) PROVE LeakInv'
  <2>1. /\ UNCHANGED <<doomed, victim, failures>>
        /\ \A d \in Deletions : pc'[d] = pc[d]
        /\ \A v \in Uploads \ {u} : pc'[v] = pc[v] /\ next'[v] = next[v]
        /\ uploads \subseteq uploads' /\ disk' = disk
    BY <1>0, <1>5 DEF EndOfStream
  <2>2. pc[u] = "streaming"
    BY <1>0, <1>5 DEF EndOfStream
  <2>3. \A b \in disk : UploadExplains(u, b) => UploadExplains(u, b)'
    BY <1>0, <1>f, <2>2 DEF UploadExplains
  <2> QED
    BY <2>1, <2>3, UploadLeak
<1>6. ASSUME NEW u \in Uploads, StartReceive(u) PROVE LeakInv'
  <2>1. /\ UNCHANGED <<doomed, victim, failures>>
        /\ \A d \in Deletions : pc'[d] = pc[d]
        /\ \A v \in Uploads \ {u} : pc'[v] = pc[v] /\ next'[v] = next[v]
        /\ uploads \subseteq uploads' /\ disk' = disk
    BY <1>0, <1>6 DEF StartReceive
  <2>2. pc[u] = "queued"
    BY <1>0, <1>6 DEF StartReceive
  <2>3. \A b \in disk : UploadExplains(u, b) => UploadExplains(u, b)'
    BY <1>0, <1>f, <2>2 DEF UploadExplains
  <2> QED
    BY <2>1, <2>3, UploadLeak
<1>7. ASSUME NEW u \in Uploads, CommitFile(u) PROVE LeakInv'
  <2>1. /\ UNCHANGED <<doomed, victim, failures>>
        /\ \A d \in Deletions : pc'[d] = pc[d]
        /\ \A v \in Uploads \ {u} : pc'[v] = pc[v] /\ next'[v] = next[v]
        /\ uploads \subseteq uploads' /\ disk' = disk
    BY <1>0, <1>7 DEF CommitFile
  <2>2. /\ pc'[u] \in {"dropping", "renaming", "broken"} /\ next'[u] = next[u]
        /\ pc[u] = "committing"
    BY <1>0, <1>7 DEF CommitFile
  <2>3. \A b \in disk : UploadExplains(u, b) => UploadExplains(u, b)'
    BY <1>0, <1>f, <2>2 DEF UploadExplains
  <2> QED
    BY <2>1, <2>3, UploadLeak
<1>8. ASSUME NEW u \in Uploads, DropPart(u) PROVE LeakInv'
  <2>1. /\ UNCHANGED <<doomed, victim, failures>>
        /\ \A d \in Deletions : pc'[d] = pc[d]
        /\ \A v \in Uploads \ {u} : pc'[v] = pc[v] /\ next'[v] = next[v]
        /\ uploads \subseteq uploads'
        /\ disk' \subseteq disk \cup {Files[u][next[u]]}
    BY <1>0, <1>8 DEF DropPart
  <2>2. /\ pc[u] = "dropping" /\ pc'[u] = "committing"
        /\ next'[u] = next[u] + 1 /\ next[u] \in FileNumbers(u) /\ next[u] \in Nat
    BY <1>0, <1>8 DEF DropPart, ControlInv, PlaceInv
  <2>3. \A b \in disk : UploadExplains(u, b) => UploadExplains(u, b)'
    BY <1>f, <2>2 DEF UploadExplains
  <2>4. \A b \in disk' \ disk : UploadExplains(u, b)'
    <3> SUFFICES ASSUME NEW b, b = Files[u][next[u]] PROVE UploadExplains(u, b)'
      BY <2>1
    <3>1. next[u] \in 1 .. next'[u] - 1
      BY <2>2, FilesTyped DEF FileNumbers
    <3>2. b \in Hashes(u)'
      BY <1>f, <2>2 DEF Hashes
    <3> QED
      BY <2>2, <3>1, <3>2 DEF UploadExplains
  <2> QED
    BY <2>1, <2>3, <2>4, UploadLeak
<1>10. ASSUME NEW u \in Uploads, RenamePart(u) PROVE LeakInv'
  <2>1. /\ UNCHANGED <<doomed, victim, failures>>
        /\ \A d \in Deletions : pc'[d] = pc[d]
        /\ \A v \in Uploads \ {u} : pc'[v] = pc[v] /\ next'[v] = next[v]
        /\ uploads \subseteq uploads'
        /\ disk' \subseteq disk \cup {Files[u][next[u]]}
    BY <1>0, <1>10 DEF RenamePart
  <2>2. /\ pc[u] = "renaming" /\ pc'[u] = "committing"
        /\ next'[u] = next[u] + 1 /\ next[u] \in FileNumbers(u) /\ next[u] \in Nat
    BY <1>0, <1>10 DEF RenamePart, ControlInv, PlaceInv
  <2>3. \A b \in disk : UploadExplains(u, b) => UploadExplains(u, b)'
    BY <1>f, <2>2 DEF UploadExplains
  <2>4. \A b \in disk' \ disk : UploadExplains(u, b)'
    <3> SUFFICES ASSUME NEW b, b = Files[u][next[u]] PROVE UploadExplains(u, b)'
      BY <2>1
    <3>1. next[u] \in 1 .. next'[u] - 1
      BY <2>2, FilesTyped DEF FileNumbers
    <3>2. b \in Hashes(u)'
      BY <1>f, <2>2 DEF Hashes
    <3> QED
      BY <2>2, <3>1, <3>2 DEF UploadExplains
  <2> QED
    BY <2>1, <2>3, <2>4, UploadLeak
<1>9. ASSUME NEW u \in Uploads, DropPartFails(u) PROVE LeakInv'
  <2>1. /\ UNCHANGED <<doomed, victim, failures>>
        /\ \A d \in Deletions : pc'[d] = pc[d]
        /\ \A v \in Uploads \ {u} : pc'[v] = pc[v] /\ next'[v] = next[v]
        /\ uploads \subseteq uploads' /\ disk' = disk
    BY <1>0, <1>9 DEF DropPartFails
  <2>2. pc'[u] = "broken"
    BY <1>0, <1>9 DEF DropPartFails
  <2>3. \A b \in disk : UploadExplains(u, b) => UploadExplains(u, b)'
    BY <1>0, <1>f, <2>2 DEF UploadExplains
  <2> QED
    BY <2>1, <2>3, UploadLeak
<1>11. ASSUME NEW u \in Uploads, RenamePartFails(u) PROVE LeakInv'
  <2>1. /\ UNCHANGED <<doomed, victim, failures>>
        /\ \A d \in Deletions : pc'[d] = pc[d]
        /\ \A v \in Uploads \ {u} : pc'[v] = pc[v] /\ next'[v] = next[v]
        /\ uploads \subseteq uploads' /\ disk' = disk
    BY <1>0, <1>11 DEF RenamePartFails
  <2>2. pc'[u] = "broken"
    BY <1>0, <1>11 DEF RenamePartFails
  <2>3. \A b \in disk : UploadExplains(u, b) => UploadExplains(u, b)'
    BY <1>0, <1>f, <2>2 DEF UploadExplains
  <2> QED
    BY <2>1, <2>3, UploadLeak
<1>13. ASSUME NEW u \in Uploads, InsertDocumentFails(u) PROVE LeakInv'
  <2>1. /\ UNCHANGED <<doomed, victim, failures>>
        /\ \A d \in Deletions : pc'[d] = pc[d]
        /\ \A v \in Uploads \ {u} : pc'[v] = pc[v] /\ next'[v] = next[v]
        /\ uploads \subseteq uploads' /\ disk' = disk
    BY <1>0, <1>13 DEF InsertDocumentFails
  <2>2. pc'[u] = "broken"
    BY <1>0, <1>13 DEF InsertDocumentFails
  <2>3. \A b \in disk : UploadExplains(u, b) => UploadExplains(u, b)'
    BY <1>0, <1>f, <2>2 DEF UploadExplains
  <2> QED
    BY <2>1, <2>3, UploadLeak
<1>12. ASSUME NEW u \in Uploads, InsertDocument(u) PROVE LeakInv'
  <2>1. /\ UNCHANGED <<doomed, victim, failures>>
        /\ \A d \in Deletions : pc'[d] = pc[d]
        /\ \A v \in Uploads \ {u} : pc'[v] = pc[v] /\ next'[v] = next[v]
        /\ uploads \subseteq uploads' /\ disk' = disk /\ u \in uploads'
    BY <1>0, <1>12 DEF InsertDocument
  <2>2. \A b \in disk : UploadExplains(u, b) => Referenced(b)'
    BY <1>f, <2>1 DEF UploadExplains, Referenced
  <2> QED
    BY <2>1, <2>2, UploadLeak
<1>14. ASSUME NEW u \in Uploads, storage_release(u) PROVE LeakInv'
  <2>1. /\ UNCHANGED <<doomed, victim, failures>>
        /\ \A d \in Deletions : pc'[d] = pc[d]
        /\ \A v \in Uploads \ {u} : pc'[v] = pc[v] /\ next'[v] = next[v]
        /\ uploads \subseteq uploads' /\ disk' = disk
    BY <1>0, <1>14 DEF storage_release
  <2>2. pc'[u] = Answer[pc[u]] /\ pc[u] \in {"landed", "aborted", "broken"}
    BY <1>0, <1>14 DEF storage_release
  <2>3. \A b \in disk : UploadExplains(u, b) => UploadExplains(u, b)'
    BY <1>0, <1>f, <2>2 DEF UploadExplains, Answer
  <2> QED
    BY <2>1, <2>3, UploadLeak
<1>15. ASSUME NEW u \in Uploads, SweepParts(u) PROVE LeakInv'
  <2>1. /\ UNCHANGED <<doomed, victim, failures>>
        /\ \A d \in Deletions : pc'[d] = pc[d]
        /\ \A v \in Uploads \ {u} : pc'[v] = pc[v] /\ next'[v] = next[v]
        /\ uploads \subseteq uploads' /\ disk' = disk
    BY <1>0, <1>15 DEF SweepParts
  <2>2. pc'[u] = "failed"
    BY <1>0, <1>15 DEF SweepParts
  <2>3. \A b \in disk : UploadExplains(u, b) => UploadExplains(u, b)'
    BY <1>0, <1>f, <2>2 DEF UploadExplains
  <2> QED
    BY <2>1, <2>3, UploadLeak
<1>16. ASSUME NEW d \in Deletions, RequestDelete(d) PROVE LeakInv'
  <2>1. /\ UNCHANGED next /\ disk' \subseteq disk
        /\ \A u \in Uploads : pc'[u] = pc[u]
        /\ \A e \in Deletions \ {d} :
             /\ pc'[e] = pc[e] /\ doomed'[e] = doomed[e]
             /\ victim'[e] = victim[e] /\ failures'[e] = failures[e]
    BY <1>0, <1>16 DEF RequestDelete
  <2>2. \A c \in disk' : DeletionExplains(d, c) => DeletionExplains(d, c)'
    BY <1>0, <1>16, <1>f DEF RequestDelete, DeletionExplains
  <2>3. \A c \in disk' : Referenced(c) => Referenced(c)'
    BY <1>16, <1>f DEF RequestDelete, Referenced
  <2> QED
    BY <2>1, <2>2, <2>3, DeletionLeak
<1>17. ASSUME NEW d \in Deletions, FindAndDelete(d) PROVE LeakInv'
  <2>1. /\ UNCHANGED next /\ disk' \subseteq disk
        /\ \A u \in Uploads : pc'[u] = pc[u]
        /\ \A e \in Deletions \ {d} :
             /\ pc'[e] = pc[e] /\ doomed'[e] = doomed[e]
             /\ victim'[e] = victim[e] /\ failures'[e] = failures[e]
    BY <1>0, <1>17 DEF FindAndDelete
  <2>2. /\ pc[d] = "queued" /\ victim'[d] = victim[d] /\ failures'[d] = failures[d]
        /\ \/ /\ uploads' = uploads \ {Target[d]}
              /\ doomed'[d] = Hashes(Target[d])
           \/ uploads' = uploads /\ doomed'[d] = doomed[d]
    BY <1>0, <1>17 DEF FindAndDelete
  <2>3. doomed[d] = {}
    BY <2>2 DEF DoomInv
  <2>4. \A c \in disk' : DeletionExplains(d, c) => DeletionExplains(d, c)'
    BY <2>2, <2>3 DEF DeletionExplains
  <2>5. \A c \in disk' : Referenced(c) => DeletionExplains(d, c)' \/ Referenced(c)'
    BY <1>f, <2>2 DEF DeletionExplains, Referenced
  <2> QED
    BY <2>1, <2>4, <2>5, DeletionLeak
<1>18. ASSUME NEW d \in Deletions, FindAndDeleteFails(d) PROVE LeakInv'
  <2>1. /\ UNCHANGED next /\ disk' \subseteq disk
        /\ \A u \in Uploads : pc'[u] = pc[u]
        /\ \A e \in Deletions \ {d} :
             /\ pc'[e] = pc[e] /\ doomed'[e] = doomed[e]
             /\ victim'[e] = victim[e] /\ failures'[e] = failures[e]
    BY <1>0, <1>18 DEF FindAndDeleteFails
  <2>2. /\ pc[d] = "queued" /\ pc'[d] = "error" /\ doomed'[d] = doomed[d]
        /\ victim'[d] = victim[d] /\ failures'[d] = failures[d]
        /\ uploads' \in {uploads, uploads \ {Target[d]}}
    BY <1>0, <1>18 DEF FindAndDeleteFails
  <2>3. Hashes(Target[d])' = Hashes(Target[d])
    BY <1>f
  <2>4. \A c \in disk' : DeletionExplains(d, c) => DeletionExplains(d, c)'
    BY <2>2, <2>3 DEF DeletionExplains
  <2>5. \A c \in disk' : Referenced(c) => DeletionExplains(d, c)' \/ Referenced(c)'
    BY <1>f, <2>2, <2>3 DEF DeletionExplains, Referenced
  <2> QED
    BY <2>1, <2>4, <2>5, DeletionLeak
<1>19. ASSUME NEW d \in Deletions, NEW b \in Blobs, CheckReference(d, b) PROVE LeakInv'
  <2>1. /\ UNCHANGED next /\ disk' \subseteq disk
        /\ \A u \in Uploads : pc'[u] = pc[u]
        /\ \A e \in Deletions \ {d} :
             /\ pc'[e] = pc[e] /\ doomed'[e] = doomed[e]
             /\ victim'[e] = victim[e] /\ failures'[e] = failures[e]
    BY <1>0, <1>19 DEF CheckReference
  <2>2. /\ pc[d] = "cleaning" /\ doomed'[d] = doomed[d] \ {b}
        /\ failures'[d] = failures[d] /\ UNCHANGED <<uploads, disk, filesInStorage256>>
        /\ \/ (Referenced(b) \/ b \notin filesInStorage256) /\ victim'[d] = victim[d]
           \/ victim'[d] = {b}
        /\ up
    BY <1>0, <1>19 DEF CheckReference
  <2>3. victim[d] = {} /\ disk \subseteq filesInStorage256
    BY <2>2 DEF DoomInv, StoreInv, IndexInv
  <2>4. \A c \in disk' : Referenced(c) => Referenced(c)'
    BY <1>f, <2>2 DEF Referenced
  <2>5. \A c \in disk' : DeletionExplains(d, c) =>
                           DeletionExplains(d, c)' \/ Referenced(c)'
    <3> SUFFICES ASSUME NEW c \in disk', DeletionExplains(d, c), ~Referenced(c)
                 PROVE  DeletionExplains(d, c)'
      BY <2>4
    <3>1. c \in doomed[d] \cup failures[d] /\ c \in filesInStorage256
      BY <2>2, <2>3 DEF DeletionExplains
    <3>2. c \in doomed'[d] \cup victim'[d] \cup failures'[d]
      BY <2>2, <3>1
    <3> QED
      BY <3>2 DEF DeletionExplains
  <2> QED
    BY <2>1, <2>4, <2>5, DeletionLeak
<1>20. ASSUME NEW d \in Deletions, NEW b \in Blobs, CheckReferenceFails(d, b) PROVE LeakInv'
  <2>1. /\ UNCHANGED next /\ disk' \subseteq disk
        /\ \A u \in Uploads : pc'[u] = pc[u]
        /\ \A e \in Deletions \ {d} :
             /\ pc'[e] = pc[e] /\ doomed'[e] = doomed[e]
             /\ victim'[e] = victim[e] /\ failures'[e] = failures[e]
    BY <1>0, <1>20 DEF CheckReferenceFails
  <2>2. /\ pc[d] = "cleaning" /\ doomed'[d] = doomed[d] \ {b}
        /\ failures'[d] = failures[d] \cup {b} /\ victim'[d] = victim[d]
    BY <1>0, <1>20 DEF CheckReferenceFails
  <2>4. \A c \in disk' : DeletionExplains(d, c) => DeletionExplains(d, c)'
    BY <2>2 DEF DeletionExplains
  <2>3. \A c \in disk' : Referenced(c) => Referenced(c)'
    BY <1>20, <1>f DEF CheckReferenceFails, Referenced
  <2> QED
    BY <2>1, <2>3, <2>4, DeletionLeak
<1>21. ASSUME NEW d \in Deletions, UnlinkBlob(d) PROVE LeakInv'
  <2>1. /\ UNCHANGED next /\ disk' \subseteq disk
        /\ \A u \in Uploads : pc'[u] = pc[u]
        /\ \A e \in Deletions \ {d} :
             /\ pc'[e] = pc[e] /\ doomed'[e] = doomed[e]
             /\ victim'[e] = victim[e] /\ failures'[e] = failures[e]
    BY <1>0, <1>21 DEF UnlinkBlob
  <2>2. /\ pc[d] = "unlinking" /\ doomed'[d] = doomed[d]
        /\ failures'[d] = failures[d] /\ victim'[d] = victim[d]
    BY <1>0, <1>21 DEF UnlinkBlob
  <2>4. \A c \in disk' : DeletionExplains(d, c) => DeletionExplains(d, c)'
    BY <2>2 DEF DeletionExplains
  <2>3. \A c \in disk' : Referenced(c) => Referenced(c)'
    BY <1>21, <1>f DEF UnlinkBlob, Referenced
  <2> QED
    BY <2>1, <2>3, <2>4, DeletionLeak
<1>22. ASSUME NEW d \in Deletions, UnlinkBlobFails(d) PROVE LeakInv'
  <2>1. /\ UNCHANGED next /\ disk' \subseteq disk
        /\ \A u \in Uploads : pc'[u] = pc[u]
        /\ \A e \in Deletions \ {d} :
             /\ pc'[e] = pc[e] /\ doomed'[e] = doomed[e]
             /\ victim'[e] = victim[e] /\ failures'[e] = failures[e]
    BY <1>0, <1>22 DEF UnlinkBlobFails
  <2>2. /\ pc[d] = "unlinking" /\ doomed'[d] = doomed[d]
        /\ failures'[d] = failures[d] \cup victim[d]
    BY <1>0, <1>22 DEF UnlinkBlobFails
  <2>4. \A c \in disk' : DeletionExplains(d, c) => DeletionExplains(d, c)'
    BY <2>2 DEF DeletionExplains
  <2>3. \A c \in disk' : Referenced(c) => Referenced(c)'
    BY <1>22, <1>f DEF UnlinkBlobFails, Referenced
  <2> QED
    BY <2>1, <2>3, <2>4, DeletionLeak
<1>23. ASSUME NEW d \in Deletions, ForgetBlob(d) PROVE LeakInv'
  <2>1. /\ UNCHANGED next /\ disk' \subseteq disk
        /\ \A u \in Uploads : pc'[u] = pc[u]
        /\ \A e \in Deletions \ {d} :
             /\ pc'[e] = pc[e] /\ doomed'[e] = doomed[e]
             /\ victim'[e] = victim[e] /\ failures'[e] = failures[e]
    BY <1>0, <1>23 DEF ForgetBlob
  <2>2. /\ pc[d] = "forgetting" /\ doomed'[d] = doomed[d]
        /\ failures'[d] = failures[d] /\ disk' = disk
    BY <1>0, <1>23 DEF ForgetBlob
  <2>5. victim[d] \cap disk = {}
    BY <2>2 DEF StoreInv, VictimInv
  <2>4. \A c \in disk' : DeletionExplains(d, c) => DeletionExplains(d, c)'
    BY <2>2, <2>5 DEF DeletionExplains
  <2>3. \A c \in disk' : Referenced(c) => Referenced(c)'
    BY <1>23, <1>f DEF ForgetBlob, Referenced
  <2> QED
    BY <2>1, <2>3, <2>4, DeletionLeak
<1>24. ASSUME NEW d \in Deletions, FinishDelete(d) PROVE LeakInv'
  <2>1. /\ UNCHANGED next /\ disk' \subseteq disk
        /\ \A u \in Uploads : pc'[u] = pc[u]
        /\ \A e \in Deletions \ {d} :
             /\ pc'[e] = pc[e] /\ doomed'[e] = doomed[e]
             /\ victim'[e] = victim[e] /\ failures'[e] = failures[e]
    BY <1>0, <1>24 DEF FinishDelete
  <2>2. /\ pc[d] = "cleaning" /\ doomed'[d] = doomed[d]
        /\ failures'[d] = failures[d] /\ victim'[d] = victim[d]
    BY <1>0, <1>24 DEF FinishDelete
  <2>4. \A c \in disk' : DeletionExplains(d, c) => DeletionExplains(d, c)'
    BY <2>2 DEF DeletionExplains
  <2>3. \A c \in disk' : Referenced(c) => Referenced(c)'
    BY <1>24, <1>f DEF FinishDelete, Referenced
  <2> QED
    BY <2>1, <2>3, <2>4, DeletionLeak
<1>25. CASE Crash
  <2>1. UNCHANGED <<failures, disk, uploads>>
    BY <1>25 DEF Crash
  <2>2. \A j \in Jobs : pc'[j] = IF pc[j] \in Ended \cup {"idle"} THEN pc[j]
                                 ELSE "lost"
    BY <1>25 DEF Crash
  <2> SUFFICES ASSUME NEW b \in disk PROVE Explained(b)'
    BY <2>1 DEF LeakInv
  <2>3. Explained(b)
    BY DEF LeakInv
  <2>4. CASE Referenced(b)
    BY <1>f, <2>1, <2>4 DEF Explained, Referenced
  <2>5. ASSUME NEW u \in Uploads, UploadExplains(u, b) PROVE Explained(b)'
    <3>1. pc'[u] \in {"failed", "lost"}
      BY <2>2, <2>5 DEF UploadExplains, Ended
    <3> QED
      BY <1>f, <2>5, <3>1 DEF UploadExplains, Explained
  <2>6. ASSUME NEW d \in Deletions, DeletionExplains(d, b) PROVE Explained(b)'
    <3>1. Hashes(Target[d])' = Hashes(Target[d])
      BY <1>f
    <3>2. CASE b \in failures[d]
      BY <2>1, <3>2 DEF DeletionExplains, Explained
    <3>3. CASE b \in doomed[d] \cup victim[d]
      <4>1. b \in Hashes(Target[d]) /\ pc[d] \in {"cleaning", "unlinking", "forgetting"}
        BY <3>3 DEF DoomInv
      <4>2. pc'[d] = "lost"
        BY <2>2, <4>1 DEF Ended
      <4> QED
        BY <3>1, <4>1, <4>2 DEF DeletionExplains, Explained
    <3>4. CASE pc[d] \in {"error", "lost"} /\ b \in Hashes(Target[d])
      <4>1. pc'[d] = pc[d]
        BY <2>2, <3>4 DEF Ended
      <4> QED
        BY <3>1, <3>4, <4>1 DEF DeletionExplains, Explained
    <3> QED
      BY <2>6, <3>2, <3>3, <3>4 DEF DeletionExplains
  <2> QED
    BY <2>3, <2>4, <2>5, <2>6 DEF Explained
<1>26. CASE initStorage \/ UNCHANGED vars
  <2>1. UNCHANGED <<pc, next, doomed, victim, failures, disk, uploads>>
    BY <1>26 DEF initStorage, vars
  <2> SUFFICES ASSUME NEW b \in disk PROVE Explained(b)'
    BY <2>1 DEF LeakInv
  <2>2. Explained(b)
    BY DEF LeakInv
  <2>3. Referenced(b) => Referenced(b)'
    BY <1>f, <2>1 DEF Referenced
  <2>4. \A u \in Uploads : UploadExplains(u, b) => UploadExplains(u, b)'
    BY <2>1, UploadExplainsSame
  <2>5. \A d \in Deletions : DeletionExplains(d, b) => DeletionExplains(d, b)'
    BY <2>1, DeletionExplainsSame
  <2> QED
    BY <2>2, <2>3, <2>4, <2>5 DEF Explained
<1> QED
  BY <1>1, <1>2, <1>3, <1>4, <1>5, <1>6, <1>7, <1>8, <1>9, <1>10, <1>11,
     <1>12, <1>13, <1>14, <1>15, <1>16, <1>17, <1>18, <1>19, <1>20, <1>21,
     <1>22, <1>23, <1>24, <1>25, <1>26
     DEF Next, UploadStep, DeletionStep

(* No blob leaks silently: each one on disk that no document names belongs  *)
(* to an upload or a deletion that is under way, was answered with an error *)
(* or was cut short by a crash, whatever else happened meanwhile.           *)
THEOREM UnreferencedBlobExplainedHolds == Spec => []UnreferencedBlobExplained
<1> DEFINE I == ControlInv /\ StoreInv /\ DoomInv /\ LeakInv
<1>1. Init => I
  BY ControlInit, StoreInit, DoomInit, LeakInit
<1>2. I /\ [Next]_vars => I'
  BY ControlStep, StoreStep, DoomStep, LeakStep
<1>3. I => UnreferencedBlobExplained
  BY DEF LeakInv, Explained, UploadExplains, DeletionExplains,
         UnreferencedBlobExplained
<1> HIDE DEF I
<1> QED
  BY <1>1, <1>2, <1>3, PTL DEF Spec

=============================================================================
