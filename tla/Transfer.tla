------------------------------- MODULE Transfer -------------------------------
(***************************************************************************)
(* The bytes of an upload on their way to the server and back: the body    *)
(* the page builds (lib/upload/uploader.ts), its splitting into parts      *)
(* (stream.ts), and the ranges they are downloaded in (httpHeaders.ts,     *)
(* getUploadHandler of api.ts).                                            *)
(*                                                                         *)
(* A byte is named by its file and its place in it, so that content tells  *)
(* one byte from every other, and a hash is the content itself.  The body  *)
(* arrives in packets cut anywhere, and it may stop or go on too long; the *)
(* sizes and hashes that were announced may be wrong.  A download may be   *)
(* cut anywhere and taken up again with a range; the file is also asked    *)
(* about with HEAD, or read to be shown in a page; and the counter is      *)
(* raised later than the answer, if the database lets it.                  *)
(***************************************************************************)
EXTENDS Integers, Sequences, FiniteSets, SequencesExt, FiniteSetsExt

CONSTANTS
  Sizes,      \* the sizes of the files, in their order
  HashChunk,  \* HASH_CHUNK_BYTES
  HeadBytes,  \* HEAD_BYTES
  Packets,    \* lengths of the packets of the body
  MaxCuts     \* bound: requests for the file

VARIABLES
  announced, \* X-Meta: the sizes and hashes of the files
  body,      \* the bytes not yet arrived
  phase,     \* "receiving", "stored" or "refused"
  packet,    \* the part of the current packet that is still to be written
  part,      \* the open part: [bytes, head, left], or Closed
  received,  \* the parts that are complete: [content, head]
  disk,      \* parts in the directory of incoming files
  got, cuts,  \* the client's bytes of the file, and the requests it made
  stat_dl,    \* downloads counted
  counting,   \* increments of it that were not awaited and are under way
  begun,      \* history: downloads begun from nothing
  lost        \* history: increments that failed

tvars == <<announced, body, phase, packet, part, received, disk, got, cuts,
           stat_dl, counting, begun, lost>>
upload == <<announced, body, phase, packet, part, received, disk>>
download == <<got, cuts, stat_dl, counting, begun, lost>>

Numbers == 1..Len(Sizes)
Content(i) == [n \in 1..Sizes[i] |-> <<i, n>>]
Total(sizes) == FoldLeft(+, 0, sizes)
Closed == [bytes |-> <<>>, head |-> <<>>, left |-> -1]

(***************************************************************************)
(* The page.                                                               *)
(***************************************************************************)

(* hashFileSha256: the hasher is fed slice by slice. *)
hashFileSha256(file) ==
  FoldLeft(LAMBDA hashed, offset :
             hashed \o SubSeq(file, offset + 1, IF offset + HashChunk < Len(file)
                                                THEN offset + HashChunk ELSE Len(file)),
           <<>>, [k \in 1..((Len(file) + HashChunk - 1) \div HashChunk) |-> (k - 1) * HashChunk])

createFileEntry(file) == [bytes |-> Len(file), sha256 |-> hashFileSha256(file)]

(* What the page announces, or what another client may: one file shorter   *)
(* or longer than it is, or two hashes exchanged.                          *)
Announcements ==
  LET true == [i \in Numbers |-> createFileEntry(Content(i))]
      i == 1
      j == Len(Sizes)
  IN {true, [true EXCEPT ![j].bytes = @ + 1],
      [true EXCEPT ![i].sha256 = true[j].sha256, ![j].sha256 = true[i].sha256]}
     \cup (IF Sizes[i] > 0 THEN {[true EXCEPT ![i].bytes = @ - 1]} ELSE {})

(* sendUpload: the body is the files one after the other. *)
Sent == FoldLeft(LAMBDA all, i : all \o Content(i), <<>>, [i \in Numbers |-> i])

(* How much of each file is behind the bytes that have left.               *)
createUploadProgress(bytes) ==
  [i \in Numbers |->
     LET offset == Total(SubSeq(Sizes, 1, i - 1))
     IN Max({0, Min({Sizes[i], bytes - offset})})]

(***************************************************************************)
(* Receiving.                                                              *)
(***************************************************************************)

openNext(i) == [bytes |-> <<>>, head |-> <<>>, left |-> announced[i].bytes]

TInit ==
  /\ announced \in Announcements
  /\ body = Sent
  /\ phase = "receiving" /\ packet = <<>>
  /\ part = openNext(1) /\ received = <<>> /\ disk = 1
  /\ got = <<>> /\ cuts = 0 /\ stat_dl = 0 /\ counting = 0 /\ begun = 0 /\ lost = 0

(* The next packet, once the last one was written. *)
Packet(n) ==
  /\ phase = "receiving" /\ packet = <<>> /\ part.left # 0
  /\ n =< Len(body)
  /\ packet' = SubSeq(body, 1, n)
  /\ body' = SubSeq(body, n + 1, Len(body))
  /\ UNCHANGED <<announced, phase, part, received, disk, download>>

(* As much of the packet as the open part is short of. *)
Taken == Min({part.left, Len(packet)})

WriteChunk ==
  /\ phase = "receiving" /\ packet # <<>> /\ part.left > 0
  /\ part' = [bytes |-> part.bytes \o SubSeq(packet, 1, Taken),
               head |-> part.head \o SubSeq(packet, 1, Min({Taken, HeadBytes - Len(part.head)})),
               left |-> part.left - Taken]
  /\ packet' = SubSeq(packet, Taken + 1, Len(packet))
  /\ UNCHANGED <<announced, body, phase, received, disk, download>>

(* Mutant of HashMatches: the length is enough. *)
LengthMatches(bytes, entry) == Len(bytes) = entry.bytes

HashMatches(bytes, entry) == bytes = entry.sha256

(* finishCompleted: also parts of no bytes at all. *)
finishCompleted ==
  LET i == Len(received) + 1
  IN
  /\ phase = "receiving" /\ part.left = 0
  /\ HashMatches(part.bytes, announced[i])
  /\ received' = Append(received, [content |-> part.bytes, head |-> part.head])
  /\ IF i < Len(announced) THEN part' = openNext(i + 1) /\ disk' = disk + 1
     ELSE part' = Closed /\ UNCHANGED disk
  /\ UNCHANGED <<announced, body, phase, packet, download>>

(* A wrong hash, more bytes than announced, fewer, or a broken connection: *)
(* every part is removed.                                                  *)
Refused ==
  \/ part.left = 0 /\ ~HashMatches(part.bytes, announced[Len(received) + 1])
  \/ part = Closed /\ packet # <<>>
  \/ packet = <<>> /\ (part.left > 0 \/ (part.left < 0 /\ body # <<>>))

Refuse ==
  /\ phase = "receiving" /\ Refused
  /\ phase' = "refused" /\ part' = Closed /\ received' = <<>> /\ disk' = 0
  /\ UNCHANGED <<announced, body, packet, download>>

EndOfBody ==
  /\ phase = "receiving" /\ part = Closed /\ packet = <<>> /\ body = <<>>
  /\ phase' = "stored"
  /\ UNCHANGED <<announced, body, packet, part, received, disk, download>>

(***************************************************************************)
(* Downloading the first file.                                             *)
(***************************************************************************)

None == [start |-> 0, end |-> -1]  \* no range in the request
Invalid == [start |-> -1, end |-> -2]

(* parseByteRange of "bytes=first-last", -1 for a number left out. *)
parseByteRange(first, last, size) ==
  LET requestedEnd == IF last >= 0 THEN last ELSE size - 1
  IN CASE size = 0 \/ (first < 0 /\ last =< 0) -> Invalid
       [] size > 0 /\ first < 0 /\ last > 0 -> [start |-> Max({0, size - last}), end |-> size - 1]
       [] size > 0 /\ first >= 0 ->
            IF first >= size \/ requestedEnd < first THEN Invalid
            ELSE [start |-> first, end |-> Min({requestedEnd, size - 1})]

(* createFileReadStream: both ends are part of a range. *)
Slice(file, range) ==
  IF range = None THEN file ELSE SubSeq(file, range.start + 1, range.end + 1)

(* getUploadHandler: 200 and the file, 206 and a part of it, or 416; the   *)
(* Content-Length that goes with it, and whether it counts as a download:  *)
(* of the whole file, asked for as one (dl=1), and not with HEAD.          *)
getUploadHandler(file, method, dl, range) ==
  [status |-> IF range = Invalid THEN 416 ELSE IF range = None THEN 200 ELSE 206,
   length |-> IF range = None THEN Len(file) ELSE range.end - range.start + 1,
   bytes |-> IF range = Invalid \/ method = "HEAD" THEN <<>> ELSE Slice(file, range),
   counts |-> dl /\ range = None /\ method = "GET"]

(* A download from the start, one that is taken up where it was cut, or a  *)
(* page that shows the file, of which some or all arrives.                 *)
Download(method, dl) ==
  LET file == received[1].content
      range == IF got = <<>> THEN None ELSE parseByteRange(Len(got), -1, Len(file))
      answer == getUploadHandler(file, method, dl, range)
  IN
  /\ phase = "stored" /\ Len(got) < Len(file) /\ cuts < MaxCuts
  /\ cuts' = cuts + 1
  /\ IF dl THEN \E n \in 0..Len(answer.bytes) : got' = got \o SubSeq(answer.bytes, 1, n)
     ELSE UNCHANGED got
  /\ counting' = counting + (IF answer.counts THEN 1 ELSE 0)
  /\ begun' = begun + (IF dl /\ method # "HEAD" /\ got = <<>> THEN 1 ELSE 0)
  /\ UNCHANGED <<upload, stat_dl, lost>>

(* The database raises the number, or the failure is only logged. *)
incrementFileDownload ==
  /\ counting > 0
  /\ counting' = counting - 1
  /\ \/ stat_dl' = stat_dl + 1 /\ UNCHANGED lost
     \/ lost' = lost + 1 /\ UNCHANGED stat_dl
  /\ UNCHANGED <<upload, got, cuts, begun>>

TNext ==
  \/ \E n \in Packets : Packet(n)
  \/ WriteChunk \/ finishCompleted \/ Refuse \/ EndOfBody
  \/ \E method \in {"GET", "HEAD"}, dl \in BOOLEAN : Download(method, dl)
  \/ incrementFileDownload

-----------------------------------------------------------------------------
(* Properties.                                                             *)

Prefix(s, t) == s = SubSeq(t, 1, Len(s)) /\ Len(s) =< Len(t)

(* What is stored is what was announced, which for an honest page is what  *)
(* was chosen, however the packets were cut; the sample is the beginning   *)
(* of the file; a refused body leaves no part behind.                      *)
StoredAsSent ==
  /\ \A i \in 1..Len(received) :
       /\ received[i].content = Content(i)
       /\ Prefix(received[i].head, received[i].content)
       /\ Len(received[i].head) < HeadBytes => received[i].head = received[i].content
  /\ phase = "stored" => Len(received) = Len(Sizes) /\ disk = Len(Sizes)
  /\ phase = "refused" => disk = 0

(* Whenever the page is told how many bytes have left, each bar shows how  *)
(* many of them were of its own file, and the bar of a part that the       *)
(* server has completed is full.                                           *)
ProgressTrue ==
  \A n \in 0..Len(Sent) :
    LET bars == createUploadProgress(n)
    IN /\ \A i \in Numbers : bars[i] = Cardinality({m \in 1..n : Sent[m][1] = i})
       /\ n >= Len(Sent) - Len(body) =>
            \A i \in 1..Len(received) : bars[i] = Len(received[i].content)

(* Every range that can be asked for is answered with exactly the bytes    *)
(* and the length it names, inside the file.                               *)
RangesExact ==
  phase = "stored" =>
    \A i \in Numbers, first, last \in -1..3 :
      LET file == received[i].content
          range == parseByteRange(first, last, Len(file))
          answer == getUploadHandler(file, "GET", FALSE, range)
          wanted == {n \in 1..Len(file) :
                       IF first >= 0 THEN n > first /\ (last >= 0 => n =< last + 1)
                       ELSE n > Len(file) - last}
      IN /\ (answer.status = 416) = (wanted = {})
         /\ answer.length = Len(answer.bytes)
         /\ Range(answer.bytes) = {file[n] : n \in wanted}

(* A download cut and resumed is the file; each that was begun from        *)
(* nothing is counted once unless the increment failed, and nothing else   *)
(* is: no resumption, no HEAD, no file shown in a page.                    *)
DownloadTrue ==
  phase = "stored" =>
    /\ Prefix(got, received[1].content)
    /\ stat_dl + counting + lost = begun

(* From X-Meta over the parts, the progress bars, ranges and resumptions to *)
(* the counted download, the bytes are the ones that were sent.             *)
BytesIntact == StoredAsSent /\ ProgressTrue /\ RangesExact /\ DownloadTrue
=============================================================================
