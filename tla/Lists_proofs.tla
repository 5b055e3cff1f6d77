---------------------------- MODULE Lists_proofs ----------------------------
(***************************************************************************)
(* Safety of what the client lists, for every choice of the constants: the *)
(* tiles of the upload form, the visitor's own uploads, the cards of the   *)
(* public gallery, and the uploads of the admin page.                      *)
(***************************************************************************)
EXTENDS Pages, Library_proofs

(* A step of the composition is one of the page that is open. *)
LEMMA OneOpen ==
  ASSUME [PagesNext]_pagesVars
  PROVE  /\ component' = component
         /\ component = "tray" => [Tray!TrayNext]_(Tray!traytvars)
         /\ component = "history" => [History!HNext]_(History!hvars)
         /\ component = "gallery" => [Gallery!GNext]_(Gallery!gvars)
         /\ component = "admin" => [Admin!ANext]_(Admin!avars)
<1>1. CASE PagesNext
  BY <1>1 DEF PagesNext
<1>2. CASE UNCHANGED pagesVars
  BY <1>2 DEF pagesVars
<1> QED
  BY <1>1, <1>2

-----------------------------------------------------------------------------
(* The tiles of the upload form. *)

(* The operators of the instance are the library's. *)
LEMMA TrayNames ==
  /\ \A s : Tray!ToSet(s) = ToSet(s) /\ Tray!IsInjective(s) = IsInjective(s)
  /\ \A s, r : Tray!RemoveAt(s, r) = RemoveAt(s, r)
  /\ \A s, r, x : Tray!InsertAt(s, r, x) = InsertAt(s, r, x)
  /\ \A S : Tray!Cardinality(S) = Cardinality(S)
<1>1. \A s : Tray!ToSet(s) = ToSet(s)
  BY DEF Tray!ToSet, ToSet
<1>2. \A s : Tray!IsInjective(s) = IsInjective(s)
  BY DEF Tray!IsInjective, IsInjective
<1>3. \A s, r : Tray!RemoveAt(s, r) = RemoveAt(s, r)
  BY DEF Tray!RemoveAt, RemoveAt
<1>4. \A s, r, x : Tray!InsertAt(s, r, x) = InsertAt(s, r, x)
  BY DEF Tray!InsertAt, InsertAt
<1>5. \A S : Tray!Cardinality(S) = Cardinality(S)
  BY DEF Tray!Cardinality, Cardinality, Tray!IsFiniteSet, IsFiniteSet
<1> QED
  BY <1>1, <1>2, <1>3, <1>4, <1>5

LEMMA TrayFiltered == \A s, S : Tray!Filtered(s, S) = Filtered(s, S)
BY Zenon DEF Tray!Filtered, Filtered, Tray!Places, Places, Tray!Rank, Rank, Tray!Cardinality,
   Cardinality, Tray!IsFiniteSet, IsFiniteSet

LEMMA LeastOfTwo ==
  ASSUME NEW i \in Int, NEW j \in Int
  PROVE  /\ Tray!Min({i, j}) = IF i <= j THEN i ELSE j
         /\ Tray!Max({i, j}) = IF i <= j THEN j ELSE i
<1>1. PICK m \in {i, j} : m = (IF i <= j THEN i ELSE j) /\ \A y \in {i, j} : m <= y
  OBVIOUS
<1>2. \A x \in {i, j} : (\A y \in {i, j} : x <= y) => x = m
  BY <1>1
<1>3. Tray!Min({i, j}) = m
  BY <1>1, <1>2 DEF Tray!Min
<1>4. PICK n \in {i, j} : n = (IF i <= j THEN j ELSE i) /\ \A y \in {i, j} : n >= y
  OBVIOUS
<1>5. \A x \in {i, j} : (\A y \in {i, j} : x >= y) => x = n
  BY <1>4
<1>6. Tray!Max({i, j}) = n
  BY <1>4, <1>5 DEF Tray!Max
<1> QED
  BY <1>1, <1>3, <1>4, <1>6

(* The bytes of the first files of an upload, one more of them. *)
LEMMA BytesOfNext ==
  ASSUME Tray!TrayAssumption, NEW s \in Seq(Tray!Files), NEW k \in 1..Len(s)
  PROVE  /\ Tray!FirstBytes(s, k - 1) \in Nat /\ Size[s[k]] \in Nat
         /\ Tray!FirstBytes(s, k) = Tray!FirstBytes(s, k - 1) + Size[s[k]]
<1>1. PICK n \in Nat : n = Len(s) /\ \A i \in 1..n : s[i] \in Tray!Files
  BY SeqFacts
<1>2. \A f \in Tray!Files : Size[f] \in Nat
  BY ElementOfSeq DEF Tray!Files, Tray!TrayAssumption
<1>3. PICK w : w = [i \in 1..n |-> Size[s[i]]]
  OBVIOUS
<1>4. \A i \in 1..n : w[i] = Size[s[i]] /\ w[i] \in Nat
  BY <1>1, <1>2, <1>3
<1>5. k \in Nat /\ k > 0 /\ k \in 1..n /\ \A i \in 1..k : i \in 1..n
  BY <1>1
<1>6. Weight(1 .. k - 1, w) \in Nat /\ Weight(1..k, w) = Weight(1 .. k - 1, w) + w[k]
  BY <1>4, <1>5, WeightOfNext
<1>7. \A S : Tray!Weight(S, w) = Weight(S, w)
  BY TrayNames DEF Tray!Weight, Weight, Tray!Bytes, Bytes
<1>8. \A j : Tray!FirstBytes(s, j) = Weight(1..j, w)
  BY <1>1, <1>3, <1>7 DEF Tray!FirstBytes
<1> QED
  BY <1>4, <1>5, <1>6, <1>8

OrderOnTop == Len(order) <= Len(tray) /\ \A i \in 1..Len(order) : tray[i] = order[i]

(* The numbers shown are those of the files they lie over: the tray is the *)
(* upload's, perhaps with files added after it.                            *)
ProgressTrue ==
  progress # <<>> => progress = Tray!Progressed(loaded) /\ (~moved => OrderOnTop)

TilesInv ==
  /\ tray \in Seq(Tray!Files) /\ order \in Seq(Tray!Files) /\ loaded \in Int
  /\ IsInjective(tray) /\ ToSet(tray) \subseteq picked
  /\ trayUploading => ~done
  /\ trayUploading /\ ~moved => tray = order
  /\ trayUploading \/ done => ToSet(tray) = ToSet(order)
  /\ ProgressTrue

WhenTrayOpen == component = "tray" => TilesInv

LEMMA TilesInvInit == Tray!TrayInit => TilesInv
<1> SUFFICES ASSUME Tray!TrayInit PROVE TilesInv
  OBVIOUS
<1>1. tray = <<>> /\ order = <<>> /\ loaded = 0 /\ progress = <<>> /\ ~trayUploading /\ ~done
  BY DEF Tray!TrayInit
<1>2. <<>> \in Seq(Tray!Files) /\ IsInjective(<<>>) /\ ToSet(<<>>) = {}
  BY DEF IsInjective, ToSet
<1> QED
  BY <1>1, <1>2 DEF TilesInv, ProgressTrue

(* Files that fit are added, in their order. *)
LEMMA AddStep ==
  ASSUME Tray!TrayAssumption, TilesInv,
         NEW f \in Tray!Files \ picked, NEW g \in Tray!Files \ picked,
         Tray!addFiles(IF f = g THEN <<f>> ELSE <<f, g>>)
  PROVE  TilesInv'
<1>1. PICK s : s = IF f = g THEN <<f>> ELSE <<f, g>>
  OBVIOUS
<1>2. s \in Seq(Tray!Files) /\ IsInjective(s) /\ ToSet(s) = {f, g}
  <2>1. CASE f = g
    BY <1>1, <2>1 DEF IsInjective, ToSet
  <2>2. CASE f # g
    BY <1>1, <2>2 DEF IsInjective, ToSet
  <2> QED
    BY <2>1, <2>2
<1>3. PICK fit : fit = Filtered(s, {h \in Tray!Files : Size[h] <= MaxSize})
  OBVIOUS
<1>4. fit \in Seq(Tray!Files) /\ ToSet(fit) \subseteq ToSet(s) /\ IsInjective(fit)
  <2>1. /\ fit \in Seq(Tray!Files)
        /\ ToSet(fit) = ToSet(s) \cap {h \in Tray!Files : Size[h] <= MaxSize}
        /\ IsInjective(s) => IsInjective(fit)
    BY <1>2, <1>3, FilteredSeq
  <2> QED
    BY <1>2, <2>1
<1>5. PICK room \in Nat : room = TrayCount - Len(tray)
  <2>1. Len(tray) \in Nat /\ Len(tray) < TrayCount
    BY SeqFacts DEF TilesInv, Tray!addFiles
  <2>2. TrayCount \in Nat
    BY DEF Tray!TrayAssumption
  <2> QED
    BY <2>1, <2>2
<1>6. PICK n \in Nat : n = Tray!Min({room, Len(fit)}) /\ n <= Len(fit)
  <2>1. Len(fit) \in Nat
    BY <1>4, SeqFacts
  <2> QED
    BY <2>1, LeastOfTwo
<1>7. PICK new : new = SubSeq(fit, 1, n)
  OBVIOUS
<1>8. new \in Seq(Tray!Files) /\ ToSet(new) \subseteq {f, g} /\ IsInjective(new)
  <2>1. 1 \in Nat /\ 1 <= 1 /\ 1 <= n + 1
    OBVIOUS
  <2>2. new \in Seq(Tray!Files)
    BY <1>4, <1>6, <1>7, <2>1, PartOf
  <2>3. IsPart(fit, 1, n, new)
    BY <1>4, <1>6, <1>7, <2>1, PartElements
  <2>4. \A j \in 1..n : fit[j] \in ToSet(fit)
    BY <1>4, <1>6, SeqFacts
  <2> QED
    BY <1>2, <1>4, <2>2, <2>3, <2>4 DEF IsPart
<1>9. tray' = tray \o new
  BY <1>1, <1>3, <1>5, <1>6, <1>7, TrayFiltered DEF Tray!addFiles, Tray!processFiles
<1>10. tray' \in Seq(Tray!Files) /\ IsJoin(tray, new, tray')
  <2>1. PICK t : t = tray'
    OBVIOUS
  <2>2. tray \in Seq(Tray!Files) /\ t = tray \o new
    BY <1>9, <2>1 DEF TilesInv
  <2>3. t \in Seq(Tray!Files) /\ IsJoin(tray, new, t)
    BY <1>8, <2>2, Joined
  <2> QED
    BY <2>1, <2>3
<1>11. picked' = picked \cup {f, g}
  BY <1>1, <1>2, TrayNames DEF Tray!addFiles
<1>12. /\ ~trayUploading /\ ~done /\ order' = order /\ loaded' = loaded /\ progress' = progress
       /\ moved' = moved /\ trayUploading' = trayUploading /\ done' = done
  BY DEF Tray!addFiles, Tray!upload
<1>13. IsInjective(tray') /\ ToSet(tray') \subseteq picked'
  BY <1>8, <1>10, <1>11 DEF TilesInv, IsJoin
<1>14. ProgressTrue'
  <2>1. OrderOnTop => OrderOnTop'
    <3>1. Len(order) \in Nat /\ Len(tray) \in Nat /\ Len(new) \in Nat
      BY <1>8, SeqFacts DEF TilesInv
    <3>2. Len(tray') = Len(tray) + Len(new) /\ \A i \in 1..Len(tray) : tray'[i] = tray[i]
      BY <1>10 DEF IsJoin
    <3> QED
      BY <1>12, <3>1, <3>2 DEF OrderOnTop
  <2>2. Tray!Progressed(loaded)' = Tray!Progressed(loaded)
    BY <1>12 DEF Tray!Progressed, Tray!FirstBytes
  <2> QED
    BY <1>12, <2>1, <2>2 DEF TilesInv, ProgressTrue
<1> QED
  BY <1>10, <1>12, <1>13, <1>14 DEF TilesInv

LEMMA RemoveStep ==
  ASSUME TilesInv, NEW index \in 1..Len(tray), Tray!removeFile(index)
  PROVE  TilesInv'
<1>1. tray' \in Seq(Tray!Files) /\ IsWithout(tray, index, tray')
  <2>1. PICK t : t = tray'
    OBVIOUS
  <2>2. tray \in Seq(Tray!Files) /\ t = RemoveAt(tray, index)
    BY <2>1, TrayNames DEF TilesInv, Tray!removeFile
  <2>3. t \in Seq(Tray!Files) /\ IsWithout(tray, index, t)
    BY <2>2, RemovedAt
  <2> QED
    BY <2>1, <2>3
<1>2. /\ ~trayUploading /\ ~done /\ order' = order /\ loaded' = loaded /\ progress' = <<>>
      /\ trayUploading' = trayUploading /\ done' = done /\ picked' = picked
  BY DEF Tray!removeFile, Tray!upload
<1> QED
  BY <1>1, <1>2 DEF TilesInv, ProgressTrue, IsWithout

(* A move changes the places of the tiles and nothing else about them. *)
LEMMA MoveStep ==
  ASSUME TilesInv, NEW from \in 1..Len(tray), NEW to \in 1..Len(tray), Tray!moveFile(from, to),
         UNCHANGED <<picked, trayUploading, done, order, loaded>>
  PROVE  TilesInv'
<1>1. PICK g : g = RemoveAt(tray, from)
  OBVIOUS
<1>2. tray \in Seq(Tray!Files) /\ tray[from] \in Tray!Files /\ IsInjective(tray)
  BY SeqFacts DEF TilesInv
<1>3. g \in Seq(Tray!Files) /\ IsWithout(tray, from, g)
  BY <1>1, <1>2, RemovedAt
<1>4. to \in 1 .. Len(g) + 1
  <2>1. Len(tray) \in Nat /\ Len(g) = Len(tray) - 1
    BY <1>2, <1>3, SeqFacts DEF IsWithout
  <2> QED
    BY <2>1
<1>5. PICK t : t = InsertAt(g, to, tray[from])
  OBVIOUS
<1>6. /\ t \in Seq(Tray!Files) /\ ToSet(t) = ToSet(g) \cup {tray[from]}
      /\ IsInjective(g) /\ tray[from] \notin ToSet(g) => IsInjective(t)
  BY <1>2, <1>3, <1>4, <1>5, InsertedAt
<1>7. ToSet(t) = ToSet(tray) /\ IsInjective(t)
  BY <1>2, <1>3, <1>6 DEF IsWithout
<1>8. tray' = t /\ progress' = <<>> /\ (trayUploading => moved')
  BY <1>1, <1>5, TrayNames DEF Tray!moveFile
<1> QED
  BY <1>6, <1>7, <1>8 DEF TilesInv, ProgressTrue

LEMMA ReorderMoveStep ==
  ASSUME TilesInv, NEW p, NEW to \in 1..Len(tray), Tray!reorderMove(p, to)
  PROVE  TilesInv'
<1>1. UNCHANGED <<picked, trayUploading, done, order, loaded>>
  BY DEF Tray!reorderMove, Tray!upload
<1>2. CASE pending.armed
  <2>1. PICK I : I = {i \in 1..Len(tray) : tray[i] = pending.tile}
    OBVIOUS
  <2>2. PICK from : from = (IF I # {} THEN Tray!Min(I) ELSE 0)
    OBVIOUS
  <2>3. from # 0 /\ Tray!moveFile(from, to)
    BY <1>2, <2>1, <2>2 DEF Tray!reorderMove, Tray!SelectInSeq
  <2>4. PICK i \in I : TRUE
    BY <2>2, <2>3
  <2>5. \A j \in I : j = i
    <3>1. DOMAIN tray = 1..Len(tray)
      BY SeqFacts DEF TilesInv
    <3> QED
      BY <2>1, <3>1 DEF TilesInv, IsInjective
  <2>6. i \in 1..Len(tray) /\ i <= i
    BY <2>1
  <2>7. Tray!Min(I) = i
    BY <2>5, <2>6 DEF Tray!Min
  <2>8. from \in 1..Len(tray)
    BY <2>2, <2>4, <2>6, <2>7
  <2> QED
    BY <1>1, <2>3, <2>8, MoveStep
<1>3. CASE ~pending.armed
  <2>1. UNCHANGED <<tray, progress, moved>>
    BY <1>3 DEF Tray!reorderMove
  <2> QED
    BY <1>1, <2>1 DEF TilesInv, ProgressTrue, OrderOnTop, Tray!Progressed, Tray!FirstBytes
<1> QED
  BY <1>2, <1>3

LEMMA KeydownStep ==
  ASSUME TilesInv, Tray!TrayAssumption,
         NEW index \in 1..Len(tray), NEW step \in {-1, 1, -Columns, Columns},
         Tray!reorderKeydown(index, step)
  PROVE  TilesInv'
<1>1. PICK n \in Nat : n = Len(tray) /\ 1 <= n
  BY SeqFacts DEF TilesInv
<1>2. index \in Int /\ step \in Int /\ index + step \in Int
  BY <1>1 DEF Tray!TrayAssumption
<1>3. PICK low \in Int : low = Tray!Min({n, index + step}) /\ low <= n
  BY <1>2, LeastOfTwo
<1>4. PICK to \in 1..n : to = Tray!Max({1, low})
  <2>1. 1 \in Int
    OBVIOUS
  <2>2. Tray!Max({1, low}) = IF 1 <= low THEN low ELSE 1
    BY <1>3, <2>1, LeastOfTwo
  <2> QED
    BY <1>1, <1>3, <2>2
<1>5. Tray!moveFile(index, to) /\ UNCHANGED <<picked, trayUploading, done, order, loaded>>
  BY <1>1, <1>3, <1>4 DEF Tray!reorderKeydown, Tray!upload
<1> QED
  BY <1>1, <1>5, MoveStep

(* What leaves the tiles and their numbers alone. *)
LEMMA OtherTrayStep ==
  ASSUME TilesInv, UNCHANGED <<tray, picked, order, loaded, progress, moved>>,
         \/ UNCHANGED <<trayUploading, done>>
         \/ trayUploading /\ trayUploading' = FALSE
  PROVE  TilesInv'
<1>1. ProgressTrue'
  BY DEF TilesInv, ProgressTrue, OrderOnTop, Tray!Progressed, Tray!FirstBytes
<1> QED
  BY <1>1 DEF TilesInv

LEMMA UploadStep ==
  ASSUME TilesInv, Tray!uploadFiles \/ Tray!startNewUpload
  PROVE  TilesInv'
<1>1. CASE Tray!uploadFiles
  BY <1>1 DEF TilesInv, ProgressTrue, Tray!uploadFiles
<1>2. CASE Tray!startNewUpload
  <2>1. <<>> \in Seq(Tray!Files) /\ IsInjective(<<>>) /\ ToSet(<<>>) = {}
    BY DEF IsInjective, ToSet
  <2>2. /\ done /\ done' = FALSE /\ tray' = <<>> /\ progress' = <<>> /\ picked' = picked
        /\ trayUploading' = trayUploading /\ order' = order /\ loaded' = loaded
    BY <1>2 DEF Tray!startNewUpload
  <2> QED
    BY <2>1, <2>2 DEF TilesInv, ProgressTrue
<1> QED
  BY <1>1, <1>2

LEMMA ProgressStep ==
  ASSUME TilesInv, NEW bytes \in Int, Tray!OnProgress(bytes)
  PROVE  TilesInv'
<1>1. /\ trayUploading /\ loaded' = bytes /\ progress' = Tray!Progressed(bytes)
      /\ UNCHANGED <<tray, picked, trayUploading, done, order, moved>>
  BY DEF Tray!OnProgress
<1>2. Tray!Progressed(bytes) = Tray!Progressed(loaded)'
  BY <1>1 DEF Tray!Progressed, Tray!FirstBytes
<1>3. Len(order) \in Nat
  BY SeqFacts DEF TilesInv
<1>4. ~moved => OrderOnTop'
  BY <1>1, <1>3 DEF TilesInv, OrderOnTop
<1>5. ProgressTrue'
  BY <1>1, <1>2, <1>4 DEF ProgressTrue
<1> QED
  BY <1>1, <1>5 DEF TilesInv

LEMMA TilesInvStep ==
  Tray!TrayAssumption /\ TilesInv /\ [Tray!TrayNext]_Tray!traytvars => TilesInv'
<1> SUFFICES ASSUME Tray!TrayAssumption, TilesInv, [Tray!TrayNext]_Tray!traytvars
             PROVE  TilesInv'
  OBVIOUS
<1>1. ASSUME NEW p, NEW index, Tray!reorderStart(p, index) PROVE TilesInv'
  BY <1>1, OtherTrayStep DEF Tray!reorderStart, Tray!upload
<1>2. CASE Tray!HoldFires
  BY <1>2, OtherTrayStep DEF Tray!HoldFires, Tray!upload
<1>3. ASSUME NEW p, Tray!reorderEnd(p) PROVE TilesInv'
  BY <1>3, OtherTrayStep DEF Tray!reorderEnd, Tray!upload
<1>4. CASE Tray!StillPreparing
  BY <1>4, OtherTrayStep DEF Tray!StillPreparing
<1>5. ASSUME NEW ok, Tray!Answered(ok) PROVE TilesInv'
  BY <1>5, OtherTrayStep DEF Tray!Answered
<1>6. ASSUME NEW bytes \in 1..Tray!TotalBytes(order), Tray!OnProgress(bytes) PROVE TilesInv'
  <2>1. bytes \in Int
    OBVIOUS
  <2> QED
    BY <1>6, <2>1, ProgressStep
<1>7. CASE UNCHANGED Tray!traytvars
  BY <1>7, OtherTrayStep DEF Tray!traytvars
<1> QED
  BY <1>1, <1>2, <1>3, <1>4, <1>5, <1>6, <1>7, AddStep, RemoveStep, ReorderMoveStep,
     KeydownStep, UploadStep DEF Tray!TrayNext

(* However tiles are added, removed and moved while they are sent or after *)
(* it: a tile that is said to be uploaded holds a file that is, unless     *)
(* tiles changed places during the upload; none is lost or doubled; and    *)
(* the summary lies over the files that were sent (processFiles, moveFile, *)
(* uploadFiles, createUploadProgress).                                     *)
THEOREM TilesTrueHolds == PagesSpec => []TilesTrue
<1>1. ASSUME Tray!TrayAssumption, TilesInv PROVE Tray!TilesTrue
  <2>1. /\ Len(tray) \in Nat /\ Len(order) \in Nat
    BY <1>1, SeqFacts DEF TilesInv
  <2>2. progress # <<>> => Len(progress) = Len(order)
    BY <1>1, <2>1 DEF TilesInv, ProgressTrue, Tray!Progressed
  <2>3. ASSUME NEW i \in 1..Len(tray), Tray!tileState(i) = "done", ~moved
        PROVE  \E k \in 1..Len(order) : /\ order[k] = tray[i]
                                        /\ Tray!FirstBytes(order, k) <= loaded
    <3>1. i <= Len(progress) /\ Size[order[i]] > 0 /\ progress[i] = Size[order[i]]
      BY <2>3 DEF Tray!tileState
    <3>2. progress # <<>>
      BY <3>1
    <3>3. i \in 1..Len(order) /\ tray[i] = order[i]
      BY <1>1, <2>1, <2>2, <2>3, <3>1, <3>2 DEF TilesInv, ProgressTrue, OrderOnTop
    <3>4. PICK b \in Nat, n \in Nat : b = Tray!FirstBytes(order, i - 1) /\ n = Size[order[i]]
                                     /\ Tray!FirstBytes(order, i) = b + n
      BY <1>1, <3>3, BytesOfNext DEF TilesInv
    <3>5. progress[i] = Tray!Max({0, Tray!Min({n, loaded - b})})
      BY <1>1, <3>2, <3>3, <3>4 DEF TilesInv, ProgressTrue, Tray!Progressed
    <3>6. PICK m \in Int : m = Tray!Min({n, loaded - b}) /\ m <= loaded - b
      <4>1. loaded \in Int /\ loaded - b \in Int
        BY <1>1 DEF TilesInv
      <4> QED
        BY <4>1, LeastOfTwo
    <3>7. Tray!Max({0, m}) = n /\ n > 0
      BY <3>1, <3>4, <3>5, <3>6
    <3>8. m = n
      <4>1. 0 \in Int
        OBVIOUS
      <4>2. Tray!Max({0, m}) = IF 0 <= m THEN m ELSE 0
        BY <3>6, <4>1, LeastOfTwo
      <4> QED
        BY <3>4, <3>6, <3>7, <4>2
    <3>9. b + n <= loaded
      BY <1>1, <3>6, <3>8 DEF TilesInv
    <3> QED
      BY <3>3, <3>4, <3>9
  <2>4. ASSUME trayUploading, ~moved PROVE tray = order /\ Tray!filesDone <= Len(tray)
    <3>1. tray = order
      BY <1>1, <2>4 DEF TilesInv
    <3>2. PICK D : D = {i \in 1..Len(progress) : Size[order[i]] > 0 /\ progress[i] = Size[order[i]]}
      OBVIOUS
    <3>3. Tray!filesDone = Cardinality(D)
      BY <3>2, TrayNames DEF Tray!filesDone, Tray!Quantify
    <3>4. PICK n \in Nat : n = Len(progress) /\ n <= Len(tray)
      <4>1. progress = <<>> => Len(progress) = 0
        OBVIOUS
      <4> QED
        BY <2>1, <2>2, <3>1, <4>1
    <3>5. IsFiniteSet(1..n) /\ Cardinality(1..n) = n
      <4>1. 1 \in Int /\ n \in Int
        OBVIOUS
      <4>2. IsFiniteSet(1..n) /\ Cardinality(1..n) = IF 1 > n THEN 0 ELSE n - 1 + 1
        BY <4>1, FS_Interval
      <4> QED
        BY <4>2
    <3>6. D \in SUBSET (1..n)
      BY <3>2, <3>4
    <3>7. Cardinality(D) <= n /\ Cardinality(D) \in Nat
      BY <3>5, <3>6, FS_Subset, FS_CardinalityType
    <3> QED
      BY <2>1, <3>1, <3>3, <3>4, <3>7
  <2>5. IsInjective(tray) /\ ToSet(tray) \subseteq picked
    BY <1>1 DEF TilesInv
  <2>6. trayUploading \/ done => ToSet(tray) = ToSet(order)
    BY <1>1 DEF TilesInv
  <2> QED
    BY <2>3, <2>4, <2>5, <2>6, TrayNames DEF Tray!TilesTrue
<1>2. PagesAssumption => Tray!TrayAssumption
  BY DEF PagesAssumption
<1>3. WhenTrayOpen => TilesTrue
  BY <1>1, <1>2, PagesAssumption DEF WhenTrayOpen, TilesTrue
<1>4. PagesInit => WhenTrayOpen
  BY TilesInvInit DEF PagesInit, WhenTrayOpen
<1>5. WhenTrayOpen /\ [PagesNext]_pagesVars => WhenTrayOpen'
  BY <1>2, TilesInvStep, PagesAssumption, OneOpen DEF WhenTrayOpen
<1> QED
  BY <1>3, <1>4, <1>5, PTL DEF PagesSpec

-----------------------------------------------------------------------------
(* The visitor's own uploads. *)

LEMMA HistoryNames ==
  /\ \A s : History!ToSet(s) = ToSet(s) /\ History!IsInjective(s) = IsInjective(s)
  /\ \A S : History!Cardinality(S) = Cardinality(S)
<1>1. \A s : History!ToSet(s) = ToSet(s)
  BY DEF History!ToSet, ToSet
<1>2. \A s : History!IsInjective(s) = IsInjective(s)
  BY DEF History!IsInjective, IsInjective
<1>3. \A S : History!Cardinality(S) = Cardinality(S)
  BY DEF History!Cardinality, Cardinality, History!IsFiniteSet, IsFiniteSet
<1> QED
  BY <1>1, <1>2, <1>3

LEMMA HistoryFiltered == \A s, S : History!Filtered(s, S) = Filtered(s, S)
BY Zenon DEF History!Filtered, Filtered, History!Places, Places, History!Rank, Rank,
   History!Cardinality, Cardinality, History!IsFiniteSet, IsFiniteSet

LEMMA HistoryLeast ==
  ASSUME NEW i \in Int, NEW j \in Int
  PROVE  History!Min({i, j}) = IF i <= j THEN i ELSE j
<1>1. PICK m \in {i, j} : m = (IF i <= j THEN i ELSE j) /\ \A y \in {i, j} : m <= y
  OBVIOUS
<1>2. \A x \in {i, j} : (\A y \in {i, j} : x <= y) => x = m
  BY <1>1
<1>3. History!Min({i, j}) = m
  BY <1>1, <1>2 DEF History!Min
<1> QED
  BY <1>1, <1>3

(* The ids at the first n places of a sequence. *)
UpTo(s, n) == {s[j] : j \in {j \in 1..Len(s) : j <= n}}

(* Uploads that other tabs added lie in front of what the page knows. *)
InFront(kept, list) ==
  \E d \in Nat :
    /\ Len(kept) = d + Len(list)
    /\ \A i \in 1..Len(list) : list[i] = kept[d + i]
    /\ \A j \in 1..d : kept[j] \notin Links

ListsTyped(kept, list) ==
  /\ kept \in Seq(History!Ids) /\ IsInjective(kept)
  /\ list \in Seq(History!Ids) /\ IsInjective(list)
  /\ InFront(kept, list)

BatchFields == {"n", "ids", "next", "items", "missing"}

(* A batch asks for ids that are neither shown nor asked for by another    *)
(* batch, and has an answer for those it has come to; what was missing     *)
(* then has not come back.                                                 *)
BatchTrue(b, requested, seen, filled, present, errors, again) ==
  /\ DOMAIN b = BatchFields /\ b.next \in Nat
  /\ b.ids \in Seq(History!Ids) /\ IsInjective(b.ids)
  /\ ToSet(b.ids) \subseteq requested \cap seen
  /\ ToSet(b.ids) \cap filled = {}
  /\ b.items \cup b.missing = UpTo(b.ids, b.next)
  /\ b.items \cap b.missing = {} /\ b.missing \cap present = {}
  /\ \A id \in ToSet(b.ids) : errors[id] # "" => id \in again

(* Whatever was ever asked for is still remembered, or is a link. *)
Seen(kept) == ToSet(kept) \cup Links

RequestsTrue(kept, requested, filled, errors, present, outgoing, again) ==
  /\ requested \subseteq History!Ids /\ filled \subseteq requested
  /\ errors \in [History!Ids -> {"", "404", "failed"}]
  /\ present \subseteq Seen(kept)
  /\ \A id \in History!Ids : /\ errors[id] # "" => id \in Seen(kept)
                             /\ errors[id] = "404" => id \notin present
  /\ \A id \in filled : errors[id] # "" => id \in again
  /\ \A b \in outgoing : BatchTrue(b, requested, Seen(kept), filled, present, errors, again)
  /\ \A b, c \in outgoing : b # c => ToSet(b.ids) \cap ToSet(c.ids) = {}
  /\ \A id \in requested :
       id \in filled \/ errors[id] # "" \/ \E b \in outgoing : id \in ToSet(b.ids)

VisibleTrue ==
  \A id \in UpTo(uploadHistory, visibleCount) :
    /\ id \in historyRequested \/ historyErrors[id] # ""
    /\ id \notin historyData \cap Links

HistoryInv ==
  /\ ListsTyped(storage, uploadHistory) /\ visibleCount \in Nat
  /\ RequestsTrue(storage, historyRequested, historyData, historyErrors, existing, batches,
                  retried)
  /\ VisibleTrue

WhenHistoryOpen == component = "history" => HistoryInv

LEMMA FirstOf ==
  ASSUME NEW T, NEW s \in Seq(T), NEW n \in Nat, NEW g, g = History!First(s, n)
  PROVE  /\ g \in Seq(T) /\ ToSet(g) = UpTo(s, n)
         /\ IsInjective(s) => IsInjective(g)
<1>1. PICK m \in Nat : m = Len(s)
  BY LenProperties
<1>2. PICK k \in Nat : k = History!Min({n, m}) /\ k = IF n <= m THEN n ELSE m
  BY <1>1, HistoryLeast
<1>3. 1 \in Nat /\ 1 <= 1 /\ 1 <= k + 1 /\ k <= m
  BY <1>1, <1>2
<1>4. g = SubSeq(s, 1, k)
  BY <1>1, <1>2 DEF History!First
<1>5. g \in Seq(T)
  BY <1>1, <1>3, <1>4, PartOf
<1>6. IsPart(s, 1, k, g)
  BY <1>1, <1>3, <1>4, PartElements
<1>7. 1..k = {j \in 1..m : j <= n}
  BY <1>1, <1>2
<1>8. ToSet(g) = UpTo(s, n)
  BY <1>1, <1>6, <1>7 DEF IsPart, UpTo
<1> QED
  BY <1>5, <1>6, <1>8 DEF IsPart

LEMMA UpToElements ==
  ASSUME NEW T, NEW s \in Seq(T), NEW n
  PROVE  UpTo(s, n) \subseteq ToSet(s) /\ ToSet(s) \subseteq T
BY SeqFacts DEF UpTo

LEMMA InFrontElements ==
  ASSUME NEW kept, NEW list, ListsTyped(kept, list)
  PROVE  ToSet(list) \subseteq ToSet(kept)
<1>1. PICK d \in Nat : Len(kept) = d + Len(list) /\ \A i \in 1..Len(list) : list[i] = kept[d + i]
  BY DEF ListsTyped, InFront
<1>2. /\ Len(list) \in Nat /\ \A x \in ToSet(list) : \E i \in 1..Len(list) : x = list[i]
      /\ \A i \in 1..Len(kept) : kept[i] \in ToSet(kept)
  BY SeqFacts DEF ListsTyped
<1>3. \A i \in 1..Len(list) : d + i \in 1..Len(kept)
  BY <1>1, <1>2
<1> QED
  BY <1>1, <1>2, <1>3

-----------------------------------------------------------------------------
(* ignoreUpload: what is left shows no link whose data has come. *)

LEMMA IgnoredLinks ==
  ASSUME NEW list, NEW shown, NEW filled
  PROVE  History!Ignored(list, shown, filled) \subseteq Links \cap filled
BY DEF History!Ignored

(* A link that is not ignored has too many others before it to be shown.   *)
LEMMA NotIgnored ==
  ASSUME NEW list \in Seq(History!Ids), NEW shown \in Nat, NEW filled, NEW i \in 1..Len(list),
         list[i] \in Links \cap filled, list[i] \notin History!Ignored(list, shown, filled),
         NEW A, A = {j \in 1 .. i - 1 : list[j] \notin Links \cap filled}
  PROVE  IsFiniteSet(A) /\ Cardinality(A) \in Nat /\ shown <= Cardinality(A)
         /\ Cardinality(A) <= i - 1
<1>1. PICK p \in Nat : p = i - 1
  OBVIOUS
<1>2. IsFiniteSet(1..p) /\ Cardinality(1..p) = p
  <2>1. 1 \in Int /\ p \in Int
    OBVIOUS
  <2>2. IsFiniteSet(1..p) /\ Cardinality(1..p) = IF 1 > p THEN 0 ELSE p - 1 + 1
    BY <2>1, FS_Interval
  <2> QED
    BY <2>2
<1>3. A \in SUBSET (1..p)
  BY <1>1
<1>4. IsFiniteSet(A) /\ Cardinality(A) <= p /\ Cardinality(A) \in Nat
  BY <1>2, <1>3, FS_Subset, FS_CardinalityType
<1>5. ~(Cardinality(A) < shown)
  BY HistoryNames DEF History!Ignored
<1> QED
  BY <1>1, <1>4, <1>5

LEMMA NoLinkOfPage ==
  ASSUME NEW list \in Seq(History!Ids), NEW shown \in Nat, NEW filled,
         History!Ignored(list, shown, filled) = {}
  PROVE  UpTo(list, shown) \cap filled \cap Links = {}
<1> SUFFICES ASSUME NEW i \in 1..Len(list), i <= shown, list[i] \in Links \cap filled PROVE FALSE
  BY DEF UpTo
<1>1. PICK A : A = {j \in 1 .. i - 1 : list[j] \notin Links \cap filled}
  OBVIOUS
<1>2. shown <= Cardinality(A) /\ Cardinality(A) <= i - 1 /\ Cardinality(A) \in Nat
  BY <1>1, NotIgnored
<1>3. i \in Int /\ shown \in Int
  OBVIOUS
<1> QED
  BY <1>2, <1>3

LEMMA NoLinkLeft ==
  ASSUME NEW kept, NEW list, ListsTyped(kept, list), NEW shown \in Nat, NEW filled,
         NEW ignored, ignored = History!Ignored(list, shown, filled),
         NEW keeps, keeps = Filtered(kept, History!Ids \ ignored)
  PROVE  UpTo(keeps, shown) \cap filled \cap Links = {}
<1>1. /\ kept \in Seq(History!Ids) /\ Len(kept) \in Nat
      /\ list \in Seq(History!Ids) /\ Len(list) \in Nat
      /\ \A i \in 1..Len(list) : list[i] \in History!Ids
  BY SeqFacts DEF ListsTyped
<1>2. PICK d \in Nat : /\ Len(kept) = d + Len(list)
                       /\ \A i \in 1..Len(list) : list[i] = kept[d + i]
                       /\ \A j \in 1..d : kept[j] \notin Links
  BY DEF ListsTyped, InFront
<1>3. PICK S, K : S = History!Ids \ ignored /\ K = Places(kept, S)
  OBVIOUS
<1>4. /\ IsFiniteSet(K) /\ K \subseteq 1..Len(kept) /\ K \subseteq Int
      /\ \A k \in 1..Len(keeps) : \E i \in K : Rank(K, i) = k /\ keeps[k] = kept[i]
  <2>1. keeps = Filtered(kept, S) /\ Len(kept) \in Nat
    BY <1>1, <1>3
  <2>2. IsAt(kept, K, keeps)
    BY <1>3, <2>1, FilteredPlaces
  <2> QED
    BY <2>2 DEF IsAt
<1> SUFFICES ASSUME NEW k \in 1..Len(keeps), k <= shown, keeps[k] \in Links \cap filled PROVE FALSE
  BY DEF UpTo
<1>5. PICK m \in K : Rank(K, m) = k /\ keeps[k] = kept[m]
  BY <1>4
<1>6. m \in 1..Len(kept) /\ kept[m] \in History!Ids \ ignored /\ kept[m] \in Links \cap filled
  BY <1>3, <1>4, <1>5 DEF Places
<1>7. ~(m <= d)
  BY <1>2, <1>6
<1>8. PICK i \in 1..Len(list) : m = d + i
  <2>1. m - d \in 1..Len(list) /\ m = d + (m - d)
    BY <1>1, <1>2, <1>6, <1>7
  <2> QED
    BY <2>1
<1>9. list[i] = kept[m]
  BY <1>2, <1>8
<1>10. PICK A : A = {j \in 1 .. i - 1 : list[j] \notin Links \cap filled}
  OBVIOUS
<1>11. IsFiniteSet(A) /\ Cardinality(A) \in Nat /\ shown <= Cardinality(A)
  BY <1>1, <1>6, <1>9, <1>10, NotIgnored
<1>12. PICK B : B = A \cup {i}
  OBVIOUS
<1>13. IsFiniteSet(B) /\ Cardinality(B) = Cardinality(A) + 1
  <2>1. i \notin A
    BY <1>10
  <2> QED
    BY <1>11, <1>12, <2>1, FS_AddElement
<1>14. PICK P : P = {p \in K : p <= m}
  OBVIOUS
<1>15. ASSUME NEW j \in B PROVE d + j \in P /\ j \in Int
  <2>1. CASE j = i
    <3>1. m \in Int /\ m <= m
      BY <1>4
    <3> QED
      BY <1>5, <1>8, <1>14, <2>1, <3>1
  <2>2. CASE j \in A
    <3>1. j \in 1..Len(list) /\ j < i
      BY <1>1, <1>10, <2>2
    <3>2. list[j] \notin ignored
      BY <1>10, <2>2, IgnoredLinks
    <3>3. d + j \in 1..Len(kept) /\ d + j <= m
      BY <1>1, <1>2, <1>8, <3>1
    <3>4. kept[d + j] \in History!Ids \ ignored
      BY <1>1, <1>2, <3>1, <3>2
    <3>5. d + j \in K
      BY <1>3, <3>3, <3>4 DEF Places
    <3> QED
      BY <1>14, <3>1, <3>3, <3>5
  <2> QED
    BY <1>12, <2>1, <2>2
<1>16. PICK f : f = [j \in B |-> d + j]
  OBVIOUS
<1>17. f \in [B -> P]
  BY <1>15, <1>16
<1>18. ASSUME NEW u \in B, NEW v \in B, f[u] = f[v] PROVE u = v
  <2>1. d + u = d + v
    BY <1>16, <1>18
  <2>2. u \in Int /\ v \in Int
    BY <1>15
  <2> QED
    BY <2>1, <2>2
<1>19. f \in Injection(B, P)
  BY <1>17, <1>18 DEF Injection, IsInjective
<1>20. IsFiniteSet(P)
  <2>1. P \in SUBSET K
    BY <1>14
  <2> QED
    BY <1>4, <2>1, FS_Subset
<1>21. Cardinality(B) <= Cardinality(P)
  BY <1>19, <1>20, FS_Injection
<1>22. Cardinality(P) = k
  BY <1>5, <1>14 DEF Rank
<1> QED
  BY <1>11, <1>13, <1>21, <1>22

LEMMA ShownLists ==
  ASSUME NEW kept, NEW list, ListsTyped(kept, list), NEW shown \in Nat, NEW filled,
         NEW ignored, ignored = History!Ignored(list, shown, filled),
         NEW keeps, keeps = IF ignored = {} THEN kept ELSE Filtered(kept, History!Ids \ ignored),
         NEW lists, lists = IF ignored = {} THEN list ELSE keeps
  PROVE  /\ ListsTyped(keeps, lists)
         /\ ToSet(keeps) \subseteq ToSet(kept) /\ Seen(keeps) = Seen(kept)
         /\ UpTo(lists, shown) \cap filled \cap Links = {}
<1>1. CASE ignored = {}
  <2>1. keeps = kept /\ lists = list
    BY <1>1
  <2>2. UpTo(list, shown) \cap filled \cap Links = {}
    BY <1>1, NoLinkOfPage DEF ListsTyped
  <2> QED
    BY <2>1, <2>2
<1>2. CASE ignored # {}
  <2>1. keeps = Filtered(kept, History!Ids \ ignored) /\ lists = keeps
    BY <1>2
  <2>2. kept \in Seq(History!Ids) /\ IsInjective(kept) /\ ToSet(kept) \subseteq History!Ids
    BY UpToElements DEF ListsTyped
  <2>3. PICK S : S = History!Ids \ ignored
    OBVIOUS
  <2>4. /\ keeps \in Seq(History!Ids) /\ ToSet(keeps) = ToSet(kept) \cap S
        /\ IsInjective(kept) => IsInjective(keeps)
    <3>1. keeps = Filtered(kept, S) /\ kept \in Seq(History!Ids)
      BY <2>1, <2>2, <2>3
    <3> QED
      BY <3>1, FilteredSeq
  <2>5. InFront(keeps, keeps)
    <3>1. PICK n \in Nat : n = Len(keeps)
      BY <2>4, LenProperties
    <3>2. /\ 0 \in Nat /\ Len(keeps) = 0 + Len(keeps)
          /\ \A i \in 1..Len(keeps) : keeps[i] = keeps[0 + i]
          /\ \A j \in 1..0 : keeps[j] \notin Links
      BY <3>1
    <3> QED
      BY <3>2 DEF InFront
  <2>6. ListsTyped(keeps, lists)
    BY <2>1, <2>2, <2>4, <2>5 DEF ListsTyped
  <2>7. ToSet(kept) \subseteq ToSet(keeps) \cup Links
    BY <2>2, <2>3, <2>4, IgnoredLinks
  <2>8. UpTo(keeps, shown) \cap filled \cap Links = {}
    BY <2>1, NoLinkLeft
  <2> QED
    BY <2>1, <2>4, <2>6, <2>7, <2>8 DEF Seen
<1> QED
  BY <1>1, <1>2

(* A batch that nothing new touches. *)
LEMMA BatchStays ==
  ASSUME NEW b, NEW r, NEW s, NEW f, NEW p, NEW e, NEW a, BatchTrue(b, r, s, f, p, e, a),
         NEW r2, NEW s2, NEW f2, NEW p2, NEW e2, NEW a2,
         ToSet(b.ids) \subseteq r2, s \subseteq s2, ToSet(b.ids) \cap f2 = {},
         b.missing \cap p2 = {}, \A id \in ToSet(b.ids) : e2[id] # "" => id \in a2
  PROVE  BatchTrue(b, r2, s2, f2, p2, e2, a2)
BY DEF BatchTrue

(* What the page asks for after any change of what it shows. *)
LEMMA ShownStep ==
  ASSUME NEW kept, NEW list, ListsTyped(kept, list), NEW shown \in Nat, NEW requested,
         NEW filled, NEW outgoing, NEW errors, NEW present,
         historyData' = filled, historyErrors' = errors, existing' = present,
         RequestsTrue(kept, requested, filled, errors, present, outgoing, retried),
         History!Shown(kept, list, shown, requested, filled, outgoing)
  PROVE  HistoryInv'
<1>1. PICK ignored : ignored = History!Ignored(list, shown, filled)
  OBVIOUS
<1>2. PICK keeps : keeps = IF ignored = {} THEN kept ELSE Filtered(kept, History!Ids \ ignored)
  OBVIOUS
<1>3. PICK lists : lists = IF ignored = {} THEN list ELSE keeps
  OBVIOUS
<1>4. PICK top : top = History!First(lists, shown)
  OBVIOUS
<1>5. PICK new : new = Filtered(top, History!Ids \ requested)
  OBVIOUS
<1>6. PICK batch : batch = [n |-> h_steps', ids |-> new, next |-> 0, items |-> {}, missing |-> {}]
  OBVIOUS
<1>7. PICK again : again = {id \in retried \cup ToSet(new) : errors[id] # ""}
  OBVIOUS
<1>8. PICK all : all = outgoing \cup (IF new = <<>> THEN {} ELSE {batch})
  OBVIOUS
<1>9. /\ storage' = keeps /\ uploadHistory' = lists /\ visibleCount' = shown
      /\ historyRequested' = requested \cup ToSet(new)
      /\ batches' = all /\ retried' = again
  BY <1>1, <1>2, <1>3, <1>4, <1>5, <1>6, <1>7, <1>8, HistoryNames, HistoryFiltered
     DEF History!Shown, History!removeFromHistory
<1>10. /\ ListsTyped(keeps, lists) /\ Seen(keeps) = Seen(kept)
       /\ UpTo(lists, shown) \cap filled \cap Links = {}
  BY <1>1, <1>2, <1>3, ShownLists
<1>11. top \in Seq(History!Ids) /\ ToSet(top) = UpTo(lists, shown) /\ IsInjective(top)
  <2>1. lists \in Seq(History!Ids) /\ IsInjective(lists)
    BY <1>10 DEF ListsTyped
  <2>2. /\ top \in Seq(History!Ids) /\ ToSet(top) = UpTo(lists, shown)
        /\ IsInjective(lists) => IsInjective(top)
    BY <1>4, <2>1, FirstOf
  <2> QED
    BY <2>1, <2>2
<1>12. /\ new \in Seq(History!Ids) /\ IsInjective(new)
       /\ ToSet(new) = UpTo(lists, shown) \cap (History!Ids \ requested)
  <2>1. PICK S : S = History!Ids \ requested
    OBVIOUS
  <2>2. /\ new \in Seq(History!Ids) /\ ToSet(new) = ToSet(top) \cap S
        /\ IsInjective(top) => IsInjective(new)
    <3>1. top \in Seq(History!Ids) /\ new = Filtered(top, S)
      BY <1>5, <1>11, <2>1
    <3> QED
      BY <3>1, FilteredSeq
  <2> QED
    BY <1>11, <2>1, <2>2
<1>13. UpTo(lists, shown) \subseteq ToSet(keeps) /\ ToSet(keeps) \subseteq History!Ids
  <2>1. UpTo(lists, shown) \subseteq ToSet(lists)
    BY <1>10, UpToElements DEF ListsTyped
  <2>2. ToSet(lists) \subseteq ToSet(keeps)
    BY <1>10, InFrontElements
  <2>3. ToSet(keeps) \subseteq History!Ids
    BY <1>10, UpToElements DEF ListsTyped
  <2> QED
    BY <2>1, <2>2, <2>3
<1>14. PICK wanted : wanted = requested \cup ToSet(new)
  OBVIOUS
<1>15. BatchTrue(batch, wanted, Seen(keeps), filled, present, errors, again)
  <2>1. /\ DOMAIN batch = BatchFields /\ batch.next = 0 /\ batch.ids = new
        /\ batch.items = {} /\ batch.missing = {}
    BY <1>6 DEF BatchFields
  <2>2. UpTo(new, 0) = {}
    BY DEF UpTo
  <2>3. ToSet(new) \cap filled = {}
    BY <1>12 DEF RequestsTrue
  <2>4. ToSet(new) \subseteq wanted \cap Seen(keeps)
    BY <1>12, <1>13, <1>14 DEF Seen
  <2>5. \A id \in ToSet(new) : errors[id] # "" => id \in again
    BY <1>7
  <2>6. 0 \in Nat
    OBVIOUS
  <2> QED
    BY <1>12, <2>1, <2>2, <2>3, <2>4, <2>5, <2>6 DEF BatchTrue
<1>16. ASSUME NEW b \in outgoing
       PROVE  /\ BatchTrue(b, wanted, Seen(keeps), filled, present, errors, again)
              /\ ToSet(b.ids) \cap ToSet(new) = {}
  <2>1. BatchTrue(b, requested, Seen(kept), filled, present, errors, retried)
    BY DEF RequestsTrue
  <2>2. /\ ToSet(b.ids) \subseteq requested /\ ToSet(b.ids) \cap filled = {}
        /\ b.missing \cap present = {}
        /\ \A id \in ToSet(b.ids) : errors[id] # "" => id \in retried
    BY <2>1 DEF BatchTrue
  <2>3. ToSet(b.ids) \subseteq wanted /\ Seen(kept) \subseteq Seen(keeps)
    BY <1>10, <1>14, <2>2
  <2>4. \A id \in ToSet(b.ids) : errors[id] # "" => id \in again
    BY <1>7, <2>2
  <2>5. BatchTrue(b, wanted, Seen(keeps), filled, present, errors, again)
    BY <2>1, <2>2, <2>3, <2>4, BatchStays
  <2> QED
    BY <1>12, <2>2, <2>5
<1>17. RequestsTrue(keeps, wanted, filled, errors, present, all, again)
  <2>1. \A b \in all : BatchTrue(b, wanted, Seen(keeps), filled, present, errors, again)
    BY <1>8, <1>15, <1>16
  <2>2. \A b, c \in all : b # c => ToSet(b.ids) \cap ToSet(c.ids) = {}
    <3>1. batch.ids = new
      BY <1>6
    <3>2. \A b, c \in outgoing : b # c => ToSet(b.ids) \cap ToSet(c.ids) = {}
      BY DEF RequestsTrue
    <3>3. \A b \in all : b \in outgoing \/ b = batch
      BY <1>8
    <3> QED
      BY <1>16, <3>1, <3>2, <3>3
  <2>3. ASSUME NEW id \in wanted
        PROVE  id \in filled \/ errors[id] # "" \/ \E b \in all : id \in ToSet(b.ids)
    <3>1. CASE id \in requested
      BY <1>8, <3>1 DEF RequestsTrue
    <3>2. CASE id \in ToSet(new)
      <4>1. new # <<>>
        BY <3>2 DEF ToSet
      <4>2. batch \in all /\ batch.ids = new
        BY <1>6, <1>8, <4>1
      <4> QED
        BY <3>2, <4>2
    <3> QED
      BY <1>14, <3>1, <3>2
  <2>4. \A id \in filled : errors[id] # "" => id \in again
    BY <1>7 DEF RequestsTrue
  <2>5. wanted \subseteq History!Ids /\ filled \subseteq wanted
    BY <1>12, <1>14 DEF RequestsTrue
  <2> QED
    BY <1>10, <2>1, <2>2, <2>3, <2>4, <2>5 DEF RequestsTrue
<1>18. ASSUME NEW id \in UpTo(lists, shown)
       PROVE  id \in wanted /\ id \notin filled \cap Links
  BY <1>10, <1>12, <1>13, <1>14
<1>19. VisibleTrue'
  BY <1>9, <1>14, <1>18 DEF VisibleTrue, UpTo
<1>20. ListsTyped(storage, uploadHistory)'
  BY <1>9, <1>10 DEF ListsTyped, InFront
<1>21. RequestsTrue(storage, historyRequested, historyData, historyErrors, existing, batches,
                    retried)'
  BY <1>9, <1>14, <1>17
<1> QED
  BY <1>9, <1>19, <1>20, <1>21 DEF HistoryInv

LEMMA HistoryInvInit ==
  ASSUME History!HistoryAssumption, History!HInit
  PROVE  HistoryInv
<1>1. PICK top : top = History!First(Remembered, FirstShown)
  OBVIOUS
<1>2. Remembered \in Seq(History!Ids) /\ IsInjective(Remembered) /\ FirstShown \in Nat
  <2>1. Remembered \in Seq(ToSet(Remembered)) /\ ToSet(Remembered) \subseteq History!Ids
    BY HistoryNames DEF History!HistoryAssumption, History!Ids
  <2> QED
    BY <2>1, SeqMonotonic, HistoryNames DEF History!HistoryAssumption
<1>3. /\ top \in Seq(History!Ids) /\ ToSet(top) = UpTo(Remembered, FirstShown)
      /\ IsInjective(top)
  <2>1. /\ top \in Seq(History!Ids) /\ ToSet(top) = UpTo(Remembered, FirstShown)
        /\ IsInjective(Remembered) => IsInjective(top)
    BY <1>1, <1>2, FirstOf
  <2> QED
    BY <1>2, <2>1
<1>4. ToSet(top) \subseteq ToSet(Remembered) /\ ToSet(Remembered) \subseteq History!Ids
  BY <1>2, <1>3, UpToElements
<1>5. PICK errors : errors = [id \in History!Ids |-> ""]
  OBVIOUS
<1>6. PICK batch : batch = [n |-> 0, ids |-> top, next |-> 0, items |-> {}, missing |-> {}]
  OBVIOUS
<1>7. /\ storage = Remembered /\ uploadHistory = Remembered /\ visibleCount = FirstShown
      /\ historyRequested = ToSet(top) /\ historyData = {} /\ historyErrors = errors
      /\ batches = {batch} /\ existing = ToSet(Remembered) /\ retried = {}
  BY <1>1, <1>5, <1>6, HistoryNames DEF History!HInit
<1>8. ListsTyped(Remembered, Remembered)
  <2>1. PICK n \in Nat : n = Len(Remembered)
    BY <1>2, LenProperties
  <2>2. /\ 0 \in Nat /\ Len(Remembered) = 0 + Len(Remembered)
        /\ \A i \in 1..Len(Remembered) : Remembered[i] = Remembered[0 + i]
        /\ \A j \in 1..0 : Remembered[j] \notin Links
    BY <2>1
  <2>3. InFront(Remembered, Remembered)
    BY <2>2 DEF InFront
  <2> QED
    BY <1>2, <2>3 DEF ListsTyped
<1>9. BatchTrue(batch, ToSet(top), Seen(Remembered), {}, ToSet(Remembered), errors, {})
  <2>1. /\ DOMAIN batch = BatchFields /\ batch.next = 0 /\ batch.ids = top
        /\ batch.items = {} /\ batch.missing = {}
    BY <1>6 DEF BatchFields
  <2>2. UpTo(top, 0) = {}
    BY DEF UpTo
  <2>3. \A id \in ToSet(top) : errors[id] = ""
    BY <1>4, <1>5
  <2>4. ToSet(top) \subseteq ToSet(top) \cap Seen(Remembered)
    BY <1>4 DEF Seen
  <2>5. 0 \in Nat
    OBVIOUS
  <2> QED
    BY <1>3, <2>1, <2>2, <2>3, <2>4, <2>5 DEF BatchTrue
<1>10. RequestsTrue(Remembered, ToSet(top), {}, errors, ToSet(Remembered), {batch}, {})
  <2>1. batch.ids = top
    BY <1>6
  <2>2. errors \in [History!Ids -> {"", "404", "failed"}] /\ \A id \in History!Ids : errors[id] = ""
    BY <1>5
  <2>3. ToSet(Remembered) \subseteq Seen(Remembered)
    BY DEF Seen
  <2> QED
    BY <1>4, <1>9, <2>1, <2>2, <2>3 DEF RequestsTrue
<1>11. VisibleTrue
  BY <1>3, <1>7 DEF VisibleTrue
<1> QED
  BY <1>2, <1>7, <1>8, <1>10, <1>11 DEF HistoryInv

-----------------------------------------------------------------------------
(* A new id is in front of all others, and nothing is known of it yet.     *)

LEMMA NewId ==
  ASSUME History!HistoryAssumption, HistoryInv, NEW id \in Coming, id \notin ToSet(storage),
         NEW kept, kept = <<id>> \o storage
  PROVE  /\ ListsTyped(kept, kept) /\ ListsTyped(kept, uploadHistory)
         /\ RequestsTrue(kept, historyRequested, historyData, historyErrors,
                         existing \cup {id}, batches, retried)
<1>1. PICK own : own = <<id>>
  OBVIOUS
<1>2. /\ id \in History!Ids /\ id \notin Links
  BY HistoryNames DEF History!HistoryAssumption, History!Ids
<1>3. /\ own \in Seq(History!Ids) /\ Len(own) = 1 /\ DOMAIN own = 1..1 /\ own[1] = id
      /\ ToSet(own) = {id} /\ IsInjective(own)
  <2>1. own \in Seq(History!Ids) /\ Len(own) = 1 /\ DOMAIN own = 1..1 /\ own[1] = id
    BY <1>1, <1>2
  <2> QED
    BY <2>1 DEF ToSet, IsInjective
<1>4. /\ storage \in Seq(History!Ids) /\ IsInjective(storage)
      /\ uploadHistory \in Seq(History!Ids) /\ IsInjective(uploadHistory)
      /\ InFront(storage, uploadHistory)
  BY DEF HistoryInv, ListsTyped
<1>5. kept \in Seq(History!Ids) /\ IsJoin(own, storage, kept)
  BY <1>1, <1>3, <1>4, Joined
<1>6. /\ Len(kept) = 1 + Len(storage) /\ kept[1] = id
      /\ \A i \in 1..Len(storage) : kept[1 + i] = storage[i]
      /\ ToSet(kept) = {id} \cup ToSet(storage) /\ IsInjective(kept)
  BY <1>3, <1>4, <1>5 DEF IsJoin
<1>7. PICK d \in Nat : /\ Len(storage) = d + Len(uploadHistory)
                       /\ \A i \in 1..Len(uploadHistory) : uploadHistory[i] = storage[d + i]
                       /\ \A j \in 1..d : storage[j] \notin Links
  BY <1>4 DEF InFront
<1>8. PICK m \in Nat, n \in Nat : m = Len(storage) /\ n = Len(uploadHistory)
  BY <1>4, LenProperties
<1>9. InFront(kept, uploadHistory)
  <2>1. PICK e \in Nat : e = 1 + d
    OBVIOUS
  <2>2. Len(kept) = e + n
    BY <1>6, <1>7, <1>8, <2>1
  <2>3. ASSUME NEW i \in 1..n PROVE uploadHistory[i] = kept[e + i]
    <3>1. d + i \in 1..m /\ e + i = 1 + (d + i)
      BY <1>7, <1>8, <2>1
    <3> QED
      BY <1>6, <1>7, <1>8, <3>1
  <2>4. ASSUME NEW j \in 1..e PROVE kept[j] \notin Links
    <3>1. CASE j = 1
      BY <1>2, <1>6, <3>1
    <3>2. CASE j # 1
      <4>1. PICK i \in 1..d : i = j - 1
        BY <2>1, <3>2
      <4>2. i \in 1..m /\ j = 1 + i
        BY <1>7, <1>8, <4>1
      <4> QED
        BY <1>6, <1>7, <1>8, <4>2
    <3> QED
      BY <3>1, <3>2
  <2> QED
    BY <1>8, <2>2, <2>3, <2>4 DEF InFront
<1>10. InFront(kept, kept)
  <2>1. PICK l \in Nat : l = Len(kept)
    BY <1>5, LenProperties
  <2>2. /\ 0 \in Nat /\ Len(kept) = 0 + Len(kept)
        /\ \A i \in 1..Len(kept) : kept[i] = kept[0 + i]
        /\ \A j \in 1..0 : kept[j] \notin Links
    BY <2>1
  <2> QED
    BY <2>2 DEF InFront
<1>11. ListsTyped(kept, kept) /\ ListsTyped(kept, uploadHistory)
  BY <1>4, <1>5, <1>6, <1>9, <1>10 DEF ListsTyped
<1>12. RequestsTrue(storage, historyRequested, historyData, historyErrors, existing, batches,
                    retried)
  BY DEF HistoryInv
<1>13. id \notin Seen(storage) /\ Seen(storage) \subseteq Seen(kept) /\ id \in Seen(kept)
  BY <1>2, <1>6 DEF Seen
<1>14. ASSUME NEW b \in batches
       PROVE  BatchTrue(b, historyRequested, Seen(kept), historyData, existing \cup {id},
                        historyErrors, retried)
  <2>1. BatchTrue(b, historyRequested, Seen(storage), historyData, existing, historyErrors,
                  retried)
    BY <1>12 DEF RequestsTrue
  <2>2. /\ ToSet(b.ids) \subseteq historyRequested \cap Seen(storage)
        /\ ToSet(b.ids) \cap historyData = {} /\ b.missing \cap existing = {}
        /\ b.missing \subseteq UpTo(b.ids, b.next) /\ b.ids \in Seq(History!Ids)
        /\ \A i \in ToSet(b.ids) : historyErrors[i] # "" => i \in retried
    BY <2>1 DEF BatchTrue
  <2>3. b.missing \subseteq ToSet(b.ids)
    BY <2>2, UpToElements
  <2>4. b.missing \cap (existing \cup {id}) = {}
    BY <1>13, <2>2, <2>3
  <2> QED
    BY <1>13, <2>1, <2>2, <2>4, BatchStays
<1>15. RequestsTrue(kept, historyRequested, historyData, historyErrors, existing \cup {id},
                    batches, retried)
  BY <1>12, <1>13, <1>14 DEF RequestsTrue
<1> QED
  BY <1>11, <1>15

LEMMA AddHistoryStep ==
  ASSUME History!HistoryAssumption, HistoryInv, NEW id \in Coming, History!addToHistory(id)
  PROVE  HistoryInv'
<1>1. PICK kept : kept = <<id>> \o storage
  OBVIOUS
<1>2. /\ id \notin ToSet(storage) /\ existing' = existing \cup {id}
      /\ historyData' = historyData /\ historyErrors' = historyErrors
      /\ History!Shown(kept, kept, visibleCount, historyRequested, historyData, batches)
  BY <1>1, HistoryNames DEF History!addToHistory
<1>3. /\ ListsTyped(kept, kept)
      /\ RequestsTrue(kept, historyRequested, historyData, historyErrors, existing \cup {id},
                      batches, retried)
  BY <1>1, <1>2, NewId
<1>4. visibleCount \in Nat
  BY DEF HistoryInv
<1> QED
  BY <1>2, <1>3, <1>4, ShownStep

LEMMA AddedElsewhereStep ==
  ASSUME History!HistoryAssumption, HistoryInv, NEW id \in Coming, History!AddedElsewhere(id)
  PROVE  HistoryInv'
<1>1. PICK kept : kept = <<id>> \o storage
  OBVIOUS
<1>2. /\ id \notin ToSet(storage) /\ existing' = existing \cup {id} /\ storage' = kept
      /\ uploadHistory' = uploadHistory /\ visibleCount' = visibleCount
      /\ historyData' = historyData /\ historyErrors' = historyErrors
      /\ historyRequested' = historyRequested /\ batches' = batches /\ retried' = retried
  BY <1>1, HistoryNames DEF History!AddedElsewhere
<1>3. /\ ListsTyped(kept, uploadHistory)
      /\ RequestsTrue(kept, historyRequested, historyData, historyErrors, existing \cup {id},
                      batches, retried)
  BY <1>1, <1>2, NewId
<1>4. ListsTyped(storage, uploadHistory)'
  BY <1>2, <1>3 DEF ListsTyped, InFront
<1>5. visibleCount' \in Nat /\ VisibleTrue'
  BY <1>2 DEF HistoryInv, VisibleTrue, UpTo
<1>6. RequestsTrue(storage, historyRequested, historyData, historyErrors, existing, batches,
                   retried)'
  BY <1>2, <1>3
<1> QED
  BY <1>4, <1>5, <1>6 DEF HistoryInv

-----------------------------------------------------------------------------
(* Uploads that go, and requests for others. *)

LEMMA DeletedStep ==
  ASSUME HistoryInv, NEW id, History!Deleted(id)
  PROVE  HistoryInv'
<1>1. PICK present : present = existing \ {id}
  OBVIOUS
<1>2. /\ existing' = present /\ storage' = storage
      /\ uploadHistory' = uploadHistory /\ visibleCount' = visibleCount
      /\ historyData' = historyData /\ historyErrors' = historyErrors
      /\ historyRequested' = historyRequested /\ batches' = batches /\ retried' = retried
  BY <1>1 DEF History!Deleted
<1>3. present \subseteq existing
  BY <1>1
<1>4. RequestsTrue(storage, historyRequested, historyData, historyErrors, existing, batches,
                   retried)
  BY DEF HistoryInv
<1>5. ASSUME NEW b \in batches
      PROVE  BatchTrue(b, historyRequested, Seen(storage), historyData, present,
                       historyErrors, retried)
  BY <1>3, <1>4 DEF RequestsTrue, BatchTrue
<1>6. RequestsTrue(storage, historyRequested, historyData, historyErrors, present, batches,
                   retried)
  BY <1>3, <1>4, <1>5 DEF RequestsTrue
<1>7. ListsTyped(storage, uploadHistory)' /\ visibleCount' \in Nat /\ VisibleTrue'
  BY <1>2 DEF HistoryInv, VisibleTrue, UpTo, ListsTyped, InFront
<1>8. RequestsTrue(storage, historyRequested, historyData, historyErrors, existing, batches,
                   retried)'
  BY <1>2, <1>6
<1> QED
  BY <1>7, <1>8 DEF HistoryInv

LEMMA ShowMoreStep ==
  ASSUME History!HistoryAssumption, HistoryInv, History!ShowMore
  PROVE  HistoryInv'
<1>1. PICK shown \in Nat : shown = visibleCount + More
  BY DEF History!HistoryAssumption, HistoryInv
<1>2. /\ existing' = existing /\ historyData' = historyData /\ historyErrors' = historyErrors
      /\ History!Shown(storage, uploadHistory, shown, historyRequested, historyData, batches)
  BY <1>1 DEF History!ShowMore
<1>3. /\ ListsTyped(storage, uploadHistory)
      /\ RequestsTrue(storage, historyRequested, historyData, historyErrors, existing,
                      batches, retried)
  BY DEF HistoryInv
<1> QED
  BY <1>2, <1>3, ShownStep

LEMMA ReloadStep ==
  ASSUME History!HistoryAssumption, HistoryInv, History!Reload
  PROVE  HistoryInv'
<1>1. PICK errors : errors = [id \in History!Ids |-> ""]
  OBVIOUS
<1>2. /\ existing' = existing /\ historyData' = {} /\ historyErrors' = errors
      /\ History!Shown(storage, storage, FirstShown, {}, {}, {})
  BY <1>1 DEF History!Reload
<1>3. storage \in Seq(History!Ids) /\ IsInjective(storage) /\ existing \subseteq Seen(storage)
  BY DEF HistoryInv, ListsTyped, RequestsTrue
<1>4. ListsTyped(storage, storage)
  <2>1. PICK n \in Nat : n = Len(storage)
    BY <1>3, LenProperties
  <2>2. /\ 0 \in Nat /\ Len(storage) = 0 + Len(storage)
        /\ \A i \in 1..Len(storage) : storage[i] = storage[0 + i]
        /\ \A j \in 1..0 : storage[j] \notin Links
    BY <2>1
  <2>3. InFront(storage, storage)
    BY <2>2 DEF InFront
  <2> QED
    BY <1>3, <2>3 DEF ListsTyped
<1>5. RequestsTrue(storage, {}, {}, errors, existing, {}, retried)
  BY <1>1, <1>3 DEF RequestsTrue
<1>6. FirstShown \in Nat
  BY DEF History!HistoryAssumption
<1> QED
  BY <1>2, <1>4, <1>5, <1>6, ShownStep

-----------------------------------------------------------------------------
(* A batch: its chunks are answered, and it comes or fails as a whole.     *)

LEMMA BatchMaxIs == History!HistoryAssumption => BatchMax \in Nat \ {0}
BY Zenon DEF History!HistoryAssumption

(* The chunk that follows is the next part of what it asks for. *)
LEMMA NextChunkIs ==
  ASSUME History!HistoryAssumption, NEW b, b.ids \in Seq(History!Ids), IsInjective(b.ids),
         b.next \in Nat, b.next < Len(b.ids)
  PROVE  /\ UpTo(b.ids, b.next + BatchMax) = UpTo(b.ids, b.next) \cup History!NextChunk(b)
         /\ UpTo(b.ids, b.next) \cap History!NextChunk(b) = {}
<1>1. PICK s \in Seq(History!Ids) : s = b.ids
  OBVIOUS
<1>2. PICK k \in Nat, n \in Nat, c \in Nat \ {0} : k = b.next /\ n = Len(s) /\ c = BatchMax
  <2>1. Len(s) \in Nat /\ BatchMax \in Nat \ {0} /\ b.next \in Nat
    BY LenProperties, BatchMaxIs
  <2> QED
    BY <2>1
<1>3. PICK m \in Nat : m = History!Min({k + c, n}) /\ m = IF k + c <= n THEN k + c ELSE n
  <2>1. History!Min({k + c, n}) = IF k + c <= n THEN k + c ELSE n
    <3>1. k + c \in Int /\ n \in Int
      OBVIOUS
    <3> QED
      BY <3>1, HistoryLeast
  <2> QED
    BY <2>1
<1>4. PICK g : g = SubSeq(s, k + 1, m)
  OBVIOUS
<1>5. k < n /\ k + 1 \in Nat /\ 1 <= k + 1 /\ k + 1 <= m + 1 /\ m <= n
  <2>1. k < n
    BY <1>1, <1>2
  <2> QED
    BY <1>3, <2>1
<1>6. IsPart(s, k + 1, m, g)
  BY <1>2, <1>4, <1>5, PartElements
<1>7. History!NextChunk(b) = {s[j] : j \in k + 1 .. m}
  BY <1>1, <1>2, <1>3, <1>4, <1>6, HistoryNames DEF History!NextChunk, IsPart
<1>8. /\ UpTo(s, k) = {s[j] : j \in {j \in 1..n : j <= k}}
      /\ UpTo(s, k + c) = {s[j] : j \in {j \in 1..n : j <= k + c}}
  BY <1>2 DEF UpTo
<1>9. {j \in 1..n : j <= k + c} = {j \in 1..n : j <= k} \cup k + 1 .. m
  BY <1>3, <1>5
<1>10. UpTo(s, k + c) = UpTo(s, k) \cup History!NextChunk(b)
  BY <1>7, <1>8, <1>9
<1>11. UpTo(s, k) \cap History!NextChunk(b) = {}
  <2> SUFFICES ASSUME NEW i \in {j \in 1..n : j <= k}, NEW j \in k + 1 .. m, s[i] = s[j]
               PROVE FALSE
    BY <1>7, <1>8
  <2>1. i \in 1..n /\ j \in 1..n /\ i # j
    BY <1>5
  <2>2. DOMAIN s = 1..n
    BY <1>2, LenProperties
  <2> QED
    BY <1>1, <2>1, <2>2 DEF IsInjective
<1> QED
  BY <1>1, <1>2, <1>10, <1>11

LEMMA ChunkAnswerStep ==
  ASSUME History!HistoryAssumption, HistoryInv, NEW b \in batches, History!ChunkAnswer(b)
  PROVE  HistoryInv'
<1>1. PICK chunk : chunk = History!NextChunk(b)
  OBVIOUS
<1>2. PICK found : found = chunk \cap existing
  OBVIOUS
<1>3. PICK c : c = [b EXCEPT !.next = @ + BatchMax, !.items = @ \cup found,
                             !.missing = @ \cup (chunk \ found)]
  OBVIOUS
<1>4. PICK all : all = (batches \ {b}) \cup {c}
  OBVIOUS
<1>5. /\ existing' = existing /\ storage' = storage /\ batches' = all
      /\ uploadHistory' = uploadHistory /\ visibleCount' = visibleCount
      /\ historyData' = historyData /\ historyErrors' = historyErrors
      /\ historyRequested' = historyRequested /\ retried' = retried
      /\ b.next < Len(b.ids)
  BY <1>1, <1>2, <1>3, <1>4 DEF History!ChunkAnswer, History!getUploadsByIDs
<1>6. RequestsTrue(storage, historyRequested, historyData, historyErrors, existing, batches,
                   retried)
  BY DEF HistoryInv
<1>7. BatchTrue(b, historyRequested, Seen(storage), historyData, existing, historyErrors,
                retried)
  BY <1>6 DEF RequestsTrue
<1>8. /\ UpTo(b.ids, b.next + BatchMax) = UpTo(b.ids, b.next) \cup chunk
      /\ UpTo(b.ids, b.next) \cap chunk = {}
  BY <1>1, <1>5, <1>7, NextChunkIs DEF BatchTrue
<1>9. DOMAIN b = BatchFields
  BY <1>7 DEF BatchTrue
<1>10. /\ DOMAIN c = BatchFields /\ c.ids = b.ids /\ c.next = b.next + BatchMax
       /\ c.items = b.items \cup found /\ c.missing = b.missing \cup (chunk \ found)
  BY <1>3, <1>9 DEF BatchFields
<1>11. BatchTrue(c, historyRequested, Seen(storage), historyData, existing, historyErrors,
                 retried)
  <2>1. b.next + BatchMax \in Nat
    <3>1. b.next \in Nat
      BY <1>7 DEF BatchTrue
    <3> QED
      BY <3>1, BatchMaxIs
  <2>2. /\ b.items \cup b.missing = UpTo(b.ids, b.next) /\ b.items \cap b.missing = {}
        /\ b.missing \cap existing = {}
    BY <1>7 DEF BatchTrue
  <2>3. c.items \cup c.missing = UpTo(c.ids, c.next)
    BY <1>2, <1>8, <1>10, <2>2
  <2>4. c.items \cap c.missing = {} /\ c.missing \cap existing = {}
    BY <1>2, <1>8, <1>10, <2>2
  <2> QED
    BY <1>7, <1>10, <2>1, <2>3, <2>4 DEF BatchTrue
<1>12. RequestsTrue(storage, historyRequested, historyData, historyErrors, existing, all,
                    retried)
  <2>1. \A d \in all : BatchTrue(d, historyRequested, Seen(storage), historyData, existing,
                                 historyErrors, retried)
    BY <1>4, <1>6, <1>11 DEF RequestsTrue
  <2>2. \A d, e \in all : d # e => ToSet(d.ids) \cap ToSet(e.ids) = {}
    <3>1. \A d, e \in batches : d # e => ToSet(d.ids) \cap ToSet(e.ids) = {}
      BY <1>6 DEF RequestsTrue
    <3>2. \A d \in all : (d \in batches /\ d # b) \/ d = c
      BY <1>4
    <3> QED
      BY <1>10, <3>1, <3>2
  <2>3. ASSUME NEW id \in historyRequested
        PROVE  \/ id \in historyData \/ historyErrors[id] # ""
               \/ \E d \in all : id \in ToSet(d.ids)
    <3>1. CASE \E d \in batches : id \in ToSet(d.ids)
      BY <1>4, <1>10, <3>1
    <3> QED
      BY <1>6, <3>1 DEF RequestsTrue
  <2> QED
    BY <1>6, <2>1, <2>2, <2>3 DEF RequestsTrue
<1>13. ListsTyped(storage, uploadHistory)' /\ visibleCount' \in Nat /\ VisibleTrue'
  BY <1>5 DEF HistoryInv, VisibleTrue, UpTo, ListsTyped, InFront
<1>14. RequestsTrue(storage, historyRequested, historyData, historyErrors, existing, batches,
                    retried)'
  BY <1>5, <1>12
<1> QED
  BY <1>13, <1>14 DEF HistoryInv

(* Its last answer: all it asked for is there, or was not on the server.   *)
LEMMA BatchLoadedStep ==
  ASSUME History!HistoryAssumption, HistoryInv, NEW b \in batches, History!BatchLoaded(b)
  PROVE  HistoryInv'
<1>1. PICK filled, remaining : filled = historyData \cup b.items /\ remaining = batches \ {b}
  OBVIOUS
<1>2. PICK errors :
        errors = [id \in History!Ids |-> IF id \in b.missing THEN "404" ELSE historyErrors[id]]
  OBVIOUS
<1>3. /\ existing' = existing /\ historyData' = filled /\ historyErrors' = errors
      /\ History!Shown(storage, uploadHistory, visibleCount, historyRequested, filled, remaining)
      /\ b.next >= Len(b.ids)
  BY <1>1, <1>2 DEF History!BatchLoaded
<1>4. /\ ListsTyped(storage, uploadHistory) /\ visibleCount \in Nat
      /\ RequestsTrue(storage, historyRequested, historyData, historyErrors, existing,
                      batches, retried)
  BY DEF HistoryInv
<1>5. BatchTrue(b, historyRequested, Seen(storage), historyData, existing, historyErrors,
                retried)
  BY <1>4 DEF RequestsTrue
<1>6. b.items \cup b.missing = ToSet(b.ids)
  <2>1. PICK k \in Nat, n \in Nat : k = b.next /\ n = Len(b.ids)
    BY <1>5, LenProperties DEF BatchTrue
  <2>2. {j \in 1..n : j <= k} = 1..n
    BY <1>3, <2>1
  <2>3. DOMAIN b.ids = 1..n
    BY <1>5, <2>1, LenProperties DEF BatchTrue
  <2>4. UpTo(b.ids, b.next) = ToSet(b.ids)
    BY <2>1, <2>2, <2>3 DEF UpTo, ToSet
  <2> QED
    BY <1>5, <2>4 DEF BatchTrue
<1>7. /\ ToSet(b.ids) \subseteq historyRequested /\ ToSet(b.ids) \subseteq Seen(storage)
      /\ ToSet(b.ids) \cap historyData = {}
      /\ b.items \cap b.missing = {} /\ b.missing \cap existing = {}
      /\ \A id \in ToSet(b.ids) : historyErrors[id] # "" => id \in retried
  BY <1>5 DEF BatchTrue
<1>8. /\ historyRequested \subseteq History!Ids /\ historyData \subseteq historyRequested
      /\ historyErrors \in [History!Ids -> {"", "404", "failed"}]
      /\ \A id \in historyData : historyErrors[id] # "" => id \in retried
      /\ \A id \in History!Ids : /\ historyErrors[id] # "" => id \in Seen(storage)
                                 /\ historyErrors[id] = "404" => id \notin existing
  BY <1>4 DEF RequestsTrue
<1>9. /\ errors \in [History!Ids -> {"", "404", "failed"}]
      /\ \A id \in History!Ids :
           errors[id] = IF id \in b.missing THEN "404" ELSE historyErrors[id]
  BY <1>2, <1>8
<1>10. ASSUME NEW c \in remaining
       PROVE  BatchTrue(c, historyRequested, Seen(storage), filled, existing, errors, retried)
  <2>1. BatchTrue(c, historyRequested, Seen(storage), historyData, existing, historyErrors,
                  retried)
    BY <1>1, <1>4 DEF RequestsTrue
  <2>2. ToSet(b.ids) \cap ToSet(c.ids) = {}
    BY <1>1, <1>4 DEF RequestsTrue
  <2>3. /\ ToSet(c.ids) \subseteq historyRequested /\ ToSet(c.ids) \cap historyData = {}
        /\ c.missing \cap existing = {}
        /\ \A id \in ToSet(c.ids) : historyErrors[id] # "" => id \in retried
    BY <2>1 DEF BatchTrue
  <2>4. ToSet(c.ids) \cap filled = {}
    BY <1>1, <1>6, <2>2, <2>3
  <2>5. \A id \in ToSet(c.ids) : errors[id] # "" => id \in retried
    BY <1>6, <1>8, <1>9, <2>2, <2>3
  <2> QED
    BY <2>1, <2>3, <2>4, <2>5, BatchStays
<1>11. RequestsTrue(storage, historyRequested, filled, errors, existing, remaining, retried)
  <2>1. historyRequested \subseteq History!Ids /\ filled \subseteq historyRequested
    BY <1>1, <1>6, <1>7, <1>8
  <2>2. ASSUME NEW id \in History!Ids
        PROVE  /\ errors[id] # "" => id \in Seen(storage)
               /\ errors[id] = "404" => id \notin existing
    BY <1>6, <1>7, <1>8, <1>9
  <2>3. ASSUME NEW id \in filled PROVE errors[id] # "" => id \in retried
    BY <1>1, <1>6, <1>7, <1>8, <1>9
  <2>4. ASSUME NEW id \in historyRequested
        PROVE  id \in filled \/ errors[id] # "" \/ \E c \in remaining : id \in ToSet(c.ids)
    <3>1. CASE id \in ToSet(b.ids)
      BY <1>1, <1>6, <1>8, <1>9, <3>1
    <3>2. CASE id \notin ToSet(b.ids)
      <4>1. \/ id \in historyData \/ historyErrors[id] # ""
            \/ \E c \in batches : id \in ToSet(c.ids)
        BY <1>4 DEF RequestsTrue
      <4> QED
        BY <1>1, <1>6, <1>8, <1>9, <3>2, <4>1
    <3> QED
      BY <3>1, <3>2
  <2>5. \A c, d \in remaining : c # d => ToSet(c.ids) \cap ToSet(d.ids) = {}
    BY <1>1, <1>4 DEF RequestsTrue
  <2>6. existing \subseteq Seen(storage)
    BY <1>4 DEF RequestsTrue
  <2> QED
    BY <1>9, <1>10, <2>1, <2>2, <2>3, <2>4, <2>5, <2>6 DEF RequestsTrue
<1> QED
  BY <1>3, <1>4, <1>11, ShownStep

(* All of it has failed, and may be asked for again. *)
LEMMA BatchFailsStep ==
  ASSUME HistoryInv, NEW b \in batches, History!BatchFails(b)
  PROVE  HistoryInv'
<1>1. PICK wanted, remaining :
        wanted = historyRequested \ ToSet(b.ids) /\ remaining = batches \ {b}
  OBVIOUS
<1>2. PICK errors :
        errors = [id \in History!Ids |->
                    IF id \in ToSet(b.ids) THEN "failed" ELSE historyErrors[id]]
  OBVIOUS
<1>3. /\ existing' = existing /\ storage' = storage /\ batches' = remaining
      /\ uploadHistory' = uploadHistory /\ visibleCount' = visibleCount
      /\ historyData' = historyData /\ historyErrors' = errors
      /\ historyRequested' = wanted /\ retried' = retried
  BY <1>1, <1>2, HistoryNames DEF History!BatchFails
<1>4. RequestsTrue(storage, historyRequested, historyData, historyErrors, existing, batches,
                   retried)
  BY DEF HistoryInv
<1>5. /\ b.ids \in Seq(History!Ids) /\ ToSet(b.ids) \subseteq Seen(storage)
      /\ ToSet(b.ids) \cap historyData = {}
  BY <1>4 DEF RequestsTrue, BatchTrue
<1>6. /\ historyRequested \subseteq History!Ids /\ historyData \subseteq historyRequested
      /\ historyErrors \in [History!Ids -> {"", "404", "failed"}]
      /\ \A id \in historyData : historyErrors[id] # "" => id \in retried
      /\ \A id \in History!Ids : /\ historyErrors[id] # "" => id \in Seen(storage)
                                 /\ historyErrors[id] = "404" => id \notin existing
  BY <1>4 DEF RequestsTrue
<1>7. /\ errors \in [History!Ids -> {"", "404", "failed"}]
      /\ \A id \in History!Ids :
           errors[id] = IF id \in ToSet(b.ids) THEN "failed" ELSE historyErrors[id]
  BY <1>2, <1>6
<1>8. ASSUME NEW c \in remaining
      PROVE  BatchTrue(c, wanted, Seen(storage), historyData, existing, errors, retried)
  <2>1. BatchTrue(c, historyRequested, Seen(storage), historyData, existing, historyErrors,
                  retried)
    BY <1>1, <1>4 DEF RequestsTrue
  <2>2. ToSet(b.ids) \cap ToSet(c.ids) = {}
    BY <1>1, <1>4 DEF RequestsTrue
  <2>3. /\ ToSet(c.ids) \subseteq historyRequested /\ ToSet(c.ids) \cap historyData = {}
        /\ c.missing \cap existing = {}
        /\ \A id \in ToSet(c.ids) : historyErrors[id] # "" => id \in retried
    BY <2>1 DEF BatchTrue
  <2>4. ToSet(c.ids) \subseteq wanted
    BY <1>1, <2>2, <2>3
  <2>5. \A id \in ToSet(c.ids) : errors[id] # "" => id \in retried
    BY <1>6, <1>7, <2>2, <2>3
  <2> QED
    BY <2>1, <2>3, <2>4, <2>5, BatchStays
<1>9. RequestsTrue(storage, wanted, historyData, errors, existing, remaining, retried)
  <2>1. wanted \subseteq History!Ids /\ historyData \subseteq wanted
    BY <1>1, <1>5, <1>6
  <2>2. ASSUME NEW id \in History!Ids
        PROVE  /\ errors[id] # "" => id \in Seen(storage)
               /\ errors[id] = "404" => id \notin existing
    BY <1>5, <1>6, <1>7
  <2>3. ASSUME NEW id \in historyData PROVE errors[id] # "" => id \in retried
    BY <1>5, <1>6, <1>7
  <2>4. ASSUME NEW id \in wanted
        PROVE  \/ id \in historyData \/ errors[id] # ""
               \/ \E c \in remaining : id \in ToSet(c.ids)
    <3>1. /\ id \in historyRequested /\ id \notin ToSet(b.ids)
      BY <1>1
    <3>2. \/ id \in historyData \/ historyErrors[id] # ""
          \/ \E c \in batches : id \in ToSet(c.ids)
      BY <1>4, <3>1 DEF RequestsTrue
    <3> QED
      BY <1>1, <1>6, <1>7, <3>1, <3>2
  <2>5. \A c, d \in remaining : c # d => ToSet(c.ids) \cap ToSet(d.ids) = {}
    BY <1>1, <1>4 DEF RequestsTrue
  <2>6. existing \subseteq Seen(storage)
    BY <1>4 DEF RequestsTrue
  <2> QED
    BY <1>7, <1>8, <2>1, <2>2, <2>3, <2>4, <2>5, <2>6 DEF RequestsTrue
<1>10. ASSUME NEW id \in UpTo(uploadHistory, visibleCount)
       PROVE  (id \in wanted \/ errors[id] # "") /\ id \notin historyData \cap Links
  <2>1. /\ id \in historyRequested \/ historyErrors[id] # ""
        /\ id \notin historyData \cap Links
    BY DEF HistoryInv, VisibleTrue
  <2>2. id \in History!Ids
    BY UpToElements DEF HistoryInv, ListsTyped
  <2> QED
    BY <1>1, <1>7, <2>1, <2>2
<1>11. VisibleTrue'
  BY <1>3, <1>10 DEF VisibleTrue, UpTo
<1>12. ListsTyped(storage, uploadHistory)' /\ visibleCount' \in Nat
  BY <1>3 DEF HistoryInv, ListsTyped, InFront
<1>13. RequestsTrue(storage, historyRequested, historyData, historyErrors, existing, batches,
                    retried)'
  BY <1>3, <1>9
<1> QED
  BY <1>11, <1>12, <1>13 DEF HistoryInv

LEMMA HistoryInvStep ==
  ASSUME History!HistoryAssumption, HistoryInv, [History!HNext]_(History!hvars)
  PROVE  HistoryInv'
<1>1. CASE UNCHANGED History!hvars
  <2>1. ListsTyped(storage, uploadHistory)' /\ visibleCount' \in Nat /\ VisibleTrue'
    BY <1>1 DEF History!hvars, HistoryInv, VisibleTrue, UpTo, ListsTyped, InFront
  <2>2. RequestsTrue(storage, historyRequested, historyData, historyErrors, existing, batches,
                     retried)'
    BY <1>1 DEF History!hvars, HistoryInv
  <2> QED
    BY <2>1, <2>2 DEF HistoryInv
<1>2. ASSUME NEW id \in Coming, History!addToHistory(id) \/ History!AddedElsewhere(id)
      PROVE  HistoryInv'
  BY <1>2, AddHistoryStep, AddedElsewhereStep
<1>3. ASSUME NEW id \in existing, History!Deleted(id) PROVE HistoryInv'
  BY <1>3, DeletedStep
<1>4. CASE History!ShowMore \/ History!Reload
  BY <1>4, ShowMoreStep, ReloadStep
<1>5. ASSUME NEW b \in batches,
             History!ChunkAnswer(b) \/ History!BatchLoaded(b) \/ History!BatchFails(b)
      PROVE  HistoryInv'
  BY <1>5, ChunkAnswerStep, BatchLoadedStep, BatchFailsStep
<1> QED
  BY <1>1, <1>2, <1>3, <1>4, <1>5 DEF History!HNext

(* However batches fail, overlap and are asked for again, and whatever     *)
(* other tabs add: no card waits for an answer nobody was asked for; "404" *)
(* is said only of an upload that is gone; an error stays over data only   *)
(* on a card asked for again; and nothing but links is ever forgotten      *)
(* (loadHistoryBatch, ignoreUpload and lib/upload/history.ts).             *)
THEOREM CardsExplainedHolds == PagesSpec => []CardsExplained
<1>1. ASSUME HistoryInv PROVE History!CardsExplained
  <2>1. PICK visible : visible = ToSet(History!First(uploadHistory, visibleCount))
    OBVIOUS
  <2>2. visible = UpTo(uploadHistory, visibleCount) /\ visible \subseteq History!Ids
    <3>1. uploadHistory \in Seq(History!Ids) /\ visibleCount \in Nat
      BY <1>1 DEF HistoryInv, ListsTyped
    <3> QED
      BY <2>1, <3>1, FirstOf, UpToElements
  <2>3. RequestsTrue(storage, historyRequested, historyData, historyErrors, existing, batches,
                     retried)
    BY <1>1 DEF HistoryInv
  <2>4. \A id \in visible :
          /\ id \in historyRequested \/ historyErrors[id] # ""
          /\ id \notin historyData \cap Links
    BY <1>1, <2>2 DEF HistoryInv, VisibleTrue
  <2>5. ASSUME NEW id \in visible, History!CardShown(id) = "loading"
        PROVE  \E b \in batches : id \in ToSet(b.ids)
    <3>1. historyErrors[id] \in {"", "404", "failed"}
      BY <2>2, <2>3 DEF RequestsTrue
    <3>2. historyErrors[id] = "" /\ id \notin historyData
      BY <2>5, <3>1 DEF History!CardShown
    <3> QED
      BY <2>3, <2>4, <3>2 DEF RequestsTrue
  <2>6. ASSUME NEW id \in History!Ids, History!CardShown(id) = "404" PROVE id \notin existing
    <3>1. historyErrors[id] = "404"
      BY <2>6 DEF History!CardShown
    <3> QED
      BY <2>3, <3>1 DEF RequestsTrue
  <2>7. ASSUME NEW id \in historyData, History!CardShown(id) # "upload" PROVE id \in retried
    <3>1. historyErrors[id] # ""
      BY <2>7 DEF History!CardShown
    <3> QED
      BY <2>3, <3>1 DEF RequestsTrue
  <2>8. existing \ Links \subseteq ToSet(storage)
    BY <2>3 DEF RequestsTrue, Seen
  <2>9. IsInjective(storage) /\ IsInjective(uploadHistory)
    BY <1>1 DEF HistoryInv, ListsTyped
  <2>10. visible \cap historyData \cap Links = {}
    BY <2>4
  <2> QED
    BY <2>1, <2>5, <2>6, <2>7, <2>8, <2>9, <2>10, HistoryNames DEF History!CardsExplained
<1>2. PagesAssumption => History!HistoryAssumption
  BY DEF PagesAssumption
<1>3. WhenHistoryOpen => CardsExplained
  BY <1>1 DEF WhenHistoryOpen, CardsExplained
<1>4. PagesInit => WhenHistoryOpen
  BY <1>2, HistoryInvInit, PagesAssumption DEF PagesInit, WhenHistoryOpen
<1>5. WhenHistoryOpen /\ [PagesNext]_pagesVars => WhenHistoryOpen'
  BY <1>2, HistoryInvStep, PagesAssumption, OneOpen DEF WhenHistoryOpen
<1> QED
  BY <1>3, <1>4, <1>5, PTL DEF PagesSpec

-----------------------------------------------------------------------------
(* The public gallery. *)

LoadFields == {"n", "refresh", "start", "end", "alone", "since", "got"}
GotFields == {"items", "end", "total", "has_more"}
ShownFields == {"end", "total", "has_more"}

(* The feed's numbers, newest first: none is above top. *)
NewestFirst(f, top) ==
  /\ f \in Seq(Int)
  /\ \A i \in 1..Len(f) : f[i] <= top
  /\ \A i, j \in 1..Len(f) : i < j => f[i] > f[j]

Slice(f, from, to) == SubSeq(f, from + 1, Gallery!Min2(to, Len(f)))

(* The feed holds no more below the last card than its page said. *)
FewBelow(f, cards, last) ==
  last.has_more =>
    /\ Len(cards) > 0
    /\ \A i \in 1..Len(f) : f[i] <= cards[Len(cards)] => Len(f) - i <= last.total - last.end

CardsOf(f, top, cards, last) ==
  /\ cards \in Seq(Int) /\ \A i \in 1..Len(cards) : cards[i] <= top
  /\ last.end \in Nat /\ last.total \in Nat
  /\ last.has_more = (last.end < last.total)
  /\ FewBelow(f, cards, last)

Shows(f, cards, last, from) == cards = Slice(f, from, last.end) /\ last.total = Len(f)

From(k) == IF k.refresh THEN 0 ELSE k.end - GalleryPageSize

(* Until its first answer a load has nothing; what has come since then is  *)
(* of the feed of that time, and of today's if nothing changed.            *)
LoadTyped(k) ==
  /\ DOMAIN k = LoadFields /\ DOMAIN k.got = GotFields
  /\ k.refresh \in BOOLEAN /\ k.alone \in BOOLEAN
  /\ k.start \in Nat /\ k.end \in Nat /\ k.since \in Nat
  /\ From(k) \in Nat /\ k.end > 0

LoadInv(k, f, now) ==
  /\ LoadTyped(k)
  /\ k.since <= now
  /\ k.got.end = 0 => k.start = From(k) /\ k.got.items = <<>>
  /\ k.got.end # 0 => k.got.end = k.start /\ From(k) < k.start /\ k.start <= k.end
  /\ ~k.refresh => k.start \in {From(k), k.end}
  /\ k.refresh => Len(k.got.items) <= k.got.end
  /\ CardsOf(f, InFeed + now, k.got.items, k.got)
  /\ k.got.end # 0 /\ k.since = now => Shows(f, k.got.items, k.got, From(k))

FeedInv == changes \in Nat /\ NewestFirst(server_feed, InFeed + changes)

LoadsInv == \A k \in loads : LoadInv(k, server_feed, changes)

ShownInv ==
  /\ DOMAIN galleryLast = ShownFields
  /\ galleryLast.end = 0 => galleryItems = <<>>
  /\ as_of \in Nat /\ as_of <= changes
  /\ CardsOf(server_feed, InFeed + changes, galleryItems, galleryLast)
  /\ galleryLast.end # 0 /\ as_of = changes /\ ~mixed => Shows(server_feed, galleryItems, galleryLast, 0)

(* One page load at a time; one that overlaps no refresh asks for the page *)
(* after those shown, and a refresh alone is not of a longer range.        *)
TurnsInv ==
  /\ mixed \in BOOLEAN
  /\ galleryLoading = \E k \in loads : ~k.refresh
  /\ \A k, l \in loads : ~k.refresh /\ ~l.refresh => k = l
  /\ \A k \in loads : ~k.refresh /\ ~mixed =>
       From(k) = galleryLast.end /\ \A l \in loads : ~l.refresh
  /\ \A k \in loads : k.refresh /\ ~k.alone => mixed
  /\ \A k \in loads : k.refresh /\ k.alone =>
       ~galleryLoading /\ (galleryLast.end = k.end \/ Len(galleryItems) <= galleryLast.end)

GalleryInv == FeedInv /\ LoadsInv /\ ShownInv /\ TurnsInv

LEMMA Min2Is ==
  \A i, j \in Int :
    /\ Gallery!Min2(i, j) \in Int
    /\ Gallery!Min2(i, j) <= i /\ Gallery!Min2(i, j) <= j
    /\ i <= j => Gallery!Min2(i, j) = i
    /\ i >= j => Gallery!Min2(i, j) = j
BY DEF Gallery!Min2

(* s is what f holds after the first so many, up to its m-th. *)
Between(s, f, from, m) ==
  /\ s \in Seq(Int) /\ Len(s) = IF from < m THEN m - from ELSE 0
  /\ \A i \in 1 .. m - from : s[i] = f[from + i]

LEMMA SliceProperties ==
  ASSUME NEW f \in Seq(Int), NEW from \in Nat, NEW to \in Nat
  PROVE  Between(Slice(f, from, to), f, from, Gallery!Min2(to, Len(f)))
<1> DEFINE m == Gallery!Min2(to, Len(f))
<1>1. Len(f) \in Nat
  BY LenProperties
<1>2. m \in Int /\ m <= to /\ m <= Len(f)
  BY <1>1 DEF Gallery!Min2
<1> HIDE DEF m
<1>3. \A i \in from + 1 .. m : f[i] \in Int
  BY <1>1, <1>2, ElementOfSeq
<1>4. Slice(f, from, to) = SubSeq(f, from + 1, m)
  BY DEF Slice, m
<1>5. /\ SubSeq(f, from + 1, m) \in Seq(Int)
      /\ Len(SubSeq(f, from + 1, m)) = IF from + 1 <= m THEN m - (from + 1) + 1 ELSE 0
      /\ \A i \in 1 .. m - (from + 1) + 1 : SubSeq(f, from + 1, m)[i] = f[from + 1 + i - 1]
  <2>1. PICK first \in Int : first = from + 1
    OBVIOUS
  <2>2. \A i \in first .. m : f[i] \in Int
    BY <1>3, <2>1
  <2>3. /\ SubSeq(f, first, m) \in Seq(Int)
        /\ Len(SubSeq(f, first, m)) = IF first <= m THEN m - first + 1 ELSE 0
        /\ \A i \in 1 .. m - first + 1 : SubSeq(f, first, m)[i] = f[first + i - 1]
    BY <1>2, <2>2, SubSeqProperties
  <2> QED
    BY <2>1, <2>3
<1>7. \A i \in 1 .. m - from : SubSeq(f, from + 1, m)[i] = f[from + i]
  BY <1>2, <1>5
<1>8. Len(SubSeq(f, from + 1, m)) = IF from < m THEN m - from ELSE 0
  BY <1>2, <1>5
<1> QED
  BY <1>4, <1>5, <1>7, <1>8 DEF Between, m

LEMMA SliceJoin ==
  ASSUME NEW f \in Seq(Int), NEW a \in Nat, NEW b \in Nat, NEW c \in Nat, a <= b, b <= c
  PROVE  Slice(f, a, b) \o Slice(f, b, c) = Slice(f, a, c)
<1>1. PICK k : k = Gallery!Min2(b, Len(f))
  OBVIOUS
<1>2. PICK n : n = Gallery!Min2(c, Len(f))
  OBVIOUS
<1>3. Len(f) \in Nat
  BY LenProperties
<1>4. k \in Int /\ n \in Int /\ k <= n /\ n <= Len(f) /\ k <= b
      /\ (b <= Len(f) => k = b) /\ (b >= Len(f) => k = Len(f) /\ n = Len(f))
  BY <1>1, <1>2, <1>3 DEF Gallery!Min2
<1>5. Slice(f, a, b) = SubSeq(f, a + 1, k) /\ Slice(f, b, c) = SubSeq(f, b + 1, n)
      /\ Slice(f, a, c) = SubSeq(f, a + 1, n)
  BY <1>1, <1>2 DEF Slice
<1>6. CASE a <= k
  <2>1. SubSeq(f, a + 1, k) \o SubSeq(f, k + 1, n) = SubSeq(f, a + 1, n)
    <3>1. a + 1 \in 1 .. Len(f) + 1 /\ k \in (a + 1) - 1 .. Len(f) /\ n \in k .. Len(f)
      BY <1>3, <1>4, <1>6
    <3> QED
      BY <3>1, ConcatAdjacentSubSeq
  <2>2. SubSeq(f, b + 1, n) = SubSeq(f, k + 1, n)
    <3>1. CASE b <= Len(f)
      BY <3>1, <1>4
    <3>2. CASE b > Len(f)
      <4>1. SubSeq(f, b + 1, n) = <<>>
        BY <3>2, <1>3, <1>4, SubSeqEmpty
      <4>2. SubSeq(f, k + 1, n) = <<>>
        BY <3>2, <1>3, <1>4, SubSeqEmpty
      <4> QED
        BY <4>1, <4>2
    <3>3. b <= Len(f) \/ b > Len(f)
      BY <1>3
    <3> QED
      BY <3>1, <3>2, <3>3
  <2> QED
    BY <1>5, <2>1, <2>2
<1>7. CASE a > k
  <2>1. b > Len(f) /\ n = k
    BY <1>3, <1>4, <1>7
  <2>2. SubSeq(f, a + 1, k) = <<>> /\ SubSeq(f, b + 1, n) = <<>>
    BY <1>3, <1>4, <1>7, <2>1, SubSeqEmpty
  <2>3. <<>> \o <<>> = <<>>
    BY ConcatEmptySeq, EmptySeq
  <2> QED
    BY <1>5, <2>1, <2>2, <2>3
<1> QED
  BY <1>4, <1>6, <1>7

(* A later feed: what it holds is new, or has no more below it than before.*)
Later(f, g, top) ==
  /\ NewestFirst(g, top + 1)
  /\ \A j \in 1..Len(g) :
       \/ g[j] = top + 1
       \/ \E i \in 1..Len(f) : g[j] = f[i] /\ Len(g) - j <= Len(f) - i

LEMMA FeedGrows ==
  ASSUME NEW top \in Int, NEW f, NewestFirst(f, top)
  PROVE  Later(f, <<top + 1>> \o f, top)
<1>1. PICK one \in Seq(Int) : one = <<top + 1>> /\ Len(one) = 1 /\ one[1] = top + 1
  <2>1. PICK t \in Int : t = top + 1
    OBVIOUS
  <2>2. <<t>> \in Seq(Int) /\ Len(<<t>>) = 1 /\ <<t>>[1] = t
    OBVIOUS
  <2> QED
    BY <2>1, <2>2
<1>2. PICK g : g = one \o f
  OBVIOUS
<1>3. /\ f \in Seq(Int) /\ Len(f) \in Nat
      /\ \A i \in 1..Len(f) : f[i] \in Int /\ f[i] <= top
      /\ \A i, j \in 1..Len(f) : i < j => f[i] > f[j]
  BY LenProperties, ElementOfSeq DEF NewestFirst
<1>4. /\ g \in Seq(Int) /\ Len(g) = 1 + Len(f)
      /\ \A i \in 1 .. 1 + Len(f) : g[i] = IF i <= 1 THEN top + 1 ELSE f[i - 1]
  <2>1. /\ g \in Seq(Int) /\ Len(g) = Len(one) + Len(f)
        /\ \A i \in 1 .. Len(one) + Len(f) : g[i] = IF i <= Len(one) THEN one[i] ELSE f[i - Len(one)]
    BY <1>1, <1>2, <1>3, ConcatProperties
  <2> QED
    BY <1>1, <1>3, <2>1
<1>5. \A i \in 1..Len(g) : g[i] <= top + 1
  <2> SUFFICES ASSUME NEW i \in 1..Len(g) PROVE g[i] <= top + 1
    OBVIOUS
  <2>1. CASE i = 1
    BY <1>4, <2>1
  <2>2. CASE i # 1
    <3>1. i - 1 \in 1..Len(f) /\ g[i] = f[i - 1]
      BY <1>3, <1>4, <2>2
    <3>2. f[i - 1] \in Int /\ f[i - 1] <= top
      BY <1>3, <3>1
    <3> QED
      BY <3>1, <3>2
  <2> QED
    BY <2>1, <2>2
<1>6. \A i, j \in 1..Len(g) : i < j => g[i] > g[j]
  <2> SUFFICES ASSUME NEW i \in 1..Len(g), NEW j \in 1..Len(g), i < j PROVE g[i] > g[j]
    OBVIOUS
  <2>1. j - 1 \in 1..Len(f) /\ g[j] = f[j - 1]
    BY <1>3, <1>4
  <2>2. CASE i = 1
    <3>1. f[j - 1] \in Int /\ f[j - 1] <= top
      BY <1>3, <2>1
    <3>2. g[1] = top + 1
      BY <1>3, <1>4
    <3> QED
      BY <2>1, <2>2, <3>1, <3>2
  <2>3. CASE i # 1
    <3>1. i - 1 \in 1..Len(f) /\ g[i] = f[i - 1] /\ i - 1 < j - 1
      BY <1>3, <1>4, <2>3
    <3> QED
      BY <1>3, <2>1, <3>1
  <2> QED
    BY <2>2, <2>3
<1>7. ASSUME NEW j \in 1..Len(g), g[j] # top + 1
      PROVE  \E i \in 1..Len(f) : g[j] = f[i] /\ Len(g) - j <= Len(f) - i
  <2>1. j - 1 \in 1..Len(f) /\ g[j] = f[j - 1] /\ Len(g) - j <= Len(f) - (j - 1)
    BY <1>3, <1>4, <1>7
  <2> QED
    BY <2>1
<1>8. NewestFirst(g, top + 1)
  BY <1>4, <1>5, <1>6 DEF NewestFirst
<1> QED
  BY <1>1, <1>2, <1>7, <1>8 DEF Later

LEMMA FeedShrinks ==
  ASSUME NEW top \in Int, NEW f, NewestFirst(f, top), NEW r \in DOMAIN f
  PROVE  Later(f, Gallery!RemoveAt(f, r), top)
<1>1. /\ f \in Seq(Int) /\ Len(f) \in Nat /\ r \in 1..Len(f)
      /\ \A i \in 1..Len(f) : f[i] \in Int /\ f[i] <= top
      /\ \A i, j \in 1..Len(f) : i < j => f[i] > f[j]
  BY LenProperties, ElementOfSeq DEF NewestFirst
<1>2. PICK g : g = Gallery!RemoveAt(f, r)
  OBVIOUS
<1>3. /\ g \in Seq(Int) /\ Len(g) = Len(f) - 1
      /\ \A i \in 1 .. Len(f) - 1 : g[i] = IF i < r THEN f[i] ELSE f[i + 1]
  <2>1. f \in Seq(Int) /\ r \in 1..Len(f)
    BY <1>1
  <2>2. Gallery!RemoveAt(f, r) = RemoveAt(f, r)
    BY DEF Gallery!RemoveAt, RemoveAt
  <2>3. g \in Seq(Int) /\ IsWithout(f, r, g)
    BY <1>2, <2>1, <2>2, RemovedAt
  <2> QED
    BY <2>3 DEF IsWithout
<1>4. ASSUME NEW i \in 1..Len(g)
      PROVE  \E o \in 1..Len(f) : g[i] = f[o] /\ Len(g) - i <= Len(f) - o /\ o = IF i < r THEN i ELSE i + 1
  <2>1. i \in 1..Len(f) - 1 /\ r \in Int /\ Len(f) \in Nat
    BY <1>1, <1>3
  <2>2. CASE i < r
    <3>1. i \in 1..Len(f) /\ Len(g) - i <= Len(f) - i
      BY <1>3, <2>1
    <3>2. g[i] = f[i]
      BY <1>3, <2>1, <2>2
    <3> QED
      BY <2>2, <3>1, <3>2
  <2>3. CASE ~(i < r)
    <3>1. i + 1 \in 1..Len(f) /\ Len(g) - i <= Len(f) - (i + 1)
      BY <1>3, <2>1
    <3>2. g[i] = f[i + 1]
      BY <1>3, <2>1, <2>3
    <3> QED
      BY <2>3, <3>1, <3>2
  <2> QED
    BY <2>2, <2>3
<1>5. ASSUME NEW i \in 1..Len(g) PROVE g[i] <= top + 1
  <2>1. PICK o \in 1..Len(f) : g[i] = f[o]
    BY <1>4
  <2>2. f[o] \in Int /\ f[o] <= top
    BY <1>1
  <2> QED
    BY <2>1, <2>2
<1>6. \A i, j \in 1..Len(g) : i < j => g[i] > g[j]
  <2> SUFFICES ASSUME NEW i \in 1..Len(g), NEW j \in 1..Len(g), i < j PROVE g[i] > g[j]
    OBVIOUS
  <2>1. PICK o \in 1..Len(f) : g[i] = f[o] /\ o = IF i < r THEN i ELSE i + 1
    BY <1>4
  <2>2. PICK q \in 1..Len(f) : g[j] = f[q] /\ q = IF j < r THEN j ELSE j + 1
    BY <1>4
  <2>3. i \in Int /\ j \in Int /\ r \in Int
    BY <1>1, <1>3
  <2>4. o < q
    BY <2>1, <2>2, <2>3
  <2> QED
    BY <1>1, <2>1, <2>2, <2>4
<1>7. NewestFirst(g, top + 1)
  BY <1>3, <1>5, <1>6 DEF NewestFirst
<1> QED
  BY <1>2, <1>4, <1>7 DEF Later

LEMMA CardsLater ==
  ASSUME NEW top \in Int, NEW f, NEW g, NEW cards, NEW last,
         NewestFirst(f, top), Later(f, g, top), CardsOf(f, top, cards, last)
  PROVE  CardsOf(g, top + 1, cards, last)
<1>1. /\ f \in Seq(Int) /\ g \in Seq(Int) /\ Len(f) \in Nat /\ Len(g) \in Nat
      /\ cards \in Seq(Int) /\ Len(cards) \in Nat
      /\ \A i \in 1..Len(cards) : cards[i] \in Int /\ cards[i] <= top
  BY LenProperties, ElementOfSeq DEF Later, NewestFirst, CardsOf
<1>2. FewBelow(g, cards, last)
  <2> SUFFICES ASSUME last.has_more
               PROVE  /\ Len(cards) > 0
                      /\ \A j \in 1..Len(g) : g[j] <= cards[Len(cards)] =>
                           Len(g) - j <= last.total - last.end
    BY DEF FewBelow
  <2>1. Len(cards) > 0
    BY DEF CardsOf, FewBelow
  <2>2. ASSUME NEW j \in 1..Len(g), g[j] <= cards[Len(cards)]
        PROVE  Len(g) - j <= last.total - last.end
    <3>1. cards[Len(cards)] \in Int /\ cards[Len(cards)] <= top
      BY <1>1, <2>1
    <3>2. g[j] # top + 1
      BY <2>2, <3>1
    <3>3. PICK i \in 1..Len(f) : g[j] = f[i] /\ Len(g) - j <= Len(f) - i
      BY <3>2 DEF Later
    <3>4. Len(f) - i <= last.total - last.end
      BY <2>2, <3>3 DEF CardsOf, FewBelow
    <3>5. last.total \in Nat /\ last.end \in Nat /\ Len(f) \in Nat /\ Len(g) \in Nat
      BY <1>1 DEF CardsOf
    <3> QED
      BY <3>3, <3>4, <3>5
  <2> QED
    BY <2>1, <2>2
<1> QED
  BY <1>1, <1>2 DEF CardsOf

(* What the server answers with. *)
LEMMA SliceCards ==
  ASSUME NEW top \in Int, NEW f, NewestFirst(f, top), NEW from \in Nat, NEW to \in Nat,
         from < to, NEW last,
         last.end = to, last.total = Len(f), last.has_more = (to < Len(f))
  PROVE  /\ CardsOf(f, top, Slice(f, from, to), last)
         /\ Len(Slice(f, from, to)) <= to - from
<1>1. PICK m : m = Gallery!Min2(to, Len(f))
  OBVIOUS
<1>2. PICK s : s = Slice(f, from, to)
  OBVIOUS
<1>3. /\ f \in Seq(Int) /\ \A i \in 1..Len(f) : f[i] \in Int /\ f[i] <= top
      /\ \A i, j \in 1..Len(f) : i < j => f[i] > f[j]
  BY ElementOfSeq DEF NewestFirst
<1>4. /\ s \in Seq(Int) /\ Len(s) = IF from < m THEN m - from ELSE 0
      /\ m \in Int /\ m <= to /\ m <= Len(f) /\ Len(f) \in Nat
      /\ \A i \in 1 .. m - from : s[i] = f[from + i]
  <2>1. f \in Seq(Int)
    BY <1>3
  <2>2. Between(s, f, from, m)
    BY <1>1, <1>2, <2>1, SliceProperties
  <2>3. Len(f) \in Nat
    BY <2>1, LenProperties
  <2>4. m \in Int /\ m <= to /\ m <= Len(f)
    BY <1>1, <2>3 DEF Gallery!Min2
  <2> QED
    BY <2>2, <2>3, <2>4 DEF Between
<1>5. ASSUME NEW i \in 1..Len(s) PROVE s[i] <= top
  <2>1. from + i \in 1..Len(f) /\ s[i] = f[from + i]
    BY <1>4
  <2> QED
    BY <1>3, <2>1
<1>6. FewBelow(f, s, last)
  <2> SUFFICES ASSUME last.has_more
               PROVE  /\ Len(s) > 0
                      /\ \A i \in 1..Len(f) : f[i] <= s[Len(s)] => Len(f) - i <= last.total - last.end
    BY DEF FewBelow
  <2>1. m = to
    BY <1>1, <1>4 DEF Gallery!Min2
  <2>2. Len(s) = to - from /\ Len(s) > 0
    BY <1>4, <2>1
  <2>3. s[Len(s)] = f[to] /\ to \in 1..Len(f)
    <3>1. Len(s) \in 1 .. m - from /\ from + Len(s) = to
      BY <1>4, <2>1, <2>2
    <3>2. s[Len(s)] = f[from + Len(s)]
      BY <1>4, <3>1
    <3>3. to \in 1..Len(f)
      BY <1>4, <2>1
    <3> QED
      BY <3>1, <3>2, <3>3
  <2>4. ASSUME NEW i \in 1..Len(f), f[i] <= f[to] PROVE i >= to
    BY <1>3, <1>4, <2>3, <2>4
  <2>5. \A i \in 1..Len(f) : i >= to => Len(f) - i <= Len(f) - to
    BY <1>4
  <2> QED
    BY <2>2, <2>3, <2>4, <2>5
<1>7. last.end \in Nat /\ last.total \in Nat /\ last.has_more = (last.end < last.total)
  BY <1>4
<1>8. Len(s) <= to - from
  BY <1>4
<1> QED
  BY <1>2, <1>4, <1>5, <1>6, <1>7, <1>8 DEF CardsOf

LEMMA JoinCards ==
  ASSUME NEW top \in Int, NEW f, NewestFirst(f, top), NEW cards, NEW last, NEW before,
         before \in Seq(Int), \A i \in 1..Len(before) : before[i] <= top,
         CardsOf(f, top, cards, last)
  PROVE  /\ CardsOf(f, top, before \o cards, last)
         /\ Len(before \o cards) = Len(before) + Len(cards)
<1>1. PICK c : c = before \o cards
  OBVIOUS
<1>2. cards \in Seq(Int) /\ \A i \in 1..Len(cards) : cards[i] <= top
  BY DEF CardsOf
<1>3. Len(before) \in Nat /\ Len(cards) \in Nat
  BY <1>2, LenProperties
<1>4. /\ c \in Seq(Int) /\ Len(c) = Len(before) + Len(cards)
      /\ \A i \in 1 .. Len(before) + Len(cards) :
           c[i] = IF i <= Len(before) THEN before[i] ELSE cards[i - Len(before)]
  BY <1>1, <1>2, ConcatProperties
<1>5. ASSUME NEW i \in 1..Len(c) PROVE c[i] <= top
  <2>1. CASE i <= Len(before)
    <3>1. i \in 1..Len(before) /\ c[i] = before[i]
      BY <1>3, <1>4, <2>1
    <3> QED
      BY <3>1
  <2>2. CASE i > Len(before)
    <3>1. i - Len(before) \in 1..Len(cards) /\ c[i] = cards[i - Len(before)]
      BY <1>3, <1>4, <2>2
    <3> QED
      BY <1>2, <3>1
  <2> QED
    BY <2>1, <2>2, <1>3
<1>6. Len(cards) > 0 => Len(c) > 0 /\ c[Len(c)] = cards[Len(cards)]
  <2> SUFFICES ASSUME Len(cards) > 0 PROVE Len(c) > 0 /\ c[Len(c)] = cards[Len(cards)]
    OBVIOUS
  <2>1. Len(c) \in 1 .. Len(before) + Len(cards) /\ ~(Len(c) <= Len(before))
        /\ Len(c) - Len(before) = Len(cards)
    BY <1>3, <1>4
  <2>2. c[Len(c)] = cards[Len(c) - Len(before)]
    BY <1>4, <2>1
  <2> QED
    BY <2>1, <2>2
<1>7. FewBelow(f, c, last)
  BY <1>6 DEF CardsOf, FewBelow
<1>8. last.end \in Nat /\ last.total \in Nat /\ last.has_more = (last.end < last.total)
  BY DEF CardsOf
<1> QED
  BY <1>1, <1>4, <1>5, <1>7, <1>8 DEF CardsOf

(* A request that was answered, and what it holds then. *)
Served(k, f, now, upto) ==
  [k EXCEPT !.start = upto,
            !.got = [items |-> k.got.items \o Slice(f, k.start, upto), end |-> upto,
                     total |-> Len(f), has_more |-> upto < Len(f)],
            !.since = IF k.got.end = 0 THEN now ELSE @]

LEMMA ServedInv ==
  ASSUME Gallery!GalleryAssumption, NEW f, NEW now \in Nat, NewestFirst(f, InFeed + now),
         NEW k, LoadInv(k, f, now), k.start < k.end,
         NEW upto, upto = IF k.refresh THEN Gallery!Min2(k.end, k.start + GalleryChunk) ELSE k.end
  PROVE  LoadInv(Served(k, f, now, upto), f, now)
<1>1. /\ DOMAIN k = LoadFields /\ DOMAIN k.got = GotFields
      /\ k.refresh \in BOOLEAN /\ k.alone \in BOOLEAN
      /\ k.start \in Nat /\ k.end \in Nat /\ k.since \in Nat
      /\ From(k) \in Nat /\ k.end > 0
  BY DEF LoadInv, LoadTyped
<1>2. upto \in Nat /\ k.start < upto /\ upto <= k.end /\ (~k.refresh => upto = k.end)
  BY <1>1 DEF Gallery!Min2, Gallery!GalleryAssumption
<1>3. InFeed + now \in Int
  BY DEF Gallery!GalleryAssumption
<1>4. PICK s : s = Slice(f, k.start, upto)
  OBVIOUS
<1>5. PICK g : g = [items |-> k.got.items \o s, end |-> upto, total |-> Len(f), has_more |-> upto < Len(f)]
  OBVIOUS
<1>6. CardsOf(f, InFeed + now, s, g) /\ Len(s) <= upto - k.start
  BY <1>1, <1>2, <1>3, <1>4, <1>5, SliceCards, SMTT(30)
<1>7. /\ k.got.items \in Seq(Int) /\ \A i \in 1..Len(k.got.items) : k.got.items[i] <= InFeed + now
  BY DEF LoadInv, CardsOf
<1>8. /\ CardsOf(f, InFeed + now, k.got.items \o s, g)
      /\ Len(k.got.items \o s) = Len(k.got.items) + Len(s)
  BY <1>3, <1>6, <1>7, JoinCards
<1>9. PICK n : n = Served(k, f, now, upto)
  OBVIOUS
<1>10. /\ DOMAIN n = LoadFields
       /\ n.start = upto /\ n.got = g /\ n.since = (IF k.got.end = 0 THEN now ELSE k.since)
       /\ n.refresh = k.refresh /\ n.alone = k.alone /\ n.end = k.end
  BY <1>1, <1>4, <1>5, <1>9 DEF Served, LoadFields
<1>11. From(n) = From(k)
  BY <1>10 DEF From
<1>12. g.end = upto /\ g.items = k.got.items \o s /\ DOMAIN g = GotFields
  BY <1>5 DEF GotFields
<1>13. From(k) <= k.start /\ (~k.refresh => From(k) = k.start)
  BY <1>1, <1>2 DEF LoadInv
<1>14. LoadTyped(n) /\ n.since <= now
  BY <1>1, <1>2, <1>10, <1>11, <1>12 DEF LoadTyped, LoadInv
<1>15. /\ n.got.end # 0
       /\ n.got.end = n.start /\ From(n) < n.start /\ n.start <= n.end
       /\ ~n.refresh => n.start \in {From(n), n.end}
  BY <1>1, <1>2, <1>10, <1>11, <1>12, <1>13
<1>16. n.refresh => Len(n.got.items) <= n.got.end
  <2> SUFFICES ASSUME k.refresh PROVE Len(k.got.items) + Len(s) <= upto
    BY <1>8, <1>10, <1>12
  <2>1. Len(k.got.items) \in Nat /\ Len(s) \in Nat
    BY <1>6, <1>7, LenProperties DEF CardsOf
  <2>2. Len(k.got.items) <= k.start
    <3>1. CASE k.got.end = 0
      BY <3>1, <1>1 DEF LoadInv
    <3>2. CASE k.got.end # 0
      BY <3>2 DEF LoadInv
    <3> QED
      BY <3>1, <3>2
  <2> QED
    BY <1>1, <1>2, <1>6, <2>1, <2>2
<1>17. n.since = now => Shows(f, n.got.items, n.got, From(n))
  <2> SUFFICES ASSUME n.since = now PROVE k.got.items \o s = Slice(f, From(k), upto)
    BY <1>5, <1>10, <1>11, <1>12 DEF Shows
  <2>1. f \in Seq(Int)
    BY DEF NewestFirst
  <2>2. CASE k.got.end = 0
    <3>1. k.got.items = <<>> /\ k.start = From(k)
      BY <2>2 DEF LoadInv
    <3>2. s \in Seq(Int)
      BY <1>6 DEF CardsOf
    <3>3. <<>> \o s = s
      BY <3>2, ConcatEmptySeq
    <3> QED
      BY <1>4, <3>1, <3>3
  <2>3. CASE k.got.end # 0
    <3>1. k.got.items = Slice(f, From(k), k.start)
      BY <1>10, <2>3 DEF LoadInv, Shows
    <3>2. Slice(f, From(k), k.start) \o Slice(f, k.start, upto) = Slice(f, From(k), upto)
      <4>1. From(k) \in Nat /\ k.start \in Nat /\ upto \in Nat
            /\ From(k) <= k.start /\ k.start <= upto
        BY <1>1, <1>2, <1>13
      <4> QED
        <5>1. PICK a \in Nat : a = From(k)
          BY <4>1
        <5>2. PICK b \in Nat : b = k.start
          BY <4>1
        <5>3. PICK c \in Nat : c = upto
          BY <4>1
        <5>4. a <= b /\ b <= c
          BY <4>1, <5>1, <5>2, <5>3
        <5>5. Slice(f, a, b) \o Slice(f, b, c) = Slice(f, a, c)
          BY <2>1, <5>4, SliceJoin, Zenon
        <5> QED
          BY <5>1, <5>2, <5>3, <5>5, Zenon
    <3> QED
      BY <1>4, <3>1, <3>2
  <2> QED
    BY <2>2, <2>3
<1> QED
  BY <1>8, <1>9, <1>10, <1>12, <1>14, <1>15, <1>16, <1>17 DEF LoadInv

LEMMA LoadLater ==
  ASSUME Gallery!GalleryAssumption, NEW f, NEW g, NEW now \in Nat,
         NewestFirst(f, InFeed + now), Later(f, g, InFeed + now), NEW k, LoadInv(k, f, now)
  PROVE  LoadInv(k, g, now + 1)
<1>1. InFeed + now \in Int /\ InFeed + now + 1 = InFeed + (now + 1)
  BY DEF Gallery!GalleryAssumption
<1>2. CardsOf(f, InFeed + now, k.got.items, k.got)
  BY DEF LoadInv
<1>3. CardsOf(g, InFeed + now + 1, k.got.items, k.got)
  BY <1>1, <1>2, CardsLater
<1>4. k.since <= now + 1 /\ k.since # now + 1
  BY DEF LoadInv, LoadTyped
<1> QED
  BY <1>1, <1>3, <1>4 DEF LoadInv

WhenGalleryOpen == component = "gallery" => GalleryInv

LEMMA GalleryInvInit == Gallery!GalleryAssumption /\ Gallery!GInit => GalleryInv
<1> SUFFICES ASSUME Gallery!GalleryAssumption, Gallery!GInit PROVE GalleryInv
  OBVIOUS
<1>1. InFeed \in Nat /\ server_feed = [i \in 1..InFeed |-> InFeed + 1 - i] /\ changes = 0
  BY DEF Gallery!GalleryAssumption, Gallery!GInit
<1>2. server_feed \in [1..InFeed -> Int] /\ \A i \in 1..InFeed : server_feed[i] = InFeed + 1 - i
  BY <1>1
<1>3. server_feed \in Seq(Int)
  BY <1>1, <1>2, SeqDef
<1>4. 1..Len(server_feed) = 1..InFeed
  BY <1>2, <1>3, LenProperties
<1>5. NewestFirst(server_feed, InFeed + changes)
  BY <1>1, <1>2, <1>3, <1>4 DEF NewestFirst
<1>6. loads = {} /\ galleryLoading = FALSE /\ mixed = FALSE /\ as_of = 0
      /\ galleryItems = <<>> /\ galleryLast = Gallery!NoPage
  BY DEF Gallery!GInit
<1>7. /\ DOMAIN galleryLast = ShownFields /\ galleryLast.end = 0 /\ galleryLast.total = 0
      /\ galleryLast.has_more = FALSE
  BY <1>6 DEF Gallery!NoPage, ShownFields
<1>8. galleryItems \in Seq(Int) /\ Len(galleryItems) = 0
  BY <1>6, EmptySeq
<1>9. CardsOf(server_feed, InFeed + changes, galleryItems, galleryLast)
  <2>1. \A i \in 1..Len(galleryItems) : galleryItems[i] <= InFeed + changes
    BY <1>8
  <2>2. galleryLast.has_more = (galleryLast.end < galleryLast.total)
    <3>1. (galleryLast.end < galleryLast.total) = FALSE
      BY <1>7
    <3> QED
      BY <1>7, <3>1, Zenon
  <2> QED
    BY <1>7, <1>8, <2>1, <2>2 DEF CardsOf, FewBelow
<1>10. ShownInv
  BY <1>1, <1>6, <1>7, <1>9 DEF ShownInv
<1>11. LoadsInv /\ TurnsInv
  BY <1>6 DEF LoadsInv, TurnsInv
<1> QED
  BY <1>1, <1>5, <1>10, <1>11 DEF GalleryInv, FeedInv

LEMMA FeedChangeStep ==
  Gallery!GalleryAssumption /\ GalleryInv /\ Gallery!FeedChange => GalleryInv'
<1> SUFFICES ASSUME Gallery!GalleryAssumption, GalleryInv, Gallery!FeedChange PROVE GalleryInv'
  OBVIOUS
<1>1. /\ UNCHANGED <<galleryItems, galleryLast, galleryLoading, loads, as_of, mixed>>
      /\ changes' = changes + 1
  BY DEF Gallery!FeedChange, Gallery!gallery
<1>2. changes \in Nat /\ NewestFirst(server_feed, InFeed + changes)
  BY DEF GalleryInv, FeedInv
<1>3. PICK top \in Int : top = InFeed + changes
  BY <1>2 DEF Gallery!GalleryAssumption
<1>4. Later(server_feed, server_feed', top)
  <2>1. CASE server_feed' = <<InFeed + changes + 1>> \o server_feed
    BY <2>1, <1>2, <1>3, FeedGrows
  <2>2. CASE \E i \in DOMAIN server_feed : server_feed' = Gallery!RemoveAt(server_feed, i)
    BY <2>2, <1>2, <1>3, FeedShrinks
  <2> QED
    BY <2>1, <2>2 DEF Gallery!FeedChange
<1>5. top + 1 = InFeed + changes'
  BY <1>1, <1>2, <1>3 DEF Gallery!GalleryAssumption
<1>6. FeedInv'
  BY <1>1, <1>2, <1>4, <1>5 DEF FeedInv, Later
<1>7. LoadsInv'
  <2> SUFFICES ASSUME NEW k \in loads PROVE LoadInv(k, server_feed', changes + 1)
    BY <1>1 DEF LoadsInv
  <2>1. LoadInv(k, server_feed, changes)
    BY DEF GalleryInv, LoadsInv
  <2> QED
    BY <1>2, <1>3, <1>4, <2>1, LoadLater
<1>8. ShownInv'
  <2>1. CardsOf(server_feed, top, galleryItems, galleryLast)
    BY <1>3 DEF GalleryInv, ShownInv
  <2>2. CardsOf(server_feed', top + 1, galleryItems, galleryLast)
    BY <1>2, <1>3, <1>4, <2>1, CardsLater
  <2>3. as_of <= changes + 1 /\ as_of # changes + 1
    BY <1>2 DEF GalleryInv, ShownInv
  <2> QED
    BY <1>1, <1>5, <2>2, <2>3 DEF GalleryInv, ShownInv
<1>9. TurnsInv'
  BY <1>1 DEF GalleryInv, TurnsInv
<1> QED
  BY <1>6, <1>7, <1>8, <1>9 DEF GalleryInv

(* What is shown and the feed stay, and so does what is known of them. *)
LEMMA ShownStays ==
  GalleryInv /\ UNCHANGED <<server_feed, galleryItems, galleryLast, changes, as_of, mixed>>
    => FeedInv' /\ ShownInv'
BY DEF GalleryInv, FeedInv, ShownInv

LEMMA ServeStep ==
  ASSUME Gallery!GalleryAssumption, GalleryInv, NEW k \in loads, Gallery!Serve(k)
  PROVE  GalleryInv'
<1>1. PICK upto : upto = IF k.refresh THEN Gallery!Min2(k.end, k.start + GalleryChunk) ELSE k.end
  OBVIOUS
<1>2. PICK n : n = Served(k, server_feed, changes, upto)
  OBVIOUS
<1>3. LoadInv(k, server_feed, changes) /\ k.start < k.end /\ changes \in Nat
      /\ NewestFirst(server_feed, InFeed + changes)
  BY DEF GalleryInv, LoadsInv, FeedInv, Gallery!Serve
<1>4. LoadInv(n, server_feed, changes)
  BY <1>1, <1>2, <1>3, ServedInv
<1>5. PICK s : s = Slice(server_feed, k.start, upto)
  OBVIOUS
<1>6. Gallery!feed_handle(k.start, upto) =
        [items |-> s, end |-> upto, total |-> Len(server_feed), has_more |-> upto < Len(server_feed)]
  BY <1>5 DEF Gallery!feed_handle, Slice
<1>7. [Gallery!feed_handle(k.start, upto) EXCEPT !.items = k.got.items \o @] =
        [items |-> k.got.items \o s, end |-> upto, total |-> Len(server_feed), has_more |-> upto < Len(server_feed)]
  <2>1. PICK more : more = (upto < Len(server_feed))
    OBVIOUS
  <2>2. PICK p : p = [items |-> s, end |-> upto, total |-> Len(server_feed), has_more |-> more]
    OBVIOUS
  <2>3. PICK all : all = k.got.items \o s
    OBVIOUS
  <2>4. [p EXCEPT !.items = all] =
          [items |-> all, end |-> upto, total |-> Len(server_feed), has_more |-> more]
    BY <2>2
  <2>5. p.items = s
    BY <2>2
  <2> QED
    BY <1>6, <2>1, <2>2, <2>3, <2>4, <2>5
<1>8. loads' = (loads \ {k}) \cup {n}
  BY <1>1, <1>2, <1>5, <1>7 DEF Gallery!Serve, Gallery!Replace, Served
<1>9. UNCHANGED <<server_feed, galleryItems, galleryLast, galleryLoading, changes, as_of, mixed>>
  BY DEF Gallery!Serve, Gallery!gallery
<1>10. n.refresh = k.refresh /\ n.alone = k.alone /\ n.end = k.end /\ From(n) = From(k)
  BY <1>2, <1>3 DEF Served, LoadInv, LoadTyped, LoadFields, From
<1>11. LoadsInv'
  BY <1>4, <1>8, <1>9 DEF GalleryInv, LoadsInv
<1>12. TurnsInv'
  <2>1. galleryLoading = \E r \in loads' : ~r.refresh
    BY <1>8, <1>10 DEF GalleryInv, TurnsInv
  <2>2. \A r, l \in loads' : ~r.refresh /\ ~l.refresh => r = l
    BY <1>8, <1>10 DEF GalleryInv, TurnsInv
  <2>3. \A r \in loads' : ~r.refresh /\ ~mixed =>
          From(r) = galleryLast.end /\ \A l \in loads' : ~l.refresh
    BY <1>8, <1>10 DEF GalleryInv, TurnsInv
  <2>4. \A r \in loads' : r.refresh /\ ~r.alone => mixed
    BY <1>8, <1>10 DEF GalleryInv, TurnsInv
  <2>5. \A r \in loads' : r.refresh /\ r.alone =>
          ~galleryLoading /\ (galleryLast.end = r.end \/ Len(galleryItems) <= galleryLast.end)
    BY <1>8, <1>10 DEF GalleryInv, TurnsInv
  <2> QED
    BY <1>9, <2>1, <2>2, <2>3, <2>4, <2>5 DEF GalleryInv, TurnsInv
<1> QED
  BY <1>9, <1>11, <1>12, ShownStays DEF GalleryInv

LEMMA LoadPageStep ==
  Gallery!GalleryAssumption /\ GalleryInv /\ Gallery!loadGalleryPage => GalleryInv'
<1> SUFFICES ASSUME Gallery!GalleryAssumption, GalleryInv, Gallery!loadGalleryPage
             PROVE  GalleryInv'
  OBVIOUS
<1>1. PICK from : from = galleryLast.end
  OBVIOUS
<1>2. PICK n : n = Gallery!Request(FALSE, from, from + GalleryPageSize)
  OBVIOUS
<1>3. /\ galleryLoading' = TRUE /\ ~galleryLoading
      /\ loads' = {[k EXCEPT !.alone = FALSE] : k \in loads} \cup {n}
      /\ mixed' = (mixed \/ \E k \in loads : k.refresh)
      /\ UNCHANGED <<server_feed, galleryItems, galleryLast, changes, as_of>>
  BY <1>1, <1>2 DEF Gallery!loadGalleryPage, Gallery!gallery, Gallery!Free
<1>4. from \in Nat /\ changes \in Nat
  BY <1>1 DEF GalleryInv, ShownInv, FeedInv, CardsOf
<1>5. /\ DOMAIN n = LoadFields /\ DOMAIN n.got = GotFields
      /\ n.refresh = FALSE /\ n.start = from /\ n.end = from + GalleryPageSize /\ n.alone = TRUE
      /\ n.since = 0
      /\ n.got.items = <<>> /\ n.got.end = 0 /\ n.got.total = 0 /\ n.got.has_more = FALSE
  BY <1>2 DEF Gallery!Request, LoadFields, GotFields
<1>6. From(n) = from
  BY <1>4, <1>5 DEF From, Gallery!GalleryAssumption
<1>7. LoadInv(n, server_feed, changes)
  <2>1. n.got.items \in Seq(Int) /\ Len(n.got.items) = 0
    BY <1>5, EmptySeq
  <2>2. \A i \in 1..Len(n.got.items) : n.got.items[i] <= InFeed + changes
    BY <2>1
  <2>3. n.got.has_more = (n.got.end < n.got.total)
    <3>1. (n.got.end < n.got.total) = FALSE
      BY <1>5
    <3> QED
      BY <1>5, <3>1, Zenon
  <2>4. CardsOf(server_feed, InFeed + changes, n.got.items, n.got)
    BY <1>5, <2>1, <2>2, <2>3 DEF CardsOf, FewBelow
  <2>5. LoadTyped(n)
    <3>1. n.end \in Nat /\ n.end > 0 /\ n.start \in Nat /\ n.since \in Nat /\ From(n) \in Nat
      BY <1>4, <1>5, <1>6 DEF Gallery!GalleryAssumption
    <3> QED
      BY <1>5, <3>1 DEF LoadTyped
  <2> QED
    BY <1>4, <1>5, <1>6, <2>4, <2>5 DEF LoadInv
<1>8. ASSUME NEW k \in loads, NEW o, o = [k EXCEPT !.alone = FALSE]
      PROVE  /\ LoadInv(o, server_feed, changes)
             /\ o.refresh = k.refresh /\ o.alone = FALSE
  <2>1. LoadInv(k, server_feed, changes)
    BY DEF GalleryInv, LoadsInv
  <2>2. /\ DOMAIN o = LoadFields /\ o.got = k.got /\ o.refresh = k.refresh /\ o.alone = FALSE
        /\ o.start = k.start /\ o.end = k.end /\ o.since = k.since
    BY <1>8, <2>1 DEF LoadInv, LoadTyped, LoadFields
  <2>3. From(o) = From(k)
    BY <2>2 DEF From
  <2>4. LoadTyped(o)
    BY <2>1, <2>2, <2>3 DEF LoadInv, LoadTyped
  <2> QED
    BY <2>1, <2>2, <2>3, <2>4 DEF LoadInv
<1>9. LoadsInv'
  BY <1>3, <1>7, <1>8 DEF LoadsInv
<1>10. \A k \in loads : k.refresh \in BOOLEAN /\ k.refresh
  BY <1>3 DEF GalleryInv, TurnsInv, LoadsInv, LoadInv, LoadTyped
<1>11. \A r \in loads' : r = n \/ (r.refresh /\ r.alone = FALSE /\ \E k \in loads : k.refresh)
  BY <1>3, <1>8, <1>10
<1>12. TurnsInv'
  <2>1. mixed' \in BOOLEAN
    BY <1>3
  <2>2. n \in loads' /\ ~n.refresh
    BY <1>3, <1>5
  <2>3. (\E r \in loads' : ~r.refresh) = TRUE
    BY <2>2
  <2>4. \A r, l \in loads' : ~r.refresh /\ ~l.refresh => r = l
    BY <1>11
  <2>5. \A r \in loads' : ~r.refresh /\ ~mixed' =>
          From(r) = galleryLast'.end /\ \A l \in loads' : ~l.refresh
    BY <1>1, <1>3, <1>5, <1>6, <1>11
  <2>6. \A r \in loads' : r.refresh /\ ~r.alone => mixed'
    BY <1>3, <1>5, <1>11
  <2>7. \A r \in loads' : r.refresh => ~r.alone
    BY <1>5, <1>11
  <2> QED
    BY <1>3, <2>1, <2>3, <2>4, <2>5, <2>6, <2>7 DEF TurnsInv
<1>13. FeedInv'
  BY <1>3 DEF GalleryInv, FeedInv
<1>14. ShownInv'
  BY <1>3 DEF GalleryInv, ShownInv, TurnsInv
<1> QED
  BY <1>9, <1>12, <1>13, <1>14 DEF GalleryInv

LEMMA RefreshStep ==
  Gallery!GalleryAssumption /\ GalleryInv /\ Gallery!refreshGallery => GalleryInv'
<1> SUFFICES ASSUME Gallery!GalleryAssumption, GalleryInv, Gallery!refreshGallery
             PROVE  GalleryInv'
  OBVIOUS
<1>1. PICK n : n = Gallery!Request(TRUE, 0, galleryLast.end)
  OBVIOUS
<1>2. /\ galleryLast.end # 0 /\ ~galleryLoading
      /\ loads' = loads \cup {n}
      /\ UNCHANGED <<server_feed, galleryItems, galleryLast, galleryLoading, changes, as_of, mixed>>
  BY <1>1 DEF Gallery!refreshGallery, Gallery!gallery
<1>3. galleryLast.end \in Nat /\ changes \in Nat
  BY DEF GalleryInv, ShownInv, FeedInv, CardsOf
<1>4. /\ DOMAIN n = LoadFields /\ DOMAIN n.got = GotFields
      /\ n.refresh = TRUE /\ n.start = 0 /\ n.end = galleryLast.end /\ n.alone = TRUE
      /\ n.since = 0
      /\ n.got.items = <<>> /\ n.got.end = 0 /\ n.got.total = 0 /\ n.got.has_more = FALSE
  BY <1>1 DEF Gallery!Request, LoadFields, GotFields
<1>5. From(n) = 0
  BY <1>4 DEF From
<1>6. LoadInv(n, server_feed, changes)
  <2>1. n.got.items \in Seq(Int) /\ Len(n.got.items) = 0
    BY <1>4, EmptySeq
  <2>2. \A i \in 1..Len(n.got.items) : n.got.items[i] <= InFeed + changes
    BY <2>1
  <2>3. n.got.has_more = (n.got.end < n.got.total)
    <3>1. (n.got.end < n.got.total) = FALSE
      BY <1>4
    <3> QED
      BY <1>4, <3>1, Zenon
  <2>4. CardsOf(server_feed, InFeed + changes, n.got.items, n.got)
    BY <1>4, <2>1, <2>2, <2>3 DEF CardsOf, FewBelow
  <2>5. LoadTyped(n)
    <3>1. n.end \in Nat /\ n.end > 0 /\ n.start \in Nat /\ n.since \in Nat /\ From(n) \in Nat
      BY <1>2, <1>3, <1>4, <1>5
    <3> QED
      BY <1>4, <3>1 DEF LoadTyped
  <2> QED
    BY <1>3, <1>4, <1>5, <2>1, <2>4, <2>5 DEF LoadInv
<1>7. LoadsInv'
  BY <1>2, <1>6 DEF GalleryInv, LoadsInv
<1>8. TurnsInv'
  <2>1. \A k \in loads : k.refresh
    BY <1>2 DEF GalleryInv, TurnsInv
  <2>2. \A r \in loads' : r.refresh
    BY <1>2, <1>4, <2>1
  <2>3. \A r \in loads' : ~r.alone => mixed
    BY <1>2, <1>4, <2>1 DEF GalleryInv, TurnsInv
  <2>4. \A r \in loads' : r.alone =>
          galleryLast.end = r.end \/ Len(galleryItems) <= galleryLast.end
    BY <1>2, <1>4, <2>1 DEF GalleryInv, TurnsInv
  <2>5. galleryLoading = (\E r \in loads' : ~r.refresh)
    <3>1. galleryLoading = (\E r \in loads : ~r.refresh)
      BY DEF GalleryInv, TurnsInv
    <3> QED
      BY <2>1, <2>2, <3>1
  <2> QED
    BY <1>2, <2>2, <2>3, <2>4, <2>5 DEF GalleryInv, TurnsInv
<1> QED
  BY <1>2, <1>7, <1>8, ShownStays DEF GalleryInv

LEMMA LoadFailsStep ==
  ASSUME GalleryInv, NEW k \in loads, Gallery!RequestFails(k)
  PROVE  GalleryInv'
<1>1. /\ loads' = loads \ {k} /\ galleryLoading' = (galleryLoading /\ k.refresh)
      /\ UNCHANGED <<server_feed, galleryItems, galleryLast, changes, as_of, mixed>>
  BY DEF Gallery!RequestFails, Gallery!gallery
<1>2. LoadsInv'
  BY <1>1 DEF GalleryInv, LoadsInv
<1>3. TurnsInv'
  <2>1. k.refresh \in BOOLEAN
    BY DEF GalleryInv, LoadsInv, LoadInv, LoadTyped
  <2>2. \A r, l \in loads' : ~r.refresh /\ ~l.refresh => r = l
    BY <1>1 DEF GalleryInv, TurnsInv
  <2>3. \A r \in loads' : ~r.refresh /\ ~mixed =>
          From(r) = galleryLast.end /\ \A l \in loads' : ~l.refresh
    BY <1>1 DEF GalleryInv, TurnsInv
  <2>4. \A r \in loads' : r.refresh /\ ~r.alone => mixed
    BY <1>1 DEF GalleryInv, TurnsInv
  <2>5. \A r \in loads' : r.refresh /\ r.alone =>
          ~galleryLoading /\ (galleryLast.end = r.end \/ Len(galleryItems) <= galleryLast.end)
    BY <1>1 DEF GalleryInv, TurnsInv
  <2>6. galleryLoading' = \E r \in loads' : ~r.refresh
    BY <1>1, <2>1 DEF GalleryInv, TurnsInv
  <2>7. ~galleryLoading => ~galleryLoading'
    BY <1>1
  <2> QED
    BY <1>1, <2>2, <2>3, <2>4, <2>5, <2>6, <2>7 DEF GalleryInv, TurnsInv
<1> QED
  BY <1>1, <1>2, <1>3, ShownStays DEF GalleryInv

LEMMA LoadAnswerStep ==
  ASSUME Gallery!GalleryAssumption, GalleryInv, NEW k \in loads, Gallery!LoadAnswer(k)
  PROVE  GalleryInv'
<1>1. /\ ~k.refresh /\ k.start = k.end
      /\ galleryItems' = galleryItems \o k.got.items /\ galleryLast' = Gallery!Numbers(k.got)
      /\ as_of' = (IF galleryLast.end = 0 THEN k.since ELSE Gallery!Min2(as_of, k.since))
      /\ galleryLoading' = FALSE /\ loads' = loads \ {k}
      /\ UNCHANGED <<server_feed, changes, mixed>>
  BY DEF Gallery!LoadAnswer
<1>2. LoadInv(k, server_feed, changes) /\ LoadTyped(k)
  BY DEF GalleryInv, LoadsInv, LoadInv
<1>3. /\ changes \in Nat /\ as_of \in Nat /\ as_of <= changes /\ k.since \in Nat /\ k.since <= changes
      /\ From(k) \in Nat /\ k.end = From(k) + GalleryPageSize /\ GalleryPageSize \in Nat /\ GalleryPageSize > 0
      /\ InFeed + changes \in Int /\ galleryLast.end \in Nat /\ k.got.end \in Nat
      /\ k.end \in Nat /\ k.start \in Nat
  BY <1>1, <1>2 DEF GalleryInv, FeedInv, ShownInv, LoadInv, LoadTyped, From, CardsOf,
     Gallery!GalleryAssumption
<1>4. k.got.end = k.end /\ k.got.end # 0
  BY <1>1, <1>2, <1>3 DEF LoadInv
<1>5. /\ DOMAIN galleryLast' = ShownFields /\ galleryLast'.end = k.got.end
      /\ galleryLast'.total = k.got.total /\ galleryLast'.has_more = k.got.has_more
  BY <1>1 DEF Gallery!Numbers, ShownFields
<1>6. NewestFirst(server_feed, InFeed + changes) /\ server_feed \in Seq(Int)
  BY DEF GalleryInv, FeedInv, NewestFirst
<1>7. galleryItems \in Seq(Int) /\ \A i \in 1..Len(galleryItems) : galleryItems[i] <= InFeed + changes
  BY DEF GalleryInv, ShownInv, CardsOf
<1>8. CardsOf(server_feed, InFeed + changes, k.got.items, k.got)
  BY <1>2 DEF LoadInv
<1>9. CardsOf(server_feed, InFeed + changes, galleryItems \o k.got.items, k.got)
  BY <1>3, <1>6, <1>7, <1>8, JoinCards
<1>10. CardsOf(server_feed, InFeed + changes, galleryItems', galleryLast')
  BY <1>1, <1>5, <1>9 DEF CardsOf, FewBelow
<1>11. /\ as_of' \in Nat /\ as_of' <= changes
       /\ as_of' = changes => k.since = changes /\ (galleryLast.end # 0 => as_of = changes)
  BY <1>1, <1>3 DEF Gallery!Min2
<1>12. ASSUME as_of' = changes, ~mixed
       PROVE  Shows(server_feed, galleryItems', galleryLast', 0)
  <2>1. From(k) = galleryLast.end
    BY <1>1, <1>12 DEF GalleryInv, TurnsInv
  <2>2. k.got.items = Slice(server_feed, From(k), k.end) /\ k.got.total = Len(server_feed)
    BY <1>2, <1>4, <1>11, <1>12 DEF LoadInv, Shows
  <2>3. galleryItems \o k.got.items = Slice(server_feed, 0, k.end)
    <3>1. CASE galleryLast.end = 0
      <4>1. galleryItems = <<>>
        BY <3>1 DEF GalleryInv, ShownInv
      <4>2. k.got.items \in Seq(Int)
        BY <1>8 DEF CardsOf
      <4>3. <<>> \o k.got.items = k.got.items
        BY <4>2, ConcatEmptySeq
      <4> QED
        BY <2>1, <2>2, <3>1, <4>1, <4>3
    <3>2. CASE galleryLast.end # 0
      <4>1. galleryItems = Slice(server_feed, 0, galleryLast.end)
        BY <3>2, <1>11, <1>12 DEF GalleryInv, ShownInv, Shows
      <4>2. PICK a \in Nat, b \in Nat : a = galleryLast.end /\ b = k.end /\ a <= b
        BY <1>3, <2>1
      <4>3. Slice(server_feed, 0, a) \o Slice(server_feed, a, b) = Slice(server_feed, 0, b)
        <5>1. PICK z \in Nat : z = 0 /\ z <= a
          BY <4>2
        <5>2. Slice(server_feed, z, a) \o Slice(server_feed, a, b) = Slice(server_feed, z, b)
          BY <1>6, <4>2, <5>1, SliceJoin, ZenonT(60)
        <5> QED
          BY <5>1, <5>2
      <4> QED
        BY <2>1, <2>2, <4>1, <4>2, <4>3
    <3> QED
      BY <3>1, <3>2
  <2> QED
    BY <1>1, <1>4, <1>5, <2>2, <2>3 DEF Shows
<1>13. ShownInv'
  BY <1>1, <1>3, <1>4, <1>5, <1>10, <1>11, <1>12 DEF ShownInv
<1>14. LoadsInv' /\ FeedInv'
  BY <1>1 DEF GalleryInv, LoadsInv, FeedInv
<1>15. TurnsInv'
  <2>1. \A r \in loads' : r.refresh
    BY <1>1 DEF GalleryInv, TurnsInv, LoadsInv, LoadInv, LoadTyped
  <2>2. galleryLoading
    BY <1>1 DEF GalleryInv, TurnsInv
  <2>3. \A r \in loads' : ~r.alone /\ mixed
    BY <1>1, <2>1, <2>2 DEF GalleryInv, TurnsInv
  <2>4. galleryLoading' = \E r \in loads' : ~r.refresh
    BY <1>1, <2>1
  <2> QED
    BY <1>1, <2>1, <2>3, <2>4 DEF GalleryInv, TurnsInv
<1> QED
  BY <1>13, <1>14, <1>15 DEF GalleryInv

(* A refresh that came alone and found nothing changed: what is shown is   *)
(* the first of today's feed.                                              *)
LEMMA UnchangedShows ==
  ASSUME GalleryInv, NEW k \in loads, k.refresh, k.start = k.end, k.alone,
         k.since = changes, Gallery!unchanged(k.got), galleryLast.end # 0
  PROVE  Shows(server_feed, galleryItems, galleryLast, 0)
<1>1. LoadInv(k, server_feed, changes) /\ LoadTyped(k) /\ From(k) = 0
  BY DEF GalleryInv, LoadsInv, LoadInv, From
<1>2. k.got.end = k.end /\ k.got.end # 0 /\ k.end \in Nat /\ k.end > 0
  BY <1>1 DEF LoadInv, LoadTyped
<1>3. Shows(server_feed, k.got.items, k.got, 0)
  BY <1>1, <1>2 DEF LoadInv
<1>4. /\ galleryItems = Slice(server_feed, 0, k.end) /\ galleryLast.total = Len(server_feed)
      /\ galleryLast.has_more = k.got.has_more
  BY <1>2, <1>3 DEF Gallery!unchanged, Shows
<1>5. /\ server_feed \in Seq(Int) /\ Len(server_feed) \in Nat
      /\ \A i \in 1..Len(server_feed) : server_feed[i] \in Int
  BY LenProperties, ElementOfSeq DEF GalleryInv, FeedInv, NewestFirst
<1>6. /\ k.got.has_more = (k.end < Len(server_feed)) /\ galleryLast.has_more = (galleryLast.end < Len(server_feed))
      /\ galleryLast.end \in Nat
  BY <1>1, <1>2, <1>3, <1>4 DEF LoadInv, GalleryInv, ShownInv, CardsOf, Shows
<1>7. CASE ~(k.end < Len(server_feed))
  <2>1. ~(galleryLast.end < Len(server_feed))
    BY <1>4, <1>6, <1>7
  <2>2. Gallery!Min2(k.end, Len(server_feed)) = Len(server_feed) /\ Gallery!Min2(galleryLast.end, Len(server_feed)) = Len(server_feed)
    BY <1>2, <1>5, <1>6, <1>7, <2>1 DEF Gallery!Min2
  <2> QED
    BY <1>4, <2>2 DEF Shows, Slice
<1>8. CASE k.end < Len(server_feed)
  <2>1. galleryLast.end < Len(server_feed) /\ galleryLast.has_more
    BY <1>4, <1>6, <1>8
  <2>2. PICK n \in Nat : n = k.end /\ n > 0 /\ n = Gallery!Min2(k.end, Len(server_feed))
    BY <1>2, <1>5, <1>8 DEF Gallery!Min2
  <2>3. Between(galleryItems, server_feed, 0, n)
    BY <1>4, <1>5, <2>2, SliceProperties
  <2>4. Len(galleryItems) = n /\ galleryItems[n] = server_feed[0 + n]
    BY <2>2, <2>3 DEF Between
  <2>5. n \in 1..Len(server_feed)
    BY <1>5, <1>8, <2>2
  <2>6. server_feed[n] \in Int /\ server_feed[0 + n] = server_feed[n]
    BY <1>5, <2>2, <2>5
  <2>7. Len(server_feed) - n <= Len(server_feed) - galleryLast.end
    BY <1>4, <2>1, <2>4, <2>5, <2>6 DEF GalleryInv, ShownInv, CardsOf, FewBelow
  <2>8. galleryLast.end <= n
    BY <1>5, <1>6, <2>7
  <2>9. galleryLast.end = k.end \/ n <= galleryLast.end
    BY <2>4 DEF GalleryInv, TurnsInv
  <2>10. galleryLast.end = k.end
    BY <1>6, <2>2, <2>8, <2>9
  <2> QED
    BY <1>4, <2>10 DEF Shows
<1> QED
  BY <1>7, <1>8

LEMMA RefreshAnswerStep ==
  ASSUME Gallery!GalleryAssumption, GalleryInv, NEW k \in loads, Gallery!RefreshAnswer(k)
  PROVE  GalleryInv'
<1>1. /\ k.refresh /\ k.start = k.end /\ as_of' = k.since
      /\ mixed' = (mixed /\ ~(k.alone /\ loads = {k}))
      /\ loads' = loads \ {k}
      /\ UNCHANGED <<server_feed, galleryLoading, changes>>
      /\ \/ Gallery!unchanged(k.got) /\ UNCHANGED <<galleryItems, galleryLast>>
         \/ galleryItems' = k.got.items /\ galleryLast' = Gallery!Numbers(k.got)
  BY DEF Gallery!RefreshAnswer, Gallery!gallery
<1>2. LoadInv(k, server_feed, changes) /\ LoadTyped(k) /\ From(k) = 0
  BY <1>1 DEF GalleryInv, LoadsInv, LoadInv, From
<1>3. k.got.end = k.end /\ k.got.end # 0 /\ k.end \in Nat /\ Len(k.got.items) <= k.got.end
      /\ k.since \in Nat /\ k.since <= changes
  BY <1>1, <1>2 DEF LoadInv, LoadTyped
<1>4. CardsOf(server_feed, InFeed + changes, k.got.items, k.got)
  BY <1>2 DEF LoadInv
<1>5. ~mixed' => k.alone
  BY <1>1, <1>2 DEF GalleryInv, TurnsInv, LoadTyped
<1>6. LoadsInv' /\ FeedInv'
  BY <1>1 DEF GalleryInv, LoadsInv, FeedInv
<1>7. ShownInv' /\ (\A r \in loads' : r.refresh /\ r.alone =>
         galleryLast'.end = r.end \/ Len(galleryItems') <= galleryLast'.end)
  <2>1. CASE Gallery!unchanged(k.got) /\ UNCHANGED <<galleryItems, galleryLast>>
    <3>1. galleryLast.end # 0 /\ k.since = changes /\ k.alone =>
            Shows(server_feed, galleryItems, galleryLast, 0)
      BY <1>1, <2>1, UnchangedShows
    <3>2. ShownInv'
      BY <1>1, <1>3, <1>5, <2>1, <3>1 DEF GalleryInv, ShownInv
    <3> QED
      BY <1>1, <2>1, <3>2 DEF GalleryInv, TurnsInv
  <2>2. CASE galleryItems' = k.got.items /\ galleryLast' = Gallery!Numbers(k.got)
    <3>1. /\ DOMAIN galleryLast' = ShownFields /\ galleryLast'.end = k.got.end
          /\ galleryLast'.total = k.got.total /\ galleryLast'.has_more = k.got.has_more
      BY <2>2 DEF Gallery!Numbers, ShownFields
    <3>2. CardsOf(server_feed, InFeed + changes, galleryItems', galleryLast')
      BY <1>4, <2>2, <3>1 DEF CardsOf, FewBelow
    <3>3. k.since = changes => Shows(server_feed, galleryItems', galleryLast', 0)
      BY <1>2, <1>3, <2>2, <3>1 DEF LoadInv, Shows
    <3>4. ShownInv'
      BY <1>1, <1>3, <3>1, <3>2, <3>3 DEF ShownInv
    <3> QED
      BY <1>3, <2>2, <3>1, <3>4
  <2> QED
    BY <1>1, <2>1, <2>2
<1>8. TurnsInv'
  <2>1. mixed' \in BOOLEAN
    BY <1>1
  <2>2. galleryLoading' = \E r \in loads' : ~r.refresh
    BY <1>1 DEF GalleryInv, TurnsInv
  <2>3. \A r, l \in loads' : ~r.refresh /\ ~l.refresh => r = l
    BY <1>1 DEF GalleryInv, TurnsInv
  <2>4. \A r \in loads' : r.refresh /\ ~r.alone => mixed'
    BY <1>1 DEF GalleryInv, TurnsInv
  <2>5. ~mixed' => \A r \in loads' : r.refresh
    BY <1>1 DEF GalleryInv, TurnsInv
  <2>6. \A r \in loads' : r.refresh /\ r.alone =>
          ~galleryLoading' /\ (galleryLast'.end = r.end \/ Len(galleryItems') <= galleryLast'.end)
    BY <1>1, <1>7 DEF GalleryInv, TurnsInv
  <2> QED
    BY <2>1, <2>2, <2>3, <2>4, <2>5, <2>6 DEF TurnsInv
<1> QED
  BY <1>6, <1>7, <1>8 DEF GalleryInv

LEMMA GalleryInvStep ==
  Gallery!GalleryAssumption /\ GalleryInv /\ [Gallery!GNext]_(Gallery!gvars) => GalleryInv'
<1> SUFFICES ASSUME Gallery!GalleryAssumption, GalleryInv, [Gallery!GNext]_(Gallery!gvars)
             PROVE  GalleryInv'
  OBVIOUS
<1>1. CASE UNCHANGED Gallery!gvars
  <2>1. UNCHANGED <<server_feed, galleryItems, galleryLast, galleryLoading, loads, changes, as_of, mixed>>
    BY <1>1 DEF Gallery!gvars, Gallery!gallery
  <2>2. LoadsInv'
    BY <2>1 DEF GalleryInv, LoadsInv
  <2>3. TurnsInv'
    BY <2>1 DEF GalleryInv, TurnsInv
  <2> QED
    BY <2>1, <2>2, <2>3, ShownStays DEF GalleryInv
<1>2. CASE Gallery!GNext
  BY <1>2, FeedChangeStep, LoadPageStep, RefreshStep, ServeStep, LoadAnswerStep,
     RefreshAnswerStep, LoadFailsStep DEF Gallery!GNext
<1> QED
  BY <1>1, <1>2

(* Cards whose pages take in every change of the feed are its first ones,  *)
(* with the right total, whatever the order in which loads and refreshes   *)
(* are answered (loadGalleryPage and refreshGallery of routes/+page.svelte)*)
THEOREM GalleryIsPrefixHolds == PagesSpec => []GalleryIsPrefix
<1>1. GalleryInv => Gallery!GalleryIsPrefix
  <2> SUFFICES ASSUME GalleryInv, galleryLast.end # 0, as_of = changes, ~mixed
               PROVE  /\ galleryItems = SubSeq(server_feed, 1, Gallery!Min2(galleryLast.end, Len(server_feed)))
                      /\ galleryLast.total = Len(server_feed)
                      /\ galleryLast.has_more = (galleryLast.end < Len(server_feed))
    BY DEF Gallery!GalleryIsPrefix
  <2>1. galleryItems = Slice(server_feed, 0, galleryLast.end) /\ galleryLast.total = Len(server_feed)
    BY DEF GalleryInv, ShownInv, Shows
  <2>2. Slice(server_feed, 0, galleryLast.end) = SubSeq(server_feed, 1, Gallery!Min2(galleryLast.end, Len(server_feed)))
    BY DEF Slice
  <2>3. galleryLast.has_more = (galleryLast.end < galleryLast.total)
    BY DEF GalleryInv, ShownInv, CardsOf
  <2> QED
    BY <2>1, <2>2, <2>3
<1>2. WhenGalleryOpen => GalleryIsPrefix
  BY <1>1 DEF WhenGalleryOpen, GalleryIsPrefix
<1>3. PagesInit => WhenGalleryOpen
  BY GalleryInvInit, PagesAssumption DEF PagesInit, WhenGalleryOpen
<1>4. WhenGalleryOpen /\ [PagesNext]_pagesVars => WhenGalleryOpen'
  BY GalleryInvStep, PagesAssumption, OneOpen DEF WhenGalleryOpen
<1> QED
  BY <1>2, <1>3, <1>4, PTL DEF PagesSpec

-----------------------------------------------------------------------------
(* The uploads tab of the admin page. *)

(* The numbers of a finite set that are on a page. *)
Listed(S, p) == {u \in S : Rank(S, u) \in (p - 1) * AdminPageSize + 1 .. p * AdminPageSize}
PagesOf(S) == (Cardinality(S) + AdminPageSize - 1) \div AdminPageSize

LEMMA PageThere ==
  ASSUME AdminPageSize \in Nat \ {0}, NEW S, IsFiniteSet(S), S \subseteq Int,
         NEW p \in Nat, p > 0
  PROVE  Listed(S, p) # {} <=> (p - 1) * AdminPageSize < Cardinality(S)
<1>1. PICK low \in Nat : low = (p - 1) * AdminPageSize
  BY Bounds
<1>2. p * AdminPageSize = low + AdminPageSize
  BY <1>1, Bounds
<1>3. Cardinality(S) \in Nat
  BY FS_CardinalityType
<1>4. ASSUME low < Cardinality(S) PROVE Listed(S, p) # {}
  <2>1. low + 1 \in 1..Cardinality(S)
    BY <1>3, <1>4
  <2>2. PICK v \in S : Rank(S, v) = low + 1
    BY <2>1, RankTaken
  <2>3. Rank(S, v) \in low + 1 .. low + AdminPageSize
    BY <2>2
  <2> QED
    BY <1>1, <1>2, <2>3 DEF Listed
<1>5. ASSUME NEW v \in Listed(S, p) PROVE low < Cardinality(S)
  <2>1. v \in S /\ Rank(S, v) \in low + 1 .. low + AdminPageSize
    BY <1>1, <1>2, <1>5 DEF Listed
  <2>2. Rank(S, v) \in 1..Cardinality(S)
    BY <2>1, RankInRange
  <2> QED
    BY <1>3, <2>1, <2>2
<1> QED
  BY <1>1, <1>4, <1>5

LEMMA PageReached ==
  ASSUME AdminPageSize \in Nat \ {0}, NEW S, IsFiniteSet(S),
         NEW p \in Nat, p > 0, p <= PagesOf(S)
  PROVE  (p - 1) * AdminPageSize < Cardinality(S)
<1>1. PICK low \in Nat : low = (p - 1) * AdminPageSize
  BY Bounds
<1>2. Cardinality(S) \in Nat
  BY FS_CardinalityType
<1>3. low + 1 <= Cardinality(S)
  BY <1>1, <1>2, LastPage DEF PagesOf
<1> QED
  BY <1>1, <1>2, <1>3

(* Without one of the numbers of a page the others are still on it.        *)
LEMMA OthersStay ==
  ASSUME AdminPageSize \in Nat \ {0}, NEW S, IsFiniteSet(S), S \subseteq Int,
         NEW p \in Nat, p > 0, NEW u \in Listed(S, p), NEW v \in Listed(S, p), u # v
  PROVE  v \in Listed(S \ {u}, p)
<1>1. PICK low \in Nat : low = (p - 1) * AdminPageSize
  BY Bounds
<1>2. PICK high \in Nat : high = p * AdminPageSize
  BY Bounds
<1>3. u \in S /\ v \in S /\ Rank(S, u) \in low + 1 .. high /\ Rank(S, v) \in low + 1 .. high
  BY <1>1, <1>2 DEF Listed
<1>4. Rank(S \ {u}, v) = IF u <= v THEN Rank(S, v) - 1 ELSE Rank(S, v)
  BY <1>3, RankWithout
<1>5. u < v => Rank(S, u) < Rank(S, v)
  BY <1>3, RankGrows
<1>6. u \in Int /\ v \in Int
  BY <1>3
<1>7. Rank(S \ {u}, v) \in low + 1 .. high
  BY <1>3, <1>4, <1>5, <1>6
<1> QED
  BY <1>1, <1>2, <1>3, <1>7 DEF Listed

LEMMA PageBefore ==
  ASSUME AdminPageSize \in Nat \ {0}, NEW S, IsFiniteSet(S), S \subseteq Int,
         NEW p \in Nat, p > 1, NEW u \in Listed(S, p)
  PROVE  Listed(S \ {u}, p - 1) # {}
<1>1. PICK low \in Nat : low = (p - 1) * AdminPageSize
  BY Bounds
<1>2. low >= AdminPageSize /\ (p - 1 - 1) * AdminPageSize = low - AdminPageSize
  BY <1>1, Bounds
<1>3. PICK high \in Nat : high = p * AdminPageSize
  BY Bounds
<1>4. u \in S /\ u \in Int /\ Rank(S, u) \in low + 1 .. high
  BY <1>1, <1>3 DEF Listed
<1>5. Rank(S, u) \in 1..Cardinality(S) /\ Cardinality(S) \in Nat
  BY <1>4, RankInRange, FS_CardinalityType
<1>6. low \in 1..Cardinality(S)
  BY <1>2, <1>4, <1>5
<1>7. PICK v \in S : Rank(S, v) = low
  BY <1>6, RankTaken
<1>8. v \in Int /\ v # u /\ ~(u < v)
  <2>1. v \in Int
    OBVIOUS
  <2>2. Rank(S, u) > Rank(S, v)
    BY <1>4, <1>7
  <2>3. u < v => Rank(S, u) < Rank(S, v)
    BY <1>4, RankGrows
  <2>4. ~(Rank(S, u) < Rank(S, v)) /\ Rank(S, u) # Rank(S, v)
    BY <1>4, <1>7, <2>2
  <2> QED
    BY <2>1, <2>3, <2>4
<1>9. Rank(S \ {u}, v) = low
  <2>1. Rank(S \ {u}, v) = IF u <= v THEN Rank(S, v) - 1 ELSE Rank(S, v)
    BY <1>4, RankWithout
  <2>2. ~(u <= v)
    BY <1>4, <1>8
  <2> QED
    BY <1>7, <2>1, <2>2
<1>10. low \in low - AdminPageSize + 1 .. low
  OBVIOUS
<1>11. v \in S \ {u}
  BY <1>8
<1>12. Rank(S \ {u}, v) \in (p - 1 - 1) * AdminPageSize + 1 .. (p - 1) * AdminPageSize
  BY <1>1, <1>2, <1>9, <1>10
<1> QED
  BY <1>11, <1>12 DEF Listed

(* Where a deletion leaves the page, there is something to list.           *)
LEMMA AfterDeletion ==
  ASSUME AdminPageSize \in Nat \ {0}, NEW S, IsFiniteSet(S), S \subseteq Int,
         NEW p \in Nat, p > 0, NEW u \in Listed(S, p), NEW to,
         to = IF Cardinality(Listed(S, p)) = 1 /\ p > 1 THEN p - 1 ELSE p
  PROVE  to = 1 \/ (to - 1) * AdminPageSize < Cardinality(S \ {u})
<1> SUFFICES to = 1 \/ Listed(S \ {u}, to) # {}
  <2>1. IsFiniteSet(S \ {u}) /\ S \ {u} \subseteq Int
    BY FS_RemoveElement
  <2>2. to \in Nat /\ to > 0
    OBVIOUS
  <2> QED
    BY <2>1, <2>2, PageThere
<1>1. CASE Cardinality(Listed(S, p)) = 1 /\ p > 1
  BY <1>1, PageBefore
<1>2. CASE ~(Cardinality(Listed(S, p)) = 1 /\ p > 1) /\ p # 1
  <2>1. p > 1 /\ to = p /\ Cardinality(Listed(S, p)) # 1
    BY <1>2
  <2>2. Listed(S, p) # {u}
    BY <2>1, FS_Singleton
  <2>3. PICK v \in Listed(S, p) : v # u
    BY <2>2
  <2>4. v \in Listed(S \ {u}, p)
    BY <2>3, OthersStay
  <2> QED
    BY <2>1, <2>4
<1>3. CASE ~(Cardinality(Listed(S, p)) = 1 /\ p > 1) /\ p = 1
  BY <1>3
<1> QED
  BY <1>1, <1>2, <1>3

RequestFields ==
  {"n", "kind", "upload", "key", "search", "page", "signIn", "stage", "items", "totalPages",
   "of"}

(* What a search finds. *)
Found(all, search) == IF search THEN all \cap AdminFound ELSE all

(* There is such a page. *)
NoGap(all, search, p) ==
  p = 1 \/ (p - 1) * AdminPageSize < Cardinality(Found(all, search))

(* What is shown is the page of a list the controls say; what is missing   *)
(* of that list since was deleted by others.                               *)
ShowsControls(shown, now, at, missing) ==
  /\ shown.items = Listed(Found(shown.of, at.search), at.page)
  /\ shown.page = at.page /\ shown.search = at.search
  /\ shown.totalPages = PagesOf(Found(shown.of, at.search))
  /\ shown.of \ now \subseteq missing
  /\ missing = {} => NoGap(shown.of, at.search, at.page)

AdminTyped ==
  /\ uploads \subseteq AdminUploads /\ coming \subseteq AdminUploads /\ serverKey \in Keys
  /\ DOMAIN controls = {"search", "page"} /\ controls.search \in BOOLEAN
  /\ controls.page \in Nat /\ controls.page > 0
  /\ data.totalPages \in Int /\ data.of \subseteq AdminUploads
  /\ authenticated \in BOOLEAN /\ crossed \in BOOLEAN
  /\ \A k \in requests :
       /\ DOMAIN k = RequestFields /\ k.kind \in {"list", "delete"}
       /\ k.totalPages \in Int /\ k.search \in BOOLEAN /\ k.of \subseteq AdminUploads

(* Requests that did not overlap: at most one is under way, a list that    *)
(* comes is the one for the controls, and a deletion began with that list. *)
ListCarries(k, all, at, missing) ==
  /\ k.search = at.search /\ k.page = at.page
  /\ k.stage = "sent" /\ k.key # "" /\ missing = {} => NoGap(all, k.search, k.page)
  /\ k.stage \in {"sent", "ok", "unauthorized"}
  /\ k.stage = "ok" =>
       /\ k.key # "" /\ k.items = Listed(Found(k.of, k.search), k.page)
       /\ k.totalPages = PagesOf(Found(k.of, k.search))
       /\ k.of \ all \subseteq missing
       /\ missing = {} => NoGap(k.of, k.search, k.page)

PageLeft(shown, at) ==
  IF Cardinality(shown.items) = 1 /\ at.page > 1 THEN at.page - 1 ELSE at.page

DeleteCarries(k, all, at, shown, within, key, missing) ==
  /\ ~k.signIn /\ k.stage \in {"sent", "ok", "gone", "unauthorized"}
  /\ ~within => key = ""
  /\ k.stage = "sent" => k.upload \in all \cup missing
  /\ k.stage = "sent" /\ within =>
       ShowsControls(shown, all, at, missing) /\ k.upload \in shown.items
  /\ k.stage = "gone" => missing # {}
  /\ k.stage = "ok" /\ within /\ missing = {} => NoGap(all, at.search, PageLeft(shown, at))

LoneInv ==
  ~crossed =>
    /\ \A j, k \in requests : j = k
    /\ \A k \in requests : k.kind = "list" => ListCarries(k, uploads, controls, others)
    /\ \A k \in requests : k.kind = "delete" =>
         DeleteCarries(k, uploads, controls, data, authenticated, adminKey, others)
    /\ requests = {} /\ authenticated => ShowsControls(data, uploads, controls, others)

AdminInv == AdminTyped /\ LoneInv

LEMMA AdminCardinality == \A S : Admin!Cardinality(S) = Cardinality(S)
BY DEF Admin!Cardinality, Cardinality, Admin!IsFiniteSet, IsFiniteSet

LEMMA PipelineIs ==
  ASSUME NEW all, NEW search, NEW p
  PROVE  /\ Admin!buildAdminPipeline(all, search, p) = Listed(Found(all, search), p)
         /\ Admin!Pages(all, search) = PagesOf(Found(all, search))
BY AdminCardinality DEF Admin!buildAdminPipeline, Admin!Pages, Admin!Matched, Listed, PagesOf,
   Found, Rank

LEMMA FoundFinite ==
  ASSUME Admin!AdminAssumption, NEW all, all \subseteq AdminUploads, NEW search
  PROVE  /\ IsFiniteSet(Found(all, search)) /\ Found(all, search) \subseteq Int
         /\ PagesOf(Found(all, search)) \in Int /\ AdminPageSize \in Nat \ {0}
<1>1. IsFiniteSet(AdminUploads) /\ AdminUploads \subseteq Int /\ AdminPageSize \in Nat \ {0}
  BY DEF Admin!AdminAssumption, Admin!IsFiniteSet, IsFiniteSet
<1>2. Found(all, search) \in SUBSET AdminUploads
  BY DEF Found
<1>3. IsFiniteSet(Found(all, search)) /\ Found(all, search) \subseteq Int
  BY <1>1, <1>2, FS_Subset
<1>4. Cardinality(Found(all, search)) \in Nat
  BY <1>3, FS_CardinalityType
<1> QED
  BY <1>1, <1>3, <1>4 DEF PagesOf

(* More uploads leave every page there is. *)
LEMMA NoGapGrows ==
  ASSUME Admin!AdminAssumption, NEW all, NEW more, all \subseteq more, more \subseteq AdminUploads,
         NEW search, NEW p \in Nat, p > 0, NoGap(all, search, p)
  PROVE  NoGap(more, search, p)
<1>1. Found(all, search) \in SUBSET Found(more, search) /\ IsFiniteSet(Found(more, search))
  BY FoundFinite DEF Found
<1>2. /\ IsFiniteSet(Found(all, search))
      /\ Cardinality(Found(all, search)) <= Cardinality(Found(more, search))
  BY <1>1, FS_Subset
<1>3. Cardinality(Found(all, search)) \in Nat /\ Cardinality(Found(more, search)) \in Nat
  BY <1>1, <1>2, FS_CardinalityType
<1>4. AdminPageSize \in Nat \ {0}
  BY DEF Admin!AdminAssumption
<1>5. PICK low \in Nat : low = (p - 1) * AdminPageSize
  BY <1>4, Bounds
<1> QED
  BY <1>2, <1>3, <1>5 DEF NoGap

WhenAdminOpen == component = "admin" => AdminInv

LEMMA AdminInvInit == Admin!AdminAssumption /\ Admin!AInit => AdminInv
<1> SUFFICES ASSUME Admin!AdminAssumption, Admin!AInit PROVE AdminInv
  OBVIOUS
<1>1. /\ uploads \subseteq AdminUploads /\ coming \subseteq AdminUploads
      /\ serverKey \in Keys /\ authenticated = FALSE /\ crossed = FALSE
      /\ controls = [search |-> FALSE, page |-> 1] /\ data = Admin!NoData /\ requests = {}
  BY DEF Admin!AInit, Admin!AdminAssumption
<1>2. AdminTyped
  <2>1. DOMAIN controls = {"search", "page"} /\ controls.search = FALSE /\ controls.page = 1
    BY <1>1
  <2>2. data.totalPages = 0 /\ data.of = {}
    BY <1>1 DEF Admin!NoData
  <2> QED
    <3>1. controls.page \in Nat /\ controls.page > 0 /\ data.totalPages \in Int
          /\ data.of \subseteq AdminUploads
      BY <2>1, <2>2
    <3>2. controls.search \in BOOLEAN /\ authenticated \in BOOLEAN /\ crossed \in BOOLEAN
      BY <1>1, <2>1
    <3> QED
      BY <1>1, <2>1, <3>1, <3>2 DEF AdminTyped
<1>3. LoneInv
  BY <1>1 DEF LoneInv
<1> QED
  BY <1>2, <1>3 DEF AdminInv

(* A request that is sent, with the controls as they are then.             *)
LEMMA SendStep ==
  ASSUME AdminInv, NEW kind \in {"list", "delete"}, NEW u, NEW key, NEW first, NEW new,
         DOMAIN new = RequestFields, new.kind = kind, new.upload = u, new.key = key,
         new.search = controls.search', new.page = controls.page', new.signIn = first,
         new.stage = "sent", new.totalPages = 0, new.of = {},
         Admin!Sending(new),
         DOMAIN controls' = {"search", "page"}, controls.search' \in BOOLEAN,
         controls.page' \in Nat, controls.page' > 0,
         UNCHANGED <<uploads, coming, serverKey, authenticated, data, others>>,
         kind = "list" /\ controls.page' # 1 /\ ~crossed /\ requests = {} /\ others = {} =>
           NoGap(uploads, controls.search', controls.page'),
         kind = "delete" =>
           /\ ~first /\ UNCHANGED controls /\ authenticated
           /\ u \in data.items
  PROVE  AdminInv'
<1>1. /\ requests' = requests \cup {new}
      /\ crossed' = (requests # {} \/ (crossed /\ (new.kind = "delete" \/ new.page # 1)))
  BY DEF Admin!Sending
<1>2. AdminTyped'
  BY <1>1 DEF AdminInv, AdminTyped
<1>3. ASSUME ~crossed' PROVE requests = {} /\ (~crossed \/ (kind = "list" /\ new.page = 1))
  BY <1>1, <1>3
<1>4. ASSUME ~crossed', kind = "list"
      PROVE  ListCarries(new, uploads', controls', others')
  BY <1>3, <1>4 DEF ListCarries, NoGap
<1>5. ASSUME ~crossed', kind = "delete"
      PROVE  DeleteCarries(new, uploads', controls', data', authenticated', adminKey', others')
  <2>1. ShowsControls(data, uploads, controls, others)
    BY <1>3, <1>5 DEF AdminInv, LoneInv
  <2>2. u \in data.of
    BY <1>5, <2>1 DEF ShowsControls, Listed, Found
  <2>3. u \in uploads \cup others
    BY <2>1, <2>2 DEF ShowsControls
  <2> QED
    BY <1>5, <2>1, <2>3 DEF DeleteCarries
<1>6. LoneInv'
  <2> SUFFICES ASSUME ~crossed'
               PROVE  /\ \A j, k \in requests' : j = k
                      /\ \A k \in requests' : k.kind = "list" => ListCarries(k, uploads', controls', others')
                      /\ \A k \in requests' : k.kind = "delete" =>
                           DeleteCarries(k, uploads', controls', data', authenticated', adminKey',
                                         others')
                      /\ requests' = {} /\ authenticated' =>
                           ShowsControls(data', uploads', controls', others')
    BY DEF LoneInv
  <2>1. requests' = {new}
    BY <1>1, <1>3
  <2> QED
    BY <1>4, <1>5, <2>1
<1> QED
  BY <1>2, <1>6 DEF AdminInv

LEMMA SignInStep ==
  ASSUME AdminInv, NEW key \in Keys, Admin!SignIn(key)
  PROVE  AdminInv'
<1>1. PICK at : at = controls'
  OBVIOUS
<1>2. PICK base : base = Admin!NewRequest("list", 0, key, at)
  OBVIOUS
<1>3. PICK new : new = [base EXCEPT !.signIn = TRUE]
  OBVIOUS
<1>4. /\ controls' = [controls EXCEPT !.page = 1]
      /\ Admin!Sending(new)
      /\ UNCHANGED <<uploads, coming, serverKey, authenticated, data, others>>
  BY <1>1, <1>2, <1>3 DEF Admin!SignIn, Admin!collection
<1>5. /\ DOMAIN controls' = {"search", "page"} /\ controls'.page = 1
      /\ controls'.search \in BOOLEAN
  BY <1>4 DEF AdminInv, AdminTyped
<1>6. /\ DOMAIN base = RequestFields /\ base.kind = "list" /\ base.upload = 0 /\ base.key = key
      /\ base.search = at.search /\ base.page = at.page /\ base.stage = "sent" /\ base.totalPages = 0
      /\ base.of = {}
  BY <1>2 DEF Admin!NewRequest, RequestFields
<1>7. /\ DOMAIN new = RequestFields /\ new.kind = "list" /\ new.upload = 0 /\ new.key = key
      /\ new.search = controls'.search /\ new.page = controls'.page /\ new.signIn = TRUE
      /\ new.stage = "sent" /\ new.totalPages = 0 /\ new.of = {}
  BY <1>1, <1>3, <1>6 DEF RequestFields
<1>8. controls'.page \in Nat /\ controls'.page > 0 /\ ~(controls'.page # 1)
  BY <1>5
<1> QED
  BY <1>4, <1>5, <1>7, <1>8, SendStep

LEMMA FilterStep ==
  ASSUME AdminInv, NEW search \in BOOLEAN, Admin!Filter(search)
  PROVE  AdminInv'
<1>1. PICK at : at = controls'
  OBVIOUS
<1>2. PICK new : new = Admin!NewRequest("list", 0, adminKey, at)
  OBVIOUS
<1>3. PICK key : key = adminKey
  OBVIOUS
<1>4. /\ controls' = [search |-> search, page |-> 1]
      /\ Admin!Sending(new)
      /\ UNCHANGED <<uploads, coming, serverKey, authenticated, data, others>>
  BY <1>1, <1>2 DEF Admin!Filter, Admin!loadUploads, Admin!session, Admin!collection
<1>5. DOMAIN controls' = {"search", "page"} /\ controls'.page = 1 /\ controls'.search \in BOOLEAN
  BY <1>4
<1>6. /\ DOMAIN new = RequestFields /\ new.kind = "list" /\ new.upload = 0 /\ new.key = key
      /\ new.search = controls'.search /\ new.page = controls'.page /\ new.signIn = FALSE
      /\ new.stage = "sent" /\ new.totalPages = 0 /\ new.of = {}
  BY <1>1, <1>2, <1>3 DEF Admin!NewRequest, RequestFields
<1>7. controls'.page \in Nat /\ controls'.page > 0 /\ ~(controls'.page # 1)
  BY <1>5
<1> QED
  BY <1>4, <1>5, <1>6, <1>7, SendStep

LEMMA TurnStep ==
  ASSUME Admin!AdminAssumption, AdminInv, NEW p \in {controls.page - 1, controls.page + 1},
         Admin!goToPage(p)
  PROVE  AdminInv'
<1>1. PICK at : at = controls'
  OBVIOUS
<1>2. PICK new : new = Admin!NewRequest("list", 0, adminKey, at)
  OBVIOUS
<1>3. PICK key : key = adminKey
  OBVIOUS
<1>4. /\ authenticated /\ p \in 1..data.totalPages
      /\ controls' = [controls EXCEPT !.page = p]
      /\ Admin!Sending(new)
      /\ UNCHANGED <<uploads, coming, serverKey, authenticated, data, others>>
  BY <1>1, <1>2 DEF Admin!goToPage, Admin!loadUploads, Admin!session, Admin!Turnable,
                   Admin!collection
<1>5. p \in Nat /\ p > 0 /\ p <= data.totalPages
  BY <1>4 DEF AdminInv, AdminTyped
<1>6. /\ DOMAIN controls' = {"search", "page"} /\ controls'.page = p
      /\ controls'.search = controls.search /\ controls'.search \in BOOLEAN
  BY <1>4 DEF AdminInv, AdminTyped
<1>7. /\ DOMAIN new = RequestFields /\ new.kind = "list" /\ new.upload = 0 /\ new.key = key
      /\ new.search = controls'.search /\ new.page = controls'.page /\ new.signIn = FALSE
      /\ new.stage = "sent" /\ new.totalPages = 0 /\ new.of = {}
  BY <1>1, <1>2, <1>3 DEF Admin!NewRequest, RequestFields
<1>8. ASSUME ~crossed, requests = {}, others = {}
      PROVE  NoGap(uploads, controls'.search, controls'.page)
  <2>1. /\ data.totalPages = PagesOf(Found(data.of, controls.search))
        /\ data.of \subseteq uploads /\ uploads \subseteq AdminUploads
    BY <1>4, <1>8 DEF AdminInv, AdminTyped, LoneInv, ShowsControls
  <2>2. PICK S : S = Found(data.of, controls.search)
    OBVIOUS
  <2>3. IsFiniteSet(S) /\ AdminPageSize \in Nat \ {0}
    BY <2>1, <2>2, FoundFinite
  <2>4. (p - 1) * AdminPageSize < Cardinality(S)
    BY <1>5, <2>1, <2>2, <2>3, PageReached
  <2>5. NoGap(data.of, controls.search, p)
    BY <2>2, <2>4 DEF NoGap
  <2> QED
    BY <1>5, <1>6, <2>1, <2>5, NoGapGrows
<1> QED
  BY <1>4, <1>5, <1>6, <1>7, <1>8, SendStep

LEMMA DeleteStep ==
  ASSUME AdminInv, NEW u \in AdminUploads, Admin!deleteUpload(u)
  PROVE  AdminInv'
<1>1. PICK new : new = Admin!NewRequest("delete", u, adminKey, controls)
  OBVIOUS
<1>2. PICK key : key = adminKey
  OBVIOUS
<1>3. /\ authenticated /\ u \in data.items
      /\ Admin!Sending(new)
      /\ UNCHANGED <<uploads, coming, serverKey, authenticated, data, controls, others>>
  BY <1>1 DEF Admin!deleteUpload, Admin!session, Admin!collection
<1>4. PICK at : at = controls
  OBVIOUS
<1>5. /\ DOMAIN new = RequestFields /\ new.kind = "delete" /\ new.upload = u /\ new.key = key
      /\ new.search = controls'.search /\ new.page = controls'.page /\ new.signIn = FALSE
      /\ new.stage = "sent" /\ new.totalPages = 0 /\ new.of = {}
  BY <1>1, <1>2, <1>3, <1>4 DEF Admin!NewRequest, RequestFields
<1>6. /\ DOMAIN controls' = {"search", "page"} /\ controls'.search \in BOOLEAN
      /\ controls'.page \in Nat /\ controls'.page > 0
  BY <1>3 DEF AdminInv, AdminTyped
<1> QED
  BY <1>3, <1>5, <1>6, SendStep

(* The server answers a request in place. *)
LEMMA ServeListStep ==
  ASSUME Admin!AdminAssumption, AdminInv, NEW k \in requests, Admin!ServeList(k)
  PROVE  AdminInv'
<1>1. PICK new : new = [k EXCEPT
        !.stage = IF Admin!adminAuthStatus(k) THEN "ok" ELSE "unauthorized",
        !.items = IF Admin!adminAuthStatus(k)
                  THEN Admin!buildAdminPipeline(uploads, k.search, k.page) ELSE {},
        !.totalPages = Admin!Pages(uploads, k.search), !.of = uploads]
  OBVIOUS
<1>2. /\ k.kind = "list" /\ k.stage = "sent" /\ requests' = (requests \ {k}) \cup {new}
      /\ others' = (IF Admin!adminAuthStatus(k) /\ k.page = 1 THEN {} ELSE others)
      /\ UNCHANGED <<uploads, coming, serverKey, adminKey, authenticated, controls, data, crossed>>
  BY <1>1 DEF Admin!ServeList, Admin!Replace, Admin!session
<1>3. DOMAIN k = RequestFields /\ k.search \in BOOLEAN /\ uploads \subseteq AdminUploads
  BY DEF AdminInv, AdminTyped
<1>4. /\ DOMAIN new = RequestFields
      /\ new.kind = "list" /\ new.key = k.key /\ new.search = k.search /\ new.page = k.page
      /\ new.stage = (IF Admin!adminAuthStatus(k) THEN "ok" ELSE "unauthorized")
      /\ new.items = (IF Admin!adminAuthStatus(k)
                      THEN Admin!buildAdminPipeline(uploads, k.search, k.page) ELSE {})
      /\ new.totalPages = Admin!Pages(uploads, k.search) /\ new.of = uploads
  BY <1>1, <1>2, <1>3 DEF RequestFields
<1>5. new.totalPages = PagesOf(Found(uploads, k.search)) /\ new.totalPages \in Int
  BY <1>3, <1>4, PipelineIs, FoundFinite
<1>6. AdminTyped'
  BY <1>2, <1>3, <1>4, <1>5 DEF AdminInv, AdminTyped
<1>7. ASSUME ListCarries(k, uploads, controls, others)
      PROVE  ListCarries(new, uploads, controls, others')
  <2>1. Admin!adminAuthStatus(k) => k.key # ""
    BY DEF Admin!adminAuthStatus, AdminInv, AdminTyped, Admin!AdminAssumption
  <2>2. k.search = controls.search /\ k.page = controls.page
        /\ (k.key # "" /\ others = {} => NoGap(uploads, k.search, k.page))
    BY <1>2, <1>7 DEF ListCarries
  <2>3. k.page # 1 => others' = others
    BY <1>2
  <2>4. k.key # "" /\ others' = {} => NoGap(uploads, k.search, k.page)
    BY <2>2, <2>3 DEF NoGap
  <2>5. new.stage = "ok" =>
          new.key # "" /\ new.items = Listed(Found(new.of, new.search), new.page)
    <3>1. Admin!buildAdminPipeline(uploads, k.search, k.page)
            = Listed(Found(uploads, k.search), k.page)
      BY PipelineIs
    <3>2. new.stage = "ok" => Admin!adminAuthStatus(k)
      BY <1>4
    <3> QED
      BY <1>4, <2>1, <3>1, <3>2
  <2>6. new.of \ uploads \subseteq others' /\ new.stage \in {"ok", "unauthorized"}
    BY <1>4
  <2> QED
    BY <1>4, <1>5, <2>2, <2>4, <2>5, <2>6 DEF ListCarries
<1>8. LoneInv'
  <2> SUFFICES ASSUME ~crossed
               PROVE  /\ \A j, r \in requests' : j = r
                      /\ \A r \in requests' : r.kind = "list" => ListCarries(r, uploads, controls, others')
                      /\ \A r \in requests' : r.kind = "delete" =>
                           DeleteCarries(r, uploads, controls, data, authenticated, adminKey, others')
                      /\ requests' = {} /\ authenticated =>
                           ShowsControls(data, uploads, controls, others')
    BY <1>2 DEF LoneInv
  <2>1. requests' = {new} /\ ListCarries(k, uploads, controls, others)
    BY <1>2 DEF AdminInv, LoneInv
  <2> QED
    BY <1>4, <1>7, <2>1
<1> QED
  BY <1>6, <1>8 DEF AdminInv

LEMMA ServeDeleteStep ==
  ASSUME Admin!AdminAssumption, AdminInv, NEW k \in requests, Admin!ServeDelete(k)
  PROVE  AdminInv'
<1>1. PICK stage : stage = IF ~Admin!adminAuthStatus(k) THEN "unauthorized"
                           ELSE IF k.upload \in uploads THEN "ok" ELSE "gone"
  OBVIOUS
<1>2. PICK new : new = [k EXCEPT !.stage = stage]
  OBVIOUS
<1>3. /\ k.kind = "delete" /\ k.stage = "sent" /\ requests' = (requests \ {k}) \cup {new}
      /\ uploads' = (IF Admin!adminAuthStatus(k) THEN uploads \ {k.upload} ELSE uploads)
      /\ UNCHANGED <<coming, serverKey, adminKey, authenticated, controls, data, crossed, others>>
  BY <1>1, <1>2 DEF Admin!ServeDelete, Admin!Replace, Admin!session
<1>4. DOMAIN k = RequestFields /\ k.search \in BOOLEAN /\ uploads \subseteq AdminUploads
      /\ k.totalPages \in Int /\ k.of \subseteq AdminUploads
  BY DEF AdminInv, AdminTyped
<1>5. /\ DOMAIN new = RequestFields /\ new.kind = "delete" /\ new.upload = k.upload
      /\ new.search = k.search /\ new.totalPages = k.totalPages /\ new.signIn = k.signIn
      /\ new.stage = stage /\ new.of = k.of
  BY <1>2, <1>3, <1>4 DEF RequestFields
<1>6. AdminTyped'
  BY <1>3, <1>4, <1>5 DEF AdminInv, AdminTyped
<1>7. LoneInv'
  <2> SUFFICES ASSUME ~crossed
               PROVE  /\ \A j, r \in requests' : j = r
                      /\ \A r \in requests' : r.kind = "list" =>
                           ListCarries(r, uploads', controls, others)
                      /\ \A r \in requests' : r.kind = "delete" =>
                           DeleteCarries(r, uploads', controls, data, authenticated, adminKey, others)
                      /\ requests' = {} /\ authenticated =>
                           ShowsControls(data, uploads', controls, others)
    BY <1>3 DEF LoneInv
  <2>1. /\ requests' = {new}
        /\ DeleteCarries(k, uploads, controls, data, authenticated, adminKey, others)
    BY <1>3 DEF AdminInv, LoneInv
  <2>2. ~k.signIn /\ k.upload \in uploads \cup others /\ (~authenticated => adminKey = "")
        /\ (authenticated => ShowsControls(data, uploads, controls, others) /\ k.upload \in data.items)
    BY <1>3, <2>1 DEF DeleteCarries
  <2>3. /\ stage \in {"ok", "gone", "unauthorized"}
        /\ stage = "ok" => Admin!adminAuthStatus(k)
        /\ stage = "gone" => others # {}
    BY <1>1, <2>2
  <2>4. ASSUME stage = "ok", authenticated, others = {}
        PROVE  NoGap(uploads', controls.search, PageLeft(data, controls))
    <3>1. PICK S : S = Found(data.of, controls.search)
      OBVIOUS
    <3>2. PICK p \in Nat : p = controls.page /\ p > 0
      BY DEF AdminInv, AdminTyped
    <3>3. /\ IsFiniteSet(S) /\ S \subseteq Int /\ AdminPageSize \in Nat \ {0}
          /\ data.of \subseteq AdminUploads
      BY <3>1, FoundFinite DEF AdminInv, AdminTyped
    <3>4. PICK u : u = k.upload
      OBVIOUS
    <3>5. data.items = Listed(S, p) /\ u \in Listed(S, p) /\ data.of \subseteq uploads
      BY <2>2, <2>4, <3>1, <3>2, <3>4 DEF ShowsControls
    <3>6. PICK to : to = PageLeft(data, controls)
      OBVIOUS
    <3>7. to = IF Cardinality(Listed(S, p)) = 1 /\ p > 1 THEN p - 1 ELSE p
      BY <3>2, <3>5, <3>6 DEF PageLeft
    <3>8. to = 1 \/ (to - 1) * AdminPageSize < Cardinality(S \ {u})
      BY <3>2, <3>3, <3>5, <3>7, AfterDeletion
    <3>9. uploads' = uploads \ {u} /\ uploads' \subseteq AdminUploads
      BY <1>3, <1>4, <2>3, <2>4, <3>4
    <3>10. Found(data.of \ {u}, controls.search) = S \ {u}
      BY <3>1 DEF Found
    <3>11. NoGap(data.of \ {u}, controls.search, to) /\ to \in Nat /\ to > 0
      <4>1. to \in Nat /\ to > 0
        BY <3>2, <3>7
      <4>2. to = 1 \/ (to - 1) * AdminPageSize < Cardinality(Found(data.of \ {u}, controls.search))
        BY <3>8, <3>10
      <4> QED
        BY <4>1, <4>2 DEF NoGap
    <3>12. data.of \ {u} \subseteq uploads'
      BY <3>5, <3>9
    <3> QED
      BY <3>6, <3>9, <3>11, <3>12, NoGapGrows
  <2>5. DeleteCarries(new, uploads', controls, data, authenticated, adminKey, others)
    BY <1>5, <2>2, <2>3, <2>4 DEF DeleteCarries
  <2> QED
    BY <1>5, <2>1, <2>5
<1> QED
  BY <1>6, <1>7 DEF AdminInv

(* Others upload and delete. *)
LEMMA OthersStep ==
  ASSUME Admin!AdminAssumption, AdminInv, NEW u \in AdminUploads,
         Admin!Uploaded(u) \/ Admin!DeletedElsewhere(u)
  PROVE  AdminInv'
<1>1. /\ UNCHANGED <<serverKey, adminKey, authenticated, controls, data, requests, crossed>>
      /\ \/ uploads' = uploads \cup {u} /\ coming' = coming \ {u} /\ others' = others
         \/ uploads' = uploads \ {u} /\ coming' = coming /\ others' = others \cup {u}
  BY DEF Admin!Uploaded, Admin!DeletedElsewhere, Admin!session
<1>2. uploads' \subseteq AdminUploads /\ coming' \subseteq AdminUploads
  BY <1>1 DEF AdminInv, AdminTyped
<1>3. AdminTyped'
  BY <1>1, <1>2 DEF AdminInv, AdminTyped
<1>4. /\ uploads \ uploads' \subseteq others' /\ others \subseteq others'
      /\ others' = {} => uploads \subseteq uploads'
  BY <1>1
<1>5. ASSUME ShowsControls(data, uploads, controls, others)
      PROVE  ShowsControls(data, uploads', controls, others')
  BY <1>4, <1>5 DEF ShowsControls
<1>6. controls.page \in Nat /\ controls.page > 0
  BY DEF AdminInv, AdminTyped
<1>7. ASSUME NEW k \in requests, ListCarries(k, uploads, controls, others)
      PROVE  ListCarries(k, uploads', controls, others')
  <2>1. ASSUME k.stage = "sent", k.key # "", others' = {}
        PROVE  NoGap(uploads', k.search, k.page)
    <3>1. NoGap(uploads, k.search, k.page) /\ k.page \in Nat /\ k.page > 0
      BY <1>4, <1>6, <1>7, <2>1 DEF ListCarries
    <3> QED
      BY <1>2, <1>4, <2>1, <3>1, NoGapGrows
  <2> QED
    BY <1>4, <1>7, <2>1 DEF ListCarries
<1>8. ASSUME NEW k \in requests,
             DeleteCarries(k, uploads, controls, data, authenticated, adminKey, others)
      PROVE  DeleteCarries(k, uploads', controls, data, authenticated, adminKey, others')
  <2>1. ASSUME k.stage = "ok", authenticated, others' = {}
        PROVE  NoGap(uploads', controls.search, PageLeft(data, controls))
    <3>1. PageLeft(data, controls) \in Nat /\ PageLeft(data, controls) > 0
      BY <1>6 DEF PageLeft
    <3>2. NoGap(uploads, controls.search, PageLeft(data, controls))
      BY <1>4, <1>8, <2>1 DEF DeleteCarries
    <3> QED
      BY <1>2, <1>4, <2>1, <3>1, <3>2, NoGapGrows
  <2>2. k.stage = "sent" => k.upload \in uploads' \cup others'
    BY <1>4, <1>8 DEF DeleteCarries
  <2> QED
    BY <1>4, <1>5, <1>8, <2>1, <2>2 DEF DeleteCarries
<1>9. LoneInv'
  BY <1>1, <1>5, <1>7, <1>8 DEF AdminInv, LoneInv
<1> QED
  BY <1>3, <1>9 DEF AdminInv

LEMMA ListAnswerStep ==
  ASSUME AdminInv, NEW k \in requests, Admin!ListAnswer(k)
  PROVE  AdminInv'
<1>1. /\ k.kind = "list" /\ k.stage = "ok"
      /\ data' = [items |-> k.items, page |-> k.page, search |-> k.search,
                  totalPages |-> k.totalPages, of |-> k.of]
      /\ authenticated' = (authenticated \/ k.signIn)
      /\ requests' = requests \ {k}
      /\ UNCHANGED <<uploads, coming, serverKey, adminKey, controls, crossed, others>>
  BY DEF Admin!ListAnswer, Admin!collection
<1>2. /\ data'.items = k.items /\ data'.page = k.page /\ data'.search = k.search
      /\ data'.totalPages = k.totalPages /\ data'.of = k.of
  BY <1>1
<1>3. AdminTyped'
  BY <1>1, <1>2 DEF AdminInv, AdminTyped
<1>4. LoneInv'
  <2> SUFFICES ASSUME ~crossed
               PROVE  requests' = {} /\ ShowsControls(data', uploads, controls, others)
    BY <1>1 DEF LoneInv
  <2>1. requests' = {} /\ ListCarries(k, uploads, controls, others)
    BY <1>1 DEF AdminInv, LoneInv
  <2> QED
    BY <1>1, <1>2, <2>1 DEF ListCarries, ShowsControls
<1> QED
  BY <1>3, <1>4 DEF AdminInv

LEMMA DeleteAnswerStep ==
  ASSUME AdminInv, NEW k \in requests, Admin!DeleteAnswer(k)
  PROVE  AdminInv'
<1>1. PICK at : at = controls'
  OBVIOUS
<1>2. PICK base : base = Admin!NewRequest("list", k.upload, adminKey, at)
  OBVIOUS
<1>3. PICK new : new = [base EXCEPT !.n = k.n]
  OBVIOUS
<1>4. /\ k.kind = "delete" /\ k.stage \in {"ok", "gone"}
      /\ controls' = (IF k.stage = "ok" THEN Admin!PageAfterDeletion ELSE controls)
      /\ requests' = (requests \ {k}) \cup {new}
      /\ crossed' = (crossed \/ requests \ {k} # {})
      /\ UNCHANGED <<uploads, coming, serverKey, adminKey, authenticated, data, others>>
  BY <1>1, <1>2, <1>3 DEF Admin!DeleteAnswer, Admin!session, Admin!collection
<1>5. DOMAIN controls = {"search", "page"} /\ controls.search \in BOOLEAN
      /\ controls.page \in Nat /\ controls.page > 0
  BY DEF AdminInv, AdminTyped
<1>6. /\ DOMAIN Admin!PageAfterDeletion = {"search", "page"}
      /\ Admin!PageAfterDeletion.search = controls.search
      /\ Admin!PageAfterDeletion.page = PageLeft(data, controls)
  BY <1>5, AdminCardinality DEF Admin!PageAfterDeletion, PageLeft
<1>7. PageLeft(data, controls) \in Nat /\ PageLeft(data, controls) > 0
  BY <1>5 DEF PageLeft
<1>8. /\ DOMAIN controls' = {"search", "page"} /\ controls'.search = controls.search
      /\ controls'.page = (IF k.stage = "ok" THEN PageLeft(data, controls) ELSE controls.page)
      /\ controls'.page \in Nat /\ controls'.page > 0
  BY <1>4, <1>5, <1>6, <1>7
<1>9. /\ DOMAIN base = RequestFields /\ base.kind = "list" /\ base.key = adminKey
      /\ base.search = at.search /\ base.page = at.page /\ base.stage = "sent" /\ base.totalPages = 0
      /\ base.of = {}
  BY <1>2 DEF Admin!NewRequest, RequestFields
<1>10. /\ DOMAIN new = RequestFields /\ new.kind = "list" /\ new.key = adminKey
       /\ new.search = at.search /\ new.page = at.page /\ new.stage = "sent" /\ new.totalPages = 0 /\ new.of = {}
  BY <1>3, <1>9 DEF RequestFields
<1>11. AdminTyped'
  <2>1. new.totalPages \in Int /\ new.search \in BOOLEAN /\ new.of \subseteq AdminUploads
    BY <1>1, <1>5, <1>8, <1>10
  <2>2. crossed' \in BOOLEAN
    BY <1>4
  <2> QED
    BY <1>4, <1>5, <1>8, <1>10, <2>1, <2>2 DEF AdminInv, AdminTyped
<1>12. LoneInv'
  <2> SUFFICES ASSUME ~crossed'
               PROVE  requests' = {new} /\ ListCarries(new, uploads, at, others)
    BY <1>1, <1>4, <1>10 DEF LoneInv
  <2>1. ~crossed /\ requests' = {new}
        /\ DeleteCarries(k, uploads, controls, data, authenticated, adminKey, others)
    BY <1>4 DEF AdminInv, LoneInv
  <2>2. others = {} => k.stage = "ok"
    BY <1>4, <2>1 DEF DeleteCarries
  <2>3. authenticated /\ others = {} => NoGap(uploads, controls.search, PageLeft(data, controls))
    BY <2>1, <2>2 DEF DeleteCarries
  <2>4. ~authenticated => adminKey = ""
    BY <2>1 DEF DeleteCarries
  <2>5. at.search = controls.search /\ (others = {} => at.page = PageLeft(data, controls))
    BY <1>1, <1>8, <2>2
  <2> QED
    BY <1>10, <2>1, <2>3, <2>4, <2>5 DEF ListCarries
<1> QED
  BY <1>11, <1>12 DEF AdminInv

(* Signing out, the key of the server and answers that are refused or lost *)
(* leave the list and the controls alone.                                  *)
LEMMA SignOutsStep ==
  ASSUME AdminInv, Admin!SignedOut, requests' \subseteq requests,
         UNCHANGED <<Admin!collection, serverKey, controls, crossed>>
  PROVE  AdminInv'
<1>1. /\ UNCHANGED <<uploads, coming, others, serverKey, controls, crossed>>
      /\ adminKey' = "" /\ authenticated' = FALSE /\ data' = Admin!NoData
  BY DEF Admin!SignedOut, Admin!collection
<1>2. data'.totalPages = 0 /\ data'.of = {}
  BY <1>1 DEF Admin!NoData
<1>3. /\ data'.totalPages \in Int /\ data'.of \subseteq AdminUploads
      /\ authenticated' \in BOOLEAN
  <2>1. data'.totalPages \in Int /\ data'.of \subseteq AdminUploads
    BY <1>2
  <2>2. authenticated' \in BOOLEAN
    BY <1>1
  <2> QED
    BY <2>1, <2>2
<1>4. AdminTyped'
  BY <1>1, <1>3 DEF AdminInv, AdminTyped
<1>5. ASSUME NEW k \in requests,
             DeleteCarries(k, uploads, controls, data, authenticated, adminKey, others)
      PROVE  DeleteCarries(k, uploads, controls, data', authenticated', adminKey', others)
  BY <1>1, <1>5 DEF DeleteCarries
<1>6. uploads' = uploads /\ others' = others /\ controls' = controls /\ crossed' = crossed
      /\ ~authenticated'
  BY <1>1
<1>7. LoneInv'
  <2>1. ASSUME ~crossed
        PROVE  /\ \A j, k \in requests' : j = k
               /\ \A k \in requests' : k.kind = "list" =>
                    ListCarries(k, uploads, controls, others)
               /\ \A k \in requests' : k.kind = "delete" =>
                    DeleteCarries(k, uploads, controls, data', authenticated', adminKey', others)
    BY <1>5, <2>1 DEF AdminInv, LoneInv
  <2> QED
    BY <1>6, <2>1 DEF LoneInv
<1> QED
  BY <1>4, <1>7 DEF AdminInv

LEMMA KeyChangeStep ==
  ASSUME AdminInv, Admin!ChangeKey
  PROVE  AdminInv'
<1>1. /\ serverKey' \in Keys
      /\ UNCHANGED <<uploads, coming, others, adminKey, authenticated, controls, data, requests,
                     crossed>>
  BY DEF Admin!ChangeKey, Admin!session, Admin!collection
<1>2. AdminTyped'
  BY <1>1 DEF AdminInv, AdminTyped
<1>3. LoneInv'
  BY <1>1 DEF AdminInv, LoneInv
<1> QED
  BY <1>2, <1>3 DEF AdminInv

LEMMA AdminFailsStep ==
  ASSUME AdminInv, NEW k \in requests, Admin!RequestFails(k)
  PROVE  AdminInv'
<1>1. /\ authenticated' = (authenticated /\ ~k.signIn) /\ requests' = requests \ {k}
      /\ crossed' = TRUE
      /\ UNCHANGED <<uploads, coming, others, serverKey, adminKey, controls, data>>
  BY DEF Admin!RequestFails, Admin!collection
<1>2. AdminTyped'
  BY <1>1 DEF AdminInv, AdminTyped
<1>3. LoneInv'
  BY <1>1 DEF LoneInv
<1> QED
  BY <1>2, <1>3 DEF AdminInv

LEMMA AdminInvStep ==
  Admin!AdminAssumption /\ AdminInv /\ [Admin!ANext]_(Admin!avars) => AdminInv'
<1> SUFFICES ASSUME Admin!AdminAssumption, AdminInv, [Admin!ANext]_(Admin!avars)
             PROVE  AdminInv'
  OBVIOUS
<1>1. CASE UNCHANGED Admin!avars
  <2>1. UNCHANGED <<uploads, coming, others, serverKey, adminKey, authenticated, controls, data,
                    requests, crossed>>
    BY <1>1 DEF Admin!avars
  <2>2. AdminTyped'
    BY <2>1 DEF AdminInv, AdminTyped
  <2>3. LoneInv'
    BY <2>1 DEF AdminInv, LoneInv
  <2> QED
    BY <2>2, <2>3 DEF AdminInv
<1>2. CASE Admin!signOut
  BY <1>2, SignOutsStep DEF Admin!signOut
<1>3. CASE \E k \in requests : Admin!Unauthorized(k)
  BY <1>3, SignOutsStep DEF Admin!Unauthorized
<1>4. CASE Admin!ANext /\ ~Admin!signOut /\ ~\E k \in requests : Admin!Unauthorized(k)
  BY <1>4, KeyChangeStep, SignInStep, FilterStep, TurnStep, DeleteStep, ServeListStep,
     ServeDeleteStep, ListAnswerStep, DeleteAnswerStep, AdminFailsStep, OthersStep
     DEF Admin!ANext
<1> QED
  BY <1>1, <1>2, <1>3, <1>4

(* Once every request is answered, and unless requests overlapped, the     *)
(* list is what the server had for what the controls say, whoever uploaded *)
(* or deleted meanwhile; what this page deleted is not on it any more; and *)
(* it is empty only when nothing matched, or when others deleted since a   *)
(* first page was served (loadUploads and deleteUpload of routes/admin/    *)
(* +page.svelte, getAdminUploadPage of admin.ts).                          *)
THEOREM ListCurrentHolds == PagesSpec => []ListCurrent
<1>1. AdminInv /\ Admin!AdminAssumption => Admin!ListCurrent
  <2> SUFFICES ASSUME AdminInv, Admin!AdminAssumption, authenticated, requests = {}, ~crossed
               PROVE  /\ data.items = Admin!buildAdminPipeline(data.of, controls.search, controls.page)
                      /\ data.page = controls.page /\ data.search = controls.search
                      /\ data.of \ uploads \subseteq others
                      /\ data.items = {} /\ others = {} =>
                           Admin!buildAdminPipeline(data.of, controls.search, 1) = {}
    BY DEF Admin!ListCurrent
  <2>1. ShowsControls(data, uploads, controls, others)
    BY DEF AdminInv, LoneInv
  <2>2. PICK S : S = Found(data.of, controls.search)
    OBVIOUS
  <2>3. IsFiniteSet(S) /\ S \subseteq Int /\ AdminPageSize \in Nat \ {0}
    BY <2>2, FoundFinite DEF AdminInv, AdminTyped
  <2>4. controls.page \in Nat /\ controls.page > 0
    BY DEF AdminInv, AdminTyped
  <2>5. data.items = Listed(S, controls.page)
    BY <2>1, <2>2 DEF ShowsControls
  <2>6. data.items = {} /\ others = {} => controls.page = 1
    BY <2>1, <2>2, <2>3, <2>4, <2>5, PageThere DEF ShowsControls, NoGap
  <2> QED
    BY <2>1, <2>2, <2>5, <2>6, PipelineIs DEF ShowsControls
<1>2. WhenAdminOpen => ListCurrent
  BY <1>1, PagesAssumption DEF WhenAdminOpen, ListCurrent
<1>3. PagesInit => WhenAdminOpen
  BY AdminInvInit, PagesAssumption DEF PagesInit, WhenAdminOpen
<1>4. WhenAdminOpen /\ [PagesNext]_pagesVars => WhenAdminOpen'
  BY AdminInvStep, PagesAssumption, OneOpen DEF WhenAdminOpen
<1> QED
  BY <1>2, <1>3, <1>4, PTL DEF PagesSpec

=============================================================================
