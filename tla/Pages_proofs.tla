---------------------------- MODULE Pages_proofs ----------------------------
(***************************************************************************)
(* Safety of the pages of the web client, each with its part of the        *)
(* server, for every choice of their constants.  The pages share no state: *)
(* each has an invariant of its own, which holds when it is the one open.  *)
(***************************************************************************)
EXTENDS Pages, FiniteSetTheorems, SequenceTheorems, TLAPS

(* A step of the composition is one of the page that is open. *)
LEMMA OneOpen ==
  ASSUME [PagesNext]_pagesVars
  PROVE  /\ component' = component
         /\ component = "page" => [Page!PageNext]_Page!pagevars
         /\ component = "card" => [Card!CardNext]_Card!cardvars
         /\ component = "form" => [Form!UNext]_Form!uvars
         /\ component = "signup" => [Signup!PNext]_Signup!pvars
         /\ component = "account" => [Account!NNext]_(Account!nvars)
         /\ [CNext]_cvars
<1>1. CASE PagesNext
  BY <1>1 DEF PagesNext
<1>2. CASE UNCHANGED pagesVars
  BY <1>2 DEF pagesVars
<1> QED
  BY <1>1, <1>2

-----------------------------------------------------------------------------
(* Comments and reactions. *)

CallFields == {"n", "kind", "tab", "browser", "about", "want", "tries", "stage"}
TabFields == {"upload", "mine", "reply_to", "pending", "submitting"}
CommentFields == {"upload", "parent", "stat", "reactions"}

Totals(of) ==
  [up |-> Cardinality(Voters(of, "up")), down |-> Cardinality(Voters(of, "down")),
   eyes |-> Cardinality(Watchers(of))]

(* What the server keeps of a comment. *)
Counted(doc) ==
  /\ DOMAIN doc = CommentFields /\ IsFiniteSet(DOMAIN doc.reactions)
  /\ \A b \in DOMAIN doc.reactions : doc.reactions[b] \in Reaction
  /\ doc.stat = Totals(doc.reactions)

InThread(doc) == doc.parent # Nobody => doc.parent \in IdsOf(doc.upload)

DocsInv == \A c \in DOMAIN comments : Counted(comments[c]) /\ InThread(comments[c])

(* Reactions of comments there are. *)
Reactions(f) == DOMAIN f \subseteq DOMAIN comments /\ \A c \in DOMAIN f : f[c] \in Reaction

StoredInv == DOMAIN stored = Browsers /\ \A b \in Browsers : Reactions(stored[b])

TabsInv ==
  /\ DOMAIN page = Tabs
  /\ \A t \in Tabs : DOMAIN page[t] = TabFields /\ Reactions(page[t].mine)

(* A tab waits for its reactions; those of pages that are gone are unsure. *)
CallInv(k) ==
  /\ DOMAIN k = CallFields /\ k.kind \in {"react", "create"}
  /\ k.tab \in Tabs \cup {Nobody}
  /\ k.kind = "react" =>
       /\ k.about \in DOMAIN comments /\ k.want \in Reaction /\ k.browser \in Browsers
       /\ k.tab # Nobody => k.about \in page[k.tab].pending
       /\ k.tab = Nobody => <<k.browser, k.about>> \in unsure
  /\ k.kind = "create" =>
       /\ k.stage = "inserting" /\ k.want # Nobody => k.want \in IdsOf(k.about)
       /\ k.stage = "answered" => k.want \in DOMAIN comments

CallsInv == \A k \in calls : CallInv(k)

(* One reaction to a comment at a time from a tab, and from a browser      *)
(* unless they overlapped.                                                 *)
Alone(j, k) ==
  /\ j.tab = k.tab /\ j.tab # Nobody => j = k
  /\ j.browser = k.browser /\ <<j.browser, j.about>> \notin unsure => j = k

AloneInv ==
  \A j, k \in calls :
    j.kind = "react" /\ k.kind = "react" /\ j.about = k.about => Alone(j, k)

(* A browser's storage lags behind by an answer on its way at most. *)
AgreeOn(b, c) ==
  \/ <<b, c>> \in unsure
  \/ \E k \in Overlapping(b, c) :
       k.stage = "answered" /\ k.want = Get(comments[c].reactions, b)
  \/ /\ \A k \in Overlapping(b, c) : k.stage # "answered"
     /\ Get(stored[b], c) = Get(comments[c].reactions, b)

AgreeInv == \A c \in DOMAIN comments, b \in Browsers : AgreeOn(b, c)

CommentsInv == DocsInv /\ StoredInv /\ TabsInv /\ CallsInv /\ AloneInv /\ AgreeInv

-----------------------------------------------------------------------------
(* Functions and counts. *)

LEMMA PutGet ==
  ASSUME NEW f, NEW k, NEW v
  PROVE  /\ Get(Put(f, k, v), k) = v
         /\ \A j : j # k => Get(Put(f, k, v), j) = Get(f, j)
BY DEF Get, Put

LEMMA PutReactions ==
  ASSUME NEW f, Reactions(f), NEW c \in DOMAIN comments, NEW r \in Reaction
  PROVE  Reactions(Put(f, c, r))
<1>1. /\ DOMAIN Put(f, c, r) = DOMAIN f \cup {c} /\ Put(f, c, r)[c] = r
      /\ \A j \in DOMAIN f : j # c => Put(f, c, r)[j] = f[j]
  BY DEF Put
<1>2. DOMAIN f \subseteq DOMAIN comments /\ \A j \in DOMAIN f : f[j] \in Reaction
  BY DEF Reactions
<1> DEFINE g == Put(f, c, r)
<1>3. \A j \in DOMAIN g : g[j] \in Reaction
  BY <1>1, <1>2
<1> QED
  BY <1>1, <1>2, <1>3 DEF Reactions

LEMMA GotReaction ==
  ASSUME NEW f, Reactions(f), NEW c PROVE Get(f, c) \in Reaction
BY DEF Reactions, Get, defaultReaction, Reaction

(* A member that leaves, joins or stays. *)
LEMMA MovedCount ==
  ASSUME NEW S, IsFiniteSet(S), NEW b, NEW was \in BOOLEAN, NEW is \in BOOLEAN,
         was <=> b \in S
  PROVE  Cardinality((S \ {b}) \cup (IF is THEN {b} ELSE {}))
           = Max0(Cardinality(S) - One(was) + One(is))
<1> DEFINE R == S \ {b}
<1>1. Cardinality(S) \in Nat /\ IsFiniteSet(R) /\ Cardinality(R) \in Nat
  BY FS_CardinalityType, FS_RemoveElement
<1>2. Cardinality(R) = Cardinality(S) - One(was)
  BY <1>1, FS_RemoveElement DEF One
<1>3. Cardinality(R \cup (IF is THEN {b} ELSE {})) = Cardinality(R) + One(is)
  <2>1. b \notin R
    OBVIOUS
  <2>2. Cardinality(R \cup {b}) = Cardinality(R) + 1
    BY <1>1, <2>1, FS_AddElement
  <2>3. R \cup {} = R
    OBVIOUS
  <2> HIDE DEF R
  <2>4. Cardinality(R) + 0 = Cardinality(R)
    BY <1>1
  <2> QED
    BY <2>2, <2>3, <2>4 DEF One
<1>4. Max0(Cardinality(R) + One(is)) = Cardinality(R) + One(is)
  <2>1. One(is) \in {0, 1}
    BY DEF One
  <2> HIDE DEF R
  <2>2. Cardinality(R) + One(is) \in Nat
    BY <1>1, <2>1
  <2> QED
    BY <2>2 DEF Max0
<1> QED
  BY <1>2, <1>3, <1>4

(* The update keeps the totals of what it stores, whatever was there. *)
LEMMA PipelineCounts ==
  ASSUME NEW doc, Counted(doc), NEW b, NEW want \in Reaction
  PROVE  /\ Counted(buildReactionUpdatePipeline(doc, b, want))
         /\ buildReactionUpdatePipeline(doc, b, want).upload = doc.upload
         /\ buildReactionUpdatePipeline(doc, b, want).parent = doc.parent
         /\ buildReactionUpdatePipeline(doc, b, want).reactions = Put(doc.reactions, b, want)
<1> DEFINE of == doc.reactions
           new == Put(of, b, want)
           prior == Get(of, b)
           ups == Cardinality(Voters(of, "up"))
           downs == Cardinality(Voters(of, "down"))
           eyes == Cardinality(Watchers(of))
           is(rating) == want.rating = rating
           was(rating) == prior.rating = rating
           stat == [up |-> Max0(ups - One(was("up")) + One(is("up"))),
                    down |-> Max0(downs - One(was("down")) + One(is("down"))),
                    eyes |-> Max0(eyes - One(prior.eyes) + One(want.eyes))]
<1>1. /\ DOMAIN doc = CommentFields /\ IsFiniteSet(DOMAIN of) /\ doc.stat = Totals(of)
      /\ \A x \in DOMAIN of : of[x] \in Reaction
  BY DEF Counted
<1>2. /\ DOMAIN new = DOMAIN of \cup {b} /\ new[b] = want
      /\ \A x \in DOMAIN of : x # b => new[x] = of[x]
  BY DEF Put
<1>3. /\ prior = IF b \in DOMAIN of THEN of[b] ELSE defaultReaction
      /\ prior \in Reaction
  BY <1>1 DEF Get, Reaction, defaultReaction
<1>4. buildReactionUpdatePipeline(doc, b, want) = [doc EXCEPT !.reactions = new, !.stat = stat]
  <2>1. doc.stat.up = ups /\ doc.stat.down = downs /\ doc.stat.eyes = eyes
    BY <1>1 DEF Totals
  <2> QED
    BY <1>1, <2>1 DEF buildReactionUpdatePipeline, CommentFields
<1> DEFINE doc2 == [doc EXCEPT !.reactions = new, !.stat = stat]
<1>5. /\ DOMAIN doc2 = CommentFields /\ doc2.reactions = new /\ doc2.stat = stat
      /\ doc2.upload = doc.upload /\ doc2.parent = doc.parent
  BY <1>1 DEF CommentFields
<1>6. IsFiniteSet(DOMAIN new)
  BY <1>1, <1>2, FS_AddElement
<1>7. \A x \in DOMAIN new : new[x] \in Reaction
  BY <1>1, <1>2
<1>8. ASSUME NEW rating \in {"up", "down"}
      PROVE  Cardinality(Voters(new, rating))
               = Max0(Cardinality(Voters(of, rating)) - One(was(rating)) + One(is(rating)))
  <2> DEFINE S == Voters(of, rating)
  <2>1. Voters(new, rating) = (S \ {b}) \cup (IF is(rating) THEN {b} ELSE {})
    BY <1>2 DEF Voters
  <2>2. IsFiniteSet(S)
    BY <1>1, FS_Subset DEF Voters
  <2>3. was(rating) <=> b \in S
    BY <1>3 DEF Voters, defaultReaction
  <2>4. was(rating) \in BOOLEAN /\ is(rating) \in BOOLEAN
    OBVIOUS
  <2> HIDE DEF S, was, is
  <2>5. Cardinality((S \ {b}) \cup (IF is(rating) THEN {b} ELSE {}))
          = Max0(Cardinality(S) - One(was(rating)) + One(is(rating)))
    BY <2>2, <2>3, <2>4, MovedCount
  <2> QED
    BY <2>1, <2>5 DEF S
<1>9. Cardinality(Watchers(new)) = Max0(eyes - One(prior.eyes) + One(want.eyes))
  <2> DEFINE S == Watchers(of)  w == prior.eyes  i == want.eyes
  <2>1. w \in BOOLEAN /\ i \in BOOLEAN
    BY <1>3 DEF Reaction
  <2>2. Watchers(new) = (S \ {b}) \cup (IF i THEN {b} ELSE {})
    BY <1>2 DEF Watchers
  <2>3. IsFiniteSet(S)
    BY <1>1, FS_Subset DEF Watchers
  <2>4. w <=> b \in S
    <3>1. CASE b \in DOMAIN of
      BY <1>3, <3>1 DEF Watchers
    <3>2. CASE b \notin DOMAIN of
      BY <1>3, <3>2 DEF Watchers, defaultReaction
    <3> QED
      BY <3>1, <3>2
  <2> HIDE DEF S, w, i
  <2>5. Cardinality((S \ {b}) \cup (IF i THEN {b} ELSE {})) = Max0(Cardinality(S) - One(w) + One(i))
    BY <2>1, <2>3, <2>4, MovedCount
  <2> QED
    BY <2>2, <2>5 DEF S, w, i
<1>10. stat = Totals(new)
  BY <1>8, <1>9 DEF Totals
<1>11. Counted(doc2)
  <2> HIDE DEF doc2, new, stat
  <2> QED
    BY <1>5, <1>6, <1>7, <1>10 DEF Counted
<1> QED
  BY <1>4, <1>5, <1>11

-----------------------------------------------------------------------------
(* What keeps the parts of the invariant. *)

(* Comments are never removed, and none moves to another upload. *)
Grown ==
  /\ DOMAIN comments \subseteq DOMAIN comments'
  /\ \A c \in DOMAIN comments : comments'[c].upload = comments[c].upload

LEMMA SameGrown == ASSUME comments' = comments PROVE Grown
BY DEF Grown

LEMMA IdsGrown == ASSUME Grown, NEW u, NEW c \in IdsOf(u) PROVE c \in IdsOf(u)'
BY DEF Grown, IdsOf

LEMMA ReactionsGrown ==
  ASSUME NEW f, Reactions(f), DOMAIN comments \subseteq DOMAIN comments'
  PROVE  Reactions(f)'
BY DEF Reactions

LEMMA CallKept ==
  ASSUME NEW k, CallInv(k), Grown, unsure \subseteq unsure',
         k.kind = "react" /\ k.tab # Nobody /\ k.about \in page[k.tab].pending
           => k.about \in page'[k.tab].pending
  PROVE  CallInv(k)'
<1>1. k.kind = "react" =>
        /\ k.about \in DOMAIN comments' /\ k.want \in Reaction /\ k.browser \in Browsers
        /\ k.tab # Nobody => k.about \in page'[k.tab].pending
        /\ k.tab = Nobody => <<k.browser, k.about>> \in unsure'
  BY DEF CallInv, Grown
<1>2. k.kind = "create" =>
        /\ k.stage = "inserting" /\ k.want # Nobody => k.want \in IdsOf(k.about)'
        /\ k.stage = "answered" => k.want \in DOMAIN comments'
  BY IdsGrown DEF CallInv, Grown
<1> QED
  BY <1>1, <1>2 DEF CallInv

(* A call goes on. *)
GoesOn(k, j) ==
  /\ calls' = (calls \ {k}) \cup {j}
  /\ DOMAIN j = CallFields /\ j.kind = k.kind /\ j.tab = k.tab /\ j.browser = k.browser
  /\ j.about = k.about /\ (k.kind = "react" => j.want = k.want)

LEMMA CallGoesOn ==
  ASSUME CallsInv, AloneInv, NEW k \in calls, NEW j, GoesOn(k, j), UNCHANGED page,
         unsure \subseteq unsure', Grown,
         k.kind = "create" =>
           /\ j.stage = "inserting" /\ j.want # Nobody => j.want \in IdsOf(j.about)'
           /\ j.stage = "answered" => j.want \in DOMAIN comments'
  PROVE  CallsInv' /\ AloneInv'
<1>1. ASSUME NEW i \in calls PROVE CallInv(i)'
  <2>1. CallInv(i)
    BY DEF CallsInv
  <2> QED
    BY <2>1, CallKept
<1>2. CallInv(j)'
  <2>1. CallInv(k)'
    BY <1>1
  <2> QED
    BY <2>1 DEF CallInv, GoesOn
<1>3. CallsInv'
  BY <1>1, <1>2 DEF CallsInv, GoesOn
<1>4. ASSUME NEW i \in calls, NEW m \in calls, i.kind = "react", m.kind = "react",
             i.about = m.about
      PROVE  Alone(i, m)'
  BY <1>4 DEF AloneInv, Alone
<1>5. AloneInv'
  <2> SUFFICES ASSUME NEW i \in calls', NEW m \in calls', i.kind = "react", m.kind = "react",
                      i.about = m.about
               PROVE  Alone(i, m)'
    BY DEF AloneInv
  <2>1. CASE i # j /\ m # j
    BY <1>4, <2>1 DEF GoesOn
  <2>2. CASE i = j /\ m # j
    <3>1. m \in calls /\ m # k /\ Alone(k, m)'
      BY <1>4, <2>2 DEF GoesOn
    <3> QED
      BY <2>2, <3>1 DEF Alone, GoesOn
  <2>3. CASE i # j /\ m = j
    <3>1. i \in calls /\ i # k /\ Alone(i, k)'
      BY <1>4, <2>3 DEF GoesOn
    <3> QED
      BY <2>3, <3>1 DEF Alone, GoesOn
  <2>4. CASE i = j /\ m = j
    BY <2>4 DEF Alone
  <2> QED
    BY <2>1, <2>2, <2>3, <2>4
<1> QED
  BY <1>3, <1>5

LEMMA AgreeGoesOn ==
  ASSUME AgreeInv, NEW k \in calls, NEW j, GoesOn(k, j), UNCHANGED <<comments, stored>>,
         unsure \subseteq unsure',
         k.kind = "react" =>
           \/ k.stage # "answered" /\ j.stage # "answered"
           \/ <<k.browser, k.about>> \in unsure'
  PROVE  AgreeInv'
<1> SUFFICES ASSUME NEW c \in DOMAIN comments, NEW b \in Browsers, <<b, c>> \notin unsure'
             PROVE  AgreeOn(b, c)'
  BY DEF AgreeInv, AgreeOn
<1>1. AgreeOn(b, c) /\ <<b, c>> \notin unsure
  BY DEF AgreeInv
<1>2. k \in Overlapping(b, c) \/ j \in Overlapping(b, c)' =>
        k.stage # "answered" /\ j.stage # "answered"
  BY DEF Overlapping, GoesOn
<1>3. ASSUME NEW m \in Overlapping(b, c), m.stage = "answered",
             m.want = Get(comments[c].reactions, b)
      PROVE  AgreeOn(b, c)'
  <2>1. m # k
    BY <1>2, <1>3
  <2>2. m \in Overlapping(b, c)'
    BY <2>1 DEF Overlapping, GoesOn
  <2> QED
    BY <1>3, <2>2 DEF AgreeOn
<1>4. CASE /\ \A m \in Overlapping(b, c) : m.stage # "answered"
           /\ Get(stored[b], c) = Get(comments[c].reactions, b)
  <2>1. \A m \in Overlapping(b, c)' : m \in Overlapping(b, c) \/ m = j
    BY DEF Overlapping, GoesOn
  <2> QED
    BY <1>2, <1>4, <2>1 DEF AgreeOn
<1> QED
  BY <1>1, <1>3, <1>4 DEF AgreeOn

(* A call ends. *)
LEMMA CallEnds ==
  ASSUME CallsInv, AloneInv, NEW k \in calls, calls' = calls \ {k},
         UNCHANGED comments, unsure \subseteq unsure',
         \A t \in Tabs : \A c :
           /\ c \in page[t].pending
           /\ ~(k.kind = "react" /\ k.tab = t /\ k.about = c)
           => c \in page'[t].pending
  PROVE  CallsInv' /\ AloneInv'
<1>1. ASSUME NEW i \in calls' PROVE CallInv(i)'
  <2>1. i \in calls /\ i # k /\ CallInv(i)
    BY <1>1 DEF CallsInv
  <2>2. ASSUME i.kind = "react", i.tab # Nobody, i.about \in page[i.tab].pending
        PROVE  i.about \in page'[i.tab].pending
    <3>1. i.tab \in Tabs
      BY <2>1, <2>2 DEF CallInv
    <3>2. ~(k.kind = "react" /\ k.tab = i.tab /\ k.about = i.about)
      BY <2>1, <2>2 DEF AloneInv, Alone
    <3> QED
      BY <2>2, <3>1, <3>2
  <2>3. Grown
    BY SameGrown
  <2> QED
    BY <2>1, <2>2, <2>3, CallKept
<1>2. AloneInv'
  BY DEF AloneInv, Alone
<1> QED
  BY <1>1, <1>2 DEF CallsInv

LEMMA AgreeEnds ==
  ASSUME AloneInv, AgreeInv, NEW k \in calls, calls' = calls \ {k},
         UNCHANGED comments, unsure \subseteq unsure',
         \A b \in Browsers : \A c :
           <<b, c>> \notin unsure' =>
             Get(stored'[b], c) =
               IF k.kind = "react" /\ k.stage = "answered" /\ k.about = c /\ k.browser = b
               THEN k.want ELSE Get(stored[b], c)
  PROVE  AgreeInv'
<1> SUFFICES ASSUME NEW c \in DOMAIN comments, NEW b \in Browsers, <<b, c>> \notin unsure'
             PROVE  AgreeOn(b, c)'
  BY DEF AgreeInv, AgreeOn
<1>1. AgreeOn(b, c) /\ <<b, c>> \notin unsure
  BY DEF AgreeInv
<1>2. Overlapping(b, c)' = Overlapping(b, c) \ {k}
  BY DEF Overlapping
<1>3. ASSUME NEW m \in Overlapping(b, c), m.stage = "answered",
             m.want = Get(comments[c].reactions, b)
      PROVE  AgreeOn(b, c)'
  <2>1. CASE m # k
    BY <1>2, <1>3, <2>1 DEF AgreeOn
  <2>2. CASE m = k
    <3>1. ASSUME NEW i \in Overlapping(b, c) PROVE i = k
      BY <1>3, <2>2, <3>1 DEF Overlapping, AloneInv, Alone
    <3>2. Overlapping(b, c)' = {}
      BY <1>2, <3>1
    <3>3. Get(stored'[b], c) = k.want
      BY <1>3, <2>2 DEF Overlapping
    <3> QED
      BY <1>3, <2>2, <3>2, <3>3 DEF AgreeOn
  <2> QED
    BY <2>1, <2>2
<1>4. CASE /\ \A m \in Overlapping(b, c) : m.stage # "answered"
           /\ Get(stored[b], c) = Get(comments[c].reactions, b)
  <2>1. ~(k.kind = "react" /\ k.stage = "answered" /\ k.about = c /\ k.browser = b)
    BY <1>4 DEF Overlapping
  <2> QED
    BY <1>2, <1>4, <2>1 DEF AgreeOn
<1> QED
  BY <1>1, <1>3, <1>4 DEF AgreeOn

-----------------------------------------------------------------------------
(* The steps. *)

LEMMA CommentsInvInit == CommentsAssumption /\ CInit => CommentsInv
<1> SUFFICES ASSUME CommentsAssumption, CInit PROVE CommentsInv
  OBVIOUS
<1>1. PICK u \in Uploads :
        /\ comments = [c \in {FirstComment} |->
             [upload |-> u, parent |-> Nobody, stat |-> [NoStat EXCEPT !.up = 1],
              reactions |-> [b \in {Other} |-> [rating |-> "up", eyes |-> FALSE]]]]
        /\ stored = [b \in Browsers |-> <<>>]
        /\ page = [t \in Tabs |-> NewView(u, Browser[t])]
        /\ calls = {} /\ unsure = {}
  BY DEF CInit
<1> DEFINE ups == [rating |-> "up", eyes |-> FALSE]
           of == [b \in {Other} |-> ups]
           doc == comments[FirstComment]
<1>2. /\ DOMAIN comments = {FirstComment} /\ DOMAIN doc = CommentFields
      /\ doc.parent = Nobody /\ doc.reactions = of /\ doc.stat = [NoStat EXCEPT !.up = 1]
  BY <1>1 DEF CommentFields
<1>3. ups.rating = "up" /\ ups.eyes = FALSE /\ ups \in Reaction
  BY DEF Reaction
<1>4. Counted(doc)
  <2>1. Voters(of, "up") = {Other} /\ Voters(of, "down") = {} /\ Watchers(of) = {}
    BY <1>3 DEF Voters, Watchers
  <2>2. Totals(of) = [up |-> 1, down |-> 0, eyes |-> 0]
    BY <2>1, FS_Singleton, FS_EmptySet DEF Totals
  <2>3. IsFiniteSet(DOMAIN of) /\ \A b \in DOMAIN of : of[b] \in Reaction
    BY <1>3, FS_Singleton
  <2>4. [NoStat EXCEPT !.up = 1] = [up |-> 1, down |-> 0, eyes |-> 0]
    BY DEF NoStat
  <2> HIDE DEF doc, of
  <2> QED
    BY <1>2, <2>2, <2>3, <2>4 DEF Counted
<1>5. DocsInv
  BY <1>2, <1>4 DEF DocsInv, InThread
<1>6. \A b \in Browsers : stored[b] = <<>> /\ DOMAIN stored[b] = {}
  BY <1>1
<1>7. StoredInv
  BY <1>1, <1>6 DEF StoredInv, Reactions
<1>8. TabsInv
  <2>1. ASSUME NEW t \in Tabs PROVE DOMAIN page[t] = TabFields /\ Reactions(page[t].mine)
    <3>1. page[t] = NewView(u, Browser[t]) /\ Browser[t] \in Browsers
      BY <1>1 DEF Browsers
    <3>2. \A c \in IdsOf(u) : c \in DOMAIN comments /\ Get(stored[Browser[t]], c) = defaultReaction
      BY <1>6, <3>1 DEF IdsOf, Get
    <3>3. /\ page[t].mine = [c \in IdsOf(u) |-> Get(stored[Browser[t]], c)]
          /\ DOMAIN page[t] = TabFields
      BY <3>1 DEF NewView, comments_from_source, TabFields
    <3>4. defaultReaction \in Reaction
      BY DEF defaultReaction, Reaction
    <3>5. \A c \in DOMAIN page[t].mine : c \in DOMAIN comments /\ page[t].mine[c] = defaultReaction
      BY <3>2, <3>3
    <3> QED
      BY <3>3, <3>4, <3>5 DEF Reactions
  <2> QED
    BY <1>1, <2>1 DEF TabsInv
<1>9. CallsInv /\ AloneInv
  BY <1>1 DEF CallsInv, AloneInv
<1>10. AgreeInv
  <2> SUFFICES ASSUME NEW c \in DOMAIN comments, NEW b \in Browsers PROVE AgreeOn(b, c)
    BY DEF AgreeInv
  <2>1. Get(stored[b], c) = defaultReaction
    BY <1>6 DEF Get
  <2>2. b \notin DOMAIN of /\ c = FirstComment
    BY <1>2 DEF CommentsAssumption
  <2>3. Get(comments[c].reactions, b) = defaultReaction
    BY <1>2, <2>2 DEF Get
  <2>4. Overlapping(b, c) = {}
    BY <1>1 DEF Overlapping
  <2> QED
    BY <2>1, <2>3, <2>4 DEF AgreeOn
<1> QED
  BY <1>5, <1>7, <1>8, <1>9, <1>10 DEF CommentsInv

(* What the page alone does. *)
LEMMA OnlyPage ==
  ASSUME CommentsInv, UNCHANGED <<comments, stored, calls, unsure>>, TabsInv',
         \A t \in Tabs : page'[t].pending = page[t].pending
  PROVE  CommentsInv'
<1>1. DocsInv' /\ StoredInv'
  BY DEF CommentsInv, DocsInv, InThread, IdsOf, StoredInv, Reactions
<1>2. CallsInv'
  <2>1. ASSUME NEW k \in calls PROVE CallInv(k)'
    <3>1. CallInv(k)
      BY DEF CommentsInv, CallsInv
    <3>2. Grown
      BY SameGrown
    <3>3. k.tab # Nobody => k.tab \in Tabs
      BY <3>1 DEF CallInv
    <3> QED
      BY <3>1, <3>2, <3>3, CallKept
  <2> QED
    BY <2>1 DEF CallsInv
<1>3. AloneInv' /\ AgreeInv'
  BY DEF CommentsInv, AloneInv, Alone, AgreeInv, AgreeOn, Overlapping
<1> QED
  BY <1>1, <1>2, <1>3 DEF CommentsInv

LEMMA SeededReactions ==
  ASSUME StoredInv, NEW u, NEW b \in Browsers
  PROVE  Reactions(comments_from_source(u, b))
<1> DEFINE f == comments_from_source(u, b)
<1>1. DOMAIN f = IdsOf(u) /\ \A c \in IdsOf(u) : f[c] = Get(stored[b], c)
  BY DEF comments_from_source
<1>2. \A c \in IdsOf(u) : c \in DOMAIN comments /\ Get(stored[b], c) \in Reaction
  BY GotReaction DEF IdsOf, StoredInv
<1>3. Reactions(f)
  <2> HIDE DEF f
  <2> QED
    BY <1>1, <1>2 DEF Reactions
<1> QED
  BY <1>3

LEMMA PageSteps ==
  ASSUME CommentsInv, NEW t \in Tabs,
         \/ \E c \in CommentIds : comment_reply(t, c)
         \/ comment_reply_cancel(t)
         \/ \E u \in Uploads : Navigate(t, u)
  PROVE  CommentsInv'
<1>1. /\ DOMAIN page = Tabs /\ DOMAIN page[t] = TabFields
      /\ \A s \in Tabs : DOMAIN page[s] = TabFields /\ Reactions(page[s].mine)
  BY DEF CommentsInv, TabsInv
<1>2. UNCHANGED <<comments, stored, calls, unsure>>
  BY DEF comment_reply, comment_reply_cancel, Navigate
<1>3. ASSUME NEW shown, page' = [page EXCEPT ![t] = shown], DOMAIN shown = TabFields,
             Reactions(shown.mine), shown.pending = page[t].pending
      PROVE  CommentsInv'
  <2>1. /\ DOMAIN page' = Tabs /\ page'[t] = shown
        /\ \A s \in Tabs : s # t => page'[s] = page[s]
    BY <1>1, <1>3
  <2>2. \A s \in Tabs : DOMAIN page'[s] = TabFields /\ Reactions(page'[s].mine)
    BY <1>1, <1>3, <2>1
  <2>3. TabsInv'
    BY <1>2, <2>1, <2>2 DEF TabsInv, Reactions
  <2>4. \A s \in Tabs : page'[s].pending = page[s].pending
    BY <1>3, <2>1
  <2> QED
    BY <1>2, <2>3, <2>4, OnlyPage
<1>4. ASSUME NEW c, page' = [page EXCEPT ![t].reply_to = c] PROVE CommentsInv'
  <2> DEFINE shown == [page[t] EXCEPT !.reply_to = c]
  <2>1. /\ DOMAIN shown = TabFields /\ shown.mine = page[t].mine
        /\ shown.pending = page[t].pending
    BY <1>1 DEF TabFields
  <2>2. page' = [page EXCEPT ![t] = shown]
    BY <1>1, <1>4
  <2> HIDE DEF shown
  <2> QED
    BY <1>1, <1>3, <2>1, <2>2
<1>5. ASSUME NEW u \in Uploads, Navigate(t, u) PROVE CommentsInv'
  <2> DEFINE b == Browser[t]
             mine == comments_from_source(u, b)
             shown == [page[t] EXCEPT !.upload = u, !.mine = mine]
  <2>1. b \in Browsers
    BY DEF Browsers
  <2>2. Reactions(mine)
    BY <2>1, SeededReactions DEF CommentsInv
  <2>3. page' = [page EXCEPT ![t].upload = u, ![t].mine = mine]
    BY <1>5 DEF Navigate
  <2> HIDE DEF mine
  <2>4. DOMAIN shown = TabFields /\ shown.mine = mine /\ shown.pending = page[t].pending
    BY <1>1 DEF TabFields
  <2>5. page' = [page EXCEPT ![t] = shown]
    BY <1>1, <2>3
  <2> HIDE DEF shown
  <2> QED
    BY <1>3, <2>2, <2>4, <2>5
<1> QED
  BY <1>4, <1>5 DEF comment_reply, comment_reply_cancel

LEMMA UploadGoneStep ==
  ASSUME CommentsInv, NEW u, deleteUpload(u) PROVE CommentsInv'
<1>1. UNCHANGED <<comments, stored, page, calls, unsure>>
  BY DEF deleteUpload
<1>2. TabsInv' /\ \A t \in Tabs : page'[t].pending = page[t].pending
  BY <1>1 DEF CommentsInv, TabsInv, Reactions
<1> QED
  BY <1>1, <1>2, OnlyPage

(* A call of the server that changes nothing but its own course. *)
LEMMA OnlyCall ==
  ASSUME CommentsInv, NEW k \in calls, NEW j, GoesOn(k, j), UNCHANGED <<comments, stored, page>>,
         unsure \subseteq unsure',
         k.kind = "react" =>
           \/ k.stage # "answered" /\ j.stage # "answered"
           \/ <<k.browser, k.about>> \in unsure',
         k.kind = "create" =>
           /\ j.stage = "inserting" /\ j.want # Nobody => j.want \in IdsOf(j.about)
           /\ j.stage # "answered"
  PROVE  CommentsInv'
<1>1. Grown
  BY SameGrown
<1>2. DocsInv' /\ StoredInv' /\ TabsInv'
  BY DEF CommentsInv, DocsInv, InThread, IdsOf, StoredInv, TabsInv, Reactions
<1>3. k.kind = "create" =>
        /\ j.stage = "inserting" /\ j.want # Nobody => j.want \in IdsOf(j.about)'
        /\ j.stage = "answered" => j.want \in DOMAIN comments'
  BY DEF IdsOf
<1>4. CallsInv' /\ AloneInv'
  BY <1>1, <1>3, CallGoesOn DEF CommentsInv
<1>5. AgreeInv'
  BY AgreeGoesOn DEF CommentsInv
<1> QED
  BY <1>2, <1>4, <1>5 DEF CommentsInv

LEMMA MovesOn ==
  ASSUME CommentsInv, NEW k \in calls, NEW stage, Moves(k, stage)
  PROVE  /\ GoesOn(k, [k EXCEPT !.stage = stage])
         /\ [k EXCEPT !.stage = stage].stage = stage
         /\ [k EXCEPT !.stage = stage].want = k.want
         /\ [k EXCEPT !.stage = stage].about = k.about
<1>1. DOMAIN k = CallFields
  BY DEF CommentsInv, CallsInv, CallInv
<1> QED
  BY <1>1 DEF Moves, GoesOn, CallFields

LEMMA ReadSteps ==
  ASSUME CommentsInv, NEW k \in calls,
         ReactRead(k) \/ CreateCheck(k) \/ CreateParent(k) \/ LoseAnswer(k)
  PROVE  CommentsInv'
<1>1. UNCHANGED <<comments, stored, page>> /\ unsure \subseteq unsure'
  BY DEF ReactRead, CreateCheck, CreateParent, LoseAnswer
<1>2. ASSUME NEW stage, Moves(k, stage),
             k.kind = "react" =>
               (k.stage # "answered" /\ stage # "answered") \/ <<k.browser, k.about>> \in unsure',
             k.kind = "create" =>
               /\ stage = "inserting" /\ k.want # Nobody => k.want \in IdsOf(k.about)
               /\ stage # "answered"
      PROVE  CommentsInv'
  <2> DEFINE j == [k EXCEPT !.stage = stage]
  <2>1. GoesOn(k, j) /\ j.stage = stage /\ j.want = k.want /\ j.about = k.about
    BY <1>2, MovesOn
  <2> HIDE DEF j
  <2> QED
    BY <1>1, <1>2, <2>1, OnlyCall
<1>3. CASE ReactRead(k)
  BY <1>2, <1>3 DEF ReactRead
<1>4. CASE CreateCheck(k)
  BY <1>2, <1>4 DEF CreateCheck
<1>5. CASE CreateParent(k)
  BY <1>2, <1>5 DEF CreateParent, Parents
<1>6. CASE LoseAnswer(k)
  <2>1. k.kind = "react" => <<k.browser, k.about>> \in unsure'
    BY <1>6 DEF LoseAnswer
  <2> QED
    BY <1>2, <1>6, <2>1 DEF LoseAnswer
<1> QED
  BY <1>3, <1>4, <1>5, <1>6

(* A call is made. *)
LEMMA CallMade ==
  ASSUME CommentsInv, NEW new, calls' = calls \cup {new}, CallInv(new)', new.stage = "sent",
         UNCHANGED <<comments, stored>>, unsure \subseteq unsure', TabsInv',
         \A t \in Tabs : page[t].pending \subseteq page'[t].pending,
         new.kind = "react" =>
           \A k \in calls : k.kind = "react" /\ k.about = new.about =>
             /\ ~(k.tab = new.tab /\ k.tab # Nobody)
             /\ ~(k.browser = new.browser /\ <<k.browser, k.about>> \notin unsure')
  PROVE  CommentsInv'
<1>1. DocsInv' /\ StoredInv'
  BY DEF CommentsInv, DocsInv, InThread, IdsOf, StoredInv, Reactions
<1>2. CallsInv'
  <2>1. ASSUME NEW k \in calls PROVE CallInv(k)'
    <3>1. CallInv(k)
      BY DEF CommentsInv, CallsInv
    <3>2. Grown
      BY SameGrown
    <3>3. k.tab # Nobody => k.tab \in Tabs
      BY <3>1 DEF CallInv
    <3> QED
      BY <3>1, <3>2, <3>3, CallKept
  <2> QED
    BY <2>1 DEF CallsInv
<1>3. AloneInv'
  <2> SUFFICES ASSUME NEW i \in calls', NEW m \in calls', i.kind = "react", m.kind = "react",
                      i.about = m.about, i # m
               PROVE  Alone(i, m)'
    BY DEF AloneInv, Alone
  <2>1. CASE i \in calls /\ m \in calls
    BY <2>1 DEF CommentsInv, AloneInv, Alone
  <2>2. CASE i = new /\ m \in calls
    BY <2>2 DEF Alone
  <2>3. CASE i \in calls /\ m = new
    BY <2>3 DEF Alone
  <2> QED
    BY <2>1, <2>2, <2>3
<1>4. AgreeInv'
  <2> SUFFICES ASSUME NEW c \in DOMAIN comments, NEW b \in Browsers, <<b, c>> \notin unsure'
               PROVE  AgreeOn(b, c)'
    BY DEF AgreeInv, AgreeOn
  <2>1. AgreeOn(b, c) /\ <<b, c>> \notin unsure
    BY DEF CommentsInv, AgreeInv
  <2>2. /\ \A k \in Overlapping(b, c) : k \in Overlapping(b, c)'
        /\ \A k \in Overlapping(b, c)' : k \in Overlapping(b, c) \/ k.stage = "sent"
    BY DEF Overlapping
  <2> QED
    BY <2>1, <2>2 DEF AgreeOn
<1> QED
  BY <1>1, <1>2, <1>3, <1>4 DEF CommentsInv

LEMMA ToggledTyped ==
  ASSUME NEW r \in Reaction, NEW click \in {"up", "down", "eyes"} PROVE Toggled(r, click) \in Reaction
BY DEF Toggled, Reaction

LEMMA ReactStep ==
  ASSUME CommentsAssumption, CommentsInv, NEW t \in Tabs, NEW c \in CommentIds,
         NEW click \in {"up", "down", "eyes"}, React(t, c, click)
  PROVE  CommentsInv'
<1> DEFINE b == Browser[t]
           want == Toggled(page[t].mine[c], click)
<1>0. PICK new : new = [n |-> made, kind |-> "react", tab |-> t, browser |-> b,
                        about |-> c, want |-> want, tries |-> 0, stage |-> "sent"]
  OBVIOUS
<1>1. /\ c \in DOMAIN page[t].mine /\ c \notin page[t].pending /\ calls' = calls \cup {new}
      /\ page' = [page EXCEPT ![t].pending = @ \cup {c}]
      /\ unsure' = IF \E k \in Overlapping(b, c) : k.tab # t
                   THEN unsure \cup {<<b, c>>} ELSE unsure
      /\ UNCHANGED <<comments, listed, stored>>
  BY <1>0 DEF React, Clickable, Send
<1>2. /\ DOMAIN page = Tabs
      /\ \A s \in Tabs : DOMAIN page[s] = TabFields /\ Reactions(page[s].mine)
  BY DEF CommentsInv, TabsInv
<1>3. c \in DOMAIN comments /\ want \in Reaction /\ b \in Browsers
  BY <1>1, <1>2, ToggledTyped DEF Reactions, Browsers
<1>4. /\ DOMAIN page' = Tabs
      /\ DOMAIN page'[t] = TabFields /\ page'[t].mine = page[t].mine
      /\ page'[t].pending = page[t].pending \cup {c}
      /\ \A s \in Tabs : s # t => page'[s] = page[s]
  BY <1>1, <1>2 DEF TabFields
<1>5. TabsInv' /\ \A s \in Tabs : page[s].pending \subseteq page'[s].pending
  <2>1. \A s \in Tabs : /\ DOMAIN page'[s] = TabFields /\ Reactions(page'[s].mine)
                        /\ page[s].pending \subseteq page'[s].pending
    BY <1>2, <1>4
  <2> QED
    BY <1>1, <1>4, <2>1 DEF TabsInv, Reactions
<1>6. ASSUME NEW k \in calls, k.kind = "react", k.about = c
      PROVE  /\ ~(k.tab = t /\ k.tab # Nobody)
             /\ ~(k.browser = b /\ <<k.browser, k.about>> \notin unsure')
  <2>1. CallInv(k)
    BY DEF CommentsInv, CallsInv
  <2>2. k.tab # t
    BY <1>1, <1>6, <2>1 DEF CallInv, CommentsAssumption
  <2>3. k.browser = b => k \in Overlapping(b, c)
    BY <1>6 DEF Overlapping
  <2> QED
    BY <1>1, <1>6, <2>2, <2>3
<1>7. /\ DOMAIN new = CallFields /\ new.kind = "react" /\ new.tab = t /\ new.browser = b
      /\ new.about = c /\ new.want = want /\ new.stage = "sent"
  BY <1>0 DEF CallFields
<1> HIDE DEF want, b
<1>8. CallInv(new)'
  BY <1>1, <1>3, <1>4, <1>7 DEF CallInv, CommentsAssumption
<1>9. unsure \subseteq unsure'
  BY <1>1
<1> QED
  BY <1>1, <1>5, <1>6, <1>7, <1>8, <1>9, CallMade

LEMMA SubmitStep ==
  ASSUME CommentsAssumption, CommentsInv, NEW t \in Tabs, comment_submit(t) PROVE CommentsInv'
<1>0. PICK new : new = [n |-> made, kind |-> "create", tab |-> t, browser |-> Browser[t],
                        about |-> page[t].upload, want |-> page[t].reply_to, tries |-> 0,
                        stage |-> "sent"]
  OBVIOUS
<1>1. /\ calls' = calls \cup {new} /\ page' = [page EXCEPT ![t].submitting = TRUE]
      /\ UNCHANGED <<comments, stored, unsure>>
  BY <1>0 DEF comment_submit, Send
<1>2. /\ DOMAIN page = Tabs
      /\ \A s \in Tabs : DOMAIN page[s] = TabFields /\ Reactions(page[s].mine)
  BY DEF CommentsInv, TabsInv
<1>3. /\ DOMAIN page' = Tabs
      /\ \A s \in Tabs : /\ DOMAIN page'[s] = TabFields /\ page'[s].mine = page[s].mine
                         /\ page'[s].pending = page[s].pending
  BY <1>1, <1>2 DEF TabFields
<1>4. TabsInv'
  <2>1. \A s \in Tabs : Reactions(page'[s].mine)
    BY <1>2, <1>3
  <2> QED
    BY <1>1, <1>3, <2>1 DEF TabsInv, Reactions
<1>5. DOMAIN new = CallFields /\ new.kind = "create" /\ new.tab = t /\ new.stage = "sent"
  BY <1>0 DEF CallFields
<1>6. CallInv(new)'
  BY <1>5 DEF CallInv
<1>7. \A s \in Tabs : page[s].pending \subseteq page'[s].pending
  BY <1>3
<1> QED
  BY <1>1, <1>4, <1>5, <1>6, <1>7, CallMade

LEMMA CommentsLoadStep ==
  ASSUME CommentsAssumption, CommentsInv, NEW t \in Tabs, NEW u \in Uploads, Load(t, u)
  PROVE  CommentsInv'
<1> DEFINE b == Browser[t]
           mine == comments_from_source(u, b)
           cut == {k \in calls : k.tab = t}
           orphan(k) == [k EXCEPT !.tab = Nobody]
<1>1. /\ page' = [page EXCEPT ![t] = NewView(u, b)]
      /\ calls' = (calls \ cut) \cup {orphan(k) : k \in cut}
      /\ unsure' = unsure \cup {<<k.browser, k.about>> : k \in {k \in cut : k.kind = "react"}}
      /\ UNCHANGED <<comments, stored>>
  BY DEF Load
<1>2. DocsInv' /\ StoredInv'
  BY <1>1 DEF CommentsInv, DocsInv, InThread, IdsOf, StoredInv, Reactions
<1>3. Grown
  BY <1>1, SameGrown
<1>4. unsure \subseteq unsure' /\ \A k \in cut : k.kind = "react" => <<k.browser, k.about>> \in unsure'
  BY <1>1
<1>5. TabsInv'
  <2>1. b \in Browsers
    BY DEF Browsers
  <2>2. Reactions(mine)
    BY <2>1, SeededReactions DEF CommentsInv
  <2>3. DOMAIN NewView(u, b) = TabFields /\ NewView(u, b).mine = mine
    BY DEF NewView, TabFields
  <2>4. DOMAIN page = Tabs /\ \A s \in Tabs : DOMAIN page[s] = TabFields /\ Reactions(page[s].mine)
    BY DEF CommentsInv, TabsInv
  <2>5. /\ DOMAIN page' = Tabs /\ page'[t] = NewView(u, b)
        /\ \A s \in Tabs : s # t => page'[s] = page[s]
    BY <1>1, <2>4
  <2> HIDE DEF mine
  <2>6. \A s \in Tabs : DOMAIN page'[s] = TabFields /\ Reactions(page'[s].mine)
    BY <2>2, <2>3, <2>4, <2>5
  <2> QED
    BY <1>1, <2>5, <2>6 DEF TabsInv, Reactions
<1>6. \A s \in Tabs : s # t => page'[s].pending = page[s].pending
  BY <1>1 DEF CommentsInv, TabsInv
<1>7. ASSUME NEW k \in cut
      PROVE  /\ DOMAIN orphan(k) = CallFields /\ orphan(k).kind = k.kind
             /\ orphan(k).tab = Nobody /\ orphan(k).browser = k.browser
             /\ orphan(k).about = k.about /\ orphan(k).want = k.want
             /\ orphan(k).stage = k.stage
  <2>1. DOMAIN k = CallFields
    BY DEF CommentsInv, CallsInv, CallInv
  <2> QED
    BY <2>1 DEF CallFields
<1> HIDE DEF orphan, b, mine
<1>8. CallsInv'
  <2>1. ASSUME NEW k \in calls, k \notin cut PROVE CallInv(k)'
    <3>1. CallInv(k) /\ k.tab # t
      BY <2>1 DEF CommentsInv, CallsInv
    <3>2. k.tab # Nobody => k.tab \in Tabs
      BY <3>1 DEF CallInv
    <3> QED
      BY <1>3, <1>4, <1>6, <3>1, <3>2, CallKept
  <2>2. ASSUME NEW k \in cut PROVE CallInv(orphan(k))'
    <3>1. CallInv(k)
      BY DEF CommentsInv, CallsInv
    <3> DEFINE j == orphan(k)
    <3>2. /\ DOMAIN j = CallFields /\ j.kind = k.kind /\ j.tab = Nobody
          /\ j.browser = k.browser /\ j.about = k.about /\ j.want = k.want /\ j.stage = k.stage
      BY <1>7
    <3> HIDE DEF j
    <3>3. k.kind = "react" => <<j.browser, j.about>> \in unsure'
      BY <1>4, <3>2
    <3>4. CallInv(j)'
      BY <1>1, <3>1, <3>2, <3>3 DEF CallInv, IdsOf
    <3> QED
      BY <3>4 DEF j
  <2>3. \A k \in calls' : (k \in calls /\ k \notin cut) \/ \E m \in cut : k = orphan(m)
    BY <1>1
  <2> QED
    BY <2>1, <2>2, <2>3 DEF CallsInv
<1>9. \A k \in calls' : \/ k \in calls /\ k \notin cut
                        \/ k.tab = Nobody /\ (k.kind = "react" => <<k.browser, k.about>> \in unsure')
  <2>1. \A m \in cut : \/ orphan(m).kind # "react"
                       \/ <<orphan(m).browser, orphan(m).about>> \in unsure'
    BY <1>4, <1>7
  <2> QED
    BY <1>1, <1>7, <2>1
<1>10. AloneInv'
  <2> SUFFICES ASSUME NEW i \in calls', NEW m \in calls', i.kind = "react", m.kind = "react",
                      i.about = m.about
               PROVE  Alone(i, m)'
    BY DEF AloneInv
  <2>1. CASE i \in calls /\ m \in calls
    BY <1>4, <2>1 DEF CommentsInv, AloneInv, Alone
  <2>2. CASE i \notin calls \/ m \notin calls
    BY <1>9, <2>2 DEF Alone
  <2> QED
    BY <2>1, <2>2
<1>11. AgreeInv'
  <2> SUFFICES ASSUME NEW c \in DOMAIN comments, NEW x \in Browsers, <<x, c>> \notin unsure'
               PROVE  AgreeOn(x, c)'
    BY <1>1 DEF AgreeInv, AgreeOn
  <2>1. AgreeOn(x, c) /\ <<x, c>> \notin unsure
    BY <1>4 DEF CommentsInv, AgreeInv
  <2>2. \A k \in Overlapping(x, c) : k \in Overlapping(x, c)'
    <3> SUFFICES ASSUME NEW k \in Overlapping(x, c) PROVE k \in calls'
      BY DEF Overlapping
    <3>1. k \in calls /\ k \notin cut
      BY <1>4 DEF Overlapping
    <3> QED
      BY <1>1, <3>1
  <2>3. \A k \in Overlapping(x, c)' : k \in Overlapping(x, c)
    BY <1>9 DEF Overlapping
  <2> QED
    BY <1>1, <2>1, <2>2, <2>3 DEF AgreeOn
<1> QED
  BY <1>2, <1>5, <1>8, <1>10, <1>11 DEF CommentsInv

(* The server writes. *)
LEMMA WrittenStep ==
  ASSUME CommentsInv, NEW k \in calls, NEW j, GoesOn(k, j), k.kind = "react",
         k.stage = "updating",
         comments' = [comments EXCEPT ![k.about] =
                        buildReactionUpdatePipeline(@, k.browser, k.want)],
         UNCHANGED <<stored, page>>, unsure \subseteq unsure',
         j.stage = "answered" \/ <<k.browser, k.about>> \in unsure'
  PROVE  CommentsInv'
<1> DEFINE c == k.about
           b == k.browser
           doc == comments[c]
<1>1. c \in DOMAIN comments /\ b \in Browsers /\ k.want \in Reaction
  BY DEF CommentsInv, CallsInv, CallInv
<1>2. Counted(doc) /\ InThread(doc)
  BY <1>1 DEF CommentsInv, DocsInv
<1> PICK new : new = buildReactionUpdatePipeline(doc, b, k.want)
  OBVIOUS
<1>3. /\ DOMAIN comments' = DOMAIN comments /\ comments'[c] = new
      /\ \A x \in DOMAIN comments : x # c => comments'[x] = comments[x]
  BY <1>1
<1>4. /\ Counted(new) /\ new.upload = doc.upload /\ new.parent = doc.parent
      /\ new.reactions = Put(doc.reactions, b, k.want)
  BY <1>1, <1>2, PipelineCounts
<1>5. Grown
  BY <1>3, <1>4 DEF Grown
<1>6. DocsInv'
  <2> SUFFICES ASSUME NEW x \in DOMAIN comments
               PROVE  Counted(comments'[x]) /\ InThread(comments[x])'
    BY <1>3 DEF DocsInv
  <2>1. Counted(comments[x]) /\ InThread(comments[x])
    BY DEF CommentsInv, DocsInv
  <2>2. comments'[x].parent = comments[x].parent /\ comments'[x].upload = comments[x].upload
    BY <1>3, <1>4
  <2>3. Counted(comments'[x])
    BY <1>3, <1>4, <2>1
  <2>4. InThread(comments[x])'
    BY <1>5, <2>1, <2>2, IdsGrown DEF InThread
  <2> QED
    BY <2>3, <2>4
<1>7. StoredInv' /\ TabsInv'
  BY <1>3 DEF CommentsInv, StoredInv, TabsInv, Reactions
<1>8. CallsInv' /\ AloneInv'
  BY <1>5, CallGoesOn DEF CommentsInv
<1>9. AgreeInv'
  <2> SUFFICES ASSUME NEW x \in DOMAIN comments, NEW y \in Browsers, <<y, x>> \notin unsure'
               PROVE  AgreeOn(y, x)'
    BY <1>3 DEF AgreeInv, AgreeOn
  <2>1. AgreeOn(y, x) /\ <<y, x>> \notin unsure
    BY DEF CommentsInv, AgreeInv
  <2>2. CASE x = c /\ y = b
    <3>1. j \in Overlapping(b, c)' /\ j.stage = "answered" /\ j.want = k.want
      BY <2>2 DEF GoesOn, Overlapping
    <3>2. Get(comments'[c].reactions, b) = k.want
      BY <1>3, <1>4, PutGet
    <3> QED
      BY <2>2, <3>1, <3>2 DEF AgreeOn
  <2>3. CASE ~(x = c /\ y = b)
    <3>1. Get(comments'[x].reactions, y) = Get(comments[x].reactions, y)
      BY <1>3, <1>4, <2>3, PutGet
    <3>2. Overlapping(y, x)' = Overlapping(y, x)
      BY <2>3 DEF Overlapping, GoesOn
    <3> QED
      BY <2>1, <3>1, <3>2 DEF AgreeOn
  <2> QED
    BY <2>2, <2>3
<1> QED
  BY <1>6, <1>7, <1>8, <1>9 DEF CommentsInv

LEMMA ReactUpdateStep ==
  ASSUME CommentsInv, NEW k \in calls, ReactUpdate(k) PROVE CommentsInv'
<1> DEFINE write == comments' = [comments EXCEPT ![k.about] =
                      buildReactionUpdatePipeline(@, k.browser, k.want)]
           pair == <<k.browser, k.about>>
<1>1. /\ k.kind = "react" /\ k.stage = "updating" /\ UNCHANGED <<stored, page>>
      /\ \/ write /\ Moves(k, "answered") /\ UNCHANGED unsure
         \/ Moves(k, "failed") /\ write /\ unsure' = unsure \cup {pair}
         \/ Moves(k, "failed") /\ UNCHANGED <<comments, unsure>>
  BY DEF ReactUpdate
<1>2. CASE write /\ Moves(k, "answered") /\ UNCHANGED unsure
  <2> DEFINE j == [k EXCEPT !.stage = "answered"]
  <2>1. GoesOn(k, j) /\ j.stage = "answered"
    BY <1>2, MovesOn
  <2> HIDE DEF j
  <2> QED
    BY <1>1, <1>2, <2>1, WrittenStep
<1>3. CASE Moves(k, "failed") /\ write /\ unsure' = unsure \cup {pair}
  <2> DEFINE j == [k EXCEPT !.stage = "failed"]
  <2>1. GoesOn(k, j)
    BY <1>3, MovesOn
  <2>2. pair \in unsure' /\ unsure \subseteq unsure'
    BY <1>3
  <2> HIDE DEF j
  <2> QED
    BY <1>1, <1>3, <2>1, <2>2, WrittenStep
<1>4. CASE Moves(k, "failed") /\ UNCHANGED <<comments, unsure>>
  <2> DEFINE j == [k EXCEPT !.stage = "failed"]
  <2>1. GoesOn(k, j) /\ j.stage = "failed"
    BY <1>4, MovesOn
  <2> HIDE DEF j
  <2> QED
    BY <1>1, <1>4, <2>1, OnlyCall
<1> QED
  BY <1>1, <1>2, <1>3, <1>4

LEMMA InsertedStep ==
  ASSUME CommentsInv, NEW k \in calls, NEW j, GoesOn(k, j), k.kind = "create",
         k.stage = "inserting", NEW c, c \notin DOMAIN comments,
         comments' = Put(comments, c, [upload |-> k.about, parent |-> k.want,
                                       reactions |-> <<>>, stat |-> NoStat]),
         UNCHANGED <<stored, page, unsure>>,
         j.stage \in {"answered", "failed"}, j.stage = "answered" => j.want = c
  PROVE  CommentsInv'
<1> PICK new : new = [upload |-> k.about, parent |-> k.want, reactions |-> <<>>, stat |-> NoStat]
  OBVIOUS
<1>1. /\ DOMAIN comments' = DOMAIN comments \cup {c} /\ comments'[c] = new
      /\ \A x \in DOMAIN comments : comments'[x] = comments[x]
  BY DEF Put
<1>2. /\ DOMAIN new = CommentFields /\ new.upload = k.about /\ new.parent = k.want
      /\ new.reactions = <<>> /\ new.stat = NoStat
  BY DEF CommentFields
<1>3. Grown
  BY <1>1 DEF Grown
<1>4. Counted(new)
  <2> DEFINE of == new.reactions
  <2>1. DOMAIN of = {}
    BY <1>2
  <2>2. Voters(of, "up") = {} /\ Voters(of, "down") = {} /\ Watchers(of) = {}
    BY <2>1 DEF Voters, Watchers
  <2>3. Totals(of) = NoStat
    BY <2>2, FS_EmptySet DEF Totals, NoStat
  <2>4. IsFiniteSet(DOMAIN of)
    BY <2>1, FS_EmptySet
  <2> QED
    BY <1>2, <2>1, <2>3, <2>4 DEF Counted
<1>5. DocsInv'
  <2>1. ASSUME NEW x \in DOMAIN comments PROVE Counted(comments'[x]) /\ InThread(comments[x])'
    <3>1. Counted(comments[x]) /\ InThread(comments[x]) /\ comments'[x] = comments[x]
      BY <1>1 DEF CommentsInv, DocsInv
    <3> QED
      BY <1>3, <3>1, IdsGrown DEF InThread
  <2>2. InThread(new)'
    <3>1. k.want # Nobody => k.want \in IdsOf(k.about)
      BY DEF CommentsInv, CallsInv, CallInv
    <3>2. k.want # Nobody => k.want \in IdsOf(k.about)'
      BY <1>3, <3>1, IdsGrown
    <3> QED
      BY <1>2, <3>2 DEF InThread, IdsOf
  <2>3. Counted(comments'[c]) /\ InThread(comments[c])'
    BY <1>1, <1>4, <2>2 DEF InThread
  <2> QED
    BY <1>1, <2>1, <2>3 DEF DocsInv
<1>6. StoredInv' /\ TabsInv'
  BY <1>1 DEF CommentsInv, StoredInv, TabsInv, Reactions
<1>7. CallsInv' /\ AloneInv'
  <2>1. /\ j.stage = "inserting" /\ j.want # Nobody => j.want \in IdsOf(j.about)'
        /\ j.stage = "answered" => j.want \in DOMAIN comments'
    BY <1>1
  <2> QED
    BY <1>3, <2>1, CallGoesOn DEF CommentsInv
<1>8. AgreeInv'
  <2> SUFFICES ASSUME NEW x \in DOMAIN comments', NEW y \in Browsers PROVE AgreeOn(y, x)'
    BY DEF AgreeInv
  <2>1. Overlapping(y, x)' = Overlapping(y, x)
    BY DEF Overlapping, GoesOn
  <2>2. CASE x \in DOMAIN comments
    <3>1. AgreeOn(y, x)
      BY <2>2 DEF CommentsInv, AgreeInv
    <3> QED
      BY <1>1, <2>1, <2>2, <3>1 DEF AgreeOn
  <2>3. CASE x = c
    <3>1. c \notin DOMAIN stored[y]
      BY DEF CommentsInv, StoredInv, Reactions
    <3>2. DOMAIN new.reactions = {}
      BY <1>2
    <3>3. Get(stored[y], c) = defaultReaction /\ Get(new.reactions, y) = defaultReaction
      BY <3>1, <3>2 DEF Get
    <3>4. Overlapping(y, c) = {}
      BY DEF Overlapping, CommentsInv, CallsInv, CallInv
    <3> QED
      BY <1>1, <2>1, <2>3, <3>3, <3>4 DEF AgreeOn
  <2> QED
    BY <1>1, <2>2, <2>3
<1> QED
  BY <1>5, <1>6, <1>7, <1>8 DEF CommentsInv

LEMMA CreateInsertStep ==
  ASSUME CommentsInv, NEW k \in calls, NEW c \in CommentIds, CreateInsert(k, c) PROVE CommentsInv'
<1> DEFINE insert == comments' = Put(comments, c, [upload |-> k.about, parent |-> k.want,
                                                  reactions |-> <<>>, stat |-> NoStat])
<1>1. /\ k.kind = "create" /\ k.stage = "inserting" /\ UNCHANGED <<stored, page, unsure>>
      /\ \/ UNCHANGED comments /\ calls' = (calls \ {k}) \cup {[k EXCEPT !.tries = @ + 1]}
         \/ UNCHANGED comments /\ Moves(k, "failed")
         \/ /\ c \notin DOMAIN comments /\ insert
            /\ calls' = (calls \ {k}) \cup {[k EXCEPT !.stage = "answered", !.want = c]}
         \/ c \notin DOMAIN comments /\ insert /\ Moves(k, "failed")
  BY DEF CreateInsert
<1>2. DOMAIN k = CallFields /\ (k.want # Nobody => k.want \in IdsOf(k.about))
  BY <1>1 DEF CommentsInv, CallsInv, CallInv
<1>3. CASE UNCHANGED comments /\ calls' = (calls \ {k}) \cup {[k EXCEPT !.tries = @ + 1]}
  <2> DEFINE j == [k EXCEPT !.tries = @ + 1]
  <2>1. GoesOn(k, j) /\ j.want = k.want /\ j.about = k.about /\ j.stage = k.stage
    BY <1>1, <1>2, <1>3 DEF GoesOn, CallFields
  <2> HIDE DEF j
  <2> QED
    BY <1>1, <1>2, <1>3, <2>1, OnlyCall
<1>4. CASE UNCHANGED comments /\ Moves(k, "failed")
  <2> DEFINE j == [k EXCEPT !.stage = "failed"]
  <2>1. GoesOn(k, j) /\ j.stage = "failed"
    BY <1>4, MovesOn
  <2> HIDE DEF j
  <2> QED
    BY <1>1, <1>4, <2>1, OnlyCall
<1>5. CASE /\ c \notin DOMAIN comments /\ insert
           /\ calls' = (calls \ {k}) \cup {[k EXCEPT !.stage = "answered", !.want = c]}
  <2> DEFINE j == [k EXCEPT !.stage = "answered", !.want = c]
  <2>1. GoesOn(k, j) /\ j.want = c /\ j.stage = "answered"
    BY <1>1, <1>2, <1>5 DEF GoesOn, CallFields
  <2> HIDE DEF j
  <2> QED
    BY <1>1, <1>5, <2>1, InsertedStep
<1>6. CASE c \notin DOMAIN comments /\ insert /\ Moves(k, "failed")
  <2> DEFINE j == [k EXCEPT !.stage = "failed"]
  <2>1. GoesOn(k, j) /\ j.stage = "failed"
    BY <1>6, MovesOn
  <2> HIDE DEF j
  <2> QED
    BY <1>1, <1>6, <2>1, InsertedStep
<1> QED
  BY <1>1, <1>3, <1>4, <1>5, <1>6

(* An answer reaches its tab, or nobody. *)
LEMMA GoneStep == ASSUME CommentsInv, NEW k \in calls, Gone(k) PROVE CommentsInv'
<1>1. /\ k.tab = Nobody /\ calls' = calls \ {k}
      /\ UNCHANGED <<comments, stored, page, unsure>>
  BY DEF Gone
<1>2. k.kind = "react" => <<k.browser, k.about>> \in unsure
  BY <1>1 DEF CommentsInv, CallsInv, CallInv
<1>3. DocsInv' /\ StoredInv' /\ TabsInv'
  BY <1>1 DEF CommentsInv, DocsInv, InThread, IdsOf, StoredInv, TabsInv, Reactions
<1>4. CallsInv' /\ AloneInv'
  BY <1>1, CallEnds DEF CommentsInv
<1>5. AgreeInv'
  BY <1>1, <1>2, AgreeEnds DEF CommentsInv
<1> QED
  BY <1>3, <1>4, <1>5 DEF CommentsInv

LEMMA ViewAnswered ==
  ASSUME CommentsInv, NEW k \in calls, k.tab # Nobody, NEW shown, page' = [page EXCEPT ![k.tab] = shown],
         DOMAIN shown = TabFields, Reactions(shown.mine),
         \A c : /\ c \in page[k.tab].pending
                /\ ~(k.kind = "react" /\ k.about = c)
                => c \in shown.pending,
         calls' = calls \ {k}, UNCHANGED comments, unsure \subseteq unsure'
  PROVE  DocsInv' /\ TabsInv' /\ CallsInv' /\ AloneInv'
<1> DEFINE t == k.tab
<1>1. /\ DOMAIN page = Tabs /\ t \in Tabs
      /\ \A s \in Tabs : DOMAIN page[s] = TabFields /\ Reactions(page[s].mine)
  BY DEF CommentsInv, TabsInv, CallsInv, CallInv
<1>2. /\ DOMAIN page' = Tabs /\ page'[t] = shown
      /\ \A s \in Tabs : s # t => page'[s] = page[s]
  BY <1>1
<1>3. DocsInv'
  BY DEF CommentsInv, DocsInv, InThread, IdsOf
<1>4. TabsInv'
  <2>1. \A s \in Tabs : DOMAIN page'[s] = TabFields /\ Reactions(page'[s].mine)
    BY <1>1, <1>2
  <2> QED
    BY <1>2, <2>1 DEF TabsInv, Reactions
<1>5. CallsInv' /\ AloneInv'
  <2>1. \A s \in Tabs : \A c :
          /\ c \in page[s].pending
          /\ ~(k.kind = "react" /\ k.tab = s /\ k.about = c)
          => c \in page'[s].pending
    BY <1>2
  <2> QED
    BY <2>1, CallEnds DEF CommentsInv
<1> QED
  BY <1>3, <1>4, <1>5

LEMMA ReactAnswerStep == ASSUME CommentsInv, NEW k \in calls, ReactAnswer(k) PROVE CommentsInv'
<1> DEFINE t == k.tab  c == k.about  b == k.browser
           shown == IF c \in DOMAIN page[t].mine THEN [page[t].mine EXCEPT ![c] = k.want]
                    ELSE page[t].mine
<1>1. /\ k.kind = "react" /\ k.stage = "answered" /\ t # Nobody
      /\ page' = [page EXCEPT ![t] = Settled([@ EXCEPT !.mine = shown], c)]
      /\ \/ stored' = [stored EXCEPT ![b] = Put(@, c, k.want)] /\ UNCHANGED unsure
         \/ stored' = stored /\ unsure' = unsure \cup {<<b, c>>}
      /\ calls' = calls \ {k}
      /\ UNCHANGED <<comments, listed, made>>
  BY DEF ReactAnswer
<1>2. /\ t \in Tabs /\ c \in DOMAIN comments /\ k.want \in Reaction /\ b \in Browsers
      /\ DOMAIN page = Tabs /\ DOMAIN page[t] = TabFields /\ Reactions(page[t].mine)
      /\ DOMAIN stored = Browsers /\ \A x \in Browsers : Reactions(stored[x])
  BY <1>1 DEF CommentsInv, CallsInv, CallInv, TabsInv, StoredInv
<1>3. Reactions(shown)
  BY <1>2 DEF Reactions
<1> PICK seen : seen = Settled([page[t] EXCEPT !.mine = shown], c)
  OBVIOUS
<1>4. /\ page' = [page EXCEPT ![t] = seen]
      /\ DOMAIN seen = TabFields /\ seen.mine = shown /\ seen.pending = page[t].pending \ {c}
  BY <1>1, <1>2 DEF Settled, TabFields
<1> HIDE DEF shown
<1>5. DocsInv' /\ TabsInv' /\ CallsInv' /\ AloneInv'
  <2>1. \A x : /\ x \in page[t].pending
               /\ ~(k.kind = "react" /\ k.about = x)
               => x \in seen.pending
    BY <1>1, <1>4
  <2> QED
    BY <1>1, <1>3, <1>4, <2>1, ViewAnswered
<1>6. /\ DOMAIN stored' = Browsers
      /\ \/ stored'[b] = Put(stored[b], c, k.want)
         \/ stored'[b] = stored[b] /\ <<b, c>> \in unsure'
      /\ \A x \in Browsers : x # b => stored'[x] = stored[x]
  BY <1>1, <1>2
<1>7. StoredInv'
  <2>1. Reactions(Put(stored[b], c, k.want))
    BY <1>2, PutReactions
  <2>2. \A x \in Browsers : Reactions(stored'[x])
    BY <1>2, <1>6, <2>1
  <2> QED
    BY <1>1, <1>6, <2>2 DEF StoredInv, Reactions
<1>8. AgreeInv'
  <2>1. ASSUME NEW x \in Browsers, NEW y
        PROVE  <<x, y>> \notin unsure' =>
                 Get(stored'[x], y) =
                   IF k.kind = "react" /\ k.stage = "answered" /\ k.about = y /\ k.browser = x
                   THEN k.want ELSE Get(stored[x], y)
    BY <1>1, <1>6, PutGet
  <2> QED
    BY <1>1, <2>1, AgreeEnds DEF CommentsInv
<1> QED
  BY <1>5, <1>7, <1>8 DEF CommentsInv

LEMMA OtherAnswerStep ==
  ASSUME CommentsInv, NEW k \in calls, CreateAnswer(k) \/ Failure(k) PROVE CommentsInv'
<1> DEFINE t == k.tab
<1>1. /\ t # Nobody /\ calls' = calls \ {k} /\ UNCHANGED <<comments, stored, unsure>>
      /\ ~(k.kind = "react" /\ k.stage = "answered")
  BY DEF CreateAnswer, Failure
<1>2. /\ t \in Tabs /\ DOMAIN page = Tabs /\ DOMAIN page[t] = TabFields
      /\ Reactions(page[t].mine)
      /\ k.kind = "create" /\ k.stage = "answered" => k.want \in DOMAIN comments
  BY <1>1 DEF CommentsInv, CallsInv, CallInv, TabsInv
<1>3. PICK shown :
        /\ page' = [page EXCEPT ![t] = shown] /\ DOMAIN shown = TabFields
        /\ Reactions(shown.mine)
        /\ \/ shown.pending = page[t].pending
           \/ k.kind = "react" /\ shown.pending = page[t].pending \ {k.about}
  <2>1. CASE CreateAnswer(k)
    <3> DEFINE mine == Put(page[t].mine, k.want, defaultReaction)
               shown == [page[t] EXCEPT !.mine = mine, !.reply_to = Nobody, !.submitting = FALSE]
    <3>1. /\ page' = [page EXCEPT ![t].mine = Put(@, k.want, defaultReaction),
                                  ![t].reply_to = Nobody, ![t].submitting = FALSE]
          /\ k.want \in DOMAIN comments
      BY <1>2, <2>1 DEF CreateAnswer
    <3>2. Reactions(mine)
      <4>1. defaultReaction \in Reaction
        BY DEF defaultReaction, Reaction
      <4> QED
        BY <1>2, <3>1, <4>1, PutReactions
    <3>3. page' = [page EXCEPT ![t] = shown]
      BY <1>2, <3>1
    <3> HIDE DEF mine
    <3>4. DOMAIN shown = TabFields /\ shown.mine = mine /\ shown.pending = page[t].pending
      BY <1>2 DEF TabFields
    <3> HIDE DEF shown
    <3> QED
      BY <3>2, <3>3, <3>4
  <2>2. CASE Failure(k) /\ k.kind = "react"
    <3> DEFINE shown == Settled(page[t], k.about)
    <3>1. page' = [page EXCEPT ![t] = shown]
      BY <2>2 DEF Failure
    <3>2. /\ DOMAIN shown = TabFields /\ shown.mine = page[t].mine
          /\ shown.pending = page[t].pending \ {k.about}
      BY <1>2 DEF TabFields, Settled
    <3> HIDE DEF shown
    <3> QED
      BY <1>2, <2>2, <3>1, <3>2
  <2>3. CASE Failure(k) /\ k.kind # "react"
    <3> DEFINE shown == [page[t] EXCEPT !.submitting = FALSE]
    <3>1. page' = [page EXCEPT ![t] = shown]
      BY <2>3 DEF Failure
    <3>2. /\ DOMAIN shown = TabFields /\ shown.mine = page[t].mine
          /\ shown.pending = page[t].pending
      BY <1>2 DEF TabFields
    <3> HIDE DEF shown
    <3> QED
      BY <1>2, <3>1, <3>2
  <2> QED
    BY <2>1, <2>2, <2>3
<1>4. DocsInv' /\ TabsInv' /\ CallsInv' /\ AloneInv'
  <2>1. \A c : /\ c \in page[t].pending
               /\ ~(k.kind = "react" /\ k.about = c)
               => c \in shown.pending
    BY <1>3
  <2> QED
    BY <1>1, <1>3, <2>1, ViewAnswered
<1>5. StoredInv'
  BY <1>1 DEF CommentsInv, StoredInv, Reactions
<1>6. AgreeInv'
  BY <1>1, AgreeEnds DEF CommentsInv
<1> QED
  BY <1>4, <1>5, <1>6 DEF CommentsInv

LEMMA CommentsInvStep ==
  ASSUME CommentsAssumption, CommentsInv, [CNext]_cvars PROVE CommentsInv'
<1>1. CASE UNCHANGED cvars
  <2>1. UNCHANGED <<comments, stored, page, calls, unsure>>
    BY <1>1 DEF cvars
  <2>2. TabsInv' /\ \A t \in Tabs : page'[t].pending = page[t].pending
    BY <2>1 DEF CommentsInv, TabsInv, Reactions
  <2> QED
    BY <2>1, <2>2, OnlyPage
<1>2. ASSUME NEW t \in Tabs,
             \/ \E c \in CommentIds, click \in {"up", "down", "eyes"} : React(t, c, click)
             \/ \E c \in CommentIds : comment_reply(t, c)
             \/ comment_reply_cancel(t) \/ comment_submit(t)
             \/ \E u \in Uploads : Navigate(t, u) \/ Load(t, u)
      PROVE  CommentsInv'
  BY <1>2, ReactStep, PageSteps, SubmitStep, CommentsLoadStep
<1>3. ASSUME NEW k \in calls,
             \/ ReactRead(k) \/ ReactUpdate(k) \/ CreateCheck(k) \/ CreateParent(k)
             \/ \E c \in CommentIds : CreateInsert(k, c)
             \/ Gone(k) \/ LoseAnswer(k) \/ ReactAnswer(k) \/ CreateAnswer(k) \/ Failure(k)
      PROVE  CommentsInv'
  BY <1>3, ReadSteps, ReactUpdateStep, CreateInsertStep, GoneStep, ReactAnswerStep, OtherAnswerStep
<1> QED
  BY <1>1, <1>2, <1>3, UploadGoneStep DEF CNext

-----------------------------------------------------------------------------
(* The totals of every comment are the sum of the reactions kept of it,    *)
(* and a browser's storage is what the server keeps of that browser unless *)
(* its tabs overlapped or an answer was lost; a reply and the comment it   *)
(* replies to are of one upload (buildReactionUpdatePipeline,              *)
(* reaction_apply, comment_submit).                                        *)
THEOREM ReactionsAgreeHolds == PagesSpec => []ReactionsAgree
<1>1. CommentsInv => ReactionsAgree
  <2> SUFFICES ASSUME CommentsInv, NEW c \in DOMAIN comments
               PROVE  LET parent == comments[c].parent
                          of == comments[c].reactions
                      IN /\ comments[c].stat = [up |-> Cardinality(Voters(of, "up")),
                                                down |-> Cardinality(Voters(of, "down")),
                                                eyes |-> Cardinality(Watchers(of))]
                         /\ \A b \in Browsers :
                              Overlapping(b, c) = {} /\ <<b, c>> \notin unsure
                                => Get(stored[b], c) = Get(of, b)
                         /\ parent # Nobody =>
                              /\ parent \in DOMAIN comments
                              /\ comments[parent].upload = comments[c].upload
    BY DEF ReactionsAgree
  <2>1. Counted(comments[c]) /\ InThread(comments[c])
    BY DEF CommentsInv, DocsInv
  <2>2. \A b \in Browsers : AgreeOn(b, c)
    BY DEF CommentsInv, AgreeInv
  <2> QED
    BY <2>1, <2>2 DEF Counted, Totals, InThread, IdsOf, AgreeOn
<1>2. PagesInit => CommentsInv
  BY CommentsInvInit, PagesAssumption DEF PagesInit
<1>3. CommentsInv /\ [PagesNext]_pagesVars => CommentsInv'
  BY CommentsInvStep, OneOpen, PagesAssumption
<1> QED
  BY <1>1, <1>2, <1>3, PTL DEF PagesSpec

-----------------------------------------------------------------------------
(* The page of an upload. *)

UploadType ==
  [kind : {"album", "note", "link"}, public : BOOLEAN, exists : BOOLEAN, views : Nat]
LoadType == [id : Uploads, at : {"upload", "comments"}, views : Nat]
CountType == [visit : Nat, id : Uploads, stage : {"sent", "counted"}, ours : BOOLEAN]

PageTyped ==
  /\ upload \in [Uploads -> UploadType]
  /\ pageData \in [views : Nat, comments : BOOLEAN]
  /\ visit \in Nat /\ viewIncrement \in {0, 1}
  /\ pageLoading \subseteq LoadType
  /\ viewing \subseteq CountType

(* What was read of a public upload before its comments still holds.       *)
LoadTrue ==
  \A l \in pageLoading :
    l.at = "comments" => l.views <= upload[l.id].views /\ upload[l.id].public

(* A count belongs to a visit of its own, which may still count one.       *)
OneCount ==
  /\ viewTimer => screen \in Uploads /\ visit \in uncounted
  /\ \A k \in viewing : /\ k.visit <= visit
                        /\ viewTimer => k.visit # visit
                        /\ k.stage = "sent" => k.visit \in uncounted
  /\ \A j, k \in viewing : j.visit = k.visit => j = k

(* Views are never taken back, and the one that was counted for what the   *)
(* page shows came after the number it got.                                *)
OwnCount ==
  \A k \in viewing : k.ours /\ k.visit = visit =>
    /\ k.id = screen
    /\ k.stage = "counted" => pageData.views < upload[k.id].views

ScreenTrue ==
  screen \in Uploads =>
    /\ pageData.views <= upload[screen].views
    /\ pageData.views + viewIncrement <= upload[screen].views + (IF late THEN 1 ELSE 0)
    /\ pageData.comments = upload[screen].public

OnScreenPlays == albumPlaying \subseteq {albumIndex} \cap Videos

PageInv == PageTyped /\ LoadTrue /\ OneCount /\ OwnCount /\ ScreenTrue /\ OnScreenPlays

WhenPageOpen == component = "page" => PageInv

LEMMA PageInvInit == Page!PageInit => PageInv
<1> SUFFICES ASSUME Page!PageInit PROVE PageInv
  OBVIOUS
<1>1. upload \in [Uploads -> UploadType]
  <2>1. ASSUME NEW u \in [kind : {"album", "note", "link"}, public : BOOLEAN,
                            exists : {TRUE}, views : {0}]
        PROVE  u \in UploadType
    <3>1. u.exists \in {TRUE} /\ u.views \in {0}
      OBVIOUS
    <3>2. /\ u = [kind |-> u.kind, public |-> u.public, exists |-> u.exists, views |-> u.views]
          /\ u.kind \in {"album", "note", "link"} /\ u.public \in BOOLEAN
      OBVIOUS
    <3>3. u.exists \in BOOLEAN
      BY <3>1, Zenon
    <3>4. u.views \in Nat
      BY <3>1
    <3> QED
      BY <3>2, <3>3, <3>4 DEF UploadType
  <2> QED
    BY <2>1 DEF Page!PageInit
<1>2. /\ pageData = [views |-> 0, comments |-> FALSE] /\ screen = "closed"
      /\ pageLoading = {} /\ viewing = {} /\ visit = 0 /\ viewIncrement = 0 /\ ~viewTimer
      /\ albumPlaying = {}
  BY DEF Page!PageInit, Page!NoData
<1>3. PageTyped
  BY <1>1, <1>2 DEF PageTyped
<1>4. screen \notin Uploads
  BY <1>2, PagesAssumption DEF Page!PageAssumption
<1> QED
  BY <1>2, <1>3, <1>4 DEF PageInv, LoadTrue, OneCount, OwnCount, ScreenTrue, OnScreenPlays

(* An upload comes on the screen, and no count is of this visit yet.       *)
LEMMA ShownStep ==
  ASSUME PageInv, NEW id \in Uploads, NEW n \in Nat, NEW c \in BOOLEAN, Page!Shown(id, n, c),
         n <= upload[id].views, c = upload[id].public, UNCHANGED upload
  PROVE  PageInv'
<1>1. /\ pageLoading' = {} /\ screen' = id /\ pageData' = [views |-> n, comments |-> c]
      /\ visit' = visit + 1 /\ viewIncrement' = 0 /\ late' = FALSE
      /\ uncounted' = uncounted \cup {visit + 1} /\ albumPlaying' = {} /\ viewing' = viewing
  BY DEF Page!Shown
<1>2. upload[id].views \in Nat /\ visit \in Nat
  BY DEF PageInv, PageTyped, UploadType
<1>3. PageTyped'
  BY <1>1, <1>2 DEF PageInv, PageTyped
<1>4. \A k \in viewing : k.visit \in Nat /\ k.visit <= visit
  BY DEF PageInv, PageTyped, OneCount, CountType
<1>5. OneCount' /\ OwnCount'
  <2>1. \A k \in viewing : k.visit <= visit + 1 /\ k.visit # visit + 1
    BY <1>2, <1>4
  <2> QED
    BY <1>1, <2>1 DEF PageInv, OneCount, OwnCount
<1>6. LoadTrue' /\ ScreenTrue' /\ OnScreenPlays'
  BY <1>1, <1>2 DEF LoadTrue, ScreenTrue, OnScreenPlays
<1> QED
  BY <1>3, <1>5, <1>6 DEF PageInv

LEMMA EndedStep ==
  ASSUME PageInv, NEW how \in {"closed", "moved", "404", "500", "502"}, Page!Ended(how),
         UNCHANGED upload
  PROVE  PageInv'
<1>1. /\ pageLoading' = {} /\ screen' = how /\ pageData' = [views |-> 0, comments |-> FALSE]
      /\ viewTimer' = FALSE /\ viewIncrement' = 0 /\ albumPlaying' = {}
      /\ viewing' = {[k EXCEPT !.ours = FALSE] : k \in viewing}
      /\ visit' = visit /\ uncounted' = uncounted
  BY DEF Page!Ended, Page!NoData
<1>2. \A k \in viewing : /\ [k EXCEPT !.ours = FALSE] \in CountType
                         /\ [k EXCEPT !.ours = FALSE].visit = k.visit
                         /\ [k EXCEPT !.ours = FALSE].stage = k.stage
                         /\ ~[k EXCEPT !.ours = FALSE].ours
  BY DEF PageInv, PageTyped, CountType
<1>3. \A j \in viewing' : /\ j \in CountType /\ ~j.ours
                          /\ \E k \in viewing : /\ j = [k EXCEPT !.ours = FALSE]
                                                /\ j.visit = k.visit /\ j.stage = k.stage
  BY <1>1, <1>2
<1>4. PageTyped'
  BY <1>1, <1>3 DEF PageInv, PageTyped
<1>5. screen' \notin Uploads
  BY <1>1, PagesAssumption DEF Page!PageAssumption
<1>6. OneCount'
  <2>1. \A i, k \in viewing : i.visit = k.visit => i = k
    BY DEF PageInv, OneCount
  <2>2. ASSUME NEW i \in viewing', NEW j \in viewing', i.visit = j.visit PROVE i = j
    <3>1. PICK k \in viewing : i = [k EXCEPT !.ours = FALSE] /\ i.visit = k.visit
      BY <1>3
    <3>2. PICK m \in viewing : j = [m EXCEPT !.ours = FALSE] /\ j.visit = m.visit
      BY <1>3
    <3> QED
      BY <2>1, <2>2, <3>1, <3>2
  <2>3. \A k \in viewing : k.visit <= visit /\ (k.stage = "sent" => k.visit \in uncounted)
    BY DEF PageInv, OneCount
  <2>4. \A j \in viewing' : j.visit <= visit /\ (j.stage = "sent" => j.visit \in uncounted)
    BY <1>3, <2>3
  <2> QED
    BY <1>1, <2>2, <2>4 DEF OneCount
<1>7. OwnCount'
  BY <1>3 DEF OwnCount
<1>8. LoadTrue' /\ ScreenTrue' /\ OnScreenPlays'
  BY <1>1, <1>5 DEF LoadTrue, ScreenTrue, OnScreenPlays
<1> QED
  BY <1>4, <1>6, <1>7, <1>8 DEF PageInv

(* A step of a load that leaves the screen as it is.                       *)
LEMMA StillLoading ==
  ASSUME PageInv, UNCHANGED <<upload, screen, pageData, Page!count, Page!album>>,
         pageLoading' \subseteq LoadType,
         \A l \in pageLoading' :
           l.at = "comments" => l.views <= upload[l.id].views /\ upload[l.id].public
  PROVE  PageInv'
<1>1. UNCHANGED <<upload, screen, pageData, visit, viewTimer, viewIncrement, viewing,
                  late, uncounted, albumIndex, albumPlaying>>
  BY DEF Page!count, Page!album
<1>2. PageTyped' /\ LoadTrue'
  BY <1>1 DEF PageInv, PageTyped, LoadTrue
<1> QED
  BY <1>1, <1>2 DEF PageInv, OneCount, OwnCount, ScreenTrue, OnScreenPlays

LEMMA LoadStep ==
  ASSUME PageInv,
         \/ \E id \in Uploads : Page!Open(id)
         \/ \E l \in pageLoading : \/ Page!fetchUpload(l) \/ Page!fetchUploadComments(l)
                                   \/ Page!LoadFails(l)
         \/ Page!Leave
  PROVE  PageInv'
<1>1. ASSUME NEW id \in Uploads, Page!Open(id) PROVE PageInv'
  <2>1. \A l \in pageLoading' : l = [id |-> id, at |-> "upload", views |-> 0]
    BY <1>1 DEF Page!Open
  <2>2. [id |-> id, at |-> "upload", views |-> 0] \in LoadType
    BY DEF LoadType
  <2> QED
    BY <1>1, <2>1, <2>2, StillLoading DEF Page!Open
<1>2. ASSUME NEW l \in pageLoading, Page!fetchUpload(l) PROVE PageInv'
  <2>1. /\ l \in LoadType /\ l.id \in Uploads /\ upload[l.id] \in UploadType
        /\ upload[l.id].views \in Nat /\ upload[l.id].public \in BOOLEAN /\ UNCHANGED upload
    BY <1>2 DEF PageInv, PageTyped, LoadType, UploadType, Page!fetchUpload
  <2>2. \/ Page!Ended("404") \/ Page!Ended("moved")
        \/ /\ upload[l.id].public
           /\ pageLoading' = {[l EXCEPT !.at = "comments", !.views = upload[l.id].views]}
           /\ UNCHANGED <<screen, pageData, Page!count, Page!album>>
        \/ ~upload[l.id].public /\ Page!Shown(l.id, upload[l.id].views, FALSE)
    BY <1>2 DEF Page!fetchUpload
  <2>3. CASE /\ upload[l.id].public
             /\ pageLoading' = {[l EXCEPT !.at = "comments", !.views = upload[l.id].views]}
             /\ UNCHANGED <<screen, pageData, Page!count, Page!album>>
    <3> DEFINE m == [l EXCEPT !.at = "comments", !.views = upload[l.id].views]
    <3>1. m \in LoadType /\ m.id = l.id /\ m.views = upload[l.id].views
      BY <2>1 DEF LoadType
    <3>2. pageLoading' = {m} /\ m.views <= upload[m.id].views /\ upload[m.id].public
      BY <2>1, <2>3, <3>1
    <3> HIDE DEF m
    <3> QED
      BY <2>1, <2>3, <3>1, <3>2, StillLoading
  <2>4. CASE ~upload[l.id].public /\ Page!Shown(l.id, upload[l.id].views, FALSE)
    <3>1. FALSE = upload[l.id].public
      BY <2>1, <2>4
    <3>2. upload[l.id].views <= upload[l.id].views
      BY <2>1
    <3> QED
      BY <2>1, <2>4, <3>1, <3>2, ShownStep
  <2> QED
    BY <2>1, <2>2, <2>3, <2>4, EndedStep
<1>3. ASSUME NEW l \in pageLoading, Page!fetchUploadComments(l) PROVE PageInv'
  <2>1. /\ l.id \in Uploads /\ l.views \in Nat /\ UNCHANGED upload
        /\ l.views <= upload[l.id].views /\ upload[l.id].public
    BY <1>3 DEF PageInv, PageTyped, LoadType, LoadTrue, Page!fetchUploadComments
  <2>2. upload[l.id].public = TRUE
    BY <2>1 DEF PageInv, PageTyped, UploadType
  <2>3. Page!Shown(l.id, l.views, TRUE) \/ Page!Ended("502")
    BY <1>3 DEF Page!fetchUploadComments
  <2> QED
    BY <2>1, <2>2, <2>3, ShownStep, EndedStep
<1>4. ASSUME NEW l \in pageLoading, Page!LoadFails(l) PROVE PageInv'
  BY <1>4, EndedStep DEF Page!LoadFails
<1>5. CASE Page!Leave
  BY <1>5, EndedStep DEF Page!Leave
<1> QED
  BY <1>1, <1>2, <1>3, <1>4, <1>5

(* Views of the uploads are counted, and one may be deleted.               *)
LEMMA UploadsGrow ==
  ASSUME PageInv, NEW id \in Uploads, NEW u \in UploadType, upload' = [upload EXCEPT ![id] = u],
         u.views >= upload[id].views, u.public = upload[id].public,
         UNCHANGED <<pageLoading, screen, pageData, Page!album>>
  PROVE  /\ upload' \in [Uploads -> UploadType]
         /\ LoadTrue'
         /\ \A i \in Uploads : /\ upload[i].views \in Nat /\ upload'[i].views \in Nat
                               /\ upload'[i].views >= upload[i].views
                               /\ upload'[i].public = upload[i].public
         /\ OnScreenPlays'
<1>1. /\ upload' \in [Uploads -> UploadType] /\ upload'[id] = u
      /\ \A i \in Uploads : i # id => upload'[i] = upload[i]
  BY DEF PageInv, PageTyped
<1>2. \A i \in Uploads : /\ upload[i].views \in Nat /\ upload'[i].views \in Nat
                         /\ upload'[i].views >= upload[i].views
                         /\ upload'[i].public = upload[i].public
  <2>1. \A i \in Uploads : upload[i].views \in Nat /\ upload'[i].views \in Nat
    BY <1>1 DEF PageInv, PageTyped, UploadType
  <2> QED
    BY <1>1, <2>1
<1>3. LoadTrue'
  <2> SUFFICES ASSUME NEW l \in pageLoading, l.at = "comments"
               PROVE  l.views <= upload'[l.id].views /\ upload'[l.id].public
    BY DEF LoadTrue
  <2>1. /\ l.id \in Uploads /\ l.views \in Nat
        /\ l.views <= upload[l.id].views /\ upload[l.id].public
    BY DEF PageInv, PageTyped, LoadType, LoadTrue
  <2> QED
    BY <1>2, <2>1
<1>4. OnScreenPlays'
  BY DEF PageInv, OnScreenPlays, Page!album
<1> QED
  BY <1>1, <1>2, <1>3, <1>4

LEMMA SentStep == ASSUME PageInv, Page!markUploadViewed PROVE PageInv'
<1> PICK new : new = [visit |-> visit, id |-> screen, stage |-> "sent", ours |-> TRUE]
  OBVIOUS
<1>1. /\ viewTimer /\ viewTimer' = FALSE /\ viewing' = viewing \cup {new}
      /\ UNCHANGED <<upload, pageLoading, screen, pageData, visit, viewIncrement, late,
                     uncounted, albumIndex, albumPlaying>>
  BY DEF Page!markUploadViewed, Page!album
<1>2. /\ screen \in Uploads /\ visit \in Nat /\ visit \in uncounted
      /\ \A k \in viewing : k.visit # visit
  BY <1>1 DEF PageInv, PageTyped, OneCount
<1>3. new \in CountType /\ new.visit = visit /\ new.id = screen /\ new.stage = "sent"
  BY <1>2 DEF CountType
<1>4. PageTyped'
  BY <1>1, <1>3 DEF PageInv, PageTyped
<1>5. OneCount'
  <2>1. \A j, k \in viewing : j.visit = k.visit => j = k
    BY DEF PageInv, OneCount
  <2>2. ASSUME NEW j \in viewing', NEW k \in viewing', j.visit = k.visit PROVE j = k
    <3>1. (j \in viewing \/ j = new) /\ (k \in viewing \/ k = new)
      BY <1>1
    <3> QED
      BY <1>2, <1>3, <2>1, <2>2, <3>1
  <2>3. \A k \in viewing' : k.visit <= visit /\ (k.stage = "sent" => k.visit \in uncounted)
    BY <1>1, <1>2, <1>3 DEF PageInv, OneCount
  <2> QED
    BY <1>1, <2>2, <2>3 DEF OneCount
<1>6. OwnCount'
  BY <1>1, <1>2, <1>3 DEF OwnCount
<1> QED
  BY <1>1, <1>4, <1>5, <1>6 DEF PageInv, LoadTrue, ScreenTrue, OnScreenPlays

LEMMA CountedStep == ASSUME PageInv, NEW k \in viewing, Page!Counted(k) PROVE PageInv'
<1> PICK new : new = [k EXCEPT !.stage = "counted"]
  OBVIOUS
<1>1. /\ k.stage = "sent" /\ viewing' = (viewing \ {k}) \cup {new}
      /\ upload' = [upload EXCEPT ![k.id].views = @ + 1] /\ uncounted' = uncounted \ {k.visit}
      /\ UNCHANGED <<pageLoading, screen, pageData, visit, viewTimer, viewIncrement, late,
                     Page!album>>
  BY DEF Page!Counted
<1>2. k \in CountType /\ k.id \in Uploads /\ upload[k.id] \in UploadType
  BY DEF PageInv, PageTyped, CountType
<1>3. /\ new \in CountType /\ new.visit = k.visit /\ new.id = k.id /\ new.ours = k.ours
      /\ new.stage = "counted"
  BY <1>2 DEF CountType
<1> DEFINE u == [upload[k.id] EXCEPT !.views = @ + 1]
<1>4. /\ u \in UploadType /\ u.views = upload[k.id].views + 1
      /\ u.public = upload[k.id].public
  BY <1>2 DEF UploadType
<1>5. upload' = [upload EXCEPT ![k.id] = u] /\ upload[k.id].views \in Nat
  BY <1>1, <1>2, <1>4 DEF UploadType
<1> HIDE DEF u
<1>6. u.views >= upload[k.id].views
  BY <1>4, <1>5
<1>7. /\ upload' \in [Uploads -> UploadType] /\ LoadTrue' /\ OnScreenPlays'
      /\ \A i \in Uploads : /\ upload[i].views \in Nat /\ upload'[i].views \in Nat
                            /\ upload'[i].views >= upload[i].views
                            /\ upload'[i].public = upload[i].public
  BY <1>1, <1>2, <1>4, <1>5, <1>6, UploadsGrow
<1>8. PageTyped'
  BY <1>1, <1>3, <1>7 DEF PageInv, PageTyped
<1>9. OneCount'
  <2>1. \A j \in viewing : j # k => j.visit # k.visit
    BY DEF PageInv, OneCount
  <2>2. \A i, j \in viewing : i.visit = j.visit => i = j
    BY DEF PageInv, OneCount
  <2>3. ASSUME NEW i \in viewing', NEW j \in viewing', i.visit = j.visit PROVE i = j
    <3>1. (i \in viewing \ {k} \/ i = new) /\ (j \in viewing \ {k} \/ j = new)
      BY <1>1
    <3> QED
      BY <1>3, <2>1, <2>2, <2>3, <3>1
  <2>4. \A j \in viewing : /\ j.visit <= visit /\ (viewTimer => j.visit # visit)
                           /\ j.stage = "sent" => j.visit \in uncounted
    BY DEF PageInv, OneCount
  <2>5. \A j \in viewing' : /\ j.visit <= visit /\ (viewTimer => j.visit # visit)
                            /\ j.stage = "sent" => j.visit \in uncounted'
    BY <1>1, <1>3, <2>1, <2>4
  <2>6. viewTimer => screen \in Uploads /\ visit \in uncounted'
    BY <1>1, <2>4 DEF PageInv, OneCount
  <2>7. viewTimer' = viewTimer /\ screen' = screen /\ visit' = visit
    BY <1>1
  <2>8. viewTimer' => screen' \in Uploads /\ visit' \in uncounted'
    BY <2>6, <2>7
  <2>9. \A j \in viewing' : /\ j.visit <= visit'
                            /\ viewTimer' => j.visit # visit'
                            /\ j.stage = "sent" => j.visit \in uncounted'
    BY <2>5, <2>7
  <2> QED
    BY <2>3, <2>8, <2>9 DEF OneCount
<1>10. ASSUME screen \in Uploads
       PROVE  /\ pageData.views \in Nat /\ pageData.views <= upload[screen].views
              /\ upload[screen].views <= upload'[screen].views
  BY <1>7, <1>10 DEF PageInv, PageTyped, ScreenTrue
<1>11. OwnCount'
  <2> SUFFICES ASSUME NEW j \in viewing', j.ours, j.visit = visit
               PROVE  j.id = screen /\ (j.stage = "counted" => pageData.views < upload'[j.id].views)
    BY <1>1 DEF OwnCount
  <2>1. CASE j = new
    <3>1. k.id = screen /\ upload'[k.id].views = upload[k.id].views + 1
      BY <1>2, <1>3, <1>4, <1>5, <2>1 DEF PageInv, PageTyped, OwnCount
    <3> QED
      BY <1>2, <1>3, <1>7, <1>10, <2>1, <3>1
  <2>2. CASE j \in viewing
    <3>1. j.id = screen /\ j.id \in Uploads
          /\ (j.stage = "counted" => pageData.views < upload[j.id].views)
      BY <2>2 DEF PageInv, PageTyped, CountType, OwnCount
    <3> QED
      BY <1>7, <1>10, <3>1
  <2> QED
    BY <1>1, <2>1, <2>2
<1>12. ScreenTrue'
  <2> SUFFICES ASSUME screen \in Uploads
               PROVE  /\ pageData.views <= upload'[screen].views
                      /\ pageData.views + viewIncrement
                           <= upload'[screen].views + (IF late THEN 1 ELSE 0)
                      /\ pageData.comments = upload'[screen].public
    BY <1>1 DEF ScreenTrue
  <2>1. viewIncrement \in {0, 1}
    BY DEF PageInv, PageTyped
  <2>2. /\ pageData.views + viewIncrement <= upload[screen].views + (IF late THEN 1 ELSE 0)
        /\ pageData.comments = upload[screen].public
    BY DEF PageInv, ScreenTrue
  <2> QED
    BY <1>7, <1>10, <2>1, <2>2
<1> QED
  BY <1>7, <1>8, <1>9, <1>11, <1>12 DEF PageInv

(* An upload changes that nothing is being counted of. *)
LEMMA OthersStep ==
  ASSUME PageInv, NEW id \in Uploads, Page!OtherViews(id) \/ Page!Deleted(id) PROVE PageInv'
<1>1. /\ UNCHANGED <<pageLoading, screen, pageData, visit, viewTimer, viewIncrement, viewing,
                     late, uncounted, Page!album>>
      /\ \/ upload' = [upload EXCEPT ![id].views = @ + 1]
         \/ upload' = [upload EXCEPT ![id].exists = FALSE]
  BY DEF Page!OtherViews, Page!Deleted, Page!count
<1>2. upload \in [Uploads -> UploadType] /\ upload[id] \in UploadType /\ upload[id].views \in Nat
  BY DEF PageInv, PageTyped, UploadType
<1>3. PICK u \in UploadType : /\ upload' = [upload EXCEPT ![id] = u]
                              /\ u.views >= upload[id].views /\ u.public = upload[id].public
  <2> DEFINE seen == [upload[id] EXCEPT !.views = @ + 1]
  <2> DEFINE gone == [upload[id] EXCEPT !.exists = FALSE]
  <2>1. /\ seen \in UploadType /\ seen.public = upload[id].public
        /\ seen.views >= upload[id].views
    <3>1. seen \in UploadType /\ seen.views = upload[id].views + 1
          /\ seen.public = upload[id].public
      BY <1>2 DEF UploadType
    <3> HIDE DEF seen
    <3> QED
      BY <1>2, <3>1
  <2>2. /\ gone \in UploadType /\ gone.public = upload[id].public
        /\ gone.views >= upload[id].views
    <3>1. gone \in UploadType /\ gone.views = upload[id].views
          /\ gone.public = upload[id].public
      BY <1>2 DEF UploadType
    <3> HIDE DEF gone
    <3> QED
      BY <1>2, <3>1
  <2>3. CASE upload' = [upload EXCEPT ![id].views = @ + 1]
    <3>1. upload' = [upload EXCEPT ![id] = seen]
      BY <2>3
    <3> HIDE DEF seen
    <3> QED
      BY <1>2, <2>1, <3>1
  <2>4. CASE upload' = [upload EXCEPT ![id].exists = FALSE]
    <3>1. upload' = [upload EXCEPT ![id] = gone]
      BY <2>4
    <3> HIDE DEF gone
    <3> QED
      BY <1>2, <2>2, <3>1
  <2> QED
    BY <1>1, <2>3, <2>4
<1>4. /\ upload' \in [Uploads -> UploadType] /\ LoadTrue' /\ OnScreenPlays'
      /\ \A i \in Uploads : /\ upload[i].views \in Nat /\ upload'[i].views \in Nat
                            /\ upload'[i].views >= upload[i].views
                            /\ upload'[i].public = upload[i].public
  BY <1>1, <1>3, UploadsGrow
<1>5. PageTyped' /\ OneCount'
  BY <1>1, <1>4 DEF PageInv, PageTyped, OneCount
<1>6. pageData.views \in Nat /\ viewIncrement \in {0, 1}
  BY DEF PageInv, PageTyped
<1>7. OwnCount'
  <2> SUFFICES ASSUME NEW k \in viewing, k.ours, k.visit = visit
               PROVE  k.id = screen /\ (k.stage = "counted" => pageData.views < upload'[k.id].views)
    BY <1>1 DEF OwnCount
  <2>1. k.id = screen /\ k.id \in Uploads
        /\ (k.stage = "counted" => pageData.views < upload[k.id].views)
    BY DEF PageInv, PageTyped, CountType, OwnCount
  <2> QED
    BY <1>4, <1>6, <2>1
<1>8. ScreenTrue'
  <2> SUFFICES ASSUME screen \in Uploads
               PROVE  /\ pageData.views <= upload'[screen].views
                      /\ pageData.views + viewIncrement
                           <= upload'[screen].views + (IF late THEN 1 ELSE 0)
                      /\ pageData.comments = upload'[screen].public
    BY <1>1 DEF ScreenTrue
  <2>1. /\ pageData.views <= upload[screen].views
        /\ pageData.views + viewIncrement <= upload[screen].views + (IF late THEN 1 ELSE 0)
        /\ pageData.comments = upload[screen].public
    BY DEF PageInv, ScreenTrue
  <2> QED
    BY <1>4, <1>6, <2>1
<1> QED
  BY <1>4, <1>5, <1>7, <1>8 DEF PageInv

LEMMA AnsweredStep ==
  ASSUME PageInv, NEW k \in viewing, Page!Answered(k) \/ Page!ViewFails(k) PROVE PageInv'
<1>1. /\ viewing' = viewing \ {k}
      /\ UNCHANGED <<upload, pageLoading, screen, pageData, visit, viewTimer, uncounted,
                     albumIndex, albumPlaying>>
      /\ \/ UNCHANGED <<viewIncrement, late>>
         \/ /\ k.stage = "counted" /\ k.ours /\ k.id = screen /\ viewIncrement' = 1
            /\ late' = (k.id = screen /\ k.visit # visit /\ (viewIncrement = 0 \/ late))
  BY DEF Page!Answered, Page!ViewFails, Page!Concerns, Page!album
<1>2. PageTyped'
  BY <1>1 DEF PageInv, PageTyped
<1>3. OneCount' /\ OwnCount'
  BY <1>1 DEF PageInv, OneCount, OwnCount
<1>4. ScreenTrue'
  <2> SUFFICES ASSUME screen \in Uploads
               PROVE  pageData.views + viewIncrement'
                        <= upload[screen].views + (IF late' THEN 1 ELSE 0)
    BY <1>1 DEF PageInv, ScreenTrue
  <2>1. /\ pageData.views \in Nat /\ upload[screen].views \in Nat /\ viewIncrement \in {0, 1}
        /\ pageData.views <= upload[screen].views
        /\ pageData.views + viewIncrement <= upload[screen].views + (IF late THEN 1 ELSE 0)
    BY DEF PageInv, PageTyped, UploadType, ScreenTrue
  <2>2. CASE UNCHANGED <<viewIncrement, late>>
    BY <2>1, <2>2
  <2>3. CASE /\ k.stage = "counted" /\ k.ours /\ k.id = screen /\ viewIncrement' = 1
             /\ late' = (k.id = screen /\ k.visit # visit /\ (viewIncrement = 0 \/ late))
    <3>1. CASE k.visit = visit
      <4>1. pageData.views < upload[screen].views
        BY <2>3, <3>1 DEF PageInv, OwnCount
      <4> QED
        BY <2>1, <2>3, <4>1
    <3>2. CASE k.visit # visit /\ (viewIncrement = 0 \/ late)
      <4>1. late' = TRUE
        BY <2>3, <3>2
      <4> QED
        BY <2>1, <2>3, <4>1
    <3>3. CASE viewIncrement = 1 /\ ~late
      BY <2>1, <2>3, <3>3
    <3> QED
      BY <2>1, <3>1, <3>2, <3>3
  <2> QED
    BY <1>1, <2>2, <2>3
<1> QED
  BY <1>1, <1>2, <1>3, <1>4 DEF PageInv, LoadTrue, OnScreenPlays

(* What a step of the album keeps. *)
LEMMA AlbumStep ==
  ASSUME PageInv, UNCHANGED <<upload, pageLoading, screen, pageData, Page!count>>, OnScreenPlays'
  PROVE  PageInv'
<1>1. UNCHANGED <<upload, pageLoading, screen, pageData, visit, viewTimer, viewIncrement,
                  viewing, late, uncounted>>
  BY DEF Page!count
<1> QED
  BY <1>1 DEF PageInv, PageTyped, LoadTrue, OneCount, OwnCount, ScreenTrue

LEMMA PageInvStep == PageInv /\ [Page!PageNext]_Page!pagevars => PageInv'
<1> SUFFICES ASSUME PageInv, [Page!PageNext]_Page!pagevars PROVE PageInv'
  OBVIOUS
<1>1. ASSUME NEW index, Page!syncSelection(index) PROVE PageInv'
  <2>1. OnScreenPlays'
    BY <1>1 DEF Page!syncSelection, PageInv, OnScreenPlays
  <2> QED
    BY <1>1, <2>1, AlbumStep DEF Page!syncSelection
<1>2. CASE Page!PlayOrPause
  <2>1. OnScreenPlays'
    BY <1>2 DEF Page!PlayOrPause, PageInv, OnScreenPlays
  <2> QED
    BY <1>2, <2>1, AlbumStep DEF Page!PlayOrPause
<1>3. CASE UNCHANGED Page!pagevars
  BY <1>3, AlbumStep DEF Page!pagevars, Page!count, PageInv, OnScreenPlays
<1> QED
  BY <1>1, <1>2, <1>3, LoadStep, SentStep, CountedStep, AnsweredStep, OthersStep
     DEF Page!PageNext, Page!showFile, Page!showNext, Page!showPrevious

(* Wherever the visitor goes, and whatever is deleted, viewed or lost      *)
(* between the reads of an upload and of its comments and the count of the *)
(* view: the page shows no view that was not counted but the one more that *)
(* an answer to an earlier visit to the same upload may add, a visit       *)
(* counts one view at most, a page has comments if its upload is public,   *)
(* and plays the file on screen or none (load, the effect of the view,     *)
(* markUploadViewed, syncSelection).                                       *)
THEOREM PageTrueHolds == PagesSpec => []PageTrue
<1>1. WhenPageOpen => PageTrue
  BY DEF WhenPageOpen, PageTrue, PageInv, OneCount, ScreenTrue, OnScreenPlays, Page!PageTrue
<1>2. PagesInit => WhenPageOpen
  BY PageInvInit DEF PagesInit, WhenPageOpen
<1>3. WhenPageOpen /\ [PagesNext]_pagesVars => WhenPageOpen'
  BY PageInvStep, OneOpen DEF WhenPageOpen
<1> QED
  BY <1>1, <1>2, <1>3, PTL DEF PagesSpec

-----------------------------------------------------------------------------
(* The card of an album. *)

(* A slide that was chosen is on screen, and no timer is going to leave it. *)
ChosenStays ==
  /\ chosen # Card!NoSlide => slide = chosen /\ persistentSelection
  /\ persistentSelection => ~returnTimer

(* The card counts the slide the carousel shows, and plays no other, until *)
(* new data comes over another slide than the first.                       *)
SlideTold ==
  /\ displaced => slide # 1
  /\ ~displaced => selectedIndex = slide /\ playing \subseteq {slide}

OnePlays == playing # {} => cardHovered /\ \E v \in Videos : playing = {v}

ShownInTime ==
  /\ cardData => ready \/ expired \/ waiting
  /\ ready => media # "loading"

CardInv == ChosenStays /\ SlideTold /\ OnePlays /\ ShownInTime

(* The cardinality of the instance is that of the library's theorems. *)
LEMMA SameCardinality == ASSUME NEW S PROVE Card!Cardinality(S) = Cardinality(S)
BY DEF Card!Cardinality, Cardinality, Card!IsFiniteSet, IsFiniteSet

LEMMA PlayedOne ==
  ASSUME NEW hovered, NEW selected
  PROVE  /\ Card!Played(hovered, selected) \subseteq {selected}
         /\ Card!Played(hovered, selected) # {} =>
              hovered /\ \E v \in Videos : Card!Played(hovered, selected) = {v}
BY DEF Card!Played

(* The carousel is told to go somewhere: it is there, or not there yet. *)
LEMMA ShowMediaMoves ==
  ASSUME SlideTold, OnePlays, NEW index, Card!showMedia(index), UNCHANGED cardHovered
  PROVE  SlideTold' /\ OnePlays' /\ (carouselApi => slide' = index)
<1>1. CASE carouselApi /\ index # slide
  <2>1. /\ slide' = index /\ selectedIndex' = index /\ displaced' = FALSE
        /\ playing' = Card!Played(cardHovered, index)
    BY <1>1 DEF Card!showMedia
  <2>2. SlideTold'
    BY <2>1, PlayedOne DEF SlideTold
  <2>3. OnePlays'
    BY <2>1, PlayedOne DEF OnePlays
  <2> QED
    BY <2>1, <2>2, <2>3
<1>2. CASE ~(carouselApi /\ index # slide)
  BY <1>2 DEF Card!showMedia, Card!selection, SlideTold, OnePlays
<1> QED
  BY <1>1, <1>2

WhenCardOpen == component = "card" => CardInv

LEMMA CardInvInit == Card!CardInit => CardInv
BY DEF Card!CardInit, CardInv, ChosenStays, SlideTold, OnePlays, ShownInTime, Card!NoSlide

(* Data and the first file. *)
LEMMA FirstFileStep ==
  ASSUME CardInv,
         \/ Card!NewData \/ Card!CarouselInit \/ Card!FirstMediaLoads \/ Card!FirstFrame
         \/ Card!WaitExpires
  PROVE  CardInv'
<1> USE DEF CardInv
<1>1. CASE Card!NewData
  <2>1. ChosenStays' /\ ShownInTime'
    BY <1>1 DEF Card!NewData, ChosenStays, ShownInTime, Card!NoSlide
  <2>2. UNCHANGED <<slide, playing, cardHovered>>
    BY <1>1 DEF Card!NewData, Card!pointer
  <2>3. selectedIndex' = 1 /\ displaced' = (slide # 1)
    BY <1>1 DEF Card!NewData
  <2>4. SlideTold'
    BY <2>2, <2>3 DEF SlideTold
  <2> QED
    BY <2>1, <2>2, <2>4 DEF OnePlays
<1>2. CASE Card!CarouselInit
  <2>1. ChosenStays' /\ ShownInTime'
    BY <1>2 DEF Card!CarouselInit, ChosenStays, ShownInTime, Card!firstMedia
  <2>2. /\ UNCHANGED <<slide, displaced, cardHovered>>
        /\ selectedIndex' = slide /\ playing' = Card!Played(cardHovered, slide)
    BY <1>2 DEF Card!CarouselInit, Card!pointer
  <2>3. SlideTold' /\ OnePlays'
    BY <2>2, PlayedOne DEF SlideTold, OnePlays
  <2> QED
    BY <2>1, <2>3
<1>3. CASE Card!FirstMediaLoads \/ Card!FirstFrame \/ Card!WaitExpires
  <2>1. UNCHANGED <<cardData, Card!selection, Card!pointer, persistentSelection, returnTimer, chosen>>
    BY <1>3 DEF Card!FirstMediaLoads, Card!FirstFrame, Card!WaitExpires
  <2>2. ChosenStays' /\ SlideTold' /\ OnePlays'
    BY <2>1 DEF ChosenStays, SlideTold, OnePlays, Card!selection, Card!pointer
  <2>3. ShownInTime'
    BY <1>3 DEF Card!FirstMediaLoads, Card!FirstFrame, Card!WaitExpires, ShownInTime
  <2> QED
    BY <2>2, <2>3
<1> QED
  BY <1>1, <1>2, <1>3

(* Pointing at a slide, keeping it, and what the timer brings back. *)
LEMMA ChoiceStep ==
  ASSUME CardInv, NEW index, UNCHANGED <<cardHovered, cardData, Card!firstMedia>>,
         \/ Card!previewMedia(index)
         \/ Card!keepMedia(index)
         \/ Card!scheduleFirstMedia
         \/ /\ returnTimer /\ returnTimer' = FALSE /\ Card!showMedia(index)
            /\ UNCHANGED <<persistentSelection, chosen>>
  PROVE  CardInv'
<1> USE DEF CardInv
<1>1. ShownInTime'
  BY DEF ShownInTime, Card!firstMedia
<1>2. CASE Card!previewMedia(index)
  <2>1. SlideTold' /\ OnePlays'
    BY <1>2, ShowMediaMoves DEF Card!previewMedia
  <2> QED
    BY <1>1, <1>2, <2>1 DEF Card!previewMedia, ChosenStays
<1>3. CASE Card!keepMedia(index)
  <2>1. SlideTold' /\ OnePlays' /\ (carouselApi => slide' = index)
    BY <1>3, ShowMediaMoves DEF Card!keepMedia
  <2> QED
    BY <1>1, <1>3, <2>1 DEF Card!keepMedia, ChosenStays, Card!NoSlide
<1>4. CASE Card!scheduleFirstMedia
  <2>1. SlideTold' /\ OnePlays'
    BY <1>4 DEF Card!scheduleFirstMedia, Card!selection, SlideTold, OnePlays
  <2> QED
    BY <1>1, <1>4, <2>1 DEF Card!scheduleFirstMedia, Card!selection, ChosenStays
<1>5. CASE /\ returnTimer /\ returnTimer' = FALSE /\ Card!showMedia(index)
           /\ UNCHANGED <<persistentSelection, chosen>>
  <2>1. SlideTold' /\ OnePlays'
    BY <1>5, ShowMediaMoves
  <2> QED
    BY <1>1, <1>5, <2>1 DEF ChosenStays
<1> QED
  BY <1>2, <1>3, <1>4, <1>5

LEMMA CardInvStep == CardInv /\ [Card!CardNext]_Card!cardvars => CardInv'
<1> SUFFICES ASSUME CardInv, [Card!CardNext]_Card!cardvars PROVE CardInv'
  OBVIOUS
<1>1. CASE Card!ReturnTimerFires
  BY <1>1, ChoiceStep DEF Card!ReturnTimerFires, Card!pointer
<1>2. ASSUME NEW i \in Card!Dots, Card!EnterDot(i) \/ Card!FocusDot(i) \/ Card!ClickDot(i) \/ Card!Drag(i)
      PROVE  CardInv'
  <2>1. UNCHANGED <<cardHovered, cardData, Card!firstMedia>>
    BY <1>2 DEF Card!EnterDot, Card!FocusDot, Card!ClickDot, Card!Drag, Card!pointer
  <2>2. Card!previewMedia(i) \/ Card!keepMedia(i)
    BY <1>2 DEF Card!EnterDot, Card!FocusDot, Card!ClickDot, Card!Drag
  <2> QED
    BY <2>1, <2>2, ChoiceStep
<1>3. CASE Card!LeaveDot \/ Card!BlurDot
  BY <1>3, ChoiceStep DEF Card!LeaveDot, Card!BlurDot
<1>4. CASE Card!handleCardEnter \/ Card!handleCardLeave
  <2>1. UNCHANGED <<cardData, slide, selectedIndex, persistentSelection, returnTimer, Card!firstMedia,
                    chosen, displaced>>
    BY <1>4 DEF Card!handleCardEnter, Card!handleCardLeave
  <2>2. \/ playing' = {}
        \/ cardHovered' = TRUE /\ playing' = Card!Played(TRUE, selectedIndex)
    BY <1>4 DEF Card!handleCardEnter, Card!handleCardLeave
  <2>3. SlideTold'
    BY <2>1, <2>2, PlayedOne DEF CardInv, SlideTold
  <2>4. OnePlays'
    <3>1. CASE playing' = {}
      BY <3>1 DEF OnePlays
    <3>2. CASE cardHovered' = TRUE /\ playing' = Card!Played(TRUE, selectedIndex)
      BY <3>2, PlayedOne, ZenonT(60) DEF OnePlays
    <3> QED
      BY <2>2, <3>1, <3>2
  <2> QED
    BY <2>1, <2>3, <2>4 DEF CardInv, ChosenStays, ShownInTime, Card!firstMedia
<1>5. CASE UNCHANGED Card!cardvars
  BY <1>5 DEF Card!cardvars, CardInv, ChosenStays, SlideTold, OnePlays, ShownInTime
<1> QED
  BY <1>1, <1>2, <1>3, <1>4, <1>5, FirstFileStep DEF Card!CardNext

(* In whatever order dots are hovered, focused and clicked and timers      *)
(* fire: the slide that was chosen stays, one video plays at most, the one *)
(* on screen and under the mouse, the dots tell which slide that is, and   *)
(* no card with data stays hidden (keepMedia, previewMedia,                *)
(* syncVideoPlayback, the effect on `initial`).                            *)
THEOREM CardAsChosenHolds == PagesSpec => []CardAsChosen
<1>1. WhenCardOpen => CardAsChosen
  <2> SUFFICES ASSUME CardInv PROVE Card!CardAsChosen
    BY DEF WhenCardOpen, CardAsChosen
  <2>1. playing # {} => cardHovered /\ Cardinality(playing) = 1
    BY FS_Singleton DEF CardInv, OnePlays
  <2>2. /\ chosen # Card!NoSlide => slide = chosen
        /\ ~displaced => playing \subseteq {slide}
        /\ carouselApi /\ ~displaced => selectedIndex = slide
    BY DEF CardInv, ChosenStays, SlideTold
  <2>3. (cardData => Card!revealed \/ waiting) /\ (ready => media # "loading")
    BY DEF CardInv, ShownInTime, Card!revealed
  <2> QED
    BY <2>1, <2>2, <2>3, SameCardinality DEF Card!CardAsChosen
<1>2. PagesInit => WhenCardOpen
  BY CardInvInit DEF PagesInit, WhenCardOpen
<1>3. WhenCardOpen /\ [PagesNext]_pagesVars => WhenCardOpen'
  BY CardInvStep, OneOpen DEF WhenCardOpen
<1> QED
  BY <1>1, <1>2, <1>3, PTL DEF PagesSpec

-----------------------------------------------------------------------------
(* The upload form. *)

FieldTyped ==
  /\ field \in [open : BOOLEAN, value : Tokens \cup {Short, ""}, n : Nat]
  /\ isPublic \in BOOLEAN

StepsTyped == u_steps \in Nat /\ sent.n \in Nat /\ sent.n <= u_steps

FormTyped == FieldTyped /\ StepsTyped

(* Limits are those of the token in the field, and a closed field is empty. *)
FieldTrue ==
  /\ tokenLimits \in {"", field.value}
  /\ ~field.open => field.value = ""

(* What is under way is what the form says; it is locked.                  *)
FormLocked ==
  isUploading =>
    /\ ~result
    /\ sent.kind = "files" => mode = "files" /\ files = sent.files /\ isPublic = sent.public

(* A token that was used is out of the field, or was typed again since.    *)
TokenSpent ==
  result /\ sent.kind = "files" /\ sent.token # "" => field.value = "" \/ field.n > sent.n

(* A summary is there only while the done screen is, and of what was sent. *)
SummaryTrue ==
  lastUpload # Form!NoSummary =>
    /\ mode = "files" /\ result
    /\ lastUpload = [count |-> sent.files, public |-> sent.public]

FormInv ==
  /\ FormTyped /\ FieldTrue /\ FormLocked /\ TokenSpent /\ SummaryTrue
  /\ sent.token = sent.typed

LEMMA StepsGrow ==
  ASSUME StepsTyped, UNCHANGED sent, u_steps' \in {u_steps, u_steps + 1}
  PROVE  StepsTyped' /\ u_steps' \in Nat /\ u_steps <= u_steps'
BY DEF StepsTyped

LEMMA LaterThanSent == ASSUME StepsTyped PROVE u_steps + 1 > sent.n
BY DEF StepsTyped

LEMMA SentNow ==
  ASSUME StepsTyped, u_steps' = u_steps + 1, sent'.n = u_steps' PROVE StepsTyped'
<1>1. u_steps' \in Nat
  BY DEF StepsTyped
<1> QED
  BY <1>1 DEF StepsTyped

LEMMA NothingSent == ASSUME u_steps = 0, sent.n = 0 PROVE StepsTyped
BY DEF StepsTyped

WhenFormOpen == component = "form" => FormInv

LEMMA FormInvInit == Form!UInit => FormInv
<1> SUFFICES ASSUME Form!UInit PROVE FormInv
  OBVIOUS
<1>1. /\ field = [open |-> FALSE, value |-> "", n |-> 0] /\ isPublic = FALSE /\ u_steps = 0
      /\ sent.n = 0 /\ sent.token = "" /\ sent.typed = ""
  BY DEF Form!UInit, Form!NoUpload
<1>2. FormTyped
  BY <1>1, NothingSent DEF FormTyped, FieldTyped
<1>3. tokenLimits = "" /\ isUploading = FALSE /\ result = FALSE /\ lastUpload = Form!NoSummary
  BY DEF Form!UInit
<1> QED
  BY <1>1, <1>2, <1>3 DEF FormInv, FieldTrue, FormLocked, TokenSpent, SummaryTrue

(* The field and its checks. *)
LEMMA FieldStep ==
  ASSUME FormInv,
         UNCHANGED <<mode, files, isPublic, isUploading, sent, result, lastUpload>>,
         u_steps' \in {u_steps, u_steps + 1},
         \/ UNCHANGED <<field, tokenLimits>>
         \/ field' = [field EXCEPT !.open = TRUE] /\ UNCHANGED tokenLimits
         \/ Form!tokenClosed
         \/ \E value \in Tokens \cup {Short, ""} :
              /\ u_steps' = u_steps + 1 /\ field.open /\ Form!Typed(value)
         \/ \E c \in checks : Form!CheckAnswer(c)
         \/ UNCHANGED field /\ tokenLimits' \in {tokenLimits, ""}
  PROVE  FormInv'
<1> USE DEF FormInv
<1>1. StepsTyped' /\ u_steps' \in Nat /\ isPublic' \in BOOLEAN
  <2>1. StepsTyped' /\ u_steps' \in Nat
    BY StepsGrow DEF FormTyped
  <2> QED
    BY <2>1 DEF FormTyped, FieldTyped
<1>2. /\ FormLocked' /\ SummaryTrue' /\ sent'.token = sent'.typed
  BY DEF FormLocked, SummaryTrue
<1>3. ASSUME UNCHANGED <<field, tokenLimits>> PROVE FormTyped' /\ FieldTrue' /\ TokenSpent'
  BY <1>1, <1>3 DEF FormTyped, FieldTyped, FieldTrue, TokenSpent
<1>4. ASSUME field' = [field EXCEPT !.open = TRUE], UNCHANGED tokenLimits
      PROVE  FormTyped' /\ FieldTrue' /\ TokenSpent'
  <2>1. /\ field' \in [open : BOOLEAN, value : Tokens \cup {Short, ""}, n : Nat]
        /\ field'.open = TRUE /\ field'.value = field.value /\ field'.n = field.n
    BY <1>4 DEF FormTyped, FieldTyped
  <2> QED
    BY <1>1, <1>4, <2>1 DEF FormTyped, FieldTyped, FieldTrue, TokenSpent
<1>5. ASSUME Form!tokenClosed PROVE FormTyped' /\ FieldTrue' /\ TokenSpent'
  <2>1. /\ field' = [open |-> FALSE, value |-> "", n |-> 0]
        /\ tokenLimits' \in {"", tokenLimits} /\ (field.value # "" => tokenLimits' = "")
    BY <1>5 DEF Form!tokenClosed
  <2>2. tokenLimits' = ""
    BY <2>1 DEF FieldTrue
  <2> QED
    BY <1>1, <2>1, <2>2 DEF FormTyped, FieldTyped, FieldTrue, TokenSpent
<1>6. ASSUME NEW value \in Tokens \cup {Short, ""}, u_steps' = u_steps + 1, field.open, Form!Typed(value)
      PROVE  FormTyped' /\ FieldTrue' /\ TokenSpent'
  <2>1. /\ field' = [field EXCEPT !.value = value, !.n = u_steps'] /\ tokenLimits' = ""
    BY <1>6 DEF Form!Typed
  <2>2. /\ field' \in [open : BOOLEAN, value : Tokens \cup {Short, ""}, n : Nat]
        /\ field'.open /\ field'.n = u_steps'
    BY <1>1, <1>6, <2>1 DEF FormTyped, FieldTyped
  <2>3. field'.n > sent'.n
    <3>1. u_steps + 1 > sent.n
      BY LaterThanSent DEF FormTyped
    <3>2. field'.n = u_steps + 1 /\ sent'.n = sent.n
      BY <1>6, <2>2
    <3> HIDE DEF FormInv
    <3> QED
      BY <3>1, <3>2
  <2> QED
    BY <1>1, <2>1, <2>2, <2>3 DEF FormTyped, FieldTyped, FieldTrue, TokenSpent
<1>7. ASSUME NEW c \in checks, Form!CheckAnswer(c) PROVE FormTyped' /\ FieldTrue' /\ TokenSpent'
  <2>1. UNCHANGED field /\ tokenLimits' \in {tokenLimits, field.value}
    BY <1>7 DEF Form!CheckAnswer, Form!StillTyped
  <2> QED
    BY <1>1, <2>1 DEF FormTyped, FieldTyped, FieldTrue, TokenSpent
<1>8. ASSUME UNCHANGED field, tokenLimits' \in {tokenLimits, ""}
      PROVE  FormTyped' /\ FieldTrue' /\ TokenSpent'
  BY <1>1, <1>8 DEF FormTyped, FieldTyped, FieldTrue, TokenSpent
<1> QED
  BY <1>2, <1>3, <1>4, <1>5, <1>6, <1>7, <1>8

(* The tray and the screens, while nothing is under way. *)
LEMMA TrayStep ==
  ASSUME FormInv, ~isUploading, UNCHANGED <<field, tokenLimits, isUploading, sent>>,
         u_steps' = u_steps + 1, isPublic' \in BOOLEAN,
         \/ ~Form!isDone /\ UNCHANGED <<mode, result, lastUpload>>
         \/ result' = FALSE /\ lastUpload' = Form!NoSummary
         \/ ~Form!isDone /\ result' = FALSE /\ UNCHANGED lastUpload
  PROVE  FormInv'
<1> USE DEF FormInv
<1>1. FormTyped'
  <2>1. FieldTyped'
    BY DEF FormTyped, FieldTyped
  <2>2. StepsTyped'
    BY StepsGrow DEF FormTyped
  <2> QED
    BY <2>1, <2>2 DEF FormTyped
<1>2. FieldTrue' /\ FormLocked' /\ sent'.token = sent'.typed
  BY DEF FieldTrue, FormLocked
<1>5. TokenSpent'
  BY DEF TokenSpent
<1>3. ~Form!isDone => lastUpload = Form!NoSummary
  BY DEF SummaryTrue, Form!isDone
<1>4. SummaryTrue'
  BY <1>3 DEF SummaryTrue, Form!NoSummary
<1> QED
  BY <1>1, <1>2, <1>4, <1>5

LEMMA ClickStep == ASSUME FormInv, Form!uploadClick PROVE FormInv'
<1> USE DEF FormInv
<1>1. /\ isUploading' = TRUE /\ result' = FALSE /\ u_steps' = u_steps + 1
      /\ UNCHANGED <<mode, files, isPublic, field, tokenLimits, lastUpload>>
      /\ ~Form!isDone /\ (mode = "files" => ~Form!tokenPending)
  BY DEF Form!uploadClick, Form!Visitor, Form!tray, Form!token
<1>2. sent' = [n |-> u_steps', kind |-> mode, files |-> files,
               public |-> mode # "link" /\ isPublic,
               token |-> IF mode = "files" THEN tokenLimits ELSE "",
               typed |-> IF mode = "files" /\ field.open THEN field.value ELSE ""]
  BY DEF Form!uploadClick
<1>3. FormTyped' /\ FieldTrue'
  <2>1. StepsTyped'
    BY <1>1, <1>2, SentNow DEF FormTyped
  <2> QED
    BY <1>1, <2>1 DEF FormTyped, FieldTyped, FieldTrue
<1>4. mode = "files" => (mode # "link" /\ isPublic) = isPublic
  BY DEF FormTyped, FieldTyped
<1>5. FormLocked'
  BY <1>1, <1>2, <1>4 DEF FormLocked
<1>6. lastUpload' = Form!NoSummary
  BY <1>1 DEF SummaryTrue, Form!isDone
<1>7. sent'.token = sent'.typed
  <2>1. CASE mode = "files" /\ field.open
    BY <1>1, <1>2, <2>1 DEF FieldTrue, Form!tokenPending
  <2>2. CASE mode = "files" /\ ~field.open
    BY <1>2, <2>2 DEF FieldTrue
  <2>3. CASE mode # "files"
    BY <1>2, <2>3
  <2> QED
    BY <2>1, <2>2, <2>3
<1> QED
  BY <1>1, <1>3, <1>5, <1>6, <1>7 DEF TokenSpent, SummaryTrue, Form!NoSummary

LEMMA SuccessStep ==
  ASSUME FormInv, Form!UploadSucceeds \/ Form!LinkUploaded \/ Form!NoteUploaded
  PROVE  FormInv'
<1> USE DEF FormInv
<1>1. isUploading /\ isUploading' = FALSE /\ result' = TRUE
      /\ UNCHANGED <<mode, files, isPublic, sent, u_steps>>
  BY DEF Form!UploadSucceeds, Form!LinkUploaded, Form!NoteUploaded, Form!tray
<1>2. lastUpload = Form!NoSummary
  BY <1>1 DEF FormLocked, SummaryTrue
<1>3. FormLocked' /\ sent'.token = sent'.typed
  BY <1>1 DEF FormLocked
<1>4. CASE Form!UploadSucceeds
  <2>1. /\ sent.kind = "files" /\ lastUpload' = [count |-> files, public |-> isPublic]
        /\ IF sent.token # "" THEN Form!tokenClosed ELSE UNCHANGED <<field, tokenLimits>>
    BY <1>4 DEF Form!UploadSucceeds
  <2>2. SummaryTrue'
    BY <1>1, <2>1 DEF FormLocked, SummaryTrue
  <2>3. CASE sent.token # ""
    <3>1. /\ field' = [open |-> FALSE, value |-> "", n |-> 0]
          /\ tokenLimits' \in {"", tokenLimits} /\ (field.value # "" => tokenLimits' = "")
      BY <2>1, <2>3 DEF Form!tokenClosed
    <3>2. tokenLimits' = ""
      BY <3>1 DEF FieldTrue
    <3>3. FormTyped' /\ FieldTrue' /\ TokenSpent'
      BY <1>1, <3>1, <3>2 DEF FormTyped, FieldTyped, StepsTyped, FieldTrue, TokenSpent
    <3> QED
      BY <1>3, <2>2, <3>3
  <2>4. CASE sent.token = ""
    BY <1>1, <1>3, <2>1, <2>2, <2>4 DEF FormTyped, FieldTyped, StepsTyped, FieldTrue, TokenSpent
  <2> QED
    BY <2>3, <2>4
<1>5. CASE Form!LinkUploaded \/ Form!NoteUploaded
  <2>1. sent.kind # "files" /\ UNCHANGED <<field, tokenLimits, lastUpload>>
    BY <1>5 DEF Form!LinkUploaded, Form!NoteUploaded, Form!token
  <2> QED
    BY <1>1, <1>2, <1>3, <2>1
       DEF FormTyped, FieldTyped, StepsTyped, FieldTrue, TokenSpent, SummaryTrue, Form!NoSummary
<1> QED
  BY <1>4, <1>5

LEMMA FormInvStep == FormInv /\ [Form!UNext]_Form!uvars => FormInv'
<1> SUFFICES ASSUME FormInv, [Form!UNext]_Form!uvars PROVE FormInv'
  OBVIOUS
<1> USE DEF Form!Visitor, Form!tray, Form!token, Form!upload
<1>1. CASE Form!tokenHoldStart \/ Form!HoldFires \/ Form!tokenHoldCancel \/ Form!ClickAfterHold
  BY <1>1, FieldStep
     DEF Form!tokenHoldStart, Form!HoldFires, Form!tokenHoldCancel, Form!ClickAfterHold
<1>2. ASSUME NEW value \in Tokens \cup {Short, ""}, Form!TypeToken(value) PROVE FormInv'
  BY <1>2, FieldStep DEF Form!TypeToken
<1>3. CASE Form!tokenClose \/ Form!StartCheck
  BY <1>3, FieldStep DEF Form!tokenClose, Form!StartCheck
<1>4. ASSUME NEW c \in checks, Form!CheckAnswer(c) PROVE FormInv'
  <2>1. UNCHANGED <<mode, files, isPublic, isUploading, sent, result, lastUpload, u_steps>>
    BY <1>4 DEF Form!CheckAnswer
  <2> QED
    BY <1>4, <2>1, FieldStep
<1>5. CASE Form!AddFile \/ Form!removeFile
  BY <1>5, TrayStep DEF Form!AddFile, Form!removeFile, FormInv, FormTyped, FieldTyped
<1>6. CASE Form!TogglePublic
  BY <1>6, TrayStep DEF Form!TogglePublic
<1>7. CASE Form!startNewUpload
  <2>1. ~isUploading
    BY <1>7 DEF Form!startNewUpload, Form!isDone, FormInv, FormLocked
  <2> QED
    BY <1>7, <2>1, TrayStep DEF Form!startNewUpload, FormInv, FormTyped, FieldTyped
<1>8. ASSUME NEW next, Form!switchMode(next) PROVE FormInv'
  BY <1>8, TrayStep DEF Form!switchMode, FormInv, FormTyped, FieldTyped
<1>9. CASE Form!UploadFails
  BY <1>9 DEF Form!UploadFails, FormInv, FormTyped, FieldTyped, StepsTyped, FieldTrue, FormLocked,
              TokenSpent, SummaryTrue
<1>10. CASE UNCHANGED Form!uvars
  BY <1>10, FieldStep DEF Form!uvars
<1> QED
  BY <1>1, <1>2, <1>3, <1>4, <1>5, <1>6, <1>7, <1>8, <1>9, <1>10, ClickStep, SuccessStep
     DEF Form!UNext

(* However slowly and in whatever order checks are answered and whatever   *)
(* the visitor does with the keyboard meanwhile: limits are those of the   *)
(* token in the field, an upload carries the token that was typed, a token *)
(* that was used has left the field, and the done screen tells what was    *)
(* sent (the effect on the field's value, uploadClick, uploadFiles).       *)
THEOREM UploadAsShownHolds == PagesSpec => []UploadAsShown
<1>1. WhenFormOpen => UploadAsShown
  BY DEF WhenFormOpen, UploadAsShown, FormInv, FieldTrue, TokenSpent, SummaryTrue,
         Form!UploadAsShown, Form!isDone
<1>2. PagesInit => WhenFormOpen
  BY FormInvInit DEF PagesInit, WhenFormOpen
<1>3. WhenFormOpen /\ [PagesNext]_pagesVars => WhenFormOpen'
  BY FormInvStep, OneOpen DEF WhenFormOpen
<1> QED
  BY <1>1, <1>2, <1>3, PTL DEF PagesSpec

-----------------------------------------------------------------------------
(* The sign-up form. *)

FormFields ==
  {"info", "loadError", "username", "availability", "timer", "passwordsFit", "agreed", "address",
   "codeSentTo", "code", "cooldown", "busy", "created"}
ServerFields == {"taken", "invite", "email", "sends", "live", "cooling", "account"}

SignupTyped ==
  /\ DOMAIN form = FormFields /\ DOMAIN accounts = ServerFields
  /\ form.username \in Names \cup {""}
  /\ form.address \in Addresses \cup InviteEmail \cup {""}
  /\ accounts.email \in InviteEmail

CallTyped == call \in {Null} \cup Signup!Calls

(* The form is closed while a call is under way. *)
ClosedMeanwhile ==
  call # Null => /\ call.kind = "load" => form.info = Null /\ form.created = Null
                 /\ call.kind # "load" => form.busy

NameTrue == form.availability # Null => form.availability.name = form.username

AnsweredWith(kind, answer) ==
  call # Null /\ call.kind = kind /\ call.at = "answered" /\ call.answer = answer

(* A live code is for the address the boxes stand under, or, when this     *)
(* answer arrives, will stand under; or the answer of its call was lost.   *)
CodeTold ==
  accounts.live # Null =>
    IF AnsweredWith("send", "sent") THEN accounts.live.address = form.address
    ELSE "send" \in unanswered \/ accounts.live.address = form.codeSentTo

AsShown == [username |-> form.username, address |-> form.address]

AccountTold ==
  /\ AnsweredWith("create", "created") => accounts.account = AsShown
  /\ accounts.account # Null =>
       form.created # Null \/ "create" \in unanswered \/ AnsweredWith("create", "created")
  /\ form.created # Null => form.created = AsShown

SignupInv ==
  /\ SignupTyped /\ CallTyped /\ ClosedMeanwhile /\ NameTrue /\ CodeTold /\ AccountTold

WhenSignupOpen == component = "signup" => SignupInv

LEMMA SignupInvInit == Signup!PInit => SignupInv
<1> SUFFICES ASSUME Signup!PInit PROVE SignupInv
  OBVIOUS
<1>1. /\ DOMAIN form = FormFields /\ form.username = "" /\ form.address = ""
      /\ form.availability = Null /\ form.info = Null /\ form.created = Null
  BY DEF Signup!PInit, FormFields
<1>2. /\ DOMAIN accounts = ServerFields /\ accounts.email \in InviteEmail
      /\ accounts.live = Null /\ accounts.account = Null
  <2>1. PICK email \in InviteEmail, invite \in {"active", "gone"} :
          accounts = [taken |-> {}, invite |-> invite, email |-> email, sends |-> 0,
                    live |-> Null, cooling |-> FALSE, account |-> Null]
    BY DEF Signup!PInit
  <2> QED
    BY <2>1 DEF ServerFields
<1>3. call = [kind |-> "load", at |-> "sent", answer |-> Null]
  BY DEF Signup!PInit, Signup!Sent
<1>4. CallTyped
  BY <1>3 DEF CallTyped, Signup!Calls
<1> QED
  BY <1>1, <1>2, <1>3, <1>4
     DEF SignupInv, SignupTyped, ClosedMeanwhile, NameTrue, CodeTold, AccountTold, AnsweredWith

(* Typing, which needs no call under way.                                  *)
LEMMA TypingStep ==
  ASSUME SignupInv, UNCHANGED <<call, accounts, unanswered>>, call = Null, form.created = Null,
         DOMAIN form' = FormFields,
         form'.username \in Names \cup {""},
         form'.address \in Addresses \cup InviteEmail \cup {""},
         form'.codeSentTo = form.codeSentTo, form'.created = form.created,
         \/ form'.availability = Null
         \/ form'.username = form.username /\ form'.availability = form.availability
  PROVE  SignupInv'
<1>1. SignupTyped' /\ CallTyped' /\ ClosedMeanwhile' /\ NameTrue'
  BY DEF SignupInv, SignupTyped, CallTyped, ClosedMeanwhile, NameTrue
<1>2. CodeTold' /\ AccountTold'
  BY DEF SignupInv, CodeTold, AccountTold, AnsweredWith
<1> QED
  BY <1>1, <1>2 DEF SignupInv

(* What changes nothing of what was typed or answered. *)
LEMMA FieldsKeptStep ==
  ASSUME SignupInv, UNCHANGED <<call, unanswered>>,
         DOMAIN form' = FormFields, DOMAIN accounts' = ServerFields,
         form'.username = form.username, form'.address = form.address,
         form'.codeSentTo = form.codeSentTo, form'.created = form.created,
         form'.info = form.info, form'.busy = form.busy,
         \/ form'.availability = form.availability
         \/ form'.availability # Null => form'.availability.name = form.username,
         accounts'.email = accounts.email, accounts'.account = accounts.account,
         accounts'.live = Null \/ accounts'.live = accounts.live
  PROVE  SignupInv'
<1>1. SignupTyped' /\ CallTyped' /\ ClosedMeanwhile' /\ NameTrue'
  BY DEF SignupInv, SignupTyped, CallTyped, ClosedMeanwhile, NameTrue
<1>2. CodeTold' /\ AccountTold'
  BY DEF SignupInv, CodeTold, AccountTold, AnsweredWith, AsShown
<1> QED
  BY <1>1, <1>2 DEF SignupInv

LEMMA OpenForm == ASSUME SignupInv, Signup!Fields PROVE call = Null /\ form.created = Null
BY DEF SignupInv, ClosedMeanwhile, Signup!Fields

LEMMA FormKept ==
  ASSUME SignupInv,
         \/ \E name \in Names : Signup!usernameChanged(name)
         \/ \E address \in Addresses \cup {""} : Signup!TypeAddress(address)
         \/ \E code \in 0..MaxSends : Signup!TypeCode(code)
         \/ Signup!TypePasswords
  PROVE  SignupInv'
<1>1. DOMAIN form = FormFields /\ form.username \in Names \cup {""}
      /\ form.address \in Addresses \cup InviteEmail \cup {""}
  BY DEF SignupInv, SignupTyped
<1>2. call = Null /\ form.created = Null /\ UNCHANGED <<call, accounts, unanswered>>
  BY OpenForm DEF Signup!usernameChanged, Signup!TypeAddress, Signup!TypeCode,
                  Signup!TypePasswords, Signup!UserActs, Signup!NameTyped
<1>3. ASSUME NEW name \in Names, Signup!usernameChanged(name) PROVE SignupInv'
  <2>1. \E started : form' = [form EXCEPT !.username = name, !.availability = Null, !.timer = started]
    BY <1>3 DEF Signup!usernameChanged
  <2> QED
    BY <1>1, <1>2, <2>1, TypingStep DEF FormFields
<1>4. ASSUME NEW address \in Addresses \cup {""}, Signup!TypeAddress(address) PROVE SignupInv'
  <2>1. form' = [form EXCEPT !.address = address]
    BY <1>4 DEF Signup!TypeAddress
  <2> QED
    BY <1>1, <1>2, <2>1, TypingStep DEF FormFields
<1>5. ASSUME NEW code, Signup!TypeCode(code) PROVE SignupInv'
  <2>1. form' = [form EXCEPT !.code = code]
    BY <1>5 DEF Signup!TypeCode
  <2> QED
    BY <1>1, <1>2, <2>1, TypingStep DEF FormFields
<1>6. CASE Signup!TypePasswords
  <2>1. form' = [form EXCEPT !.passwordsFit = TRUE, !.agreed = TRUE]
    BY <1>6 DEF Signup!TypePasswords
  <2> QED
    BY <1>1, <1>2, <2>1, TypingStep DEF FormFields
<1> QED
  BY <1>3, <1>4, <1>5, <1>6

LEMMA SendingStep ==
  ASSUME SignupInv, Signup!sendCode \/ Signup!createAccount PROVE SignupInv'
<1>1. PICK kind \in {"send", "create"} :
        /\ call' = [kind |-> kind, at |-> "sent", answer |-> Null]
        /\ form' = [form EXCEPT !.busy = TRUE] /\ UNCHANGED <<accounts, unanswered>>
  BY DEF Signup!sendCode, Signup!createAccount, Signup!Busy, Signup!Sent
<1>2. call = Null /\ form.created = Null
  BY OpenForm DEF Signup!sendCode, Signup!createAccount, Signup!UserActs
<1>3. DOMAIN form = FormFields
  BY DEF SignupInv, SignupTyped
<1>4. /\ DOMAIN form' = FormFields /\ form'.busy = TRUE
      /\ form'.username = form.username /\ form'.address = form.address
      /\ form'.codeSentTo = form.codeSentTo /\ form'.created = form.created
      /\ form'.availability = form.availability
  BY <1>1, <1>3 DEF FormFields
<1>5. CallTyped'
  BY <1>1 DEF CallTyped, Signup!Calls
<1>6. SignupTyped' /\ ClosedMeanwhile' /\ NameTrue'
  BY <1>1, <1>4 DEF SignupInv, SignupTyped, ClosedMeanwhile, NameTrue
<1>7. ~AnsweredWith("send", "sent") /\ ~AnsweredWith("create", "created")
  BY <1>2 DEF AnsweredWith
<1>8. ~AnsweredWith("send", "sent")' /\ ~AnsweredWith("create", "created")'
  BY <1>1 DEF AnsweredWith
<1>9. CodeTold' /\ AccountTold'
  BY <1>1, <1>2, <1>4, <1>7, <1>8 DEF SignupInv, CodeTold, AccountTold
<1> QED
  BY <1>5, <1>6, <1>9 DEF SignupInv

LEMMA AnswerTyped ==
  ASSUME Signup!SignupAssumption, CallTyped, call # Null, NEW answer,
         answer \in {"valid", "invite_invalid", "verified", "email_taken", "sent", "server_error",
                     "code_cooldown", "code_limit", "username_taken", "code_invalid", "created",
                     "mailbox_failed"},
         Signup!Answered(answer)
  PROVE  /\ CallTyped' /\ call' # Null
         /\ call'.kind = call.kind /\ call'.at = "answered" /\ call'.answer = answer
<1>1. call \in Signup!Calls
  BY DEF CallTyped
<1>2. call' = [call EXCEPT !.at = "answered", !.answer = answer]
  BY DEF Signup!Answered
<1>3. /\ call' \in Signup!Calls
      /\ call'.kind = call.kind /\ call'.at = "answered" /\ call'.answer = answer
  BY <1>1, <1>2 DEF Signup!Calls
<1> QED
  BY <1>3 DEF CallTyped, Signup!SignupAssumption

(* The server answers: what it did to the code and the account is known by *)
(* the answer.                                                             *)
LEMMA ServerStep ==
  ASSUME Signup!SignupAssumption, SignupInv, UNCHANGED form,
         call # Null, call.at = "sent", NEW answer,
         answer \in {"valid", "invite_invalid", "verified", "email_taken", "sent", "server_error",
                     "code_cooldown", "code_limit", "username_taken", "code_invalid", "created",
                     "mailbox_failed"},
         Signup!Answered(answer),
         DOMAIN accounts' = ServerFields, accounts'.email = accounts.email,
         unanswered \subseteq unanswered',
         \/ accounts'.live \in {Null, accounts.live} /\ ~(call.kind = "send" /\ answer = "sent")
         \/ /\ accounts'.live.address = form.address /\ call.kind = "send"
            /\ answer # "sent" => "send" \in unanswered',
         \/ accounts'.account = accounts.account /\ ~(call.kind = "create" /\ answer = "created")
         \/ accounts'.account = AsShown /\ call.kind = "create" /\ answer = "created"
  PROVE  SignupInv'
<1>1. CallTyped' /\ call' # Null /\ call'.kind = call.kind /\ call'.at = "answered"
      /\ call'.answer = answer
  BY AnswerTyped DEF SignupInv
<1>2. ~AnsweredWith("send", "sent") /\ ~AnsweredWith("create", "created")
  BY DEF AnsweredWith
<1>3. /\ AnsweredWith("send", "sent")' <=> (call.kind = "send" /\ answer = "sent")
      /\ AnsweredWith("create", "created")' <=> (call.kind = "create" /\ answer = "created")
  BY <1>1 DEF AnsweredWith
<1>4. SignupTyped' /\ ClosedMeanwhile' /\ NameTrue'
  BY <1>1 DEF SignupInv, SignupTyped, ClosedMeanwhile, NameTrue
<1>5. CodeTold'
  BY <1>2, <1>3 DEF SignupInv, CodeTold
<1>6. AccountTold'
  BY <1>2, <1>3 DEF SignupInv, AccountTold, AsShown
<1> QED
  BY <1>1, <1>4, <1>5, <1>6 DEF SignupInv

LEMMA GetInviteStep ==
  ASSUME Signup!SignupAssumption, SignupInv, Signup!GetInvite PROVE SignupInv'
<1>1. PICK answer \in {"valid", "invite_invalid"} : Signup!Answered(answer)
  BY DEF Signup!GetInvite
<1>2. /\ call # Null /\ call.kind = "load" /\ call.at = "sent"
      /\ UNCHANGED <<form, accounts, unanswered>> /\ DOMAIN accounts = ServerFields
  BY DEF Signup!GetInvite, SignupInv, SignupTyped
<1> QED
  BY <1>1, <1>2, ServerStep

LEMMA PostEmailCodeStep ==
  ASSUME Signup!SignupAssumption, SignupInv, Signup!PostEmailCode PROVE SignupInv'
<1>1. /\ call # Null /\ call.kind = "send" /\ call.at = "sent" /\ UNCHANGED form
      /\ unanswered' = IF call'.answer = "server_error" THEN unanswered \cup {"send"} ELSE unanswered
      /\ DOMAIN accounts = ServerFields /\ CallTyped
  BY DEF Signup!PostEmailCode, SignupInv, SignupTyped
<1>2. CASE UNCHANGED accounts
  <2>1. PICK answer \in {"invite_invalid", "verified", "email_taken", "code_cooldown", "code_limit"} :
          Signup!Answered(answer)
    <3>1. ASSUME ~\E answer \in {"invite_invalid", "verified", "email_taken", "code_cooldown",
                                 "code_limit"} : Signup!Answered(answer)
          PROVE  FALSE
      <4>1. accounts' = [accounts EXCEPT !.sends = @ + 1, !.cooling = TRUE,
                         !.live = [address |-> form.address, code |-> accounts.sends + 1]]
            /\ ~accounts.cooling
        BY <3>1 DEF Signup!PostEmailCode
      <4> QED
        BY <1>1, <1>2, <4>1 DEF ServerFields
    <3> QED
      BY <3>1
  <2>2. unanswered \subseteq unanswered'
    BY <1>1
  <2> QED
    BY <1>1, <1>2, <2>1, <2>2, ServerStep
<1>3. CASE ~UNCHANGED accounts
  <2>1. PICK answer \in {"sent", "server_error"} :
          /\ Signup!Answered(answer)
          /\ accounts' = [accounts EXCEPT !.sends = @ + 1, !.cooling = TRUE,
                         !.live = [address |-> form.address, code |-> accounts.sends + 1]]
    BY <1>3 DEF Signup!PostEmailCode
  <2>2. call'.answer = answer
    BY <1>1, <2>1, AnswerTyped
  <2>3. unanswered \subseteq unanswered' /\ (answer # "sent" => "send" \in unanswered')
    BY <1>1, <2>2
  <2>4. /\ DOMAIN accounts' = ServerFields /\ accounts'.email = accounts.email
        /\ accounts'.account = accounts.account /\ accounts'.live.address = form.address
    BY <1>1, <2>1 DEF ServerFields
  <2> QED
    BY <1>1, <2>1, <2>3, <2>4, ServerStep
<1> QED
  BY <1>2, <1>3

LEMMA PostSignupStep ==
  ASSUME Signup!SignupAssumption, SignupInv, Signup!PostSignup PROVE SignupInv'
<1> DEFINE used == IF Signup!NeedsCode THEN [accounts EXCEPT !.live = Null] ELSE accounts
<1>1. /\ call # Null /\ call.kind = "create" /\ call.at = "sent" /\ UNCHANGED <<form, unanswered>>
      /\ DOMAIN accounts = ServerFields
  BY DEF Signup!PostSignup, SignupInv, SignupTyped
<1>2. /\ DOMAIN used = ServerFields /\ used.email = accounts.email /\ used.account = accounts.account
      /\ used.live \in {Null, accounts.live}
  BY <1>1 DEF ServerFields
<1>3. \/ \E answer \in {"invite_invalid", "username_taken", "email_taken", "code_invalid"} :
           Signup!Answered(answer) /\ UNCHANGED accounts
      \/ Signup!Answered("mailbox_failed") /\ accounts' = used
      \/ /\ Signup!Answered("created")
         /\ accounts' = [used EXCEPT !.invite = "gone", !.account = AsShown]
  BY DEF Signup!PostSignup, AsShown
<1> HIDE DEF used
<1>4. ASSUME NEW answer \in {"invite_invalid", "username_taken", "email_taken", "code_invalid"},
             Signup!Answered(answer), UNCHANGED accounts
      PROVE  SignupInv'
  BY <1>1, <1>4, ServerStep
<1>5. CASE Signup!Answered("mailbox_failed") /\ accounts' = used
  BY <1>1, <1>2, <1>5, ServerStep
<1>6. CASE /\ Signup!Answered("created")
           /\ accounts' = [used EXCEPT !.invite = "gone", !.account = AsShown]
  <2>1. /\ DOMAIN accounts' = ServerFields /\ accounts'.email = accounts.email
        /\ accounts'.live \in {Null, accounts.live} /\ accounts'.account = AsShown
    BY <1>2, <1>6 DEF ServerFields
  <2> QED
    BY <1>1, <1>6, <2>1, ServerStep
<1> QED
  BY <1>3, <1>4, <1>5, <1>6

(* The answer of a call arrives, or is lost.                               *)
LEMMA InviteArrivesStep == ASSUME SignupInv, Signup!InviteArrives PROVE SignupInv'
<1>1. /\ call # Null /\ call.kind = "load" /\ call' = Null /\ UNCHANGED <<accounts, unanswered>>
      /\ form.created = Null /\ DOMAIN form = FormFields /\ accounts.email \in InviteEmail
  BY DEF Signup!InviteArrives, SignupInv, SignupTyped, ClosedMeanwhile
<1>2. /\ DOMAIN form' = FormFields /\ form'.username = form.username
      /\ form'.created = form.created /\ form'.codeSentTo = form.codeSentTo
      /\ form'.availability = form.availability
      /\ form'.address \in {form.address, "", accounts.email}
  <2>1. CASE call.answer = "valid"
    <3>1. form' = [form EXCEPT !.info = [email |-> accounts.email],
                     !.address = IF accounts.email = Null THEN "" ELSE accounts.email]
      BY <2>1 DEF Signup!InviteArrives
    <3> QED
      BY <1>1, <3>1 DEF FormFields
  <2>2. CASE call.answer # "valid"
    <3>1. form' = [form EXCEPT !.loadError = TRUE]
      BY <2>2 DEF Signup!InviteArrives
    <3> QED
      BY <1>1, <3>1 DEF FormFields
  <2> QED
    BY <2>1, <2>2
<1>3. SignupTyped' /\ CallTyped' /\ ClosedMeanwhile' /\ NameTrue'
  BY <1>1, <1>2 DEF SignupInv, SignupTyped, CallTyped, ClosedMeanwhile, NameTrue
<1>4. ~AnsweredWith("send", "sent") /\ ~AnsweredWith("create", "created")
  BY <1>1 DEF AnsweredWith
<1>5. ~AnsweredWith("send", "sent")' /\ ~AnsweredWith("create", "created")'
  BY <1>1 DEF AnsweredWith
<1>6. CodeTold' /\ AccountTold'
  BY <1>1, <1>2, <1>4, <1>5 DEF SignupInv, CodeTold, AccountTold
<1> QED
  BY <1>3, <1>6 DEF SignupInv

LEMMA CodeAnswerStep == ASSUME SignupInv, Signup!CodeAnswerArrives PROVE SignupInv'
<1>1. /\ call # Null /\ call.kind = "send" /\ call.at = "answered" /\ call' = Null
      /\ UNCHANGED accounts /\ DOMAIN form = FormFields
  BY DEF Signup!CodeAnswerArrives, SignupInv, SignupTyped
<1>2. /\ DOMAIN form' = FormFields /\ form'.username = form.username
      /\ form'.address = form.address /\ form'.created = form.created
      /\ form'.availability = form.availability
      /\ form'.codeSentTo = IF call.answer = "sent" THEN form.address ELSE form.codeSentTo
      /\ "create" \in unanswered => "create" \in unanswered'
      /\ call.answer # "sent" => unanswered' = unanswered
  <2>1. CASE call.answer = "sent"
    <3>1. /\ form' = [form EXCEPT !.codeSentTo = form.address, !.code = Signup!NoCode,
                                  !.cooldown = TRUE, !.busy = FALSE]
          /\ unanswered' = unanswered \ {"send"}
      BY <2>1 DEF Signup!CodeAnswerArrives
    <3> QED
      BY <1>1, <2>1, <3>1 DEF FormFields
  <2>2. CASE call.answer # "sent"
    <3>1. /\ \/ form' = [form EXCEPT !.cooldown = TRUE, !.busy = FALSE]
             \/ form' = [form EXCEPT !.busy = FALSE]
          /\ unanswered' = unanswered
      BY <2>2 DEF Signup!CodeAnswerArrives
    <3> QED
      BY <1>1, <2>2, <3>1 DEF FormFields
  <2> QED
    BY <2>1, <2>2
<1>3. SignupTyped' /\ CallTyped' /\ ClosedMeanwhile' /\ NameTrue'
  BY <1>1, <1>2 DEF SignupInv, SignupTyped, CallTyped, ClosedMeanwhile, NameTrue
<1>4. /\ AnsweredWith("send", "sent") <=> call.answer = "sent"
      /\ ~AnsweredWith("create", "created")
      /\ ~AnsweredWith("send", "sent")' /\ ~AnsweredWith("create", "created")'
  BY <1>1 DEF AnsweredWith
<1>5. CodeTold'
  BY <1>1, <1>2, <1>4 DEF SignupInv, CodeTold
<1>6. AccountTold'
  BY <1>1, <1>2, <1>4 DEF SignupInv, AccountTold, AsShown
<1> QED
  BY <1>3, <1>5, <1>6 DEF SignupInv

LEMMA SignupAnswerStep ==
  ASSUME Signup!SignupAssumption, SignupInv, Signup!SignupAnswerArrives PROVE SignupInv'
<1>1. /\ call # Null /\ call.kind = "create" /\ call.at = "answered" /\ call' = Null
      /\ UNCHANGED <<accounts, unanswered>> /\ DOMAIN form = FormFields
  BY DEF Signup!SignupAnswerArrives, SignupInv, SignupTyped
<1>2. /\ DOMAIN form' = FormFields /\ form'.username = form.username
      /\ form'.address = form.address /\ form'.availability = form.availability
      /\ form'.codeSentTo = form.codeSentTo
      /\ form'.created = IF call.answer = "created" THEN accounts.account ELSE form.created
  <2>1. CASE call.answer = "created"
    <3>1. form' = [form EXCEPT !.created = accounts.account, !.passwordsFit = FALSE, !.busy = FALSE]
      BY <2>1 DEF Signup!SignupAnswerArrives
    <3> QED
      BY <1>1, <2>1, <3>1 DEF FormFields
  <2>2. CASE call.answer # "created"
    <3>1. \/ form' = [form EXCEPT !.code = Signup!NoCode, !.busy = FALSE]
          \/ form' = [form EXCEPT !.busy = FALSE]
      BY <2>2 DEF Signup!SignupAnswerArrives
    <3> QED
      BY <1>1, <2>2, <3>1 DEF FormFields
  <2> QED
    BY <2>1, <2>2
<1>3. SignupTyped' /\ CallTyped' /\ ClosedMeanwhile' /\ NameTrue'
  BY <1>1, <1>2 DEF SignupInv, SignupTyped, CallTyped, ClosedMeanwhile, NameTrue
<1>4. /\ AnsweredWith("create", "created") <=> call.answer = "created"
      /\ ~AnsweredWith("send", "sent")
      /\ ~AnsweredWith("send", "sent")' /\ ~AnsweredWith("create", "created")'
  BY <1>1 DEF AnsweredWith
<1>5. CodeTold'
  BY <1>1, <1>2, <1>4 DEF SignupInv, CodeTold
<1>6. AsShown # Null
  <2>1. AsShown \in Signup!Accounts
    BY DEF SignupInv, SignupTyped, Signup!Accounts, AsShown
  <2> QED
    BY <2>1 DEF Signup!SignupAssumption
<1>7. AsShown' = AsShown
  BY <1>2 DEF AsShown
<1>8. AccountTold'
  BY <1>1, <1>2, <1>4, <1>6, <1>7 DEF SignupInv, AccountTold
<1> QED
  BY <1>3, <1>5, <1>8 DEF SignupInv

LEMMA SignupCallLostStep == ASSUME SignupInv, Signup!CallLost PROVE SignupInv'
<1>1. /\ call # Null /\ call' = Null /\ UNCHANGED accounts /\ DOMAIN form = FormFields
      /\ unanswered' = IF call.answer \in {"sent", "created"} THEN unanswered \cup {call.kind} ELSE unanswered
  BY DEF Signup!CallLost, SignupInv, SignupTyped
<1>2. /\ DOMAIN form' = FormFields /\ form'.username = form.username
      /\ form'.address = form.address /\ form'.availability = form.availability
      /\ form'.codeSentTo = form.codeSentTo /\ form'.created = form.created
  <2>1. \/ form' = [form EXCEPT !.loadError = TRUE]
        \/ form' = [form EXCEPT !.busy = FALSE]
    BY DEF Signup!CallLost
  <2> QED
    BY <1>1, <2>1 DEF FormFields
<1>3. SignupTyped' /\ CallTyped' /\ ClosedMeanwhile' /\ NameTrue'
  BY <1>1, <1>2 DEF SignupInv, SignupTyped, CallTyped, ClosedMeanwhile, NameTrue
<1>4. /\ AnsweredWith("send", "sent") => "send" \in unanswered'
      /\ AnsweredWith("create", "created") => "create" \in unanswered'
      /\ ~AnsweredWith("send", "sent")' /\ ~AnsweredWith("create", "created")'
      /\ unanswered \subseteq unanswered'
  BY <1>1 DEF AnsweredWith
<1>5. CodeTold'
  BY <1>1, <1>2, <1>4 DEF SignupInv, CodeTold
<1>6. AccountTold'
  BY <1>1, <1>2, <1>4 DEF SignupInv, AccountTold, AsShown
<1> QED
  BY <1>3, <1>5, <1>6 DEF SignupInv

(* Checks of a name, timers and other people. *)
LEMMA AroundStep ==
  ASSUME SignupInv,
         \/ Signup!checkAvailability \/ Signup!CooldownEnds \/ Signup!Meanwhile
         \/ \E n \in DOMAIN asking : Signup!GetAvailable(n) \/ Signup!AvailabilityArrives(n)
                                     \/ Signup!AvailabilityLost(n)
  PROVE  SignupInv'
<1>1. DOMAIN form = FormFields /\ DOMAIN accounts = ServerFields
  BY DEF SignupInv, SignupTyped
<1>2. CASE Signup!checkAvailability \/ Signup!CooldownEnds
  <2>1. /\ \/ form' = [form EXCEPT !.timer = Null] \/ form' = [form EXCEPT !.cooldown = FALSE]
        /\ UNCHANGED <<call, accounts, unanswered>>
    BY <1>2 DEF Signup!checkAvailability, Signup!CooldownEnds
  <2> QED
    BY <1>1, <2>1, FieldsKeptStep DEF FormFields
<1>3. CASE Signup!Meanwhile
  <2>1. /\ \/ \E taken : accounts' = [accounts EXCEPT !.taken = taken]
           \/ accounts' = [accounts EXCEPT !.live = Null]
           \/ accounts' = [accounts EXCEPT !.cooling = FALSE]
        /\ UNCHANGED <<form, call, unanswered>>
    BY <1>3 DEF Signup!Meanwhile
  <2>2. /\ DOMAIN accounts' = ServerFields /\ accounts'.email = accounts.email
        /\ accounts'.account = accounts.account
        /\ accounts'.live = Null \/ accounts'.live = accounts.live
    BY <1>1, <2>1 DEF ServerFields
  <2> QED
    BY <1>1, <2>1, <2>2, FieldsKeptStep
<1>4. ASSUME NEW n \in DOMAIN asking, Signup!GetAvailable(n) \/ Signup!AvailabilityLost(n)
      PROVE  SignupInv'
  BY <1>1, <1>4, FieldsKeptStep DEF Signup!GetAvailable, Signup!AvailabilityLost
<1>5. ASSUME NEW n \in DOMAIN asking, Signup!AvailabilityArrives(n) PROVE SignupInv'
  <2>1. /\ \/ UNCHANGED form
           \/ /\ form.username = asking[n].name
              /\ form' = [form EXCEPT !.availability =
                            [name |-> asking[n].name, available |-> asking[n].available]]
        /\ UNCHANGED <<call, accounts, unanswered>>
    BY <1>5 DEF Signup!AvailabilityArrives, Signup!Concerns
  <2> QED
    BY <1>1, <2>1, FieldsKeptStep DEF FormFields
<1> QED
  BY <1>2, <1>3, <1>4, <1>5

LEMMA SignupInvStep ==
  Signup!SignupAssumption /\ SignupInv /\ [Signup!PNext]_Signup!pvars => SignupInv'
<1> SUFFICES ASSUME Signup!SignupAssumption, SignupInv, [Signup!PNext]_Signup!pvars
             PROVE  SignupInv'
  OBVIOUS
<1>1. CASE UNCHANGED Signup!pvars
  BY <1>1, FieldsKeptStep DEF Signup!pvars, SignupInv, SignupTyped
<1> QED
  BY <1>1, FormKept, SendingStep, AroundStep, GetInviteStep, PostEmailCodeStep, PostSignupStep,
     InviteArrivesStep, CodeAnswerStep, SignupAnswerStep, SignupCallLostStep
     DEF Signup!PNext

(* However the answers are ordered, lost or late, for all names, addresses *)
(* and invites: a name is submitted only on its own check, a code belongs  *)
(* to the address shown, and what is created is what the form showed       *)
(* (checkAvailability, sendCode, createAccount).                           *)
THEOREM SignupAsShownHolds == PagesSpec => []SignupAsShown
<1>1. SignupInv => Signup!SignupAsShown
  <2> SUFFICES ASSUME SignupInv PROVE Signup!SignupAsShown
    OBVIOUS
  <2>1. Signup!SubmittedNameWasFree
    BY DEF SignupInv, NameTrue, Signup!SubmittedNameWasFree, Signup!canSubmit, Signup!accountReady
  <2>2. Signup!CodeAskedCounts
    BY DEF SignupInv, CodeTold, AnsweredWith, Signup!CodeAskedCounts, Signup!awaitingCode
  <2>3. Signup!WelcomeTrue
    BY DEF SignupInv, AccountTold, AnsweredWith, AsShown, Signup!WelcomeTrue
  <2> QED
    BY <2>1, <2>2, <2>3 DEF Signup!SignupAsShown
<1>2. WhenSignupOpen => SignupAsShown
  BY <1>1 DEF WhenSignupOpen, SignupAsShown
<1>3. PagesInit => WhenSignupOpen
  BY SignupInvInit, PagesAssumption DEF PagesInit, WhenSignupOpen
<1>4. WhenSignupOpen /\ [PagesNext]_pagesVars => WhenSignupOpen'
  BY SignupInvStep, PagesAssumption, OneOpen DEF WhenSignupOpen
<1> QED
  BY <1>2, <1>3, <1>4, PTL DEF PagesSpec

-----------------------------------------------------------------------------
(* The account page. *)

AccountFields == {"settings", "live", "sends", "cooling", "session"}
ViewFields ==
  {"me", "loadError", "left", "editing", "removing", "address", "codeSentTo", "code", "cooldown"}
Boxes == [enabled : BOOLEAN, keep : BOOLEAN]

OpsOf(p) ==
  CASE p = "load" -> {"load"} [] p = "email" -> {"send", "verify", "remove"}
    [] p = "redirect" -> {"redirect"}

SettingsTyped == DOMAIN account = AccountFields /\ account.settings \in Account!Settings

ViewTyped ==
  /\ DOMAIN view = ViewFields /\ view.me \in Account!Settings \cup {Null}
  /\ view.address \in Addresses \cup {""} /\ view.codeSentTo \in Addresses \cup {""}

BoxesTyped ==
  /\ boxes \in Boxes \cup {Null}
  /\ view.me # Null /\ view.me.external # Null => boxes \in Boxes

CallsTyped ==
  /\ DOMAIN account_calls = Account!Panels
  /\ \A p \in Account!Panels :
       account_calls[p] # Null => account_calls[p] \in Account!Requests /\ account_calls[p].op \in OpsOf(p)

(* An answer on its way that carries settings. *)
Carries(p) ==
  account_calls[p] # Null /\ account_calls[p].at = "answered" /\ account_calls[p].answer.ok /\ account_calls[p].op # "send"

(* Settings with the newest version are the newest ones; those a change of *)
(* the redirect is answered with are the ones it asked for.                *)
NotNewer(me, newest) ==
  /\ me \in Account!Settings
  /\ me.version <= newest.version /\ (me.version = newest.version => me = newest)

Versions ==
  /\ \A p \in Account!Panels : Carries(p) => NotNewer(account_calls[p].answer.me, account.settings)
  /\ view.me # Null => NotNewer(view.me, account.settings)

AsAsked ==
  Carries("redirect") =>
    /\ account_calls["redirect"].answer.me.enabled = account_calls["redirect"].enabled
    /\ account_calls["redirect"].answer.me.keep = account_calls["redirect"].keep

(* The newest settings are shown or on their way. *)
Newest(p) == Carries(p) /\ account_calls[p].answer.me = account.settings

NewestKnown ==
  \/ /\ view.me = Null /\ account_calls["email"] = Null /\ account_calls["redirect"] = Null
     /\ Carries("load") => Newest("load")
  \/ /\ view.me # Null /\ account_calls["load"] = Null
     /\ view.me = account.settings \/ Newest("email") \/ Newest("redirect")

LatestKnown == amiss \subseteq {"refused"} /\ ~view.loadError /\ ~view.left => NewestKnown

(* While a change of the redirect is under way a box may be ahead of `me`. *)
BoxesFollow ==
  amiss \subseteq {"elsewhere", "crossed"} /\ view.me # Null /\ view.me.external # Null =>
    IF account_calls["redirect"] = Null
    THEN boxes.enabled = view.me.enabled /\ boxes.keep = view.me.keep
    ELSE /\ boxes.enabled \in {view.me.enabled, account_calls["redirect"].enabled}
         /\ boxes.keep \in {view.me.keep, account_calls["redirect"].keep}

VerifiedTrue ==
  account_calls["email"] # Null =>
    /\ account_calls["email"].op \in {"send", "verify"} => view.editing
    /\ account_calls["email"].op = "verify" => account_calls["email"].address = view.address

AccountTyped == SettingsTyped /\ ViewTyped /\ BoxesTyped /\ CallsTyped

AccountInv ==
  AccountTyped /\ Versions /\ AsAsked /\ LatestKnown /\ BoxesFollow /\ VerifiedTrue

LEMMA PanelNames == Account!Panels = {"load", "email", "redirect"}
BY DEF Account!Panels

WhenAccountOpen == component = "account" => AccountInv

LEMMA AccountInvInit == Account!NInit => AccountInv
<1> SUFFICES ASSUME Account!NInit PROVE AccountInv
  OBVIOUS
<1>1. PICK external \in {Null} \cup (Addresses \ OthersAddresses), enabled \in BOOLEAN :
        account = [settings |-> [external |-> external, enabled |-> enabled,
                                 keep |-> TRUE, version |-> 0],
                   live |-> Null, sends |-> 0, cooling |-> FALSE, session |-> TRUE]
  BY DEF Account!NInit
<1>2. SettingsTyped
  BY <1>1 DEF SettingsTyped, AccountFields, Account!Settings
<1>3. ViewTyped /\ view.me = Null
  BY DEF Account!NInit, ViewTyped, ViewFields
<1>4. BoxesTyped
  BY <1>3 DEF Account!NInit, BoxesTyped
<1>5. DOMAIN account_calls = Account!Panels /\ account_calls["email"] = Null /\ account_calls["redirect"] = Null
      /\ account_calls["load"] = [op |-> "load", at |-> "sent", answer |-> Null]
  BY DEF Account!NInit, Account!Panels
<1>6. CallsTyped
  <2>1. account_calls["load"] \in Account!Requests
    BY <1>5 DEF Account!Requests, Account!Stages, Account!Answers
  <2>2. account_calls["load"].op \in OpsOf("load")
    BY <1>5 DEF OpsOf
  <2> QED
    BY <1>5, <2>1, <2>2, PanelNames DEF CallsTyped
<1>7. \A p \in Account!Panels : ~Carries(p)
  BY <1>5, PanelNames DEF Carries
<1>8. ~Carries("load") /\ ~Carries("redirect")
  BY <1>7, PanelNames
<1>9. Versions /\ AsAsked /\ NewestKnown /\ BoxesFollow /\ VerifiedTrue
  BY <1>3, <1>5, <1>7, <1>8 DEF Versions, AsAsked, NewestKnown, BoxesFollow, VerifiedTrue
<1> QED
  BY <1>2, <1>3, <1>4, <1>6, <1>9 DEF AccountInv, AccountTyped, LatestKnown

(* What the user does without calling anything. *)
LEMMA LocalStep ==
  ASSUME AccountInv, UNCHANGED <<account, boxes, account_calls, amiss>>,
         DOMAIN view' = ViewFields, view'.me = view.me,
         view'.address \in Addresses \cup {""}, view'.codeSentTo \in Addresses \cup {""},
         view.loadError => view'.loadError, view.left => view'.left,
         \/ view'.editing = view.editing /\ view'.address = view.address
         \/ account_calls["email"] = Null
         \/ ~view.editing
  PROVE  AccountInv'
<1>1. AccountTyped'
  BY DEF AccountInv, AccountTyped, SettingsTyped, ViewTyped, BoxesTyped, CallsTyped
<1>2. Versions' /\ AsAsked'
  BY DEF AccountInv, Versions, AsAsked, Carries
<1>3. LatestKnown'
  BY DEF AccountInv, LatestKnown, NewestKnown, Carries, Newest
<1>4. BoxesFollow'
  BY DEF AccountInv, BoxesFollow
<1>5. VerifiedTrue'
  <2>1. account_calls["email"] # Null /\ account_calls["email"].op \in {"send", "verify"} => view.editing
    BY DEF AccountInv, VerifiedTrue
  <2> QED
    BY <2>1 DEF AccountInv, VerifiedTrue
<1> QED
  BY <1>1, <1>2, <1>3, <1>4, <1>5 DEF AccountInv

LEMMA LocalSteps ==
  ASSUME AccountInv,
         \/ Account!startEditing \/ Account!startRemoving \/ Account!Cancel \/ Account!CooldownEnds
         \/ \E address \in Addresses \cup {""} : Account!TypeAddress(address)
  PROVE  AccountInv'
<1>1. /\ DOMAIN view = ViewFields
      /\ view.address \in Addresses \cup {""} /\ view.codeSentTo \in Addresses \cup {""}
  BY DEF AccountInv, AccountTyped, ViewTyped
<1>2. UNCHANGED <<account, boxes, account_calls, amiss>>
  BY DEF Account!startEditing, Account!startRemoving, Account!Cancel, Account!CooldownEnds,
         Account!TypeAddress
<1>3. CASE Account!startEditing
  <2>1. /\ ~view.editing
        /\ view' = [view EXCEPT !.editing = TRUE, !.address = "", !.codeSentTo = "",
                          !.code = Account!NoCode]
    BY <1>3 DEF Account!startEditing
  <2> QED
    BY <1>1, <1>2, <2>1, LocalStep DEF ViewFields
<1>4. CASE Account!startRemoving
  <2>1. view' = [view EXCEPT !.removing = TRUE]
    BY <1>4 DEF Account!startRemoving
  <2> QED
    BY <1>1, <1>2, <2>1, LocalStep DEF ViewFields
<1>5. CASE Account!Cancel
  <2>1. account_calls["email"] = Null
    BY <1>5 DEF Account!Cancel, Account!emailBusy
  <2>2. view' = [view EXCEPT !.editing = FALSE] \/ view' = [view EXCEPT !.removing = FALSE]
    BY <1>5 DEF Account!Cancel
  <2> QED
    BY <1>1, <1>2, <2>1, <2>2, LocalStep DEF ViewFields
<1>6. CASE Account!CooldownEnds
  <2>1. view' = [view EXCEPT !.cooldown = FALSE]
    BY <1>6 DEF Account!CooldownEnds
  <2> QED
    BY <1>1, <1>2, <2>1, LocalStep DEF ViewFields
<1>7. ASSUME NEW address \in Addresses \cup {""}, Account!TypeAddress(address) PROVE AccountInv'
  <2>1. account_calls["email"] = Null /\ view' = [view EXCEPT !.address = address]
    BY <1>7 DEF Account!TypeAddress, Account!emailBusy
  <2> QED
    BY <1>1, <1>2, <2>1, LocalStep DEF ViewFields
<1> QED
  BY <1>3, <1>4, <1>5, <1>6, <1>7

LEMMA SignOutStep == ASSUME AccountInv, Account!signOut PROVE AccountInv'
<1>1. DOMAIN view = ViewFields /\ DOMAIN account = AccountFields
  BY DEF AccountInv, AccountTyped, ViewTyped, SettingsTyped
<1>2. /\ view' = [view EXCEPT !.left = TRUE] /\ account' = [account EXCEPT !.session = FALSE]
      /\ UNCHANGED <<boxes, account_calls, amiss>>
  BY DEF Account!signOut
<1>3. /\ DOMAIN view' = ViewFields /\ view'.left /\ view'.me = view.me
      /\ view'.address = view.address /\ view'.codeSentTo = view.codeSentTo
      /\ view'.editing = view.editing
  BY <1>1, <1>2 DEF ViewFields
<1>4. DOMAIN account' = AccountFields /\ account'.settings = account.settings
  BY <1>1, <1>2 DEF AccountFields
<1>5. AccountTyped'
  BY <1>2, <1>3, <1>4 DEF AccountInv, AccountTyped, SettingsTyped, ViewTyped, BoxesTyped, CallsTyped
<1>6. Versions' /\ AsAsked'
  BY <1>2, <1>3, <1>4 DEF AccountInv, Versions, AsAsked, Carries
<1>7. LatestKnown' /\ BoxesFollow' /\ VerifiedTrue'
  BY <1>2, <1>3 DEF AccountInv, LatestKnown, BoxesFollow, VerifiedTrue
<1> QED
  BY <1>5, <1>6, <1>7 DEF AccountInv

(* A call is made. *)
LEMMA CalledOne ==
  ASSUME CallsTyped, NEW p \in Account!Panels, NEW request, Account!Call(p, request),
         request = Null \/ (request \in Account!Requests /\ request.op \in OpsOf(p))
  PROVE  /\ CallsTyped'
         /\ account_calls'[p] = request
         /\ \A q \in Account!Panels : q # p => account_calls'[q] = account_calls[q]
<1>1. account_calls' = [account_calls EXCEPT ![p] = request] /\ DOMAIN account_calls = Account!Panels
  BY DEF Account!Call, CallsTyped
<1>2. /\ DOMAIN account_calls' = Account!Panels /\ account_calls'[p] = request
      /\ \A q \in Account!Panels : q # p => account_calls'[q] = account_calls[q]
  BY <1>1
<1>3. ASSUME NEW q \in Account!Panels, account_calls'[q] # Null
      PROVE  account_calls'[q] \in Account!Requests /\ account_calls'[q].op \in OpsOf(q)
  <2>1. CASE q = p
    BY <1>2, <1>3, <2>1
  <2>2. CASE q # p
    BY <1>2, <1>3, <2>2 DEF CallsTyped
  <2> QED
    BY <2>1, <2>2
<1>4. CallsTyped'
  BY <1>2, <1>3 DEF CallsTyped
<1> QED
  BY <1>2, <1>4

LEMMA EmailCallStep ==
  ASSUME AccountInv, NEW request \in Account!Requests,
         request.op \in {"send", "verify", "remove"}, request.at = "sent",
         Account!Call("email", request), account_calls["email"] = Null, view.me # Null,
         UNCHANGED <<account, boxes, amiss>>,
         DOMAIN view' = ViewFields, view'.me = view.me, view'.address = view.address,
         view'.codeSentTo = view.codeSentTo, view'.editing = view.editing,
         view'.loadError = view.loadError, view'.left = view.left,
         request.op \in {"send", "verify"} => view.editing,
         request.op = "verify" => request.address = view.address
  PROVE  AccountInv'
<1>1. /\ CallsTyped' /\ account_calls'["email"] = request
      /\ account_calls'["load"] = account_calls["load"] /\ account_calls'["redirect"] = account_calls["redirect"]
  <2>1. "email" \in Account!Panels /\ request.op \in OpsOf("email")
    BY PanelNames DEF OpsOf
  <2>2. CallsTyped
    BY DEF AccountInv, AccountTyped
  <2> QED
    BY <2>1, <2>2, CalledOne, PanelNames
<1>2. /\ ~Carries("email") /\ ~Carries("email")'
      /\ Carries("load")' <=> Carries("load")
      /\ Carries("redirect")' <=> Carries("redirect")
  BY <1>1 DEF Carries
<1>3. AccountTyped'
  BY <1>1 DEF AccountInv, AccountTyped, SettingsTyped, ViewTyped, BoxesTyped
<1>4. Versions' /\ AsAsked'
  BY <1>1, <1>2, PanelNames DEF AccountInv, Versions, AsAsked
<1>5. LatestKnown'
  BY <1>1, <1>2 DEF AccountInv, LatestKnown, NewestKnown, Newest
<1>6. BoxesFollow' /\ VerifiedTrue'
  BY <1>1 DEF AccountInv, BoxesFollow, VerifiedTrue
<1> QED
  BY <1>3, <1>4, <1>5, <1>6 DEF AccountInv

LEMMA EmailCallSteps ==
  ASSUME AccountInv,
         \/ Account!sendCode
         \/ \E code \in 0..MaxSends : Account!verify(code)
         \/ \E right \in BOOLEAN : Account!remove(right)
  PROVE  AccountInv'
<1>1. /\ DOMAIN view = ViewFields
      /\ view.address \in Addresses \cup {""} /\ view.codeSentTo \in Addresses \cup {""}
  BY DEF AccountInv, AccountTyped, ViewTyped
<1>2. account_calls["email"] = Null /\ view.me # Null /\ UNCHANGED <<account, boxes, amiss>>
  BY DEF Account!sendCode, Account!verify, Account!remove, Account!emailBusy, Account!Shown
<1>3. CASE Account!sendCode
  <2> DEFINE request == [op |-> "send", address |-> view.address, at |-> "sent", answer |-> Null]
  <2>1. view.editing /\ Account!Call("email", request) /\ UNCHANGED view
    BY <1>3 DEF Account!sendCode
  <2>2. request \in Account!Requests /\ request.op = "send" /\ request.at = "sent"
    BY <1>1 DEF Account!Requests, Account!Stages, Account!Answers
  <2> HIDE DEF request
  <2> QED
    BY <1>1, <1>2, <2>1, <2>2, EmailCallStep
<1>4. ASSUME NEW code \in 0..MaxSends, Account!verify(code) PROVE AccountInv'
  <2> DEFINE request == [op |-> "verify", address |-> view.codeSentTo, code |-> code,
                         at |-> "sent", answer |-> Null]
  <2>1. /\ view.editing /\ view.codeSentTo = view.address /\ Account!Call("email", request)
        /\ view' = [view EXCEPT !.code = code]
    BY <1>4 DEF Account!verify, Account!CodeBoxes
  <2>2. /\ request \in Account!Requests /\ request.op = "verify" /\ request.at = "sent"
        /\ request.address = view.address
    <3>1. code \in Int
      OBVIOUS
    <3> QED
      BY <1>1, <2>1, <3>1 DEF Account!Requests, Account!Stages, Account!Answers
  <2>3. /\ DOMAIN view' = ViewFields /\ view'.me = view.me /\ view'.address = view.address
        /\ view'.codeSentTo = view.codeSentTo /\ view'.editing = view.editing
        /\ view'.loadError = view.loadError /\ view'.left = view.left
    BY <1>1, <2>1 DEF ViewFields
  <2> HIDE DEF request
  <2> QED
    BY <1>2, <2>1, <2>2, <2>3, EmailCallStep
<1>5. ASSUME NEW right \in BOOLEAN, Account!remove(right) PROVE AccountInv'
  <2> DEFINE request == [op |-> "remove", right |-> right, at |-> "sent", answer |-> Null]
  <2>1. Account!Call("email", request) /\ UNCHANGED view
    BY <1>5 DEF Account!remove
  <2>2. request \in Account!Requests /\ request.op = "remove" /\ request.at = "sent"
    BY DEF Account!Requests, Account!Stages, Account!Answers
  <2> HIDE DEF request
  <2> QED
    BY <1>1, <1>2, <2>1, <2>2, EmailCallStep
<1> QED
  BY <1>3, <1>4, <1>5

LEMMA RedirectCallStep ==
  ASSUME Account!AccountAssumption, AccountInv,
         NEW box \in {"enabled", "keep"}, Account!setRedirect(box)
  PROVE  AccountInv'
<1> DEFINE clicked == [boxes EXCEPT ![box] = ~@]
           request == [op |-> "redirect",
                       enabled |-> box = "keep" \/ clicked.enabled,
                       keep |-> IF box = "keep" THEN clicked.keep ELSE view.me.keep,
                       at |-> "sent", answer |-> Null]
<1>1. /\ view.me # Null /\ view.me.external # Null /\ account_calls["redirect"] = Null
      /\ box = "keep" => view.me.enabled
      /\ boxes' = clicked /\ Account!Call("redirect", request)
      /\ UNCHANGED <<account, view, amiss>>
  BY DEF Account!setRedirect, Account!Shown, Account!redirectBusy
<1>2. boxes \in Boxes /\ view.me \in Account!Settings
  BY <1>1 DEF AccountInv, AccountTyped, BoxesTyped, ViewTyped
<1>3. view.me.enabled \in BOOLEAN /\ view.me.keep \in BOOLEAN
  BY <1>2 DEF Account!Settings
<1>4. /\ clicked \in Boxes
      /\ box = "enabled" => clicked.keep = boxes.keep
      /\ box = "keep" => clicked.enabled = boxes.enabled
  BY <1>2 DEF Boxes
<1>5. clicked.enabled \in BOOLEAN /\ clicked.keep \in BOOLEAN
  BY <1>4 DEF Boxes
<1>6. /\ request \in Account!Requests /\ request.op = "redirect" /\ request.at = "sent"
      /\ request.enabled = (box = "keep" \/ clicked.enabled)
      /\ request.keep = IF box = "keep" THEN clicked.keep ELSE view.me.keep
  BY <1>3, <1>5 DEF Account!Requests, Account!Stages, Account!Answers
<1> HIDE DEF clicked, request
<1>7. /\ CallsTyped' /\ account_calls'["redirect"] = request
      /\ account_calls'["load"] = account_calls["load"] /\ account_calls'["email"] = account_calls["email"]
  <2>1. "redirect" \in Account!Panels /\ request.op \in OpsOf("redirect")
    BY <1>6, PanelNames DEF OpsOf
  <2>2. CallsTyped
    BY DEF AccountInv, AccountTyped
  <2> QED
    BY <1>1, <1>6, <2>1, <2>2, CalledOne, PanelNames
<1>8. /\ ~Carries("redirect") /\ ~Carries("redirect")'
      /\ Carries("load")' <=> Carries("load")
      /\ Carries("email")' <=> Carries("email")
  BY <1>1, <1>6, <1>7 DEF Carries
<1>9. AccountTyped'
  BY <1>1, <1>4, <1>7 DEF AccountInv, AccountTyped, SettingsTyped, ViewTyped, BoxesTyped
<1>10. Versions' /\ AsAsked'
  BY <1>1, <1>7, <1>8, PanelNames DEF AccountInv, Versions, AsAsked
<1>11. LatestKnown'
  BY <1>1, <1>7, <1>8 DEF AccountInv, LatestKnown, NewestKnown, Newest
<1>12. VerifiedTrue'
  BY <1>1, <1>7 DEF AccountInv, VerifiedTrue
<1>13. BoxesFollow'
  <2> SUFFICES ASSUME amiss \subseteq {"elsewhere", "crossed"}
               PROVE  /\ clicked.enabled \in {view.me.enabled, request.enabled}
                      /\ clicked.keep \in {view.me.keep, request.keep}
    <3>1. request # Null
      BY <1>6 DEF Account!AccountAssumption
    <3> QED
      BY <1>1, <1>7, <3>1 DEF BoxesFollow
  <2>1. boxes.enabled = view.me.enabled /\ boxes.keep = view.me.keep
    BY <1>1 DEF AccountInv, BoxesFollow
  <2>2. CASE box = "enabled"
    BY <1>4, <1>5, <1>6, <2>1, <2>2
  <2>3. CASE box = "keep"
    BY <1>4, <1>5, <1>6, <2>1, <2>3
  <2> QED
    BY <2>2, <2>3
<1> QED
  BY <1>9, <1>10, <1>11, <1>12, <1>13 DEF AccountInv

LEMMA RetryStep == ASSUME AccountInv, Account!Retry PROVE AccountInv'
<1> DEFINE request == [op |-> "load", at |-> "sent", answer |-> Null]
<1>1. /\ view.loadError /\ account_calls["load"] = Null /\ Account!Call("load", request)
      /\ UNCHANGED <<account, view, boxes, amiss>>
  BY DEF Account!Retry
<1>2. request \in Account!Requests /\ request.op \in OpsOf("load") /\ request.at = "sent"
  BY DEF Account!Requests, Account!Stages, Account!Answers, OpsOf
<1> HIDE DEF request
<1>3. /\ CallsTyped' /\ account_calls'["load"] = request
      /\ account_calls'["email"] = account_calls["email"] /\ account_calls'["redirect"] = account_calls["redirect"]
  <2>1. CallsTyped
    BY DEF AccountInv, AccountTyped
  <2> QED
    BY <1>1, <1>2, <2>1, CalledOne, PanelNames
<1>4. /\ ~Carries("load")'
      /\ Carries("email")' <=> Carries("email")
      /\ Carries("redirect")' <=> Carries("redirect")
  BY <1>2, <1>3 DEF Carries
<1>5. AccountTyped'
  BY <1>1, <1>3 DEF AccountInv, AccountTyped, SettingsTyped, ViewTyped, BoxesTyped
<1>6. Versions' /\ AsAsked'
  BY <1>1, <1>3, <1>4, PanelNames DEF AccountInv, Versions, AsAsked
<1>7. LatestKnown' /\ BoxesFollow' /\ VerifiedTrue'
  BY <1>1, <1>3 DEF AccountInv, LatestKnown, BoxesFollow, VerifiedTrue
<1> QED
  BY <1>5, <1>6, <1>7 DEF AccountInv

(* The server answers. *)
IsAnswered(c, answer, d) == d = [c EXCEPT !.at = "answered", !.answer = answer]

LEMMA AnswerKeeps ==
  ASSUME NEW c \in Account!Requests, NEW answer \in Account!Answers, NEW d,
         IsAnswered(c, answer, d)
  PROVE  /\ d \in Account!Requests
         /\ d.op = c.op /\ d.at = "answered" /\ d.answer = answer
         /\ c.op = "verify" => d.address = c.address
         /\ c.op = "redirect" => d.enabled = c.enabled /\ d.keep = c.keep
<1>1. CASE c \in [op : {"load"}, at : Account!Stages, answer : Account!Answers]
  <2>1. d \in [op : {"load"}, at : Account!Stages, answer : Account!Answers]
    BY <1>1 DEF IsAnswered, Account!Stages
  <2> QED
    BY <1>1, <2>1 DEF IsAnswered, Account!Requests
<1>2. CASE c \in [op : {"send"}, address : Addresses \cup {""}, at : Account!Stages,
                  answer : Account!Answers]
  <2>1. d \in [op : {"send"}, address : Addresses \cup {""}, at : Account!Stages,
               answer : Account!Answers]
    BY <1>2 DEF IsAnswered, Account!Stages
  <2> QED
    BY <1>2, <2>1 DEF IsAnswered, Account!Requests
<1>3. CASE c \in [op : {"verify"}, address : Addresses \cup {""}, code : Int,
                  at : Account!Stages, answer : Account!Answers]
  <2>1. d \in [op : {"verify"}, address : Addresses \cup {""}, code : Int,
               at : Account!Stages, answer : Account!Answers]
    BY <1>3 DEF IsAnswered, Account!Stages
  <2> QED
    BY <1>3, <2>1 DEF IsAnswered, Account!Requests
<1>4. CASE c \in [op : {"remove"}, right : BOOLEAN, at : Account!Stages, answer : Account!Answers]
  <2>1. d \in [op : {"remove"}, right : BOOLEAN, at : Account!Stages, answer : Account!Answers]
    BY <1>4 DEF IsAnswered, Account!Stages
  <2> QED
    BY <1>4, <2>1 DEF IsAnswered, Account!Requests
<1>5. CASE c \in [op : {"redirect"}, enabled : BOOLEAN, keep : BOOLEAN, at : Account!Stages,
                  answer : Account!Answers]
  <2>1. d \in [op : {"redirect"}, enabled : BOOLEAN, keep : BOOLEAN, at : Account!Stages,
               answer : Account!Answers]
    BY <1>5 DEF IsAnswered, Account!Stages
  <2> QED
    BY <1>5, <2>1 DEF IsAnswered, Account!Requests
<1> QED
  BY <1>1, <1>2, <1>3, <1>4, <1>5 DEF Account!Requests

LEMMA AnsweredOne ==
  ASSUME CallsTyped, NEW p \in Account!Panels, Account!Under(p),
         NEW answer \in Account!Answers, Account!Answer(p, answer)
  PROVE  /\ CallsTyped'
         /\ account_calls[p] # Null /\ account_calls[p] \in Account!Requests /\ account_calls[p].at = "sent"
         /\ account_calls'[p] \in Account!Requests
         /\ account_calls'[p].op = account_calls[p].op /\ account_calls'[p].at = "answered"
         /\ account_calls'[p].answer = answer
         /\ account_calls[p].op = "verify" => account_calls'[p].address = account_calls[p].address
         /\ account_calls[p].op = "redirect" =>
              account_calls'[p].enabled = account_calls[p].enabled /\ account_calls'[p].keep = account_calls[p].keep
         /\ \A q \in Account!Panels : q # p => account_calls'[q] = account_calls[q]
<1>1. /\ account_calls' = [account_calls EXCEPT ![p].at = "answered", ![p].answer = answer]
      /\ DOMAIN account_calls = Account!Panels
      /\ account_calls[p] # Null /\ account_calls[p].at = "sent"
      /\ account_calls[p] \in Account!Requests /\ account_calls[p].op \in OpsOf(p)
  BY DEF Account!Answer, Account!Under, CallsTyped
<1>2. /\ DOMAIN account_calls' = Account!Panels
      /\ account_calls'[p] = [account_calls[p] EXCEPT !.at = "answered", !.answer = answer]
      /\ \A q \in Account!Panels : q # p => account_calls'[q] = account_calls[q]
  BY <1>1
<1>3. /\ account_calls'[p] \in Account!Requests
      /\ account_calls'[p].op = account_calls[p].op /\ account_calls'[p].at = "answered"
      /\ account_calls'[p].answer = answer
      /\ account_calls[p].op = "verify" => account_calls'[p].address = account_calls[p].address
      /\ account_calls[p].op = "redirect" =>
           account_calls'[p].enabled = account_calls[p].enabled /\ account_calls'[p].keep = account_calls[p].keep
  <2> DEFINE c == account_calls[p]  d == account_calls'[p]
  <2>1. c \in Account!Requests /\ IsAnswered(c, answer, d)
    BY <1>1, <1>2 DEF IsAnswered
  <2> HIDE DEF c, d
  <2>2. /\ d \in Account!Requests
        /\ d.op = c.op /\ d.at = "answered" /\ d.answer = answer
        /\ c.op = "verify" => d.address = c.address
        /\ c.op = "redirect" => d.enabled = c.enabled /\ d.keep = c.keep
    BY <2>1, AnswerKeeps
  <2> QED
    BY <2>2 DEF c, d
<1>4. ASSUME NEW q \in Account!Panels, account_calls'[q] # Null
      PROVE  account_calls'[q] \in Account!Requests /\ account_calls'[q].op \in OpsOf(q)
  <2>1. CASE q = p
    BY <1>1, <1>3, <2>1
  <2>2. CASE q # p
    BY <1>2, <1>4, <2>2 DEF CallsTyped
  <2> QED
    BY <2>1, <2>2
<1>5. CallsTyped'
  BY <1>2, <1>4 DEF CallsTyped
<1> QED
  BY <1>1, <1>2, <1>3, <1>5

LEMMA OpsByPanel ==
  ASSUME CallsTyped
  PROVE  /\ account_calls["load"] # Null => account_calls["load"].op = "load"
         /\ account_calls["email"] # Null => account_calls["email"].op \in {"send", "verify", "remove"}
         /\ account_calls["redirect"] # Null => account_calls["redirect"].op = "redirect"
BY PanelNames DEF CallsTyped, OpsOf

LEMMA ServerAnswers ==
  ASSUME Account!AccountAssumption, AccountInv, NEW p \in Account!Panels, Account!Under(p),
         NEW answer \in Account!Answers, Account!Answer(p, answer),
         UNCHANGED <<view, boxes, amiss>>, SettingsTyped',
         \/ /\ account'.settings = account.settings
            /\ answer.ok => account_calls[p].op = "send" \/ answer.me = account.settings
            /\ answer.ok => account_calls[p].op # "redirect"
         \/ /\ answer.me = account'.settings /\ answer.ok
            /\ account'.settings.version = account.settings.version + 1
            /\ account_calls[p].op \in {"verify", "remove", "redirect"}
            /\ account_calls[p].op = "redirect" =>
                 answer.me.enabled = account_calls[p].enabled /\ answer.me.keep = account_calls[p].keep
  PROVE  AccountInv'
<1>1. /\ CallsTyped' /\ account_calls[p] # Null /\ account_calls[p] \in Account!Requests
      /\ account_calls[p].at = "sent"
      /\ account_calls'[p] \in Account!Requests
      /\ account_calls'[p].op = account_calls[p].op /\ account_calls'[p].at = "answered"
      /\ account_calls'[p].answer = answer
      /\ account_calls[p].op = "verify" => account_calls'[p].address = account_calls[p].address
      /\ account_calls[p].op = "redirect" =>
           account_calls'[p].enabled = account_calls[p].enabled /\ account_calls'[p].keep = account_calls[p].keep
      /\ \A q \in Account!Panels : q # p => account_calls'[q] = account_calls[q]
  BY AnsweredOne DEF AccountInv, AccountTyped
<1>2. account_calls'[p] # Null
  BY <1>1 DEF Account!AccountAssumption
<1>3. AccountTyped'
  BY <1>1 DEF AccountInv, AccountTyped, ViewTyped, BoxesTyped
<1>4. CallsTyped
  BY DEF AccountInv, AccountTyped
<1>5. /\ ~Carries(p)
      /\ Carries(p)' <=> (answer.ok /\ account_calls[p].op # "send")
      /\ \A q \in Account!Panels : q # p => (Carries(q)' <=> Carries(q))
  BY <1>1, <1>2 DEF Carries
<1>6. account.settings \in Account!Settings /\ account'.settings \in Account!Settings
  BY DEF AccountInv, AccountTyped, SettingsTyped
<1>7. ASSUME NEW me, NotNewer(me, account.settings) PROVE NotNewer(me, account'.settings)
  <2>1. CASE account'.settings = account.settings
    BY <1>7, <2>1
  <2>2. CASE account'.settings.version = account.settings.version + 1
    <3>1. me \in Account!Settings /\ me.version <= account.settings.version
      BY <1>7 DEF NotNewer
    <3>2. me.version \in Nat /\ account.settings.version \in Nat
      BY <1>6, <3>1 DEF Account!Settings
    <3>3. me.version <= account'.settings.version /\ me.version # account'.settings.version
      BY <2>2, <3>1, <3>2
    <3> QED
      BY <3>1, <3>3 DEF NotNewer
  <2> QED
    BY <2>1, <2>2
<1>8. NotNewer(account'.settings, account'.settings)
  <2>1. account'.settings.version \in Nat
    BY <1>6 DEF Account!Settings
  <2> QED
    BY <1>6, <2>1 DEF NotNewer
<1>9. Versions'
  <2>1. ASSUME NEW q \in Account!Panels, Carries(q)'
        PROVE  NotNewer(account_calls'[q].answer.me, account'.settings)
    <3>1. CASE q = p
      <4>1. answer.me = account'.settings
        BY <1>5, <2>1, <3>1
      <4> QED
        BY <1>1, <1>8, <3>1, <4>1
    <3>2. CASE q # p
      <4>1. account_calls'[q] = account_calls[q] /\ Carries(q)
        BY <1>1, <1>5, <2>1, <3>2
      <4>2. NotNewer(account_calls[q].answer.me, account.settings)
        BY <4>1 DEF AccountInv, Versions
      <4> QED
        BY <1>7, <4>1, <4>2
    <3> QED
      BY <3>1, <3>2
  <2>2. view.me # Null => NotNewer(view.me, account'.settings)
    BY <1>7 DEF AccountInv, Versions
  <2> QED
    BY <2>1, <2>2 DEF Versions
<1>10. AsAsked'
  <2>1. CASE p = "redirect"
    BY <1>1, <1>4, <1>5, <2>1, OpsByPanel DEF AsAsked
  <2>2. CASE p # "redirect"
    BY <1>1, <1>5, <2>2, PanelNames DEF AccountInv, AsAsked
  <2> QED
    BY <2>1, <2>2
<1>11. LatestKnown'
  <2> SUFFICES ASSUME amiss \subseteq {"refused"}, ~view.loadError, ~view.left PROVE NewestKnown'
    BY DEF LatestKnown
  <2>1. NewestKnown
    BY DEF AccountInv, LatestKnown
  <2>2. CASE view.me = Null
    <3>1. /\ account_calls["email"] = Null /\ account_calls["redirect"] = Null /\ p = "load"
          \/ view.me # Null
      BY <1>1, <2>1, PanelNames DEF NewestKnown
    <3>2. account_calls'["email"] = Null /\ account_calls'["redirect"] = Null /\ account_calls[p].op = "load"
      BY <1>1, <1>4, <2>2, <3>1, PanelNames, OpsByPanel
    <3>3. Carries("load")' => Newest("load")'
      BY <1>1, <1>5, <2>2, <3>1, <3>2 DEF Newest
    <3> QED
      BY <2>2, <3>2, <3>3 DEF NewestKnown
  <2>3. CASE view.me # Null
    <3>1. account_calls["load"] = Null /\ p # "load"
      BY <1>1, <2>1, <2>3 DEF NewestKnown
    <3>2. account_calls'["load"] = Null
      BY <1>1, <3>1, PanelNames
    <3>3. CASE account'.settings = account.settings
      <4>1. \A q \in Account!Panels : Newest(q) => Newest(q)'
        BY <1>1, <1>5, <3>3 DEF Newest
      <4> QED
        BY <2>1, <2>3, <3>1, <3>2, <3>3, <4>1, PanelNames DEF NewestKnown
    <3>4. CASE account'.settings # account.settings
      <4>1. Newest(p)'
        BY <1>1, <1>5, <3>4 DEF Newest
      <4> QED
        BY <2>3, <3>1, <3>2, <4>1, PanelNames DEF NewestKnown
    <3> QED
      BY <3>3, <3>4
  <2> QED
    BY <2>2, <2>3
<1>12. BoxesFollow'
  <2>1. CASE p = "redirect"
    <3>1. account_calls[p].op = "redirect"
      BY <1>1, <1>4, <2>1, OpsByPanel
    <3> QED
      BY <1>1, <1>2, <2>1, <3>1 DEF AccountInv, BoxesFollow
  <2>2. CASE p # "redirect"
    BY <1>1, <2>2, PanelNames DEF AccountInv, BoxesFollow
  <2> QED
    BY <2>1, <2>2
<1>13. VerifiedTrue'
  <2>1. CASE p = "email"
    BY <1>1, <2>1 DEF AccountInv, VerifiedTrue
  <2>2. CASE p # "email"
    BY <1>1, <2>2, PanelNames DEF AccountInv, VerifiedTrue
  <2> QED
    BY <2>1, <2>2
<1> QED
  BY <1>3, <1>9, <1>10, <1>11, <1>12, <1>13 DEF AccountInv

LEMMA RefusedStep ==
  ASSUME Account!AccountAssumption, AccountInv, NEW p \in Account!Panels, Account!Under(p),
         NEW why \in Account!Reasons, Account!Refuse(p, why), UNCHANGED <<view, boxes, amiss>>
  PROVE  AccountInv'
<1> DEFINE answer == [ok |-> FALSE, why |-> why]
<1>1. answer \in Account!Answers /\ answer.ok = FALSE
  BY DEF Account!Answers
<1>2. Account!Answer(p, answer) /\ UNCHANGED account
  BY DEF Account!Refuse
<1>3. SettingsTyped'
  BY <1>2 DEF AccountInv, AccountTyped, SettingsTyped
<1> HIDE DEF answer
<1> QED
  BY <1>1, <1>2, <1>3, ServerAnswers

(* What is served is stored and answered with. *)
LEMMA ServedStep ==
  ASSUME Account!AccountAssumption, AccountInv, NEW p \in Account!Panels, Account!Under(p),
         account_calls[p].op \in {"verify", "remove", "redirect"},
         NEW new \in Account!Settings, new.version = account.settings.version + 1,
         account_calls[p].op = "redirect" => new.enabled = account_calls[p].enabled /\ new.keep = account_calls[p].keep,
         Account!Answer(p, [ok |-> TRUE, me |-> new]),
         DOMAIN account' = AccountFields, account'.settings = new,
         UNCHANGED <<view, boxes, amiss>>
  PROVE  AccountInv'
<1> DEFINE answer == [ok |-> TRUE, me |-> new]
<1>1. answer \in Account!Answers /\ answer.ok = TRUE /\ answer.me = new
  BY DEF Account!Answers
<1>2. Account!Answer(p, answer)
  OBVIOUS
<1>3. SettingsTyped'
  BY DEF SettingsTyped
<1> HIDE DEF answer
<1> QED
  BY <1>1, <1>2, <1>3, ServerAnswers

LEMMA SettingsChanged ==
  ASSUME NEW s \in Account!Settings, NEW v \in Nat
  PROVE  /\ [s EXCEPT !.version = v] \in Account!Settings
         /\ [s EXCEPT !.version = v].version = v
         /\ [s EXCEPT !.version = v].enabled = s.enabled
         /\ [s EXCEPT !.version = v].keep = s.keep
         /\ [s EXCEPT !.enabled = FALSE, !.version = v] \in Account!Settings
         /\ [s EXCEPT !.enabled = FALSE, !.version = v].version = v
         /\ \A e \in Addresses \cup {""} :
              /\ [s EXCEPT !.external = e, !.version = v] \in Account!Settings
              /\ [s EXCEPT !.external = e, !.version = v].version = v
BY DEF Account!Settings

LEMMA HandleStep ==
  ASSUME Account!AccountAssumption, AccountInv, NEW p \in Account!Panels, Account!Handle(p)
  PROVE  AccountInv'
<1> DEFINE c == account_calls[p]  s == account.settings
<1>1. Account!Under(p) /\ UNCHANGED <<view, boxes, amiss>>
  BY DEF Account!Handle
<1>2. DOMAIN account = AccountFields /\ s \in Account!Settings
  BY DEF AccountInv, AccountTyped, SettingsTyped
<1>3. DOMAIN s = {"external", "enabled", "keep", "version"} /\ s.version \in Nat
  BY <1>2 DEF Account!Settings
<1>4. c \in Account!Requests /\ c # Null
  BY <1>1 DEF Account!Under, AccountInv, AccountTyped, CallsTyped
<1>5. \/ \E why \in Account!Reasons : Account!Refuse(p, why)
      \/ c.op = "load" /\ Account!Answer(p, [ok |-> TRUE, me |-> s]) /\ UNCHANGED account
      \/ /\ c.op = "send" /\ Account!Answer(p, [ok |-> TRUE, me |-> Null])
         /\ account' = [account EXCEPT !.sends = @ + 1, !.cooling = TRUE,
                          !.live = [address |-> c.address, code |-> account.sends + 1]]
      \/ /\ c.op = "verify"
         /\ account' = [account EXCEPT
              !.settings = [s EXCEPT !.external = c.address, !.version = s.version + 1],
              !.live = Null]
         /\ Account!Answer(p, [ok |-> TRUE,
              me |-> [s EXCEPT !.external = c.address, !.version = s.version + 1]])
      \/ /\ c.op = "remove"
         /\ Account!Serve(p, [s EXCEPT !.external = Null, !.enabled = FALSE])
      \/ /\ c.op = "redirect"
         /\ Account!Serve(p, [s EXCEPT !.enabled = c.enabled, !.keep = c.keep])
  <2> SUFFICES ASSUME ~\E why \in Account!Reasons : Account!Refuse(p, why)
               PROVE  \/ c.op = "load" /\ Account!Answer(p, [ok |-> TRUE, me |-> s]) /\ UNCHANGED account
                      \/ /\ c.op = "send" /\ Account!Answer(p, [ok |-> TRUE, me |-> Null])
                         /\ account' = [account EXCEPT !.sends = @ + 1, !.cooling = TRUE,
                              !.live = [address |-> c.address, code |-> account.sends + 1]]
                      \/ /\ c.op = "verify"
                         /\ account' = [account EXCEPT
                              !.settings = [s EXCEPT !.external = c.address,
                                                     !.version = s.version + 1],
                              !.live = Null]
                         /\ Account!Answer(p, [ok |-> TRUE,
                              me |-> [s EXCEPT !.external = c.address,
                                               !.version = s.version + 1]])
                      \/ /\ c.op = "remove"
                         /\ Account!Serve(p, [s EXCEPT !.external = Null, !.enabled = FALSE])
                      \/ /\ c.op = "redirect"
                         /\ Account!Serve(p, [s EXCEPT !.enabled = c.enabled, !.keep = c.keep])
    OBVIOUS
  <2>1. /\ ~Account!Refuse(p, "not_signed_in") /\ ~Account!Refuse(p, "server_error")
        /\ ~Account!Refuse(p, "email_unchanged") /\ ~Account!Refuse(p, "email_taken")
        /\ ~Account!Refuse(p, "code_cooldown") /\ ~Account!Refuse(p, "code_limit")
        /\ ~Account!Refuse(p, "code_invalid") /\ ~Account!Refuse(p, "password_wrong")
        /\ ~Account!Refuse(p, "no_external_email")
    BY DEF Account!Reasons
  <2> QED
    BY <2>1 DEF Account!Handle
<1>6. ASSUME NEW why \in Account!Reasons, Account!Refuse(p, why) PROVE AccountInv'
  BY <1>1, <1>6, RefusedStep
<1>7. CASE c.op = "load" /\ Account!Answer(p, [ok |-> TRUE, me |-> s]) /\ UNCHANGED account
  <2> DEFINE answer == [ok |-> TRUE, me |-> s]
  <2>1. answer \in Account!Answers /\ answer.me = s
    BY <1>2 DEF Account!Answers
  <2>2. Account!Answer(p, answer) /\ SettingsTyped' /\ account_calls[p].op # "redirect"
    BY <1>7 DEF AccountInv, AccountTyped, SettingsTyped
  <2> HIDE DEF answer
  <2> QED
    BY <1>1, <1>7, <2>1, <2>2, ServerAnswers
<1>8. CASE /\ c.op = "send" /\ Account!Answer(p, [ok |-> TRUE, me |-> Null])
           /\ account' = [account EXCEPT !.sends = @ + 1, !.cooling = TRUE,
                            !.live = [address |-> c.address, code |-> account.sends + 1]]
  <2> DEFINE answer == [ok |-> TRUE, me |-> Null]
  <2>1. answer \in Account!Answers
    BY DEF Account!Answers
  <2>2. account'.settings = s /\ DOMAIN account' = AccountFields
    BY <1>2, <1>8 DEF AccountFields
  <2>3. Account!Answer(p, answer) /\ SettingsTyped' /\ account_calls[p].op = "send"
    BY <1>2, <1>8, <2>2 DEF SettingsTyped
  <2> HIDE DEF answer
  <2> QED
    BY <1>1, <2>1, <2>2, <2>3, ServerAnswers
<1>9. CASE /\ c.op = "verify"
           /\ account' = [account EXCEPT
                !.settings = [s EXCEPT !.external = c.address, !.version = s.version + 1],
                !.live = Null]
           /\ Account!Answer(p, [ok |-> TRUE,
                me |-> [s EXCEPT !.external = c.address, !.version = s.version + 1]])
  <2> DEFINE new == [s EXCEPT !.external = c.address, !.version = s.version + 1]
  <2>1. c.address \in Addresses \cup {""}
    BY <1>4, <1>9 DEF Account!Requests
  <2>2. new \in Account!Settings /\ new.version = s.version + 1
    <3>1. s.version + 1 \in Nat
      BY <1>3
    <3> QED
      BY <1>2, <2>1, <3>1, SettingsChanged, ZenonT(60)
  <2>3. account'.settings = new /\ DOMAIN account' = AccountFields
    BY <1>2, <1>9 DEF AccountFields
  <2>4. Account!Answer(p, [ok |-> TRUE, me |-> new])
    BY <1>9
  <2> HIDE DEF new
  <2> QED
    BY <1>1, <1>9, <2>2, <2>3, <2>4, ServedStep
<1>10. ASSUME NEW changed,
              \/ /\ c.op = "remove" /\ changed = [s EXCEPT !.external = Null, !.enabled = FALSE]
              \/ /\ c.op = "redirect"
                 /\ changed = [s EXCEPT !.enabled = c.enabled, !.keep = c.keep],
              Account!Serve(p, changed)
       PROVE  AccountInv'
  <2> DEFINE new == [changed EXCEPT !.version = s.version + 1]
  <2>1. c.op = "redirect" => c.enabled \in BOOLEAN /\ c.keep \in BOOLEAN
    BY <1>4 DEF Account!Requests
  <2>2. changed \in Account!Settings
    BY <1>2, <1>10, <2>1 DEF Account!Settings
  <2>3. new \in Account!Settings /\ new.version = s.version + 1
        /\ new.enabled = changed.enabled /\ new.keep = changed.keep
    <3>1. s.version + 1 \in Nat
      BY <1>3
    <3> QED
      BY <2>2, <3>1, SettingsChanged
  <2>4. c.op = "redirect" => changed.enabled = c.enabled /\ changed.keep = c.keep
    BY <1>3, <1>10
  <2>5. /\ account' = [account EXCEPT !.settings = new]
        /\ Account!Answer(p, [ok |-> TRUE, me |-> new])
    BY <1>10 DEF Account!Serve
  <2>6. account'.settings = new /\ DOMAIN account' = AccountFields
    BY <1>2, <2>5 DEF AccountFields
  <2>7. c.op \in {"verify", "remove", "redirect"}
    BY <1>10
  <2> HIDE DEF new
  <2> QED
    BY <1>1, <2>3, <2>4, <2>5, <2>6, <2>7, ServedStep
<1> QED
  BY <1>5, <1>6, <1>7, <1>8, <1>9, <1>10

LEMMA ElsewhereStep == ASSUME AccountInv, Account!Elsewhere PROVE AccountInv'
<1>1. /\ DOMAIN account = AccountFields /\ account.settings \in Account!Settings
      /\ UNCHANGED <<view, boxes, account_calls>>
  BY DEF Account!Elsewhere, AccountInv, AccountTyped, SettingsTyped
<1>2. ASSUME SettingsTyped', NEW settings, settings = account'.settings,
             \/ settings = account.settings /\ amiss' = amiss
             \/ /\ settings.version = account.settings.version + 1
                /\ amiss' = amiss \cup {"elsewhere"}
      PROVE  AccountInv'
  <2>1. AccountTyped'
    BY <1>1, <1>2 DEF AccountInv, AccountTyped, ViewTyped, BoxesTyped, CallsTyped
  <2>2. ASSUME NEW me, NotNewer(me, account.settings) PROVE NotNewer(me, settings)
    <3>1. CASE settings = account.settings
      BY <2>2, <3>1
    <3>2. CASE settings.version = account.settings.version + 1
      <4>1. me \in Account!Settings /\ me.version <= account.settings.version
        BY <2>2 DEF NotNewer
      <4>2. me.version \in Nat /\ account.settings.version \in Nat
        BY <1>1, <4>1 DEF Account!Settings
      <4>3. me.version <= settings.version /\ me.version # settings.version
        BY <3>2, <4>1, <4>2
      <4> QED
        BY <4>1, <4>3 DEF NotNewer
    <3> QED
      BY <1>2, <3>1, <3>2
  <2>3. Versions'
    <3>1. ASSUME NEW q \in Account!Panels, Carries(q)
          PROVE  NotNewer(account_calls[q].answer.me, settings)
      <4>1. NotNewer(account_calls[q].answer.me, account.settings)
        BY <3>1 DEF AccountInv, Versions
      <4> QED
        BY <2>2, <4>1
    <3>2. view.me # Null => NotNewer(view.me, settings)
      BY <2>2 DEF AccountInv, Versions
    <3> QED
      BY <1>1, <1>2, <3>1, <3>2 DEF Versions, Carries
  <2>4. AsAsked' /\ BoxesFollow' /\ VerifiedTrue'
    BY <1>1, <1>2 DEF AccountInv, AsAsked, Carries, BoxesFollow, VerifiedTrue
  <2>5. LatestKnown'
    BY <1>1, <1>2 DEF AccountInv, LatestKnown, NewestKnown, Newest, Carries
  <2> QED
    BY <2>1, <2>3, <2>4, <2>5 DEF AccountInv
<1>3. CASE /\ account' = [account EXCEPT !.settings.enabled = FALSE, !.settings.version = @ + 1]
           /\ amiss' = amiss \cup {"elsewhere"}
  <2> DEFINE settings == [account.settings EXCEPT !.enabled = FALSE, !.version = @ + 1]
  <2>1. account' = [account EXCEPT !.settings = settings]
    BY <1>1, <1>3 DEF AccountFields
  <2>2. account.settings.version \in Nat
    BY <1>1 DEF Account!Settings
  <2>3. settings \in Account!Settings /\ settings.version = account.settings.version + 1
    <3>1. account.settings.version + 1 \in Nat
      BY <2>2
    <3>2. settings = [account.settings EXCEPT !.enabled = FALSE,
                                              !.version = account.settings.version + 1]
      BY <1>1 DEF Account!Settings
    <3> QED
      BY <1>1, <3>1, <3>2, SettingsChanged
  <2>4. account'.settings = settings /\ DOMAIN account' = AccountFields
    BY <1>1, <2>1 DEF AccountFields
  <2> HIDE DEF settings
  <2>5. SettingsTyped'
    BY <2>3, <2>4 DEF SettingsTyped
  <2> QED
    BY <1>2, <1>3, <2>3, <2>4, <2>5
<1>4. CASE /\ \/ account' = [account EXCEPT !.session = FALSE]
              \/ account' = [account EXCEPT !.cooling = FALSE]
           /\ amiss' = amiss
  <2>1. account'.settings = account.settings /\ DOMAIN account' = AccountFields
    BY <1>1, <1>4 DEF AccountFields
  <2>2. SettingsTyped'
    BY <1>1, <2>1 DEF SettingsTyped
  <2> QED
    BY <1>2, <1>4, <2>1, <2>2
<1> QED
  BY <1>3, <1>4 DEF Account!Elsewhere

(* An answer arrives, or a call is lost. *)
LEMMA CallGone ==
  ASSUME AccountInv, NEW p \in Account!Panels, Account!Call(p, Null)
  PROVE  /\ CallsTyped' /\ account_calls'[p] = Null
         /\ \A q \in Account!Panels : q # p => account_calls'[q] = account_calls[q]
         /\ ~Carries(p)'
         /\ \A q \in Account!Panels : q # p => (Carries(q)' <=> Carries(q))
<1>1. CallsTyped
  BY DEF AccountInv, AccountTyped
<1> DEFINE request == Null
<1>2. Account!Call(p, request) /\ request = Null
  OBVIOUS
<1> HIDE DEF request
<1>3. /\ CallsTyped' /\ account_calls'[p] = Null
      /\ \A q \in Account!Panels : q # p => account_calls'[q] = account_calls[q]
  BY <1>1, <1>2, CalledOne
<1> QED
  BY <1>3 DEF Carries

LEMMA NothingShown ==
  ASSUME AccountInv, NEW p \in Account!Panels, Account!Call(p, Null),
         UNCHANGED <<account, boxes>>,
         DOMAIN view' = ViewFields, view'.me = view.me, view'.address = view.address,
         view'.codeSentTo \in {view.codeSentTo, view.address}, view'.editing = view.editing,
         view.loadError => view'.loadError, view.left => view'.left,
         amiss \subseteq amiss',
         \/ "lost" \in amiss'
         \/ /\ ~Carries(p)
            /\ p = "load" => view'.loadError \/ view'.left
            /\ p = "redirect" => "refused" \in amiss'
  PROVE  AccountInv'
<1>1. /\ CallsTyped' /\ account_calls'[p] = Null
      /\ \A q \in Account!Panels : q # p => account_calls'[q] = account_calls[q]
      /\ ~Carries(p)'
      /\ \A q \in Account!Panels : q # p => (Carries(q)' <=> Carries(q))
  BY CallGone
<1>2. AccountTyped'
  BY <1>1 DEF AccountInv, AccountTyped, SettingsTyped, ViewTyped, BoxesTyped
<1>3. Versions'
  <2>1. ASSUME NEW q \in Account!Panels, Carries(q)'
        PROVE  NotNewer(account_calls'[q].answer.me, account.settings)
    <3>1. q # p /\ account_calls'[q] = account_calls[q] /\ Carries(q)
      BY <1>1, <2>1
    <3> QED
      BY <3>1 DEF AccountInv, Versions
  <2> QED
    BY <2>1 DEF AccountInv, Versions
<1>4. AsAsked'
  BY <1>1, PanelNames DEF AccountInv, AsAsked
<1>5. LatestKnown'
  <2> SUFFICES ASSUME amiss' \subseteq {"refused"}, ~view'.loadError, ~view'.left PROVE NewestKnown'
    BY DEF LatestKnown
  <2>1. NewestKnown /\ ~Carries(p) /\ p # "load"
    <3>1. "lost" \notin amiss' /\ amiss \subseteq {"refused"}
      OBVIOUS
    <3> QED
      BY <3>1 DEF AccountInv, LatestKnown
  <2>2. \A q \in Account!Panels : Newest(q) => Newest(q)'
    BY <1>1, <2>1 DEF Newest
  <2>3. account_calls'["load"] = account_calls["load"] /\ (Carries("load")' <=> Carries("load"))
    BY <1>1, <2>1, PanelNames
  <2>4. /\ account_calls["email"] = Null => account_calls'["email"] = Null
        /\ account_calls["redirect"] = Null => account_calls'["redirect"] = Null
    BY <1>1, PanelNames
  <2> QED
    BY <2>1, <2>2, <2>3, <2>4, PanelNames DEF NewestKnown
<1>6. BoxesFollow'
  <2> SUFFICES ASSUME amiss' \subseteq {"elsewhere", "crossed"} PROVE BoxesFollow'
    BY DEF BoxesFollow
  <2>1. p # "redirect" /\ amiss \subseteq {"elsewhere", "crossed"}
    OBVIOUS
  <2>2. account_calls'["redirect"] = account_calls["redirect"]
    BY <1>1, <2>1, PanelNames
  <2> QED
    BY <2>1, <2>2 DEF AccountInv, BoxesFollow
<1>7. VerifiedTrue'
  BY <1>1, PanelNames DEF AccountInv, VerifiedTrue
<1> QED
  BY <1>2, <1>3, <1>4, <1>5, <1>6, <1>7 DEF AccountInv

(* Settings that arrive are shown. *)
LEMMA RenderedTyped ==
  ASSUME BoxesTyped, NEW me \in Account!Settings, view.me \in Account!Settings \cup {Null}
  PROVE  /\ Account!Rendered(view.me, me) \in Boxes \cup {Null}
         /\ me.external # Null => Account!Rendered(view.me, me) \in Boxes
<1> USE DEF Boxes
<1>1. me.enabled \in BOOLEAN /\ me.keep \in BOOLEAN
  BY DEF Account!Settings
<1>2. boxes = Null \/ (boxes.enabled \in BOOLEAN /\ boxes.keep \in BOOLEAN)
  BY DEF BoxesTyped
<1> QED
  BY <1>1, <1>2 DEF Account!Rendered

LEMMA SettingsShown ==
  ASSUME Account!AccountAssumption, AccountInv, NEW p \in Account!Panels, Carries(p),
         Account!Call(p, Null), UNCHANGED account,
         NEW new, DOMAIN new = ViewFields, new.address = view.address,
         new.codeSentTo = view.codeSentTo, new.loadError = view.loadError, new.left = view.left,
         p = "email" \/ new.editing = view.editing,
         Account!ShowMe(new, account_calls[p].answer.me)
  PROVE  AccountInv'
<1> DEFINE me == account_calls[p].answer.me
<1>1. /\ CallsTyped' /\ account_calls'[p] = Null
      /\ \A q \in Account!Panels : q # p => account_calls'[q] = account_calls[q]
      /\ ~Carries(p)'
      /\ \A q \in Account!Panels : q # p => (Carries(q)' <=> Carries(q))
  BY CallGone
<1>2. NotNewer(me, account.settings) /\ me \in Account!Settings /\ me # Null
  BY DEF AccountInv, Versions, NotNewer, Account!AccountAssumption
<1>3. /\ view' = [new EXCEPT !.me = me] /\ boxes' = Account!Rendered(view.me, me)
      /\ amiss' = IF view.me # Null /\ me.version < view.me.version
                  THEN amiss \cup {"crossed"} ELSE amiss
  BY DEF Account!ShowMe
<1>4. /\ DOMAIN view' = ViewFields /\ view'.me = me /\ view'.address = view.address
      /\ view'.codeSentTo = view.codeSentTo /\ view'.loadError = view.loadError
      /\ view'.left = view.left /\ view'.editing = new.editing
  BY <1>3 DEF ViewFields
<1>5. AsAsked /\ p = "redirect" => me.enabled = account_calls[p].enabled /\ me.keep = account_calls[p].keep
  BY DEF AsAsked
<1>6. view.me \in Account!Settings \cup {Null} /\ BoxesTyped
  BY DEF AccountInv, AccountTyped, ViewTyped
<1> HIDE DEF me
<1>7. AccountTyped'
  <2>1. boxes' \in Boxes \cup {Null} /\ (me.external # Null => boxes' \in Boxes)
    BY <1>2, <1>3, <1>6, RenderedTyped
  <2>2. BoxesTyped'
    BY <1>4, <2>1 DEF BoxesTyped
  <2> QED
    BY <1>1, <1>2, <1>4, <2>2 DEF AccountInv, AccountTyped, SettingsTyped, ViewTyped
<1>8. Versions'
  <2>1. ASSUME NEW q \in Account!Panels, Carries(q)'
        PROVE  NotNewer(account_calls'[q].answer.me, account.settings)
    <3>1. q # p /\ account_calls'[q] = account_calls[q] /\ Carries(q)
      BY <1>1, <2>1
    <3> QED
      BY <3>1 DEF AccountInv, Versions
  <2> QED
    BY <1>2, <1>4, <2>1 DEF Versions
<1>9. AsAsked'
  BY <1>1, PanelNames DEF AccountInv, AsAsked
<1>10. LatestKnown'
  <2> SUFFICES ASSUME amiss' \subseteq {"refused"}, ~view'.loadError, ~view'.left PROVE NewestKnown'
    BY DEF LatestKnown
  <2>1. NewestKnown /\ (view.me # Null => ~(me.version < view.me.version))
    <3>1. "crossed" \notin amiss'
      OBVIOUS
    <3>2. amiss \subseteq {"refused"} /\ (view.me # Null => ~(me.version < view.me.version))
      BY <1>3, <3>1
    <3> QED
      BY <1>4, <3>2 DEF AccountInv, LatestKnown
  <2>2. account_calls'["load"] = Null
    <3>1. p = "load" \/ account_calls["load"] = Null
      <4>1. p = "load" \/ account_calls[p] = Null \/ account_calls["load"] = Null
        BY <2>1, PanelNames DEF NewestKnown
      <4> QED
        BY <4>1 DEF Carries
    <3> QED
      BY <1>1, <3>1, PanelNames
  <2>3. ASSUME view.me = Null PROVE me = account.settings
    <3>1. p = "load"
      BY <2>1, <2>3, PanelNames DEF NewestKnown, Carries
    <3> QED
      BY <2>1, <2>3, <3>1 DEF NewestKnown, Newest, Carries, me
  <2>4. ASSUME view.me # Null, view.me = account.settings PROVE me = account.settings
    <3>1. me.version \in Nat /\ account.settings.version \in Nat
      BY <1>2 DEF AccountInv, AccountTyped, SettingsTyped, Account!Settings
    <3>2. me.version <= account.settings.version /\ ~(me.version < account.settings.version)
      BY <1>2, <2>1, <2>4 DEF NotNewer
    <3>3. me.version = account.settings.version
      BY <3>1, <3>2
    <3> QED
      BY <1>2, <3>3 DEF NotNewer
  <2>5. \/ me = account.settings
        \/ \E q \in {"email", "redirect"} : q # p /\ Newest(q)
    BY <2>1, <2>3, <2>4 DEF NewestKnown, Newest, me
  <2>6. ASSUME NEW q \in {"email", "redirect"}, q # p, Newest(q) PROVE Newest(q)'
    BY <1>1, <2>6, PanelNames DEF Newest
  <2> QED
    BY <1>2, <1>4, <2>2, <2>5, <2>6 DEF NewestKnown
<1>11. BoxesFollow'
  <2> SUFFICES ASSUME amiss' \subseteq {"elsewhere", "crossed"}, me.external # Null
               PROVE  IF account_calls'["redirect"] = Null
                      THEN boxes'.enabled = me.enabled /\ boxes'.keep = me.keep
                      ELSE /\ boxes'.enabled \in {me.enabled, account_calls'["redirect"].enabled}
                           /\ boxes'.keep \in {me.keep, account_calls'["redirect"].keep}
    BY <1>4 DEF BoxesFollow
  <2>1. amiss \subseteq {"elsewhere", "crossed"}
    BY <1>3
  <2>2. CASE view.me = Null \/ boxes = Null \/ view.me.external = Null
    BY <1>3, <2>2 DEF Account!Rendered
  <2>3. CASE ~(view.me = Null \/ boxes = Null \/ view.me.external = Null)
    <3>1. /\ boxes'.enabled = IF me.enabled # view.me.enabled THEN me.enabled ELSE boxes.enabled
          /\ boxes'.keep = IF me.keep # view.me.keep THEN me.keep ELSE boxes.keep
      BY <1>3, <2>3 DEF Account!Rendered
    <3>2. IF account_calls["redirect"] = Null
          THEN boxes.enabled = view.me.enabled /\ boxes.keep = view.me.keep
          ELSE /\ boxes.enabled \in {view.me.enabled, account_calls["redirect"].enabled}
               /\ boxes.keep \in {view.me.keep, account_calls["redirect"].keep}
      BY <2>1, <2>3 DEF AccountInv, BoxesFollow
    <3>3. CASE p = "redirect"
      <4>1. /\ account_calls'["redirect"] = Null /\ account_calls["redirect"] # Null
            /\ me.enabled = account_calls["redirect"].enabled /\ me.keep = account_calls["redirect"].keep
        BY <1>1, <1>5, <3>3 DEF AccountInv, Carries
      <4> QED
        BY <3>1, <3>2, <4>1
    <3>4. CASE p # "redirect"
      <4>1. account_calls'["redirect"] = account_calls["redirect"]
        BY <1>1, <3>4, PanelNames
      <4> QED
        BY <3>1, <3>2, <4>1
    <3> QED
      BY <3>3, <3>4
  <2> QED
    BY <2>2, <2>3
<1>12. VerifiedTrue'
  <2>1. CASE p = "email"
    BY <1>1, <2>1 DEF VerifiedTrue
  <2>2. CASE p # "email"
    BY <1>1, <1>4, <2>2, PanelNames DEF AccountInv, VerifiedTrue
  <2> QED
    BY <2>1, <2>2
<1> QED
  BY <1>7, <1>8, <1>9, <1>10, <1>11, <1>12 DEF AccountInv

LEMMA ArrivesStep ==
  ASSUME Account!AccountAssumption, AccountInv, NEW p \in Account!Panels, Account!Arrives(p)
  PROVE  AccountInv'
<1> DEFINE c == account_calls[p]
<1>1. /\ c # Null /\ c.at = "answered" /\ Account!Call(p, Null) /\ UNCHANGED account
      /\ DOMAIN view = ViewFields
  BY DEF Account!Arrives, AccountInv, AccountTyped, ViewTyped
<1>2. /\ p = "load" <=> c.op = "load"
      /\ p = "email" <=> c.op \in {"send", "verify", "remove"}
      /\ p = "redirect" <=> c.op = "redirect"
  <2>1. CallsTyped
    BY DEF AccountInv, AccountTyped
  <2> QED
    BY <1>1, <2>1, OpsByPanel, PanelNames
<1>3. CASE ~c.answer.ok
  <2>1. /\ view' = IF c.answer.why = "not_signed_in" THEN [view EXCEPT !.left = TRUE]
                   ELSE [view EXCEPT
                           !.loadError = @ \/ c.op = "load",
                           !.code = IF c.op = "verify" THEN Account!NoCode ELSE @,
                           !.cooldown = @ \/ c.answer.why = "code_cooldown"]
        /\ amiss' = IF c.op = "redirect" THEN amiss \cup {"refused"} ELSE amiss
        /\ UNCHANGED boxes
    BY <1>3 DEF Account!Arrives
  <2>2. /\ DOMAIN view' = ViewFields /\ view'.me = view.me /\ view'.address = view.address
        /\ view'.codeSentTo = view.codeSentTo /\ view'.editing = view.editing
        /\ view.loadError => view'.loadError
        /\ view.left => view'.left
        /\ c.op = "load" => view'.loadError \/ view'.left
    <3>1. CASE c.answer.why = "not_signed_in"
      BY <1>1, <2>1, <3>1 DEF ViewFields
    <3>2. CASE c.answer.why # "not_signed_in"
      BY <1>1, <2>1, <3>2 DEF ViewFields
    <3> QED
      BY <3>1, <3>2
  <2>3. ~Carries(p) /\ amiss \subseteq amiss' /\ (p = "redirect" => "refused" \in amiss')
    BY <1>2, <1>3, <2>1 DEF Carries
  <2> QED
    BY <1>1, <1>2, <2>1, <2>2, <2>3, NothingShown
<1>4. CASE c.answer.ok /\ c.op = "send"
  <2>1. /\ view' = [view EXCEPT !.codeSentTo = view.address, !.code = Account!NoCode,
                                !.cooldown = TRUE]
        /\ UNCHANGED <<boxes, amiss>>
    BY <1>4 DEF Account!Arrives
  <2>2. /\ DOMAIN view' = ViewFields /\ view'.me = view.me /\ view'.address = view.address
        /\ view'.codeSentTo = view.address /\ view'.editing = view.editing
        /\ view'.loadError = view.loadError /\ view'.left = view.left
    BY <1>1, <2>1 DEF ViewFields
  <2>3. ~Carries(p) /\ p = "email"
    BY <1>2, <1>4 DEF Carries
  <2> QED
    BY <1>1, <2>1, <2>2, <2>3, NothingShown
<1>5. CASE c.answer.ok /\ c.op # "send"
  <2>1. Carries(p)
    BY <1>1, <1>5 DEF Carries
  <2>2. \/ /\ c.op = "verify" /\ Account!ShowMe([view EXCEPT !.editing = FALSE], c.answer.me)
        \/ /\ c.op = "remove" /\ Account!ShowMe([view EXCEPT !.removing = FALSE], c.answer.me)
        \/ Account!ShowMe(view, c.answer.me)
    BY <1>5 DEF Account!Arrives
  <2>3. CASE c.op = "verify" /\ Account!ShowMe([view EXCEPT !.editing = FALSE], c.answer.me)
    <3> DEFINE new == [view EXCEPT !.editing = FALSE]
    <3>1. /\ DOMAIN new = ViewFields /\ new.address = view.address
          /\ new.codeSentTo = view.codeSentTo /\ new.loadError = view.loadError
          /\ new.left = view.left
      BY <1>1 DEF ViewFields
    <3>2. Account!ShowMe(new, account_calls[p].answer.me) /\ p = "email"
      BY <1>2, <2>3
    <3> HIDE DEF new
    <3> QED
      BY <1>1, <2>1, <3>1, <3>2, SettingsShown
  <2>4. CASE c.op = "remove" /\ Account!ShowMe([view EXCEPT !.removing = FALSE], c.answer.me)
    <3> DEFINE new == [view EXCEPT !.removing = FALSE]
    <3>1. /\ DOMAIN new = ViewFields /\ new.address = view.address
          /\ new.codeSentTo = view.codeSentTo /\ new.loadError = view.loadError
          /\ new.left = view.left
      BY <1>1 DEF ViewFields
    <3>2. Account!ShowMe(new, account_calls[p].answer.me) /\ p = "email"
      BY <1>2, <2>4
    <3> HIDE DEF new
    <3> QED
      BY <1>1, <2>1, <3>1, <3>2, SettingsShown
  <2>5. CASE Account!ShowMe(view, c.answer.me)
    BY <1>1, <2>1, <2>5, SettingsShown
  <2> QED
    BY <2>2, <2>3, <2>4, <2>5
<1> QED
  BY <1>3, <1>4, <1>5

LEMMA AccountCallLostStep ==
  ASSUME AccountInv, NEW p \in Account!Panels, Account!CallLost(p) PROVE AccountInv'
<1>1. /\ Account!Call(p, Null) /\ UNCHANGED <<account, boxes>>
      /\ view' = [view EXCEPT !.loadError = @ \/ p = "load",
                              !.code = IF account_calls[p].op = "verify" THEN Account!NoCode ELSE @]
      /\ amiss' = amiss \cup {"lost"}
      /\ DOMAIN view = ViewFields
  BY DEF Account!CallLost, AccountInv, AccountTyped, ViewTyped
<1>2. /\ DOMAIN view' = ViewFields /\ view'.me = view.me /\ view'.address = view.address
      /\ view'.codeSentTo = view.codeSentTo /\ view'.editing = view.editing
      /\ view.loadError => view'.loadError
      /\ view'.left = view.left
  BY <1>1 DEF ViewFields
<1>3. "lost" \in amiss' /\ amiss \subseteq amiss'
  BY <1>1
<1> QED
  BY <1>1, <1>2, <1>3, NothingShown

LEMMA AccountInvStep ==
  Account!AccountAssumption /\ AccountInv /\ [Account!NNext]_(Account!nvars) => AccountInv'
<1> SUFFICES ASSUME Account!AccountAssumption, AccountInv, [Account!NNext]_(Account!nvars)
             PROVE  AccountInv'
  OBVIOUS
<1>1. CASE UNCHANGED Account!nvars
  <2>1. UNCHANGED <<account, view, boxes, account_calls, amiss>>
    BY <1>1 DEF Account!nvars
  <2>2. AccountTyped'
    BY <2>1 DEF AccountInv, AccountTyped, SettingsTyped, ViewTyped, BoxesTyped, CallsTyped
  <2>3. Versions' /\ AsAsked' /\ LatestKnown'
    BY <2>1 DEF AccountInv, Versions, Carries, AsAsked, LatestKnown, NewestKnown, Newest
  <2>4. BoxesFollow' /\ VerifiedTrue'
    BY <2>1 DEF AccountInv, BoxesFollow, VerifiedTrue
  <2> QED
    BY <2>2, <2>3, <2>4 DEF AccountInv
<1>2. CASE Account!NNext
  BY <1>2, LocalSteps, EmailCallSteps, RedirectCallStep, RetryStep, SignOutStep, ElsewhereStep,
     HandleStep, ArrivesStep, AccountCallLostStep DEF Account!NNext
<1> QED
  BY <1>1, <1>2

(* The settings, the boxes and the address being verified agree with each  *)
(* other and with the server, whatever the order of the answers            *)
(* (setRedirect, verify and remove of routes/account/+page.svelte).        *)
THEOREM AccountAsShownHolds == PagesSpec => []AccountAsShown
<1>1. AccountInv => Account!AccountAsShown
  <2> SUFFICES ASSUME AccountInv PROVE Account!AccountAsShown
    OBVIOUS
  <2>1. Account!SettingsCurrent
    BY DEF AccountInv, LatestKnown, NewestKnown, Newest, Carries, Account!SettingsCurrent,
       Account!Shown, Account!emailBusy, Account!redirectBusy, Account!Me
  <2>2. Account!BoxesTrue
    <3> SUFFICES ASSUME Account!Shown, view.me.external # Null, ~Account!redirectBusy,
                        amiss \subseteq {"elsewhere", "crossed"}
                 PROVE  boxes = [enabled |-> view.me.enabled, keep |-> view.me.keep]
      BY DEF Account!BoxesTrue
    <3>1. boxes \in Boxes
      BY DEF AccountInv, AccountTyped, BoxesTyped, Account!Shown
    <3>2. boxes.enabled = view.me.enabled /\ boxes.keep = view.me.keep
      BY DEF AccountInv, BoxesFollow, Account!Shown, Account!redirectBusy
    <3> QED
      BY <3>1, <3>2 DEF Boxes
  <2>3. Account!VerifiedAsTyped
    BY DEF AccountInv, VerifiedTrue, Account!VerifiedAsTyped
  <2> QED
    BY <2>1, <2>2, <2>3 DEF Account!AccountAsShown
<1>2. WhenAccountOpen => AccountAsShown
  BY <1>1 DEF WhenAccountOpen, AccountAsShown
<1>3. PagesInit => WhenAccountOpen
  BY AccountInvInit, PagesAssumption DEF PagesInit, WhenAccountOpen
<1>4. WhenAccountOpen /\ [PagesNext]_pagesVars => WhenAccountOpen'
  BY AccountInvStep, PagesAssumption, OneOpen DEF WhenAccountOpen
<1> QED
  BY <1>2, <1>3, <1>4, PTL DEF PagesSpec

=============================================================================
