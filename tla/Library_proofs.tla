--------------------------- MODULE Library_proofs ---------------------------
(***************************************************************************)
(* Lemmas on the operators that several models are built from, whatever    *)
(* they are applied to: sums of sizes (Weights), sequences that are cut,   *)
(* joined and changed (SequencesExt), ranks and filters (Filters), and     *)
(* the bounds of a page.                                                   *)
(***************************************************************************)
EXTENDS Weights, Filters, SequencesExt, FiniteSetTheorems, FunctionTheorems, SequenceTheorems,
        TLAPS

-----------------------------------------------------------------------------
(* What the sums of Weights do when a member is added, removed or changed. *)

(* The bytes of a finite set of things are finitely many. *)
LEMMA BytesFinite ==
  ASSUME NEW S, IsFiniteSet(S), NEW w, \A x \in S : w[x] \in Nat
  PROVE  IsFiniteSet(Bytes(S, w))
<1> DEFINE spread == [x \in S |-> {x} \X (1 .. w[x])]
           T == {{x} \X (1 .. w[x]) : x \in S}
<1>1. spread \in Surjection(S, T)
  BY DEF Surjection
<1>2. IsFiniteSet(T)
  BY <1>1, FS_Surjection
<1>3. ASSUME NEW x \in S PROVE IsFiniteSet({x} \X (1 .. w[x]))
  <2>1. IsFiniteSet({x})
    BY FS_Singleton
  <2>2. 1 \in Int /\ w[x] \in Int
    OBVIOUS
  <2>3. IsFiniteSet(1 .. w[x])
    BY <2>2, FS_Interval
  <2> QED
    BY <2>1, <2>3, FS_Product
<1>4. \A U \in T : IsFiniteSet(U)
  BY <1>3
<1>5. IsFiniteSet(UNION T)
  BY <1>2, <1>4, FS_UNION
<1> QED
  BY <1>5 DEF Bytes

(* The weight of a finite set is a natural number; nothing weighs nothing. *)
LEMMA WeightNat ==
  ASSUME NEW S, IsFiniteSet(S), NEW w, \A x \in S : w[x] \in Nat
  PROVE  Weight(S, w) \in Nat
BY BytesFinite, FS_CardinalityType DEF Weight

LEMMA WeightEmpty ==
  ASSUME NEW w
  PROVE  Weight({}, w) = 0
<1>1. Bytes({}, w) = {}
  BY DEF Bytes
<1> QED
  BY <1>1, FS_EmptySet DEF Weight

(* A new member adds its own size: what commitFile does to storageUsage. *)
LEMMA WeightAdd ==
  ASSUME NEW S, IsFiniteSet(S), NEW y, y \notin S,
         NEW w, \A x \in S \cup {y} : w[x] \in Nat
  PROVE  Weight(S \cup {y}, w) = Weight(S, w) + w[y]
<1> DEFINE own == {y} \X (1 .. w[y])
<1>1. Bytes(S \cup {y}, w) = Bytes(S, w) \cup own
  BY DEF Bytes
<1>2. Bytes(S, w) \cap own = {}
  BY DEF Bytes
<1>3. IsFiniteSet(Bytes(S, w))
  BY BytesFinite
<1>4. IsFiniteSet(own) /\ Cardinality(own) = w[y]
  <2>1. IsFiniteSet({y}) /\ Cardinality({y}) = 1
    BY FS_Singleton
  <2>2. 1 \in Int /\ w[y] \in Nat /\ w[y] \in Int
    OBVIOUS
  <2>4. /\ IsFiniteSet(1 .. w[y])
        /\ Cardinality(1 .. w[y]) = IF 1 > w[y] THEN 0 ELSE w[y] - 1 + 1
    BY <2>2, FS_Interval
  <2>5. Cardinality(1 .. w[y]) = w[y]
    BY <2>2, <2>4
  <2>3. IsFiniteSet(own) /\ Cardinality(own) = 1 * w[y]
    BY <2>1, <2>4, <2>5, FS_Product
  <2> QED
    BY <2>2, <2>3
<1>5. Cardinality(Bytes(S, w)) \in Nat
  BY <1>3, FS_CardinalityType
<1>6. Cardinality(Bytes(S, w) \cup own)
        = Cardinality(Bytes(S, w)) + Cardinality(own) - Cardinality({})
  BY <1>2, <1>3, <1>4, FS_Union
<1>7. w[y] \in Nat /\ Cardinality({}) = 0
  BY FS_EmptySet
<1> HIDE DEF own
<1>8. Cardinality(Bytes(S, w) \cup own) = Cardinality(Bytes(S, w)) + w[y]
  BY <1>4, <1>5, <1>6, <1>7
<1>9. Cardinality(Bytes(S \cup {y}, w)) = Cardinality(Bytes(S, w)) + w[y]
  BY <1>1, <1>8, Zenon
<1> QED
  BY <1>9, Zenon DEF Weight

(* A member that leaves takes its own size away: deleteFile, storage_release. *)
LEMMA WeightRemove ==
  ASSUME NEW S, IsFiniteSet(S), NEW y \in S,
         NEW w, \A x \in S : w[x] \in Nat
  PROVE  Weight(S, w) = Weight(S \ {y}, w) + w[y]
<1>1. IsFiniteSet(S \ {y})
  BY FS_RemoveElement
<1>2. (S \ {y}) \cup {y} = S
  OBVIOUS
<1> QED
  BY <1>1, <1>2, WeightAdd

(* Only the sizes of the members count. *)
LEMMA WeightSame ==
  ASSUME NEW S, NEW v, NEW w, \A x \in S : v[x] = w[x]
  PROVE  Weight(S, v) = Weight(S, w)
<1>1. Bytes(S, v) = Bytes(S, w)
  BY DEF Bytes
<1> QED
  BY <1>1 DEF Weight

(* Fewer, or lighter, members weigh no more. *)
LEMMA WeightMonotone ==
  ASSUME NEW S, NEW T, IsFiniteSet(T), S \subseteq T,
         NEW v, NEW w, \A x \in T : v[x] \in Nat /\ w[x] \in Nat,
         \A x \in S : v[x] =< w[x]
  PROVE  Weight(S, v) =< Weight(T, w)
<1>1. Bytes(S, v) \subseteq Bytes(T, w)
  <2> SUFFICES ASSUME NEW p \in Bytes(S, v) PROVE p \in Bytes(T, w)
    OBVIOUS
  <2>1. PICK x \in S : p \in {x} \X (1 .. v[x])
    BY DEF Bytes
  <2>2. p \in {x} \X (1 .. w[x])
    BY <2>1
  <2> QED
    BY <2>2 DEF Bytes
<1>2. IsFiniteSet(Bytes(T, w))
  BY BytesFinite
<1> QED
  BY <1>1, <1>2, FS_Subset DEF Weight

(* When only y changes, the sum changes by exactly what y does. *)
LEMMA WeightUpdate ==
  ASSUME NEW S, IsFiniteSet(S), NEW y \in S,
         NEW v, NEW w, \A x \in S : v[x] \in Nat /\ w[x] \in Nat,
         \A x \in S \ {y} : v[x] = w[x]
  PROVE  Weight(S, v) = Weight(S, w) - w[y] + v[y]
<1>1. Weight(S, v) = Weight(S \ {y}, v) + v[y]
  BY WeightRemove
<1>2. Weight(S, w) = Weight(S \ {y}, w) + w[y]
  BY WeightRemove
<1>3. Weight(S \ {y}, v) = Weight(S \ {y}, w)
  BY WeightSame
<1>4. IsFiniteSet(S \ {y})
  BY FS_RemoveElement
<1>5. Weight(S \ {y}, w) \in Nat
  BY <1>4, WeightNat
<1> QED
  BY <1>1, <1>2, <1>3, <1>5

(* Things that leave together take their sum away. *)
LEMMA WeightSplit ==
  ASSUME NEW S, IsFiniteSet(S), NEW V, V \subseteq S,
         NEW w, \A x \in S : w[x] \in Nat
  PROVE  Weight(S, w) = Weight(S \ V, w) + Weight(V, w)
<1>1. PICK A, B : A = Bytes(S \ V, w) /\ B = Bytes(V, w)
  OBVIOUS
<1>2. Bytes(S, w) = A \cup B /\ A \cap B = {}
  BY <1>1 DEF Bytes
<1>3. IsFiniteSet(S \ V) /\ IsFiniteSet(V)
  BY FS_Subset
<1>4. IsFiniteSet(A) /\ IsFiniteSet(B)
  BY <1>1, <1>3, BytesFinite
<1>5. Cardinality(A) \in Nat /\ Cardinality(B) \in Nat
  BY <1>4, FS_CardinalityType
<1>6. Cardinality(A \cup B) = Cardinality(A) + Cardinality(B) - Cardinality(A \cap B)
  BY <1>4, FS_Union
<1>7. Cardinality(A \cap B) = 0
  BY <1>2, FS_EmptySet
<1>8. Cardinality(A \cup B) = Cardinality(A) + Cardinality(B)
  BY <1>5, <1>6, <1>7
<1>9. Cardinality(Bytes(S, w))
        = Cardinality(Bytes(S \ V, w)) + Cardinality(Bytes(V, w))
  BY <1>1, <1>2, <1>8, Zenon
<1> QED
  BY <1>9, Zenon DEF Weight


(* Things put one to one into larger ones weigh no more than those. *)
LEMMA WeightInject ==
  ASSUME NEW S, NEW T, IsFiniteSet(T), NEW f \in Injection(S, T),
         NEW v, NEW w, \A y \in T : w[y] \in Nat,
         \A x \in S : v[x] \in Nat /\ v[x] =< w[f[x]]
  PROVE  Weight(S, v) =< Weight(T, w)
<1> DEFINE g == [p \in Bytes(S, v) |-> <<f[p[1]], p[2]>>]
<1>1. IsFiniteSet(Bytes(T, w))
  BY BytesFinite
<1>2. \A p \in Bytes(S, v) : p[1] \in S /\ p[2] \in 1 .. v[p[1]] /\ p = <<p[1], p[2]>>
  BY DEF Bytes
<1>3. f \in [S -> T] /\ \A x, y \in S : f[x] = f[y] => x = y
  BY Fun_InjectionProperties
<1>4. \A p \in Bytes(S, v) : g[p] \in Bytes(T, w)
  <2> SUFFICES ASSUME NEW p \in Bytes(S, v) PROVE <<f[p[1]], p[2]>> \in Bytes(T, w)
    OBVIOUS
  <2>1. p[1] \in S /\ f[p[1]] \in T /\ p[2] \in 1 .. w[f[p[1]]]
    BY <1>2, <1>3
  <2> QED
    BY <2>1 DEF Bytes
<1>5. ASSUME NEW p \in Bytes(S, v), NEW q \in Bytes(S, v), g[p] = g[q] PROVE p = q
  <2>1. f[p[1]] = f[q[1]] /\ p[2] = q[2]
    BY <1>5
  <2>2. p[1] = q[1]
    BY <2>1, <1>2, <1>3
  <2> QED
    BY <2>1, <2>2, <1>2
<1>6. g \in Injection(Bytes(S, v), Bytes(T, w))
  BY <1>4, <1>5, Fun_IsInj
<1> QED
  BY <1>1, <1>6, FS_Injection DEF Weight

(* A finite set of at most n members is numbered by some of 1 .. n. *)
LEMMA Numbered ==
  ASSUME NEW S, IsFiniteSet(S), NEW n \in Nat, Cardinality(S) =< n
  PROVE  \E f : f \in Injection(S, 1 .. n)
<1>1. Cardinality(S) \in Nat /\ ExistsBijection(1 .. Cardinality(S), S)
  BY FS_CardinalityType
<1>2. ExistsBijection(S, 1 .. Cardinality(S))
  BY <1>1, Fun_ExistsBijSymmetric
<1>3. PICK f : f \in Bijection(S, 1 .. Cardinality(S))
  BY <1>2 DEF ExistsBijection
<1>4. /\ f \in [S -> 1 .. Cardinality(S)]
      /\ \A a, b \in S : f[a] = f[b] => a = b
  <2>1. f \in Injection(S, 1 .. Cardinality(S))
    BY <1>3 DEF Bijection
  <2> DEFINE N == 1 .. Cardinality(S)
  <2>2. f \in Injection(S, N)
    BY <2>1
  <2> HIDE DEF N
  <2>3. f \in [S -> N] /\ \A a, b \in S : f[a] = f[b] => a = b
    BY <2>2, Fun_InjectionProperties
  <2> QED
    BY <2>3 DEF N
<1>5. f \in [S -> 1 .. n]
  <2>1. \A i \in 1 .. Cardinality(S) : i \in 1 .. n
    BY <1>1
  <2> QED
    BY <1>4, <2>1
<1> QED
  BY <1>4, <1>5, Fun_IsInj

(* Members sorted into groups, each group within the claim of its owner,    *)
(* together weigh no more than the claims.                                  *)
LEMMA WeightGroups ==
  ASSUME NEW S, IsFiniteSet(S), NEW T, IsFiniteSet(T), NEW owner \in [S -> T],
         NEW w, \A x \in S : w[x] \in Nat,
         NEW claim, \A y \in T : claim[y] \in Nat,
         \A y \in T : Weight({x \in S : owner[x] = y}, w) =< claim[y]
  PROVE  Weight(S, w) =< Weight(T, claim)
<1> DEFINE Group(y) == {x \in S : owner[x] = y}
           number == [y \in T |-> CHOOSE f : f \in Injection(Bytes(Group(y), w), 1 .. claim[y])]
           g == [p \in Bytes(S, w) |-> <<owner[p[1]], number[owner[p[1]]][p]>>]
<1>1. \A y \in T : number[y] \in Injection(Bytes(Group(y), w), 1 .. claim[y])
  <2> SUFFICES ASSUME NEW y \in T
               PROVE  \E f : f \in Injection(Bytes(Group(y), w), 1 .. claim[y])
    OBVIOUS
  <2>1. IsFiniteSet(Group(y)) /\ \A x \in Group(y) : w[x] \in Nat
    BY FS_Subset
  <2>2. IsFiniteSet(Bytes(Group(y), w))
    BY <2>1, BytesFinite
  <2>3. Cardinality(Bytes(Group(y), w)) =< claim[y]
    BY DEF Weight
  <2> QED
    BY <2>2, <2>3, Numbered
<1>2. \A p \in Bytes(S, w) : p[1] \in S /\ owner[p[1]] \in T /\ p \in Bytes(Group(owner[p[1]]), w)
  BY DEF Bytes
<1> HIDE DEF number
<1>3. \A y \in T :
        /\ number[y] \in [Bytes(Group(y), w) -> 1 .. claim[y]]
        /\ \A p, q \in Bytes(Group(y), w) : number[y][p] = number[y][q] => p = q
  <2> SUFFICES ASSUME NEW y \in T
               PROVE  /\ number[y] \in [Bytes(Group(y), w) -> 1 .. claim[y]]
                      /\ \A p, q \in Bytes(Group(y), w) : number[y][p] = number[y][q] => p = q
    OBVIOUS
  <2> DEFINE h == number[y]
             B == Bytes(Group(y), w)
             N == 1 .. claim[y]
  <2>1. h \in Injection(B, N)
    BY <1>1
  <2> HIDE DEF h, B, N
  <2>2. h \in [B -> N] /\ \A p, q \in B : h[p] = h[q] => p = q
    BY <2>1, Fun_InjectionProperties
  <2> QED
    BY <2>2 DEF h, B, N
<1>4. \A p \in Bytes(S, w) : g[p] \in Bytes(T, claim)
  <2> SUFFICES ASSUME NEW p \in Bytes(S, w)
               PROVE  <<owner[p[1]], number[owner[p[1]]][p]>> \in Bytes(T, claim)
    OBVIOUS
  <2> DEFINE y == owner[p[1]]
             B == Bytes(Group(y), w)
  <2>1. y \in T /\ p \in B
    BY <1>2
  <2>2. number[y] \in [B -> 1 .. claim[y]]
    BY <1>3, <2>1
  <2> HIDE DEF y, B
  <2>3. number[y][p] \in 1 .. claim[y]
    BY <2>1, <2>2
  <2>4. <<y, number[y][p]>> \in Bytes(T, claim)
    BY <2>1, <2>3 DEF Bytes
  <2> QED
    BY <2>4 DEF y
<1>5. ASSUME NEW p \in Bytes(S, w), NEW q \in Bytes(S, w), g[p] = g[q] PROVE p = q
  <2> DEFINE y == owner[p[1]]
             B == Bytes(Group(y), w)
  <2>1. y = owner[q[1]] /\ number[y][p] = number[y][q]
    BY <1>5
  <2>2. y \in T /\ p \in B /\ q \in B
    BY <1>2, <2>1
  <2>3. \A a, b \in B : number[y][a] = number[y][b] => a = b
    BY <1>3, <2>2
  <2> HIDE DEF y, B
  <2> QED
    BY <2>1, <2>2, <2>3
<1>6. g \in Injection(Bytes(S, w), Bytes(T, claim))
  BY <1>4, <1>5, Fun_IsInj
<1>7. IsFiniteSet(Bytes(T, claim))
  BY BytesFinite
<1> QED
  BY <1>6, <1>7, FS_Injection DEF Weight

(* One more of the first k things adds its own. *)
LEMMA WeightOfNext ==
  ASSUME NEW k \in Nat, k > 0, NEW w, \A i \in 1..k : w[i] \in Nat
  PROVE  /\ Weight(1 .. k - 1, w) \in Nat
         /\ Weight(1..k, w) = Weight(1 .. k - 1, w) + w[k]
<1>1. PICK S : S = 1 .. k - 1
  OBVIOUS
<1>2. S \cup {k} = 1..k /\ k \notin S
  BY <1>1
<1>3. IsFiniteSet(S)
  <2>1. PICK m \in Int : m = k - 1
    OBVIOUS
  <2>2. 1 \in Int /\ S = 1..m
    BY <1>1, <2>1
  <2> QED
    BY <2>2, FS_Interval
<1>4. \A i \in S \cup {k} : w[i] \in Nat
  BY <1>2
<1>5. Weight(S, w) \in Nat /\ Weight(S \cup {k}, w) = Weight(S, w) + w[k]
  BY <1>2, <1>3, <1>4, WeightNat, WeightAdd
<1> QED
  BY <1>1, <1>2, <1>5

-----------------------------------------------------------------------------
(* Sequences that are cut, joined, and have an element moved. *)

(* g is s from m to n; s followed by t; s without its r-th element. *)
IsPart(s, m, n, g) ==
  /\ ToSet(g) = {s[j] : j \in m..n}
  /\ IsInjective(s) => IsInjective(g)
IsJoin(s, t, g) ==
  /\ Len(g) = Len(s) + Len(t)
  /\ \A i \in 1..Len(s) : g[i] = s[i]
  /\ \A i \in 1..Len(t) : g[Len(s) + i] = t[i]
  /\ ToSet(g) = ToSet(s) \cup ToSet(t)
  /\ IsInjective(s) /\ IsInjective(t) /\ ToSet(s) \cap ToSet(t) = {} => IsInjective(g)

IsWithout(s, r, g) ==
  /\ Len(g) = Len(s) - 1
  /\ \A i \in 1 .. Len(s) - 1 : g[i] = IF i < r THEN s[i] ELSE s[i + 1]
  /\ ToSet(s) = ToSet(g) \cup {s[r]}
  /\ IsInjective(s) => IsInjective(g) /\ s[r] \notin ToSet(g)

LEMMA SeqFacts ==
  ASSUME NEW T, NEW s \in Seq(T)
  PROVE  /\ Len(s) \in Nat /\ DOMAIN s = 1..Len(s)
         /\ \A i \in 1..Len(s) : s[i] \in T /\ s[i] \in ToSet(s)
         /\ \A x \in ToSet(s) : \E i \in 1..Len(s) : x = s[i]
BY LenProperties, ElementOfSeq DEF ToSet

LEMMA PartOf ==
  ASSUME NEW T, NEW s \in Seq(T), NEW m \in Nat, NEW n \in Nat, 1 <= m, m <= n + 1, n <= Len(s),
         NEW g, g = SubSeq(s, m, n)
  PROVE  /\ g \in Seq(T) /\ Len(g) = n - m + 1
         /\ \A i \in 1 .. n - m + 1 : g[i] = s[m + i - 1]
<1>1. Len(s) \in Nat /\ \A i \in 1..Len(s) : s[i] \in T
  BY SeqFacts
<1>2. \A i \in m..n : s[i] \in T
  BY <1>1
<1>3. m \in Int /\ n \in Int
  OBVIOUS
<1>4. /\ g \in Seq(T) /\ Len(g) = IF m <= n THEN n - m + 1 ELSE 0
      /\ \A i \in 1 .. n - m + 1 : g[i] = s[m + i - 1]
  BY <1>2, <1>3, SubSeqProperties
<1>5. (IF m <= n THEN n - m + 1 ELSE 0) = n - m + 1
  OBVIOUS
<1> QED
  BY <1>4, <1>5

LEMMA PartElements ==
  ASSUME NEW T, NEW s \in Seq(T), NEW m \in Nat, NEW n \in Nat, 1 <= m, m <= n + 1, n <= Len(s),
         NEW g, g = SubSeq(s, m, n)
  PROVE  IsPart(s, m, n, g)
<1>1. /\ g \in Seq(T) /\ Len(g) = n - m + 1
      /\ \A i \in 1 .. n - m + 1 : g[i] = s[m + i - 1]
  BY PartOf
<1>2. Len(s) \in Nat /\ DOMAIN s = 1..Len(s) /\ DOMAIN g = 1 .. n - m + 1
  BY <1>1, LenProperties
<1>3. ASSUME NEW x \in ToSet(g) PROVE \E j \in m..n : x = s[j]
  <2>1. PICK i \in 1 .. n - m + 1 : x = g[i]
    BY <1>2 DEF ToSet
  <2>2. m + i - 1 \in m..n
    OBVIOUS
  <2> QED
    BY <1>1, <2>1, <2>2
<1>4. ASSUME NEW j \in m..n PROVE s[j] \in ToSet(g)
  <2>1. PICK i \in 1 .. n - m + 1 : i = j - m + 1
    OBVIOUS
  <2>2. m + i - 1 = j
    BY <2>1
  <2>3. g[i] = s[j]
    BY <1>1, <2>2
  <2> QED
    BY <1>2, <2>3 DEF ToSet
<1>5. ASSUME IsInjective(s) PROVE IsInjective(g)
  <2> SUFFICES ASSUME NEW i \in 1 .. n - m + 1, NEW j \in 1 .. n - m + 1, g[i] = g[j] PROVE i = j
    BY <1>2 DEF IsInjective
  <2>1. s[m + i - 1] = s[m + j - 1]
    BY <1>1
  <2>2. m + i - 1 \in DOMAIN s /\ m + j - 1 \in DOMAIN s
    BY <1>2
  <2>3. m + i - 1 = m + j - 1
    BY <1>5, <2>1, <2>2 DEF IsInjective
  <2> QED
    BY <2>3
<1> QED
  BY <1>3, <1>4, <1>5 DEF IsPart

LEMMA Joined ==
  ASSUME NEW T, NEW s \in Seq(T), NEW t \in Seq(T), NEW g, g = s \o t
  PROVE  g \in Seq(T) /\ IsJoin(s, t, g)
<1>1. PICK m \in Nat, n \in Nat : m = Len(s) /\ n = Len(t)
  BY LenProperties
<1>2. /\ g \in Seq(T) /\ Len(g) = m + n
      /\ \A i \in 1 .. m + n : g[i] = IF i <= m THEN s[i] ELSE t[i - m]
  BY <1>1, ConcatProperties
<1>3. DOMAIN g = 1 .. m + n /\ DOMAIN s = 1..m /\ DOMAIN t = 1..n
  BY <1>1, <1>2, LenProperties
<1>4. \A i \in 1..m : i \in 1 .. m + n /\ g[i] = s[i]
  BY <1>2
<1>5. ASSUME NEW i \in 1..n PROVE m + i \in 1 .. m + n /\ g[m + i] = t[i]
  <2>1. m + i \in 1 .. m + n /\ ~(m + i <= m) /\ m + i - m = i
    OBVIOUS
  <2> QED
    BY <1>2, <2>1
<1>6. ASSUME NEW i \in 1 .. m + n
      PROVE  \/ i \in 1..m /\ g[i] = s[i]
             \/ \E j \in 1..n : i = m + j /\ g[i] = t[j]
  <2>1. CASE i <= m
    <3>1. i \in 1..m
      BY <2>1
    <3> QED
      BY <1>4, <3>1
  <2>2. CASE ~(i <= m)
    <3>1. PICK j \in 1..n : j = i - m
      BY <2>2
    <3>2. i = m + j
      BY <3>1
    <3> QED
      BY <1>5, <3>2
  <2> QED
    BY <2>1, <2>2
<1>7. ToSet(g) = ToSet(s) \cup ToSet(t)
  <2>1. ASSUME NEW x \in ToSet(g) PROVE x \in ToSet(s) \cup ToSet(t)
    BY <1>3, <1>6 DEF ToSet
  <2>2. ASSUME NEW x \in ToSet(s) PROVE x \in ToSet(g)
    BY <1>3, <1>4 DEF ToSet
  <2>3. ASSUME NEW x \in ToSet(t) PROVE x \in ToSet(g)
    BY <1>3, <1>5 DEF ToSet
  <2> QED
    BY <2>1, <2>2, <2>3
<1>8. ASSUME IsInjective(s), IsInjective(t), ToSet(s) \cap ToSet(t) = {} PROVE IsInjective(g)
  <2> SUFFICES ASSUME NEW i \in 1 .. m + n, NEW j \in 1 .. m + n, g[i] = g[j] PROVE i = j
    BY <1>3 DEF IsInjective
  <2>1. \A k \in 1..m : s[k] \in ToSet(s)
    BY <1>3 DEF ToSet
  <2>2. \A k \in 1..n : t[k] \in ToSet(t)
    BY <1>3 DEF ToSet
  <2>3. \A k, l \in 1..m : s[k] = s[l] => k = l
    BY <1>3, <1>8 DEF IsInjective
  <2>4. \A k, l \in 1..n : t[k] = t[l] => k = l
    BY <1>3, <1>8 DEF IsInjective
  <2>5. CASE i \in 1..m /\ g[i] = s[i]
    BY <1>6, <1>8, <2>1, <2>2, <2>3, <2>5
  <2>6. ASSUME NEW k \in 1..n, i = m + k, g[i] = t[k] PROVE i = j
    BY <1>6, <1>8, <2>1, <2>2, <2>4, <2>6
  <2> QED
    BY <1>6, <2>5, <2>6
<1> QED
  BY <1>1, <1>2, <1>4, <1>5, <1>7, <1>8 DEF IsJoin

LEMMA RemovedAt ==
  ASSUME NEW T, NEW f \in Seq(T), NEW r \in 1..Len(f), NEW g, g = RemoveAt(f, r)
  PROVE  g \in Seq(T) /\ IsWithout(f, r, g)
<1>1. PICK n \in Nat : n = Len(f) /\ DOMAIN f = 1..n
  BY SeqFacts
<1>2. PICK a : a = SubSeq(f, 1, r - 1)
  OBVIOUS
<1>3. PICK b : b = SubSeq(f, r + 1, Len(f))
  OBVIOUS
<1>4. PICK p \in Nat, q \in Nat : p = r - 1 /\ q = r + 1 /\ 1 <= q /\ q <= n + 1 /\ p <= n /\ 1 <= p + 1
  BY <1>1
<1>5. 1 \in Nat /\ 1 <= 1
  OBVIOUS
<1>6. /\ a \in Seq(T) /\ Len(a) = p - 1 + 1
      /\ \A i \in 1 .. p - 1 + 1 : a[i] = f[1 + i - 1]
  BY <1>1, <1>2, <1>4, <1>5, PartOf
<1>7. IsPart(f, 1, p, a)
  BY <1>1, <1>2, <1>4, <1>5, PartElements
<1>8. /\ b \in Seq(T) /\ Len(b) = n - q + 1
      /\ \A i \in 1 .. n - q + 1 : b[i] = f[q + i - 1]
  BY <1>1, <1>3, <1>4, PartOf
<1>9. IsPart(f, q, n, b)
  <2>1. b = SubSeq(f, q, n) /\ n <= Len(f)
    BY <1>1, <1>3, <1>4
  <2> QED
    BY <1>4, <2>1, PartElements
<1>10. g = a \o b
  BY <1>2, <1>3 DEF RemoveAt
<1>11. g \in Seq(T) /\ IsJoin(a, b, g)
  BY <1>6, <1>8, <1>10, Joined
<1>12. Len(a) = p /\ Len(b) = n - r /\ Len(g) = n - 1
  BY <1>1, <1>4, <1>6, <1>8, <1>11 DEF IsJoin
<1>13. ASSUME NEW i \in 1 .. n - 1 PROVE g[i] = IF i < r THEN f[i] ELSE f[i + 1]
  <2>1. CASE i < r
    <3>1. i \in 1..p /\ 1 + i - 1 = i /\ p - 1 + 1 = p
      BY <1>1, <1>4, <2>1
    <3>2. g[i] = a[i] /\ a[i] = f[i]
      BY <1>6, <1>11, <1>12, <3>1 DEF IsJoin
    <3> QED
      BY <2>1, <3>2
  <2>2. CASE ~(i < r)
    <3>1. PICK j \in 1 .. n - r : j = i - p
      BY <1>1, <1>4, <2>2
    <3>2. p + j = i /\ q + j - 1 = i + 1 /\ j \in 1 .. n - q + 1
      BY <1>1, <1>4, <3>1
    <3>3. g[p + j] = b[j] /\ b[j] = f[q + j - 1]
      BY <1>8, <1>11, <1>12, <3>2 DEF IsJoin
    <3> QED
      BY <2>2, <3>2, <3>3
  <2> QED
    BY <2>1, <2>2
<1>14. ToSet(f) = ToSet(g) \cup {f[r]}
  <2>1. 1..n = (1..p) \cup {r} \cup (q..n)
    BY <1>1, <1>4
  <2>2. ToSet(f) = {f[j] : j \in 1..n}
    BY <1>1 DEF ToSet
  <2> QED
    BY <1>7, <1>9, <1>11, <2>1, <2>2 DEF IsPart, IsJoin
<1>15. ASSUME IsInjective(f) PROVE IsInjective(g) /\ f[r] \notin ToSet(g)
  <2>1. \A i, j \in 1..n : f[i] = f[j] => i = j
    BY <1>1, <1>15 DEF IsInjective
  <2>2. ASSUME NEW i \in 1..p, NEW j \in q..n PROVE f[i] # f[j] /\ f[i] # f[r] /\ f[j] # f[r]
    <3>1. i \in 1..n /\ j \in 1..n /\ r \in 1..n /\ i # j /\ i # r /\ j # r
      BY <1>1, <1>4
    <3> QED
      BY <2>1, <3>1
  <2>3. ASSUME NEW i \in 1..p PROVE f[i] # f[r]
    <3>1. i \in 1..n /\ r \in 1..n /\ i # r
      BY <1>1, <1>4
    <3> QED
      BY <2>1, <3>1
  <2>4. ASSUME NEW j \in q..n PROVE f[j] # f[r]
    <3>1. j \in 1..n /\ r \in 1..n /\ j # r
      BY <1>1, <1>4
    <3> QED
      BY <2>1, <3>1
  <2>5. ToSet(a) \cap ToSet(b) = {}
    BY <1>7, <1>9, <2>2 DEF IsPart
  <2> QED
    BY <1>7, <1>9, <1>11, <1>15, <2>3, <2>4, <2>5 DEF IsPart, IsJoin
<1> QED
  BY <1>1, <1>11, <1>12, <1>13, <1>14, <1>15 DEF IsWithout

LEMMA InsertedAt ==
  ASSUME NEW T, NEW f \in Seq(T), NEW r \in 1 .. Len(f) + 1, NEW x \in T,
         NEW g, g = InsertAt(f, r, x)
  PROVE  /\ g \in Seq(T) /\ ToSet(g) = ToSet(f) \cup {x}
         /\ IsInjective(f) /\ x \notin ToSet(f) => IsInjective(g)
<1>1. PICK n \in Nat : n = Len(f) /\ DOMAIN f = 1..n
  BY SeqFacts
<1>2. PICK a : a = SubSeq(f, 1, r - 1)
  OBVIOUS
<1>3. PICK b : b = SubSeq(f, r, Len(f))
  OBVIOUS
<1>4. PICK p \in Nat, q \in Nat : p = r - 1 /\ q = r /\ 1 <= q /\ q <= n + 1 /\ p <= n /\ 1 <= p + 1
  BY <1>1
<1>5. 1 \in Nat /\ 1 <= 1
  OBVIOUS
<1>6. a \in Seq(T)
  BY <1>1, <1>2, <1>4, <1>5, PartOf
<1>7. IsPart(f, 1, p, a)
  BY <1>1, <1>2, <1>4, <1>5, PartElements
<1>8. b \in Seq(T)
  BY <1>1, <1>3, <1>4, PartOf
<1>9. IsPart(f, q, n, b)
  <2>1. b = SubSeq(f, q, n) /\ n <= Len(f)
    BY <1>1, <1>3, <1>4
  <2> QED
    BY <1>4, <2>1, PartElements
<1>10. <<x>> \in Seq(T) /\ ToSet(<<x>>) = {x} /\ IsInjective(<<x>>)
  BY DEF ToSet, IsInjective
<1>11. PICK c : c = a \o <<x>>
  OBVIOUS
<1>12. /\ c \in Seq(T) /\ ToSet(c) = ToSet(a) \cup {x}
       /\ IsInjective(a) /\ x \notin ToSet(a) => IsInjective(c)
  <2>1. PICK e : e = <<x>>
    OBVIOUS
  <2>2. e \in Seq(T) /\ ToSet(e) = {x} /\ IsInjective(e) /\ c = a \o e
    BY <1>10, <1>11, <2>1
  <2>3. c \in Seq(T) /\ IsJoin(a, e, c)
    BY <1>6, <2>2, Joined
  <2> QED
    BY <2>2, <2>3 DEF IsJoin
<1>13. g = c \o b
  BY <1>2, <1>3, <1>11 DEF InsertAt
<1>14. g \in Seq(T) /\ IsJoin(c, b, g)
  BY <1>8, <1>12, <1>13, Joined
<1>15. ToSet(f) = ToSet(a) \cup ToSet(b)
  <2>1. 1..n = (1..p) \cup (q..n)
    BY <1>1, <1>4
  <2>2. ToSet(f) = {f[j] : j \in 1..n}
    BY <1>1 DEF ToSet
  <2> QED
    BY <1>7, <1>9, <2>1, <2>2 DEF IsPart
<1>16. ASSUME IsInjective(f) PROVE ToSet(a) \cap ToSet(b) = {}
  <2>1. ASSUME NEW i \in 1..p, NEW j \in q..n PROVE f[i] # f[j]
    <3>1. i \in 1..n /\ j \in 1..n /\ i # j
      BY <1>1, <1>4
    <3> QED
      BY <1>1, <1>16, <3>1 DEF IsInjective
  <2> QED
    BY <1>7, <1>9, <2>1 DEF IsPart
<1> QED
  BY <1>7, <1>9, <1>12, <1>14, <1>15, <1>16 DEF IsPart, IsJoin

-----------------------------------------------------------------------------
(* Ranks and filters. *)

LEMMA RankInRange ==
  ASSUME NEW S, IsFiniteSet(S), S \subseteq Int, NEW v \in S
  PROVE  Rank(S, v) \in 1..Cardinality(S)
<1> DEFINE T == {w \in S : w <= v}
<1>1. T \in SUBSET S /\ v \in T
  OBVIOUS
<1>2. IsFiniteSet(T) /\ Cardinality(T) <= Cardinality(S)
  BY <1>1, FS_Subset
<1>3. Cardinality(T) \in Nat /\ Cardinality(S) \in Nat /\ Cardinality(T) # 0
  BY <1>1, <1>2, FS_CardinalityType, FS_EmptySet
<1> HIDE DEF T
<1>4. Cardinality(T) \in 1..Cardinality(S)
  BY <1>2, <1>3
<1> QED
  BY <1>4 DEF Rank, T

LEMMA RankGrows ==
  ASSUME NEW S, IsFiniteSet(S), S \subseteq Int, NEW u \in S, NEW v \in S, u < v
  PROVE  Rank(S, u) < Rank(S, v)
<1> DEFINE A == {w \in S : w <= u}
           B == {w \in S : w <= v}
<1>1. A \in SUBSET B /\ B \in SUBSET S /\ v \in B /\ v \notin A
  <2>1. \A w \in S : w \in Int
    OBVIOUS
  <2>2. v <= v /\ ~(v <= u) /\ \A w \in S : w <= u => w <= v
    BY <2>1
  <2> QED
    BY <2>2
<1>2. IsFiniteSet(B)
  BY <1>1, FS_Subset
<1>3. IsFiniteSet(A) /\ Cardinality(A) <= Cardinality(B) /\ Cardinality(A) # Cardinality(B)
  BY <1>1, <1>2, FS_Subset
<1>4. Cardinality(A) \in Nat /\ Cardinality(B) \in Nat
  BY <1>2, <1>3, FS_CardinalityType
<1> HIDE DEF A, B
<1>5. Cardinality(A) < Cardinality(B)
  BY <1>3, <1>4
<1> QED
  BY <1>5 DEF Rank, A, B

LEMMA RankTaken ==
  ASSUME NEW S, IsFiniteSet(S), S \subseteq Int, NEW r \in 1..Cardinality(S)
  PROVE  \E v \in S : Rank(S, v) = r
<1>1. PICK n : n = Cardinality(S)
  OBVIOUS
<1>2. n \in Nat
  BY <1>1, FS_CardinalityType
<1>3. PICK T : T = 1..n
  OBVIOUS
<1>4. IsFiniteSet(T) /\ Cardinality(T) = n
  BY <1>2, <1>3, FS_Interval
<1>5. PICK f : f = [v \in S |-> Rank(S, v)]
  OBVIOUS
<1>6. f \in [S -> T]
  BY <1>1, <1>3, <1>5, RankInRange
<1>7. ASSUME NEW u \in S, NEW v \in S, f[u] = f[v] PROVE u = v
  <2>1. Rank(S, u) = Rank(S, v) /\ Rank(S, u) \in Int
    <3>1. Rank(S, u) \in 1..Cardinality(S)
      BY RankInRange
    <3> QED
      BY <1>1, <1>2, <1>5, <1>7, <3>1
  <2>2. ~(Rank(S, u) < Rank(S, v)) /\ ~(Rank(S, v) < Rank(S, u))
    BY <2>1
  <2>3. ~(u < v) /\ ~(v < u)
    BY <2>2, RankGrows
  <2> QED
    BY <2>3
<1>8. f \in Injection(S, T)
  BY <1>6, <1>7 DEF Injection, IsInjective
<1>9. f \in Surjection(S, T)
  BY <1>1, <1>4, <1>8, FS_Injection
<1>10. \E v \in S : f[v] = r
  BY <1>1, <1>3, <1>9 DEF Surjection
<1> QED
  BY <1>5, <1>10

LEMMA RankWithout ==
  ASSUME NEW S, IsFiniteSet(S), S \subseteq Int, NEW u \in S, NEW v \in S
  PROVE  Rank(S \ {u}, v) = IF u <= v THEN Rank(S, v) - 1 ELSE Rank(S, v)
<1> DEFINE A == {w \in S : w <= v}
<1>1. A \in SUBSET S
  OBVIOUS
<1>2. IsFiniteSet(A)
  BY <1>1, FS_Subset
<1>3. {w \in S \ {u} : w <= v} = A \ {u} /\ (u \in A <=> u <= v)
  OBVIOUS
<1>4. Cardinality(A \ {u}) = IF u \in A THEN Cardinality(A) - 1 ELSE Cardinality(A)
  BY <1>2, FS_RemoveElement
<1> QED
  BY <1>3, <1>4 DEF Rank

(* g is what s has at the places of K, in their order. *)
IsAt(s, K, g) ==
  /\ IsFiniteSet(K) /\ K \subseteq 1..Len(s) /\ K \subseteq Int
  /\ Cardinality(K) \in Nat /\ Len(g) = Cardinality(K) /\ DOMAIN g = 1..Cardinality(K)
  /\ \A i \in K : Rank(K, i) \in 1..Len(g) /\ g[Rank(K, i)] = s[i]
  /\ \A k \in 1..Len(g) : \E i \in K : Rank(K, i) = k /\ g[k] = s[i]

LEMMA FilteredPlaces ==
  ASSUME NEW s, Len(s) \in Nat, NEW S, NEW K, K = Places(s, S), NEW g, g = Filtered(s, S)
  PROVE  IsAt(s, K, g)
<1>1. K \subseteq 1..Len(s) /\ K \subseteq Int
  BY DEF Places
<1>2. IsFiniteSet(1..Len(s))
  BY FS_Interval
<1>3. IsFiniteSet(K)
  BY <1>1, <1>2, FS_Subset
<1>4. PICK n \in Nat : n = Cardinality(K)
  BY <1>3, FS_CardinalityType
<1>5. g = [k \in 1..n |-> s[CHOOSE i \in K : Rank(K, i) = k]]
  BY <1>4 DEF Filtered
<1>6. DOMAIN g = 1..n /\ Len(g) = n
  BY <1>5
<1>7. ASSUME NEW k \in 1..n PROVE \E i \in K : Rank(K, i) = k /\ g[k] = s[i]
  <2>1. \E i \in K : Rank(K, i) = k
    BY <1>1, <1>3, <1>4, RankTaken
  <2>2. PICK i : i = CHOOSE j \in K : Rank(K, j) = k
    OBVIOUS
  <2>3. i \in K /\ Rank(K, i) = k
    BY <2>1, <2>2
  <2>4. g[k] = s[i]
    BY <1>5, <2>2
  <2> QED
    BY <2>3, <2>4
<1>8. ASSUME NEW i \in K PROVE Rank(K, i) \in 1..n /\ g[Rank(K, i)] = s[i]
  <2>1. Rank(K, i) \in 1..n
    BY <1>1, <1>3, <1>4, RankInRange
  <2>2. PICK j \in K : Rank(K, j) = Rank(K, i) /\ g[Rank(K, i)] = s[j]
    BY <1>7, <2>1
  <2>3. Rank(K, i) \in Int /\ i \in Int /\ j \in Int
    BY <1>1, <2>1
  <2>4. ~(i < j) /\ ~(j < i)
    BY <1>1, <1>3, <2>2, <2>3, RankGrows
  <2>5. i = j
    BY <2>3, <2>4
  <2> QED
    BY <2>1, <2>2, <2>5
<1> QED
  BY <1>1, <1>3, <1>4, <1>6, <1>7, <1>8 DEF IsAt

LEMMA FilteredSeq ==
  ASSUME NEW T, NEW s \in Seq(T), NEW S, NEW g, g = Filtered(s, S)
  PROVE  /\ g \in Seq(T) /\ ToSet(g) = ToSet(s) \cap S
         /\ IsInjective(s) => IsInjective(g)
<1>1. Len(s) \in Nat /\ DOMAIN s = 1..Len(s) /\ \A i \in 1..Len(s) : s[i] \in T
  BY LenProperties, ElementOfSeq
<1>2. PICK K : K = Places(s, S)
  OBVIOUS
<1>3. /\ K \subseteq 1..Len(s) /\ Cardinality(K) \in Nat
      /\ Len(g) = Cardinality(K) /\ DOMAIN g = 1..Cardinality(K)
      /\ \A i \in K : Rank(K, i) \in 1..Len(g) /\ g[Rank(K, i)] = s[i]
      /\ \A k \in 1..Len(g) : \E i \in K : Rank(K, i) = k /\ g[k] = s[i]
  <2>1. IsAt(s, K, g)
    BY <1>1, <1>2, FilteredPlaces
  <2> QED
    BY <2>1 DEF IsAt
<1>4. \A i \in 1..Len(s) : i \in K <=> s[i] \in S
  BY <1>2 DEF Places
<1>5. \A k \in 1..Cardinality(K) : g[k] \in T
  BY <1>1, <1>3
<1>6. PICK n \in Nat : n = Cardinality(K)
  BY <1>3
<1>7. g = [k \in 1..n |-> g[k]]
  BY <1>2, <1>6 DEF Filtered
<1>8. g \in Seq(T)
  <2>1. \A k \in 1..n : g[k] \in T
    BY <1>5, <1>6
  <2> QED
    BY <1>7, <2>1, IsASeq
<1>9. ToSet(g) = ToSet(s) \cap S
  <2>1. ASSUME NEW x \in ToSet(g) PROVE x \in ToSet(s) \cap S
    <3>1. PICK k \in 1..Len(g) : x = g[k]
      BY <1>3 DEF ToSet
    <3>2. PICK i \in K : g[k] = s[i]
      BY <1>3
    <3>3. i \in 1..Len(s) /\ s[i] \in S
      BY <1>3, <1>4
    <3> QED
      BY <1>1, <3>1, <3>2, <3>3 DEF ToSet
  <2>2. ASSUME NEW x \in ToSet(s) \cap S PROVE x \in ToSet(g)
    <3>1. PICK i \in 1..Len(s) : x = s[i]
      BY <1>1 DEF ToSet
    <3>2. i \in K
      BY <1>4, <3>1
    <3>3. Rank(K, i) \in DOMAIN g /\ g[Rank(K, i)] = x
      BY <1>3, <3>1, <3>2
    <3> QED
      BY <3>3 DEF ToSet
  <2> QED
    BY <2>1, <2>2
<1>10. ASSUME IsInjective(s) PROVE IsInjective(g)
  <2> SUFFICES ASSUME NEW a \in DOMAIN g, NEW b \in DOMAIN g, g[a] = g[b] PROVE a = b
    BY DEF IsInjective
  <2>1. PICK i \in K : Rank(K, i) = a /\ g[a] = s[i]
    BY <1>3
  <2>2. PICK j \in K : Rank(K, j) = b /\ g[b] = s[j]
    BY <1>3
  <2>3. i = j
    BY <1>1, <1>3, <1>10, <2>1, <2>2 DEF IsInjective
  <2> QED
    BY <2>1, <2>2, <2>3
<1> QED
  BY <1>8, <1>9, <1>10

-----------------------------------------------------------------------------
(* The numbers on the p-th page, s on each. *)

(* The bounds of a page. *)
LEMMA Bounds ==
  ASSUME NEW s \in Nat, NEW p \in Nat, s > 0, p > 0
  PROVE  /\ (p - 1) * s \in Nat /\ p * s \in Nat /\ p * s = (p - 1) * s + s
         /\ p > 1 => (p - 1) * s >= s /\ (p - 1 - 1) * s = (p - 1) * s - s
<1>1. PICK q \in Nat : q = p - 1
  OBVIOUS
<1>2. q * s \in Nat /\ (q + 1) * s = q * s + s
  OBVIOUS
<1>3. q > 0 => q * s >= s /\ (q - 1) * s = q * s - s
  OBVIOUS
<1> QED
  BY <1>1, <1>2, <1>3

LEMMA LastPage ==
  ASSUME NEW s \in Nat, NEW p \in Nat, NEW c \in Nat, s > 0, p > 0,
         p <= (c + s - 1) \div s
  PROVE  (p - 1) * s + 1 <= c
<1>1. PICK d \in Int : d = (c + s - 1) \div s
  OBVIOUS
<1>2. d * s <= c + s - 1
  BY <1>1
<1>3. p * s <= d * s
  BY <1>1
<1>4. p * s = (p - 1) * s + s /\ (p - 1) * s \in Nat
  BY Bounds
<1>5. p * s \in Int /\ d * s \in Int
  OBVIOUS
<1> QED
  BY <1>2, <1>3, <1>4, <1>5
=============================================================================
