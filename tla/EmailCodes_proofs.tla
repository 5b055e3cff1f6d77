-------------------------- MODULE EmailCodes_proofs --------------------------
(***************************************************************************)
(* Safety of EmailCodes, and of the account lock under it, for every set   *)
(* of calls, every nesting of their keys and every limit.                  *)
(***************************************************************************)
EXTENDS EmailCodes, FiniteSetTheorems, WellFoundedInduction, TLAPS

USE LockAssumption, CodesAssumption

-----------------------------------------------------------------------------
(* The keys of a call.                                                     *)

(* A nonempty set of numbers has a least one. *)
LEMMA LeastOf ==
  ASSUME NEW S, S \subseteq Nat, S # {}
  PROVE  Least(S) \in S /\ \A k \in S : Least(S) =< k
<1>1. PICK R : R = OpToRel(<, Nat)
  OBVIOUS
<1>2. IsWellFoundedOn(R, Nat)
  BY <1>1, NatLessThanWellFounded
<1>3. \A x, y \in Nat : x < y => <<x, y>> \in R
  BY <1>1 DEF OpToRel
<1>4. PICK m \in S : \A y \in S : ~(<<y, m>> \in R)
  BY <1>2, WFMin
<1>5. \A k \in S : ~(k < m) /\ k \in Nat /\ m \in Nat
  BY <1>3, <1>4
<1>6. \A k \in S : m =< k
  BY <1>5
<1> QED
  BY <1>6 DEF Least

LEMMA WantsTyped ==
  ASSUME NEW c \in Callers
  PROVE  /\ DOMAIN Wants[c] \subseteq Nat
         /\ \A i \in DOMAIN Wants[c] : Wants[c][i] \subseteq Keys
         /\ DOMAIN Wants[c] = 1 .. Len(Wants[c])
         /\ Len(Wants[c]) \in Nat
<1>1. Wants[c] \in Seq(SUBSET Keys)
  OBVIOUS
<1> QED
  BY <1>1

(* A call that lacks a key asks for one it wants and does not hold. *)
LEMMA NextKeyFacts ==
  ASSUME NEW c \in Callers, Missing(c) # {}
  PROVE  /\ NextLock(c) \in Missing(c)
         /\ \A i \in Missing(c) : NextLock(c) =< i
         /\ NextKey(c) \in Rest(c)
         /\ \A k \in Rest(c) : NextKey(c) =< k
         /\ Rest(c) \subseteq Keys
         /\ NextKey(c) \in Keys /\ NextKey(c) \notin held[c]
         /\ NextKey(c) \in Wants[c][NextLock(c)]
<1>1. Missing(c) \subseteq Nat
  BY WantsTyped DEF Missing
<1>2. NextLock(c) \in Missing(c) /\ \A i \in Missing(c) : NextLock(c) =< i
  BY <1>1, LeastOf DEF NextLock
<1>3. NextLock(c) \in DOMAIN Wants[c] /\ Rest(c) # {}
  BY <1>2 DEF Missing, Rest
<1>4. Rest(c) \subseteq Keys
  BY <1>3, WantsTyped DEF Rest
<1>5. NextKey(c) \in Rest(c) /\ \A k \in Rest(c) : NextKey(c) =< k
  BY <1>3, <1>4, LeastOf DEF NextKey
<1> QED
  BY <1>2, <1>4, <1>5 DEF Rest

(* A new key leaves the rest of its lock to take, and the other locks as    *)
(* they were.                                                               *)
LEMMA KeyTaken ==
  ASSUME NEW c \in Callers, Missing(c) # {},
         held'[c] = held[c] \cup {NextKey(c)}
  PROVE  /\ Rest(c) # {NextKey(c)} =>
              /\ Missing(c)' = Missing(c)
              /\ NextLock(c)' = NextLock(c)
              /\ Rest(c)' = Rest(c) \ {NextKey(c)}
              /\ NextKey(c)' = Least(Rest(c) \ {NextKey(c)})
         /\ Rest(c) = {NextKey(c)} => Missing(c)' = Missing(c) \ {NextLock(c)}
<1> DEFINE l == NextLock(c)
           k == NextKey(c)
<1>1. /\ l \in DOMAIN Wants[c] /\ k \in Wants[c][l] /\ k \notin held[c]
      /\ k \in Rest(c)
  BY NextKeyFacts DEF Missing
<1>2. \A i \in DOMAIN Wants[c] \ {l} : k \notin Wants[c][i]
  BY <1>1, NestingAssumption
<1>3. \A i \in DOMAIN Wants[c] \ {l} :
        Wants[c][i] \subseteq held'[c] <=> Wants[c][i] \subseteq held[c]
  BY <1>2
<1>4. Wants[c][l] \ held'[c] = Rest(c) \ {k}
  BY DEF Rest
<1>5. l \in Missing(c)
  BY NextKeyFacts
<1>6. CASE Rest(c) # {k}
  <2>1. Rest(c) \ {k} # {}
    BY <1>1, <1>6
  <2>2. Missing(c)' = Missing(c)
    BY <1>3, <1>4, <1>5, <2>1 DEF Missing
  <2>3. NextLock(c)' = l
    BY <2>2 DEF NextLock
  <2>4. Rest(c)' = Rest(c) \ {k}
    BY <1>4, <2>3 DEF Rest
  <2> QED
    BY <1>6, <2>2, <2>3, <2>4 DEF NextKey
<1>7. CASE Rest(c) = {k}
  <2>1. Wants[c][l] \subseteq held'[c]
    BY <1>4, <1>7
  <2> QED
    BY <1>3, <1>7, <2>1 DEF Missing
<1> QED
  BY <1>6, <1>7

LEMMA KeySame ==
  ASSUME NEW c \in Callers, held'[c] = held[c]
  PROVE  /\ Missing(c)' = Missing(c) /\ NextLock(c)' = NextLock(c)
         /\ Rest(c)' = Rest(c) /\ NextKey(c)' = NextKey(c)
BY DEF Missing, NextLock, Rest, NextKey
-----------------------------------------------------------------------------
(* The lines at the keys.                                                  *)

Promised == Callers \cup {Nobody}

LockTyped ==
  /\ pending \in [Keys -> Promised]
  /\ previous \in [Callers -> Promised]
  /\ resolved \subseteq Callers \X Keys
  /\ held \in [Callers -> SUBSET Keys]
  /\ waiting \subseteq Callers /\ over \subseteq Callers

(* Who is in the line at a key: its waiters and its holder. *)
Waits(c, k) == c \in waiting /\ NextKey(c) = k
InLine(c, k) == Waits(c, k) \/ k \in held[c]

(* The waiter whose promise is resolved, or who found none. *)
First(c, k) == Waits(c, k) /\ (previous[c] = Nobody \/ <<previous[c], k>> \in resolved)

(* The line at key k, by a number q[c] for each call.  No two share one;    *)
(* the holder, or the first waiter, has the least; every other waiter       *)
(* awaits the one just before it; the map holds the last; and a promise     *)
(* that is resolved is that of a call that has left the line.               *)
RankedAt(q, k) ==
  /\ \A c, d \in Callers : InLine(c, k) /\ InLine(d, k) /\ c # d => q[c] # q[d]
  /\ \A c, d \in Callers :
       (k \in held[c] \/ First(c, k)) /\ InLine(d, k) /\ c # d => q[c] < q[d]
  /\ \A d, p \in Callers : Waits(d, k) /\ ~First(d, k) /\ p = previous[d] =>
       /\ InLine(p, k) /\ q[p] < q[d]
       /\ \A c \in Callers : InLine(c, k) => q[c] =< q[p] \/ q[d] =< q[c]
  /\ pending[k] = Nobody => \A c \in Callers : ~InLine(c, k)
  /\ \A p \in Callers : p = pending[k] =>
       InLine(p, k) /\ \A c \in Callers : InLine(c, k) => q[c] =< q[p]
  /\ \A c \in Callers : <<c, k>> \in resolved => c \in over /\ ~InLine(c, k)

Numbers == [Callers -> Nat]

(* A key the step does not touch. *)
LEMMA LineFrame ==
  ASSUME LockTyped, NEW k \in Keys, NEW q \in Numbers, RankedAt(q, k),
         \A c \in Callers : Waits(c, k)' <=> Waits(c, k),
         \A c \in Callers : Waits(c, k) => previous'[c] = previous[c],
         \A c \in Callers : k \in held'[c] <=> k \in held[c],
         \A c \in Callers : <<c, k>> \in resolved' <=> <<c, k>> \in resolved,
         pending'[k] = pending[k], over \subseteq over'
  PROVE  RankedAt(q, k)'
<1>1. \A c \in Callers : InLine(c, k)' <=> InLine(c, k)
  BY DEF InLine
<1>2. \A c \in Callers : First(c, k)' <=> First(c, k)
  BY DEF First, LockTyped, Promised
<1> QED
  BY <1>1, <1>2 DEF RankedAt, LockTyped, Promised

(* A call joins the line behind the call whose promise the map holds. *)
LEMMA LineEnter ==
  ASSUME LockTyped, NEW k \in Keys, NEW q \in Numbers, RankedAt(q, k),
         NEW c \in Callers, ~InLine(c, k), c \notin over,
         Waits(c, k)', k \notin held'[c], previous'[c] = pending[k], pending'[k] = c,
         \A d \in Callers \ {c} : Waits(d, k)' <=> Waits(d, k),
         \A d \in Callers \ {c} : Waits(d, k) => previous'[d] = previous[d],
         \A d \in Callers : k \in held'[d] <=> k \in held[d],
         \A d \in Callers : <<d, k>> \in resolved' <=> <<d, k>> \in resolved,
         over \subseteq over'
  PROVE  \E n \in Numbers :
           /\ RankedAt(n, k)'
           /\ \A d \in Callers \ {c} : n[d] = q[d]
           /\ \A d \in Callers \ {c} : InLine(d, k) => q[d] < n[c]
<1>0. pending[k] \in Promised /\ Nobody \notin Callers
  BY DEF LockTyped
<1>1. PICK n \in Numbers :
        /\ n[c] = IF pending[k] = Nobody THEN 0 ELSE q[pending[k]] + 1
        /\ \A d \in Callers \ {c} : n[d] = q[d]
  <2>1. PICK last \in Nat : last = IF pending[k] = Nobody THEN 0 ELSE q[pending[k]] + 1
    BY <1>0, SMTT(30) DEF Numbers, Promised
  <2>2. [q EXCEPT ![c] = last] \in Numbers
    BY <2>1 DEF Numbers
  <2> QED
    BY <2>1, <2>2 DEF Numbers
<1>2. \A d \in Callers \ {c} : /\ InLine(d, k)' <=> InLine(d, k)
                               /\ First(d, k)' <=> First(d, k)
                               /\ d = pending[k] => InLine(d, k)
  BY <1>0, SMTT(30) DEF InLine, First, LockTyped, Promised, RankedAt
<1>3. \A d \in Callers \ {c} : InLine(d, k) => q[d] < n[c]
  <2> SUFFICES ASSUME NEW d \in Callers \ {c}, InLine(d, k) PROVE q[d] < n[c]
    OBVIOUS
  <2>1. pending[k] # Nobody /\ pending[k] \in Callers
    BY <1>0 DEF RankedAt, Promised
  <2>2. q[d] =< q[pending[k]] /\ q[d] \in Nat /\ q[pending[k]] \in Nat
    BY <2>1 DEF RankedAt, Numbers
  <2>3. n[c] = q[pending[k]] + 1
    BY <1>1, <2>1
  <2> QED
    BY <2>2, <2>3, SMTT(30)
<1>4. c # pending[k] /\ <<c, k>> \notin resolved /\ InLine(c, k)'
  BY <1>0 DEF RankedAt, InLine
<1>5. First(c, k)' <=> pending[k] = Nobody
  BY <1>0 DEF First, RankedAt, Promised
<1>6. RankedAt(n, k)'
  <2>1. \A a, b \in Callers : InLine(a, k)' /\ InLine(b, k)' /\ a # b => n[a] # n[b]
    <3> SUFFICES ASSUME NEW a \in Callers, NEW b \in Callers, a # b,
                        InLine(a, k)', InLine(b, k)'
                 PROVE  n[a] # n[b]
      OBVIOUS
    <3>1. CASE a # c /\ b # c
      BY <1>1, <1>2, <3>1 DEF RankedAt
    <3>2. CASE a = c
      <4>1. q[b] < n[c] /\ n[b] = q[b] /\ q[b] \in Nat
        BY <1>1, <1>2, <1>3, <3>2 DEF Numbers
      <4> QED
        BY <3>2, <4>1
    <3>3. CASE b = c
      <4>1. q[a] < n[c] /\ n[a] = q[a] /\ q[a] \in Nat
        BY <1>1, <1>2, <1>3, <3>3 DEF Numbers
      <4> QED
        BY <3>3, <4>1
    <3> QED
      BY <3>1, <3>2, <3>3
  <2>2. \A a, b \in Callers :
          (k \in held'[a] \/ First(a, k)') /\ InLine(b, k)' /\ a # b => n[a] < n[b]
    <3> SUFFICES ASSUME NEW a \in Callers, NEW b \in Callers, a # b,
                        k \in held'[a] \/ First(a, k)', InLine(b, k)'
                 PROVE  n[a] < n[b]
      OBVIOUS
    <3>1. CASE a # c /\ b # c
      BY <1>1, <1>2, <3>1 DEF RankedAt
    <3>2. CASE b = c
      <4>1. InLine(a, k)
        BY <1>2, <3>2 DEF InLine, First
      <4> QED
        BY <1>1, <1>3, <3>2, <4>1
    <3>3. CASE a = c
      <4>1. pending[k] = Nobody
        BY <1>5, <3>3
      <4> QED
        BY <1>2, <3>3, <4>1 DEF RankedAt
    <3> QED
      BY <3>1, <3>2, <3>3
  <2>3. \A d, p \in Callers : Waits(d, k)' /\ ~First(d, k)' /\ p = previous'[d] =>
          /\ InLine(p, k)' /\ n[p] < n[d]
          /\ \A a \in Callers : InLine(a, k)' => n[a] =< n[p] \/ n[d] =< n[a]
    <3> SUFFICES ASSUME NEW d \in Callers, NEW p \in Callers,
                        Waits(d, k)', ~First(d, k)', p = previous'[d]
                 PROVE  /\ InLine(p, k)' /\ n[p] < n[d]
                        /\ \A a \in Callers : InLine(a, k)' => n[a] =< n[p] \/ n[d] =< n[a]
      OBVIOUS
    <3>1. CASE d = c
      <4>1. p = pending[k] /\ InLine(p, k) /\ p # c
        BY <1>4, <3>1 DEF RankedAt
      <4>2. \A a \in Callers \ {c} : InLine(a, k) => n[a] =< n[p]
        BY <1>1, <4>1 DEF RankedAt
      <4>3. n[c] \in Nat /\ n[c] =< n[c]
        <5>1. n[c] \in Nat
          BY DEF Numbers
        <5> QED
          BY <5>1
      <4>4. n[p] < n[c]
        BY <1>1, <1>3, <4>1
      <4> QED
        BY <1>2, <3>1, <4>1, <4>2, <4>3, <4>4
    <3>2. CASE d # c
      <4>1. Waits(d, k) /\ ~First(d, k) /\ p = previous[d] /\ InLine(d, k)
        BY <1>2, <3>2 DEF InLine
      <4>2. /\ InLine(p, k) /\ q[p] < q[d]
            /\ \A a \in Callers : InLine(a, k) => q[a] =< q[p] \/ q[d] =< q[a]
        BY <4>1 DEF RankedAt
      <4>3. p # c
        BY <4>2
      <4>4. n[d] = q[d] /\ n[p] = q[p]
        BY <1>1, <3>2, <4>3
      <4>5. n[d] =< n[c]
        <5>1. q[d] < n[c] /\ q[d] \in Nat /\ n[c] \in Nat
          BY <1>1, <1>3, <3>2, <4>1 DEF Numbers
        <5> QED
          BY <4>4, <5>1, SMTT(30)
      <4>6. \A a \in Callers : InLine(a, k)' => n[a] =< n[p] \/ n[d] =< n[a]
        BY <1>1, <1>2, <4>2, <4>4, <4>5
      <4> QED
        BY <1>2, <4>2, <4>3, <4>4, <4>6
    <3> QED
      BY <3>1, <3>2
  <2>4. pending'[k] # Nobody /\ InLine(c, k)'
    BY <1>0, <1>4
  <2>5. \A a \in Callers : InLine(a, k)' => n[a] =< n[c]
    <3> SUFFICES ASSUME NEW a \in Callers, InLine(a, k)' PROVE n[a] =< n[c]
      OBVIOUS
    <3>1. CASE a = c
      BY <1>1, <3>1 DEF Numbers
    <3>2. CASE a # c
      <4>1. q[a] < n[c] /\ n[a] = q[a] /\ q[a] \in Nat /\ n[c] \in Nat
        BY <1>1, <1>2, <1>3, <3>2 DEF Numbers
      <4> QED
        BY <4>1
    <3> QED
      BY <3>1, <3>2
  <2>6. \A a \in Callers : <<a, k>> \in resolved' => a \in over' /\ ~InLine(a, k)'
    <3> SUFFICES ASSUME NEW a \in Callers, <<a, k>> \in resolved'
                 PROVE  a \in over' /\ ~InLine(a, k)'
      OBVIOUS
    <3>1. <<a, k>> \in resolved
      OBVIOUS
    <3>2. a \in over /\ ~InLine(a, k) /\ a # c
      BY <1>4, <3>1 DEF RankedAt
    <3> QED
      BY <1>2, <3>2
  <2>7. /\ pending'[k] = Nobody => \A a \in Callers : ~InLine(a, k)'
        /\ \A p \in Callers : p = pending'[k] =>
             InLine(p, k)' /\ \A a \in Callers : InLine(a, k)' => n[a] =< n[p]
    BY <2>4, <2>5
  <2> QED
    BY <2>1, <2>2, <2>3, <2>6, <2>7 DEF RankedAt
<1> QED
  BY <1>1, <1>3, <1>6

(* The first waiter takes the key. *)
LEMMA LineGrant ==
  ASSUME LockTyped, NEW k \in Keys, NEW q \in Numbers, RankedAt(q, k),
         NEW c \in Callers, First(c, k), k \notin held[c],
         k \in held'[c], ~Waits(c, k)',
         \A d \in Callers \ {c} : Waits(d, k)' <=> Waits(d, k),
         \A d \in Callers \ {c} : Waits(d, k) => previous'[d] = previous[d],
         \A d \in Callers \ {c} : k \in held'[d] <=> k \in held[d],
         \A d \in Callers : <<d, k>> \in resolved' <=>
                              <<d, k>> \in resolved /\ d # previous[c],
         pending'[k] = pending[k], over \subseteq over'
  PROVE  RankedAt(q, k)'
<1>1. \A d \in Callers : InLine(d, k)' <=> InLine(d, k)
  BY DEF InLine, First
<1>2. \A d \in Callers : ~First(d, k)'
  <2> SUFFICES ASSUME NEW d \in Callers, First(d, k)' PROVE FALSE
    OBVIOUS
  <2>1. d # c /\ Waits(d, k) /\ previous'[d] = previous[d]
    BY DEF First
  <2>2. First(d, k)
    BY <2>1 DEF First, LockTyped, Promised
  <2>3. q[c] < q[d] /\ q[d] < q[c]
    BY <2>1, <2>2 DEF RankedAt, InLine, First
  <2> QED
    BY <2>3 DEF Numbers
<1>3. \A d \in Callers \ {c} : Waits(d, k) => ~First(d, k)
  <2> SUFFICES ASSUME NEW d \in Callers \ {c}, First(d, k) PROVE FALSE
    OBVIOUS
  <2>1. q[c] < q[d] /\ q[d] < q[c]
    BY DEF RankedAt, InLine, First
  <2> QED
    BY <2>1 DEF Numbers
<1>4. \A d \in Callers \ {c} : k \notin held[d]
  <2> SUFFICES ASSUME NEW d \in Callers \ {c}, k \in held[d] PROVE FALSE
    OBVIOUS
  <2>1. q[c] < q[d] /\ q[d] < q[c]
    BY DEF RankedAt, InLine, First
  <2> QED
    BY <2>1 DEF Numbers
<1>5. \A a, b \in Callers :
        (k \in held'[a] \/ First(a, k)') /\ InLine(b, k)' /\ a # b => q[a] < q[b]
  BY <1>1, <1>2, <1>4 DEF RankedAt
<1>6. \A d, p \in Callers : Waits(d, k)' /\ ~First(d, k)' /\ p = previous'[d] =>
        /\ InLine(p, k)' /\ q[p] < q[d]
        /\ \A a \in Callers : InLine(a, k)' => q[a] =< q[p] \/ q[d] =< q[a]
  <2> SUFFICES ASSUME NEW d \in Callers, NEW p \in Callers, Waits(d, k)', p = previous'[d]
               PROVE  /\ InLine(p, k)' /\ q[p] < q[d]
                      /\ \A a \in Callers : InLine(a, k)' => q[a] =< q[p] \/ q[d] =< q[a]
    OBVIOUS
  <2>1. d # c /\ Waits(d, k) /\ ~First(d, k) /\ p = previous[d]
    BY <1>3
  <2>2. /\ InLine(p, k) /\ q[p] < q[d]
        /\ \A a \in Callers : InLine(a, k) => q[a] =< q[p] \/ q[d] =< q[a]
    BY <2>1 DEF RankedAt
  <2> QED
    BY <1>1, <2>2
<1>7. \A a, b \in Callers : InLine(a, k)' /\ InLine(b, k)' /\ a # b => q[a] # q[b]
  BY <1>1 DEF RankedAt
<1>8. /\ pending'[k] = Nobody => \A a \in Callers : ~InLine(a, k)'
      /\ \A p \in Callers : p = pending'[k] =>
           InLine(p, k)' /\ \A a \in Callers : InLine(a, k)' => q[a] =< q[p]
  BY <1>1 DEF RankedAt
<1>9. \A a \in Callers : <<a, k>> \in resolved' => a \in over' /\ ~InLine(a, k)'
  BY <1>1 DEF RankedAt
<1> QED
  BY <1>5, <1>6, <1>7, <1>8, <1>9 DEF RankedAt

(* A call that is over gives the key back: the waiter behind it is first. *)
LEMMA LineLeave ==
  ASSUME LockTyped, NEW k \in Keys, NEW q \in Numbers, RankedAt(q, k),
         NEW c \in Callers, k \in held[c], k \notin held'[c],
         c \in over, c \notin waiting, c \notin waiting',
         \A d \in Callers : Waits(d, k)' <=> Waits(d, k),
         \A d \in Callers \ {c} : Waits(d, k) => previous'[d] = previous[d],
         \A d \in Callers \ {c} : k \in held'[d] <=> k \in held[d],
         \A d \in Callers : <<d, k>> \in resolved' <=>
            \/ <<d, k>> \in resolved
            \/ d = c /\ \E e \in Callers : Waits(e, k) /\ previous[e] = c,
         pending'[k] = (IF pending[k] = c THEN Nobody ELSE pending[k]),
         over \subseteq over'
  PROVE  RankedAt(q, k)'
<1>1. ~InLine(c, k)' /\ InLine(c, k)
  BY DEF InLine, Waits
<1>2. \A d \in Callers \ {c} : InLine(d, k)' <=> InLine(d, k)
  BY DEF InLine
<1>3. \A d \in Callers \ {c} : k \notin held[d] /\ ~First(d, k)
  <2> SUFFICES ASSUME NEW d \in Callers \ {c}, k \in held[d] \/ First(d, k) PROVE FALSE
    OBVIOUS
  <2>1. q[c] < q[d] /\ q[d] < q[c]
    BY <1>1 DEF RankedAt, InLine, First
  <2> QED
    BY <2>1 DEF Numbers
<1>4. \A d \in Callers : First(d, k)' <=> Waits(d, k) /\ previous[d] = c /\ d # c
  <2> SUFFICES ASSUME NEW d \in Callers
               PROVE  First(d, k)' <=> Waits(d, k) /\ previous[d] = c /\ d # c
    OBVIOUS
  <2>1. CASE d = c
    BY <2>1 DEF First, Waits
  <2>2. CASE d # c
    <3>1. ~First(d, k) /\ (Waits(d, k) => previous'[d] = previous[d] /\ previous[d] # Nobody)
      BY <1>3, <2>2 DEF First
    <3>2. Waits(d, k) => (<<previous[d], k>> \in resolved' <=> previous[d] = c)
      <4> SUFFICES ASSUME Waits(d, k)
                   PROVE  <<previous[d], k>> \in resolved' <=> previous[d] = c
        OBVIOUS
      <4>1. previous[d] \in Callers /\ <<previous[d], k>> \notin resolved
        BY <3>1 DEF First, LockTyped, Promised
      <4> QED
        BY <4>1
    <3> QED
      BY <2>2, <3>1, <3>2 DEF First
  <2> QED
    BY <2>1, <2>2
<1>5. \A a, b \in Callers : InLine(a, k)' /\ InLine(b, k)' /\ a # b => q[a] # q[b]
  BY <1>1, <1>2 DEF RankedAt
<1>6. \A a, b \in Callers :
        (k \in held'[a] \/ First(a, k)') /\ InLine(b, k)' /\ a # b => q[a] < q[b]
  <2> SUFFICES ASSUME NEW a \in Callers, NEW b \in Callers, a # b,
                      k \in held'[a] \/ First(a, k)', InLine(b, k)'
               PROVE  q[a] < q[b]
    OBVIOUS
  <2>1. a # c /\ b # c /\ k \notin held'[a] /\ First(a, k)' /\ InLine(b, k)
    BY <1>1, <1>2, <1>3, <1>4 DEF InLine
  <2>2. Waits(a, k) /\ ~First(a, k) /\ previous[a] = c /\ InLine(a, k)
    BY <1>3, <1>4, <2>1 DEF InLine
  <2>3. q[b] =< q[c] \/ q[a] =< q[b]
    BY <2>1, <2>2 DEF RankedAt
  <2>4. q[c] < q[b] /\ q[a] # q[b]
    BY <2>1, <2>2 DEF RankedAt
  <2> QED
    BY <2>3, <2>4, SMTT(30) DEF Numbers
<1>7. \A d, p \in Callers : Waits(d, k)' /\ ~First(d, k)' /\ p = previous'[d] =>
        /\ InLine(p, k)' /\ q[p] < q[d]
        /\ \A a \in Callers : InLine(a, k)' => q[a] =< q[p] \/ q[d] =< q[a]
  <2> SUFFICES ASSUME NEW d \in Callers, NEW p \in Callers,
                      Waits(d, k)', ~First(d, k)', p = previous'[d]
               PROVE  /\ InLine(p, k)' /\ q[p] < q[d]
                      /\ \A a \in Callers : InLine(a, k)' => q[a] =< q[p] \/ q[d] =< q[a]
    OBVIOUS
  <2>1. d # c
    BY DEF Waits
  <2>2. Waits(d, k) /\ p = previous[d] /\ ~First(d, k)
    BY <1>3, <2>1
  <2>3. p # c
    BY <1>4, <2>1, <2>2
  <2>4. /\ InLine(p, k) /\ q[p] < q[d]
        /\ \A a \in Callers : InLine(a, k) => q[a] =< q[p] \/ q[d] =< q[a]
    BY <2>2 DEF RankedAt
  <2> QED
    BY <1>1, <1>2, <2>3, <2>4
<1>8. CASE pending[k] = c
  <2>1. \A d \in Callers \ {c} : ~InLine(d, k)
    <3> SUFFICES ASSUME NEW d \in Callers \ {c}, InLine(d, k) PROVE FALSE
      OBVIOUS
    <3>1. q[d] =< q[c] /\ q[c] < q[d]
      BY <1>8 DEF RankedAt
    <3> QED
      BY <3>1 DEF Numbers
  <2>2. pending'[k] = Nobody /\ \A d \in Callers : ~InLine(d, k)'
    BY <1>1, <1>2, <1>8, <2>1
  <2>3. \A a \in Callers : <<a, k>> \in resolved' => a \in over'
    BY DEF RankedAt
  <2> QED
    BY <1>5, <1>6, <1>7, <2>2, <2>3 DEF RankedAt
<1>9. CASE pending[k] # c
  <2>1. /\ pending'[k] = Nobody => \A a \in Callers : ~InLine(a, k)'
        /\ \A p \in Callers : p = pending'[k] =>
             InLine(p, k)' /\ \A a \in Callers : InLine(a, k)' => q[a] =< q[p]
    BY <1>1, <1>2, <1>9 DEF RankedAt
  <2>2. \A a \in Callers : <<a, k>> \in resolved' => a \in over' /\ ~InLine(a, k)'
    BY <1>1, <1>2 DEF RankedAt
  <2> QED
    BY <1>5, <1>6, <1>7, <2>1, <2>2 DEF RankedAt
<1> QED
  BY <1>8, <1>9

(* While one call holds a key no other does. *)
LEMMA OneHolder ==
  ASSUME NEW k \in Keys, NEW q \in Numbers, RankedAt(q, k),
         NEW c \in Callers, NEW d \in Callers, k \in held[c], k \in held[d]
  PROVE  c = d
<1> SUFFICES ASSUME c # d PROVE FALSE
  OBVIOUS
<1>1. q[c] < q[d] /\ q[d] < q[c]
  BY DEF RankedAt, InLine
<1> QED
  BY <1>1 DEF Numbers

-----------------------------------------------------------------------------
(* The steps of the lock, at one key.                                      *)

(* Those who stay in the line keep their numbers; a newcomer is the last. *)
Follows(q, n, k) ==
  /\ \A d \in Callers : InLine(d, k) /\ InLine(d, k)' => n[d] = q[d]
  /\ \A d, e \in Callers :
       ~InLine(d, k) /\ InLine(d, k)' /\ InLine(e, k)' /\ e # d => n[e] < n[d]

LEMMA SameLine ==
  ASSUME NEW k \in Keys, NEW q \in Numbers, RankedAt(q, k)',
         \A d \in Callers : InLine(d, k)' => InLine(d, k)
  PROVE  \E n \in Numbers : RankedAt(n, k)' /\ Follows(q, n, k)
<1>1. Follows(q, q, k)
  BY DEF Follows
<1> WITNESS q \in Numbers
<1> QED
  BY <1>1

(* The line after a call has entered it. *)
LEMMA NewLine ==
  ASSUME NEW k \in Keys, NEW q \in Numbers, NEW c \in Callers, ~InLine(c, k),
         NEW n \in Numbers, RankedAt(n, k)',
         \A d \in Callers \ {c} : n[d] = q[d],
         \A d \in Callers \ {c} : InLine(d, k) => q[d] < n[c],
         \A d \in Callers \ {c} : InLine(d, k)' <=> InLine(d, k)
  PROVE  \E m \in Numbers : RankedAt(m, k)' /\ Follows(q, m, k)
<1>1. Follows(q, n, k)
  BY DEF Follows
<1> WITNESS n \in Numbers
<1> QED
  BY <1>1

LEMMA QueueLine ==
  ASSUME LockTyped, NEW c \in Callers, Queue(c),
         NEW k \in Keys, NEW q \in Numbers, RankedAt(q, k)
  PROVE  /\ \A d \in Callers : InLine(d, k)' <=> InLine(d, k) \/ (d = c /\ k = NextKey(c))
         /\ \E n \in Numbers : RankedAt(n, k)' /\ Follows(q, n, k)
<1>1. /\ c \notin over /\ c \notin waiting /\ NextKey(c) \in Keys /\ NextKey(c) \notin held[c]
  BY NextKeyFacts DEF Queue
<1>2. /\ previous' = [previous EXCEPT ![c] = pending[NextKey(c)]]
      /\ pending' = [pending EXCEPT ![NextKey(c)] = c]
      /\ waiting' = waiting \cup {c}
      /\ resolved' = resolved /\ held' = held /\ over' = over
  BY DEF Queue, Enter
<1>3. \A d \in Callers : NextKey(d)' = NextKey(d)
  BY <1>2, KeySame
<1>4. \A d \in Callers \ {c} : Waits(d, k)' <=> Waits(d, k)
  BY <1>2, <1>3 DEF Waits
<1>5. ~Waits(c, k) /\ (Waits(c, k)' <=> k = NextKey(c))
  BY <1>1, <1>2, <1>3 DEF Waits
<1>6. \A d \in Callers : InLine(d, k)' <=> InLine(d, k) \/ (d = c /\ k = NextKey(c))
  BY <1>2, <1>4, <1>5 DEF InLine
<1>7. \A d \in Callers \ {c} : previous'[d] = previous[d]
  BY <1>2 DEF LockTyped
<1>8. CASE k # NextKey(c)
  <2>1. pending'[k] = pending[k]
    BY <1>1, <1>2, <1>8 DEF LockTyped
  <2>2. \A d \in Callers : Waits(d, k)' <=> Waits(d, k)
    BY <1>4, <1>5, <1>8
  <2>3. \A d \in Callers : Waits(d, k) => previous'[d] = previous[d]
    BY <1>5, <1>7
  <2>4. RankedAt(q, k)'
    BY <1>2, <2>1, <2>2, <2>3, LineFrame
  <2> QED
    BY <1>6, <1>8, <2>4, SameLine
<1>9. CASE k = NextKey(c)
  <2>1. previous'[c] = pending[k] /\ pending'[k] = c
    BY <1>1, <1>2, <1>9 DEF LockTyped
  <2>2. ~InLine(c, k)
    BY <1>1, <1>5, <1>9 DEF InLine
  <2>3. \A d \in Callers \ {c} : Waits(d, k) => previous'[d] = previous[d]
    BY <1>7
  <2>4. PICK n \in Numbers :
           /\ RankedAt(n, k)'
           /\ \A d \in Callers \ {c} : n[d] = q[d]
           /\ \A d \in Callers \ {c} : InLine(d, k) => q[d] < n[c]
    <3>1. Waits(c, k)' /\ k \notin held'[c] /\ over \subseteq over'
      BY <1>1, <1>2, <1>5, <1>9
    <3>2. /\ \A d \in Callers : k \in held'[d] <=> k \in held[d]
          /\ \A d \in Callers : <<d, k>> \in resolved' <=> <<d, k>> \in resolved
      BY <1>2
    <3> QED
      BY <1>1, <1>4, <2>1, <2>2, <2>3, <3>1, <3>2, LineEnter
  <2>5. \A d \in Callers \ {c} : InLine(d, k)' <=> InLine(d, k)
    BY <1>6
  <2> QED
    BY <1>6, <2>2, <2>4, <2>5, NewLine
<1> QED
  BY <1>8, <1>9

(* The key the call enters at once when it is granted one. *)
Second(c) == Least(Rest(c) \ {NextKey(c)})

LEMMA SecondFacts ==
  ASSUME NEW c \in Callers, Missing(c) # {}, Rest(c) # {NextKey(c)}
  PROVE  /\ Second(c) \in Rest(c) \ {NextKey(c)}
         /\ Second(c) \in Keys /\ Second(c) \notin held[c]
<1>1. Rest(c) \ {NextKey(c)} \subseteq Nat
  BY NextKeyFacts
<1>2. Rest(c) \ {NextKey(c)} # {}
  <2>1. NextKey(c) \in Rest(c)
    BY NextKeyFacts
  <2> QED
    BY <2>1, Zenon
<1>3. Second(c) \in Rest(c) \ {NextKey(c)}
  BY <1>1, <1>2, LeastOf DEF Second
<1> QED
  BY <1>3, NextKeyFacts DEF Rest

LEMMA GrantLine ==
  ASSUME LockTyped, NEW c \in Callers, Granted(c), c \notin over, Missing(c) # {},
         NEW k \in Keys, NEW q \in Numbers, RankedAt(q, k)
  PROVE  /\ \A d \in Callers : InLine(d, k)' <=>
              InLine(d, k) \/ (d = c /\ Rest(c) # {NextKey(c)} /\ k = Second(c))
         /\ \E n \in Numbers : RankedAt(n, k)' /\ Follows(q, n, k)
<1> DEFINE j == NextKey(c)
           on == Rest(c) # {j}
<1>1. /\ c \in waiting /\ j \in Keys /\ j \notin held[c]
      /\ previous[c] = Nobody \/ <<previous[c], j>> \in resolved
  BY NextKeyFacts DEF Granted
<1>2. /\ held' = [held EXCEPT ![c] = @ \cup {j}]
      /\ resolved' = resolved \ {<<previous[c], j>>} /\ over' = over
      /\ held'[c] = held[c] \cup {j}
      /\ \A d \in Callers \ {c} : held'[d] = held[d]
  BY DEF Granted, LockTyped
<1>3. on => /\ previous' = [previous EXCEPT ![c] = pending[Second(c)]]
            /\ pending' = [pending EXCEPT ![Second(c)] = c]
            /\ waiting' = waiting \cup {c}
  BY DEF Granted, Enter, Second
<1>4. ~on => /\ waiting' = waiting \ {c} /\ pending' = pending
             /\ previous' = [previous EXCEPT ![c] = Nobody]
  BY DEF Granted
<1>5. \A d \in Callers \ {c} : NextKey(d)' = NextKey(d)
  BY <1>2, KeySame
<1>6. on => NextKey(c)' = Second(c) /\ Second(c) \in Keys /\ Second(c) # j /\ Second(c) \notin held[c]
  BY <1>2, KeyTaken, SecondFacts DEF Second
<1>7. \A d \in Callers \ {c} : (Waits(d, k)' <=> Waits(d, k)) /\ previous'[d] = previous[d]
  BY <1>3, <1>4, <1>5 DEF Waits, LockTyped
<1>8. (Waits(c, k) <=> k = j) /\ (Waits(c, k)' <=> on /\ k = Second(c))
  BY <1>1, <1>3, <1>4, <1>6 DEF Waits
<1> HIDE DEF j, on
<1>9. \A d \in Callers : InLine(d, k)' <=> InLine(d, k) \/ (d = c /\ on /\ k = Second(c))
  BY <1>2, <1>7, <1>8 DEF InLine
<1>10. \A d \in Callers \ {c} : k \in held'[d] <=> k \in held[d]
  BY <1>2
<1>11. CASE k = j
  <2>1. pending'[k] = pending[k]
    BY <1>3, <1>4, <1>6, <1>11 DEF LockTyped
  <2>2. First(c, k) /\ k \notin held[c] /\ k \in held'[c] /\ ~Waits(c, k)'
    BY <1>1, <1>2, <1>6, <1>8, <1>11 DEF First
  <2>3. \A d \in Callers : <<d, k>> \in resolved' <=> <<d, k>> \in resolved /\ d # previous[c]
    BY <1>2, <1>11
  <2>4. RankedAt(q, k)'
    BY <1>2, <1>7, <1>10, <2>1, <2>2, <2>3, LineGrant
  <2>5. \A d \in Callers : InLine(d, k)' => InLine(d, k)
    BY <1>6, <1>9, <1>11
  <2>6. \E n \in Numbers : RankedAt(n, k)' /\ Follows(q, n, k)
    BY <2>4, <2>5, SameLine
  <2> QED
    BY <1>9, <2>6 DEF on, j
<1>12. CASE k # j /\ on /\ k = Second(c)
  <2>1. previous'[c] = pending[k] /\ pending'[k] = c
    BY <1>3, <1>12 DEF LockTyped
  <2>2. ~InLine(c, k) /\ Waits(c, k)' /\ k \notin held'[c]
    BY <1>2, <1>6, <1>8, <1>12 DEF InLine
  <2>3. \A d \in Callers : k \in held'[d] <=> k \in held[d]
    BY <1>2, <1>12
  <2>4. \A d \in Callers : <<d, k>> \in resolved' <=> <<d, k>> \in resolved
    BY <1>2, <1>12
  <2>5. PICK n \in Numbers :
           /\ RankedAt(n, k)'
           /\ \A d \in Callers \ {c} : n[d] = q[d]
           /\ \A d \in Callers \ {c} : InLine(d, k) => q[d] < n[c]
    <3>1. /\ over \subseteq over'
          /\ \A d \in Callers \ {c} : Waits(d, k)' <=> Waits(d, k)
          /\ \A d \in Callers \ {c} : Waits(d, k) => previous'[d] = previous[d]
      BY <1>2, <1>7
    <3> QED
      BY <2>1, <2>2, <2>3, <2>4, <3>1, LineEnter
  <2>6. \A d \in Callers \ {c} : InLine(d, k)' <=> InLine(d, k)
    BY <1>9
  <2>7. \E m \in Numbers : RankedAt(m, k)' /\ Follows(q, m, k)
    BY <2>2, <2>5, <2>6, NewLine
  <2> QED
    BY <1>9, <2>7 DEF on, j
<1>13. CASE k # j /\ ~(on /\ k = Second(c))
  <2>1. pending'[k] = pending[k]
    BY <1>3, <1>4, <1>13 DEF LockTyped
  <2>2. \A d \in Callers : k \in held'[d] <=> k \in held[d]
    BY <1>2, <1>13
  <2>3. \A d \in Callers : <<d, k>> \in resolved' <=> <<d, k>> \in resolved
    BY <1>2, <1>13
  <2>4. \A d \in Callers : Waits(d, k)' <=> Waits(d, k)
    BY <1>7, <1>8, <1>13
  <2>5. \A d \in Callers : Waits(d, k) => previous'[d] = previous[d]
    BY <1>7, <1>8, <1>13
  <2>6. RankedAt(q, k)'
    BY <1>2, <2>1, <2>2, <2>3, <2>4, <2>5, LineFrame
  <2>7. \A d \in Callers : InLine(d, k)' => InLine(d, k)
    BY <1>9, <1>13
  <2>8. \E m \in Numbers : RankedAt(m, k)' /\ Follows(q, m, k)
    BY <2>6, <2>7, SameLine
  <2> QED
    BY <1>9, <2>8 DEF on, j
<1> QED
  BY <1>11, <1>12, <1>13

LEMMA UnlockLine ==
  ASSUME LockTyped, NEW c \in Callers, Unlock(c), c \notin waiting,
         NEW k \in Keys, NEW q \in Numbers, RankedAt(q, k)
  PROVE  /\ \A d \in Callers : InLine(d, k)' => InLine(d, k)
         /\ \E n \in Numbers : RankedAt(n, k)' /\ Follows(q, n, k)
<1>1. /\ previous' = previous /\ waiting' = waiting /\ over' = over /\ c \in over
      /\ held' = [held EXCEPT ![c] = @ \ Innermost(c)]
      /\ resolved' = resolved \cup (Awaited(c) \cap ({c} \X Innermost(c)))
      /\ pending'[k] = IF k \in Innermost(c) /\ pending[k] = c THEN Nobody ELSE pending[k]
  BY DEF Unlock
<1>2. /\ held'[c] = held[c] \ Innermost(c)
      /\ \A d \in Callers \ {c} : held'[d] = held[d]
  BY <1>1 DEF LockTyped
<1>3. \A d \in Callers \ {c} : NextKey(d)' = NextKey(d)
  BY <1>2, KeySame
<1>4. \A d \in Callers : Waits(d, k)' <=> Waits(d, k)
  BY <1>1, <1>3 DEF Waits
<1>5. \A d \in Callers : InLine(d, k)' => InLine(d, k)
  BY <1>2, <1>4 DEF InLine
<1>6. CASE k \in Innermost(c)
  <2>1. k \in held[c] /\ k \notin held'[c]
    BY <1>2, <1>6 DEF Innermost
  <2>2. \A d \in Callers : <<d, k>> \in resolved' <=>
            \/ <<d, k>> \in resolved
            \/ d = c /\ \E e \in Callers : Waits(e, k) /\ previous[e] = c
    <3>1. \A d \in Callers : <<d, k>> \in Awaited(c) <=>
            d = c /\ \E e \in Callers : Waits(e, k) /\ previous[e] = c
      BY DEF Awaited, Waits, LockTyped
    <3> QED
      BY <1>1, <1>6, <3>1
  <2>3. RankedAt(q, k)'
    BY <1>1, <1>2, <1>4, <1>6, <2>1, <2>2, LineLeave
  <2> QED
    BY <1>5, <2>3, SameLine
<1>7. CASE k \notin Innermost(c)
  <2>1. /\ \A d \in Callers : k \in held'[d] <=> k \in held[d]
        /\ \A d \in Callers : <<d, k>> \in resolved' <=> <<d, k>> \in resolved
        /\ pending'[k] = pending[k]
    BY <1>1, <1>2, <1>7
  <2>2. RankedAt(q, k)'
    BY <1>1, <1>4, <2>1, LineFrame
  <2> QED
    BY <1>5, <2>2, SameLine
<1> QED
  BY <1>6, <1>7

-----------------------------------------------------------------------------
(* Types, and where a call can be.                                         *)

Places == {"called", "returned", "address", "invalidating", "inserting",
           "spending", "claiming", "burning"}
Codes == [created : Nat, attempts : Nat, used : BOOLEAN]

Typed ==
  /\ LockTyped
  /\ call \in [Callers -> [at : Places, now : Nat, live : Promised]]
  /\ DOMAIN codes \subseteq Sends /\ IsFiniteSet(DOMAIN codes)
  /\ codes \in [DOMAIN codes -> Codes]
  /\ now \in Nat /\ faults \in Nat
  /\ accepted \subseteq Checks \X Sends

(* A call works while it holds every key of its own; it has begun no lock   *)
(* but the next one, and its code exists only once it has returned.         *)
CallOk(c) ==
  /\ call[c].at = "returned" <=> c \in over
  /\ c \in waiting => c \notin over /\ Missing(c) # {}
  /\ c \notin over => \A i \in Missing(c) :
       Wants[c][i] \cap held[c] = {} \/ (c \in waiting /\ i = NextLock(c))
  /\ call[c].at \notin {"called", "returned"} => Working(c)
  /\ call[c].at \in {"address", "invalidating", "inserting"} => c \in Sends
  /\ call[c].at \in {"spending", "claiming", "burning"} =>
       /\ c \in Checks /\ call[c].live \in DOMAIN codes
       /\ Subject[call[c].live] = Subject[c] /\ Address[call[c].live] = Address[c]
  /\ c \in DOMAIN codes => c \in over

CallInv == \A c \in Callers : CallOk(c)

LEMMA CallFrame ==
  ASSUME NEW c \in Callers, CallOk(c), call'[c] = call[c], held'[c] = held[c],
         c \in waiting' <=> c \in waiting, c \in over' <=> c \in over,
         DOMAIN codes \subseteq DOMAIN codes', c \in DOMAIN codes' => c \in DOMAIN codes
  PROVE  CallOk(c)'
<1>1. /\ Missing(c)' = Missing(c) /\ NextLock(c)' = NextLock(c)
      /\ Working(c)' <=> Working(c)
  BY KeySame DEF Working
<1> QED
  BY <1>1 DEF CallOk

(* The steps of the work itself. *)
WorkStep(c) ==
  \/ ReadSubject(c) \/ ReadAddress(c) \/ Invalidate(c) \/ InsertCode(c)
  \/ FindLive(c) \/ Spend(c) \/ Claim(c) \/ Burn(c)

Stays(c) ==
  /\ over' = over /\ call'[c].at \notin {"called", "returned"}
  /\ call'[c] \in [at : Places, now : Nat, live : Promised]
  /\ call'[c].now \in {call[c].now, now} /\ (c \in Sends => call'[c].now = call[c].now)
Leaves(c) == over' = over \cup {c} /\ call'[c] = Returned

LEMMA GotoStays ==
  ASSUME Typed, NEW c \in Callers, NEW place \in Places \ {"called", "returned"},
         Goto(c, place)
  PROVE  /\ Stays(c) /\ call'[c].at = place
         /\ call'[c].live = call[c].live /\ call'[c].now = call[c].now
         /\ \A d \in Callers \ {c} : call'[d] = call[d]
         /\ UNCHANGED <<pending, previous, resolved, held, waiting>>
BY SMTT(30) DEF Goto, Stays, Typed, lockvars

LEMMA ReturnLeaves ==
  ASSUME Typed, NEW c \in Callers, Return(c)
  PROVE  /\ Leaves(c)
         /\ \A d \in Callers \ {c} : call'[d] = call[d]
         /\ UNCHANGED <<pending, previous, resolved, held, waiting>>
BY DEF Return, Leaves, Typed

Work(c) ==
  /\ Working(c) /\ (Stays(c) \/ Leaves(c))
  /\ \A d \in Callers \ {c} : call'[d] = call[d]
  /\ UNCHANGED <<pending, previous, resolved, held, waiting, now>>

LEMMA WorkShape ==
  ASSUME Typed, CallInv, NEW c \in Callers, WorkStep(c)
  PROVE  Work(c)
<1>1. CallOk(c)
  BY DEF CallInv
<1>2. \A place \in Places \ {"called", "returned"} : Goto(c, place) =>
        /\ Stays(c) /\ \A d \in Callers \ {c} : call'[d] = call[d]
        /\ UNCHANGED <<pending, previous, resolved, held, waiting>>
  BY GotoStays
<1>3. Return(c) =>
        /\ Leaves(c) /\ \A d \in Callers \ {c} : call'[d] = call[d]
        /\ UNCHANGED <<pending, previous, resolved, held, waiting>>
  BY ReturnLeaves
<1>4. CASE ReadSubject(c)
  BY <1>2, <1>3, <1>4 DEF ReadSubject, Work, Places
<1>5. CASE ReadAddress(c)
  BY <1>1, <1>2, <1>3, <1>5 DEF ReadAddress, Work, Places, CallOk
<1>6. CASE Invalidate(c)
  BY <1>1, <1>2, <1>3, <1>6 DEF Invalidate, Write, Work, Places, CallOk
<1>7. CASE InsertCode(c)
  BY <1>1, <1>3, <1>7 DEF InsertCode, Write, Work, CallOk
<1>8. CASE FindLive(c)
  <2>1. Working(c) /\ now' = now /\ c \in Checks
    BY <1>8 DEF FindLive
  <2>2. CASE Return(c)
    BY <1>3, <2>1, <2>2 DEF Work
  <2>3. CASE ~Return(c)
    <3>1. PICK s \in CodesOfSubject(c) :
            /\ call' = [call EXCEPT ![c] = [at |-> "spending", now |-> now, live |-> s]]
            /\ UNCHANGED lockvars
      BY <1>8, <2>3 DEF FindLive
    <3>2. s \in Promised /\ now \in Nat /\ c \notin Sends
      BY <2>1 DEF CodesOfSubject, Typed, Promised
    <3>3. call'[c] = [at |-> "spending", now |-> now, live |-> s]
      BY <3>1 DEF Typed
    <3>4. Stays(c)
      BY <3>1, <3>2, <3>3 DEF Stays, lockvars, Places
    <3> QED
      BY <2>1, <3>1, <3>4 DEF Work, lockvars, Typed
  <2> QED
    BY <2>2, <2>3
<1>9. CASE Spend(c)
  BY <1>1, <1>2, <1>3, <1>9 DEF Spend, Write, Work, Places, CallOk
<1>10. CASE Claim(c)
  BY <1>1, <1>3, <1>10 DEF Claim, Write, Work, CallOk
<1>11. CASE Burn(c)
  BY <1>1, <1>3, <1>11 DEF Burn, Write, Work, CallOk
<1> QED
  BY <1>4, <1>5, <1>6, <1>7, <1>8, <1>9, <1>10, <1>11 DEF WorkStep

(* What a step of the work does to the codes: it makes the call's own one,  *)
(* or it only spends attempts and marks codes used.                        *)
Inserts(c) ==
  /\ call[c].at = "inserting" /\ c \in Sends /\ Leaves(c)
  /\ DOMAIN codes' = DOMAIN codes \cup {c}
  /\ codes'[c] = [created |-> call[c].now, attempts |-> 0, used |-> FALSE]
  /\ \A s \in DOMAIN codes \ {c} : codes'[s] = codes[s]

Wears ==
  /\ DOMAIN codes' = DOMAIN codes
  /\ \A s \in DOMAIN codes :
       /\ codes'[s].created = codes[s].created
       /\ codes[s].used => codes'[s].used
       /\ \/ codes'[s].attempts = codes[s].attempts
          \/ codes'[s].attempts = codes[s].attempts + 1 /\ codes[s].attempts < MaxAttempts

LEMMA CodesShape ==
  ASSUME Typed, CallInv, NEW c \in Callers, WorkStep(c)
  PROVE  /\ codes' \in [DOMAIN codes' -> Codes]
         /\ Inserts(c) \/ Wears
         /\ faults' \in Nat
<1>1. CallOk(c)
  BY DEF CallInv
<1>2. /\ codes \in [DOMAIN codes -> Codes] /\ faults \in Nat
      /\ \A s \in DOMAIN codes : codes[s] \in Codes
  BY DEF Typed
<1>3. codes' = codes => codes' \in [DOMAIN codes' -> Codes] /\ Wears
  BY <1>2 DEF Wears
<1>4. CASE ReadSubject(c) \/ ReadAddress(c) \/ FindLive(c)
  BY <1>2, <1>3, <1>4 DEF ReadSubject, ReadAddress, FindLive
<1>5. CASE Invalidate(c)
  <2>1. faults' \in Nat
    BY <1>2, <1>5 DEF Invalidate, Write
  <2>2. \/ codes' = codes
        \/ codes' = [s \in DOMAIN codes |->
             IF s \in CodesOfSubject(c) THEN [codes[s] EXCEPT !.used = TRUE] ELSE codes[s]]
    BY <1>5 DEF Invalidate, Write
  <2>3. CASE codes' = codes
    BY <1>3, <2>1, <2>3
  <2>4. CASE codes' = [s \in DOMAIN codes |->
             IF s \in CodesOfSubject(c) THEN [codes[s] EXCEPT !.used = TRUE] ELSE codes[s]]
    <3>1. DOMAIN codes' = DOMAIN codes
      BY <2>4
    <3>2. \A s \in DOMAIN codes :
            codes'[s] = IF s \in CodesOfSubject(c) THEN [codes[s] EXCEPT !.used = TRUE] ELSE codes[s]
      BY <2>4
    <3>3. \A s \in DOMAIN codes :
            /\ codes'[s] \in Codes
            /\ codes'[s].created = codes[s].created /\ codes'[s].attempts = codes[s].attempts
            /\ codes[s].used => codes'[s].used
      BY <1>2, <3>2 DEF Codes
    <3>4. codes' \in [DOMAIN codes' -> Codes]
      BY <2>4, <3>1, <3>3
    <3> QED
      BY <2>1, <3>1, <3>3, <3>4 DEF Wears
  <2> QED
    BY <2>2, <2>3, <2>4
<1>6. CASE InsertCode(c)
  <2>1. call[c].at = "inserting" /\ c \in Sends /\ call[c].now \in Nat
    BY <1>1, <1>6 DEF InsertCode, CallOk, Typed
  <2>2. faults' \in Nat /\ Return(c)
    BY <1>2, <1>6 DEF InsertCode, Write
  <2>3. Leaves(c)
    BY <2>2, ReturnLeaves
  <2>4. \/ codes' = codes
        \/ codes' = [s \in DOMAIN codes \cup {c} |->
             IF s = c THEN [created |-> call[c].now, attempts |-> 0, used |-> FALSE] ELSE codes[s]]
    BY <1>6 DEF InsertCode, Write
  <2>5. CASE codes' = codes
    BY <1>3, <2>2, <2>5
  <2>6. CASE codes' = [s \in DOMAIN codes \cup {c} |->
             IF s = c THEN [created |-> call[c].now, attempts |-> 0, used |-> FALSE] ELSE codes[s]]
    <3>1. DOMAIN codes' = DOMAIN codes \cup {c}
      BY <2>6
    <3>2. codes'[c] = [created |-> call[c].now, attempts |-> 0, used |-> FALSE]
      BY <2>6
    <3>3. \A s \in DOMAIN codes \ {c} : codes'[s] = codes[s]
      BY <2>6
    <3>4. Inserts(c)
      BY <2>1, <2>3, <3>1, <3>2, <3>3 DEF Inserts
    <3>5. \A s \in DOMAIN codes' : codes'[s] \in Codes
      <4>1. codes'[c] \in Codes
        BY <2>1, <3>2 DEF Codes
      <4>2. \A s \in DOMAIN codes \ {c} : codes'[s] \in Codes
        BY <1>2, <3>3
      <4> QED
        BY <3>1, <4>1, <4>2
    <3>6. codes' \in [DOMAIN codes' -> Codes]
      BY <2>6, <3>1, <3>5
    <3> QED
      BY <2>2, <3>4, <3>6
  <2> QED
    BY <2>4, <2>5, <2>6
<1>7. CASE Spend(c)
  <2> DEFINE l == call[c].live
  <2>1. l \in DOMAIN codes
    BY <1>1, <1>7 DEF Spend, CallOk
  <2>2. faults' \in Nat
    BY <1>2, <1>7 DEF Spend, Write
  <2>3. \/ codes' = codes
        \/ codes' = [codes EXCEPT ![l].attempts = @ + 1] /\ codes[l].attempts < MaxAttempts
    BY <1>7 DEF Spend, Write, Spendable
  <2>4. CASE codes' = codes
    BY <1>3, <2>2, <2>4
  <2>5. CASE codes' = [codes EXCEPT ![l].attempts = @ + 1] /\ codes[l].attempts < MaxAttempts
    <3>1. /\ DOMAIN codes' = DOMAIN codes
          /\ codes'[l] = [codes[l] EXCEPT !.attempts = @ + 1]
          /\ \A s \in DOMAIN codes \ {l} : codes'[s] = codes[s]
      BY <1>2, <2>1, <2>5
    <3>2. /\ codes'[l] \in Codes
          /\ codes'[l].created = codes[l].created /\ (codes[l].used => codes'[l].used)
          /\ codes'[l].attempts = codes[l].attempts + 1
      <4>1. codes[l] \in Codes
        BY <1>2, <2>1
      <4> HIDE DEF l
      <4>2. PICK x \in Codes : x = codes[l]
        BY <4>1
      <4>3. codes'[l] = [x EXCEPT !.attempts = x.attempts + 1]
        BY <3>1, <4>2
      <4>4. codes'[l] \in Codes
        BY <4>3, SMTT(30) DEF Codes
      <4>5. codes'[l].used = x.used
        BY <4>3 DEF Codes
      <4>6. codes'[l].created = x.created /\ codes'[l].attempts = x.attempts + 1
        BY <4>3 DEF Codes
      <4> QED
        BY <4>2, <4>4, <4>5, <4>6
    <3>3. codes' \in [DOMAIN codes' -> Codes]
      BY <1>2, <2>5, <3>1, <3>2
    <3>4. Wears
      BY <2>5, <3>1, <3>2 DEF Wears
    <3> QED
      BY <2>2, <3>3, <3>4
  <2> QED
    BY <2>3, <2>4, <2>5
<1>8. CASE Claim(c) \/ Burn(c)
  <2> DEFINE l == call[c].live
  <2>1. l \in DOMAIN codes
    BY <1>1, <1>8 DEF Claim, Burn, CallOk
  <2>2. faults' \in Nat
    BY <1>2, <1>8 DEF Claim, Burn, Write
  <2>3. codes' = codes \/ codes' = [codes EXCEPT ![l].used = TRUE]
    BY <1>8 DEF Claim, Burn, Write
  <2>4. CASE codes' = codes
    BY <1>3, <2>2, <2>4
  <2>5. CASE codes' = [codes EXCEPT ![l].used = TRUE]
    <3>1. /\ DOMAIN codes' = DOMAIN codes
          /\ codes'[l] = [codes[l] EXCEPT !.used = TRUE]
          /\ \A s \in DOMAIN codes \ {l} : codes'[s] = codes[s]
      BY <1>2, <2>1, <2>5
    <3>2. /\ codes'[l] \in Codes
          /\ codes'[l].created = codes[l].created /\ codes'[l].used
          /\ codes'[l].attempts = codes[l].attempts
      BY <1>2, <2>1, <3>1 DEF Codes
    <3>3. codes' \in [DOMAIN codes' -> Codes]
      BY <1>2, <2>5, <3>1, <3>2
    <3>4. Wears
      BY <2>5, <3>1, <3>2 DEF Wears
    <3> QED
      BY <2>2, <3>3, <3>4
  <2> QED
    BY <2>3, <2>4, <2>5
<1> QED
  BY <1>4, <1>5, <1>6, <1>7, <1>8 DEF WorkStep

LEMMA TypedInit == Init => Typed /\ CallInv
<1> SUFFICES ASSUME Init PROVE Typed /\ CallInv
  OBVIOUS
<1>1. LockTyped
  BY DEF Init, LockInit, LockTyped, Promised
<1>2. Called \in [at : Places, now : Nat, live : Promised] /\ Called.at = "called"
  BY DEF Called, Places, Promised
<1>3. call \in [Callers -> [at : Places, now : Nat, live : Promised]]
  BY <1>2 DEF Init
<1>4. DOMAIN codes = {} /\ codes \in [DOMAIN codes -> Codes]
  BY DEF Init
<1>5. IsFiniteSet(DOMAIN codes)
  BY <1>4, FS_EmptySet
<1>6. CallInv
  <2> SUFFICES ASSUME NEW c \in Callers PROVE CallOk(c)
    BY DEF CallInv
  <2>1. call[c].at = "called" /\ over = {} /\ waiting = {} /\ held[c] = {}
    BY <1>2 DEF Init, LockInit
  <2> QED
    BY <1>4, <2>1 DEF CallOk
<1> QED
  BY <1>1, <1>3, <1>4, <1>5, <1>6 DEF Typed, Init

LEMMA QueueTyped ==
  ASSUME Typed, CallInv, NEW c \in Callers, QueueCall(c)
  PROVE  /\ Typed' /\ CallInv'
         /\ call[c].at = "called" /\ \A d \in Callers \ {c} : call'[d] = call[d]
         /\ call'[c].at = "called"
<1>1. /\ c \notin over /\ c \notin waiting /\ Missing(c) # {}
      /\ NextKey(c) \in Keys
      /\ previous' = [previous EXCEPT ![c] = pending[NextKey(c)]]
      /\ pending' = [pending EXCEPT ![NextKey(c)] = c]
      /\ waiting' = waiting \cup {c}
      /\ resolved' = resolved /\ held' = held /\ over' = over
      /\ UNCHANGED <<codes, now, faults, accepted>>
  BY NextKeyFacts DEF QueueCall, Queue, Enter
<1>2. LockTyped'
  BY <1>1 DEF Typed, LockTyped, Promised
<1>3. /\ call' \in [Callers -> [at : Places, now : Nat, live : Promised]]
      /\ call'[c].at = call[c].at
      /\ \A d \in Callers \ {c} : call'[d] = call[d]
  BY DEF QueueCall, Typed
<1>4. CallOk(c) /\ call[c].at = "called"
  BY <1>1 DEF CallInv, CallOk, Working
<1>5. CallOk(c)'
  <2>1. Missing(c)' = Missing(c) /\ NextLock(c)' = NextLock(c)
    BY <1>1, KeySame
  <2> QED
    BY <1>1, <1>3, <1>4, <2>1 DEF CallOk
<1>6. \A d \in Callers \ {c} : CallOk(d)'
  BY <1>1, <1>3, CallFrame DEF CallInv
<1> QED
  BY <1>1, <1>2, <1>3, <1>4, <1>5, <1>6 DEF Typed, CallInv

LEMMA GrantTyped ==
  ASSUME Typed, CallInv, NEW c \in Callers, GrantCall(c)
  PROVE  /\ Typed' /\ CallInv'
         /\ c \notin over /\ Missing(c) # {} /\ call[c].at = "called"
<1> DEFINE j == NextKey(c)
<1>1. /\ c \in waiting /\ over' = over
      /\ held' = [held EXCEPT ![c] = @ \cup {j}]
      /\ resolved' = resolved \ {<<previous[c], j>>}
      /\ UNCHANGED <<codes, call, now, faults, accepted>>
  BY DEF GrantCall, Granted
<1>2. CallOk(c) /\ c \notin over /\ Missing(c) # {}
  BY <1>1 DEF CallInv, CallOk
<1>3. call[c].at = "called"
  BY <1>1, <1>2 DEF CallOk, Working
<1>4. j \in Keys /\ NextLock(c) \in DOMAIN Wants[c] /\ j \in Wants[c][NextLock(c)]
  BY <1>2, NextKeyFacts DEF Missing
<1>5. CASE Rest(c) # {j}
  <2>1. /\ previous' = [previous EXCEPT ![c] = pending[Second(c)]]
        /\ pending' = [pending EXCEPT ![Second(c)] = c]
        /\ waiting' = waiting \cup {c} /\ Second(c) \in Keys
    BY <1>2, <1>5, SecondFacts DEF GrantCall, Granted, Enter, Second
  <2>2. LockTyped'
    BY <1>1, <1>4, <2>1, SMTT(30) DEF Typed, LockTyped, Promised
  <2>3. /\ held'[c] = held[c] \cup {j} /\ \A d \in Callers \ {c} : held'[d] = held[d]
    BY <1>1 DEF Typed, LockTyped
  <2>4. Missing(c)' = Missing(c) /\ NextLock(c)' = NextLock(c)
    BY <1>2, <1>5, <2>3, KeyTaken
  <2>5. \A i \in Missing(c) : i # NextLock(c) => Wants[c][i] \cap held'[c] = {}
    <3>1. \A i \in Missing(c) : i # NextLock(c) => j \notin Wants[c][i]
      BY <1>4, NestingAssumption DEF Missing
    <3> QED
      BY <1>2, <2>3, <3>1 DEF CallOk
  <2>6. CallOk(c)'
    BY <1>1, <1>2, <1>3, <2>1, <2>4, <2>5 DEF CallOk
  <2>7. \A d \in Callers \ {c} : CallOk(d)'
    BY <1>1, <2>1, <2>3, CallFrame DEF CallInv
  <2> QED
    BY <1>1, <1>2, <1>3, <2>2, <2>6, <2>7 DEF Typed, CallInv
<1>6. CASE Rest(c) = {j}
  <2>1. /\ waiting' = waiting \ {c} /\ pending' = pending
        /\ previous' = [previous EXCEPT ![c] = Nobody]
    BY <1>6 DEF GrantCall, Granted
  <2>2. LockTyped'
    BY <1>1, <1>4, <2>1, SMTT(30) DEF Typed, LockTyped, Promised
  <2>3. /\ held'[c] = held[c] \cup {j} /\ \A d \in Callers \ {c} : held'[d] = held[d]
    BY <1>1 DEF Typed, LockTyped
  <2>4. Missing(c)' = Missing(c) \ {NextLock(c)}
    BY <1>2, <1>6, <2>3, KeyTaken
  <2>5. \A i \in Missing(c) : i # NextLock(c) => Wants[c][i] \cap held'[c] = {}
    <3>1. \A i \in Missing(c) : i # NextLock(c) => j \notin Wants[c][i]
      BY <1>4, NestingAssumption DEF Missing
    <3> QED
      BY <1>2, <2>3, <3>1 DEF CallOk
  <2>6. CallOk(c)'
    BY <1>1, <1>2, <1>3, <2>1, <2>4, <2>5 DEF CallOk
  <2>7. \A d \in Callers \ {c} : CallOk(d)'
    BY <1>1, <2>1, <2>3, CallFrame DEF CallInv
  <2> QED
    BY <1>1, <1>2, <1>3, <2>2, <2>6, <2>7 DEF Typed, CallInv
<1> QED
  BY <1>5, <1>6

LEMMA UnlockTyped ==
  ASSUME Typed, CallInv, NEW c \in Callers, UnlockCall(c)
  PROVE  Typed' /\ CallInv' /\ c \notin waiting
<1>1. /\ previous' = previous /\ waiting' = waiting /\ over' = over /\ c \in over
      /\ held' = [held EXCEPT ![c] = @ \ Innermost(c)]
      /\ resolved' = resolved \cup (Awaited(c) \cap ({c} \X Innermost(c)))
      /\ pending' = [k \in Keys |-> IF k \in Innermost(c) /\ pending[k] = c
                                    THEN Nobody ELSE pending[k]]
      /\ UNCHANGED <<codes, call, now, faults, accepted>>
  BY DEF UnlockCall, Unlock
<1>2. CallOk(c) /\ c \notin waiting /\ call[c].at = "returned"
  BY <1>1 DEF CallInv, CallOk
<1>3. LockTyped'
  <2>1. Innermost(c) \subseteq Keys
    BY DEF Innermost, Typed, LockTyped
  <2>2. pending' \in [Keys -> Promised]
    BY <1>1 DEF Typed, LockTyped, Promised
  <2>3. resolved' \subseteq Callers \X Keys
    BY <1>1, <2>1 DEF Typed, LockTyped
  <2>4. held' \in [Callers -> SUBSET Keys]
    BY <1>1 DEF Typed, LockTyped
  <2> QED
    BY <1>1, <2>2, <2>3, <2>4 DEF Typed, LockTyped
<1>4. \A d \in Callers \ {c} : held'[d] = held[d]
  BY <1>1 DEF Typed, LockTyped
<1>5. CallOk(c)'
  BY <1>1, <1>2 DEF CallOk
<1>6. \A d \in Callers \ {c} : CallOk(d)'
  BY <1>1, <1>4, CallFrame DEF CallInv
<1> QED
  BY <1>1, <1>2, <1>3, <1>5, <1>6 DEF Typed, CallInv

(* Where the work goes on, and with which code. *)
LEMMA WorkPlaces ==
  ASSUME Typed, CallInv, NEW c \in Callers, WorkStep(c), Stays(c)
  PROVE  \/ /\ c \in Sends /\ call'[c].at \in {"address", "invalidating", "inserting"}
         \/ /\ c \in Checks /\ call'[c].at \in {"spending", "claiming", "burning"}
            /\ call'[c].live \in DOMAIN codes
            /\ Subject[call'[c].live] = Subject[c] /\ Address[call'[c].live] = Address[c]
<1>1. CallOk(c)
  BY DEF CallInv
<1>2. \A place \in Places \ {"called", "returned"} :
         Goto(c, place) => call'[c].at = place /\ call'[c].live = call[c].live
  BY GotoStays
<1>3. ~Return(c)
  BY ReturnLeaves DEF Stays, Leaves, Returned, Called
<1>4. CASE ReadSubject(c)
  BY <1>2, <1>3, <1>4 DEF ReadSubject, Places
<1>5. CASE ReadAddress(c)
  BY <1>1, <1>2, <1>3, <1>5 DEF ReadAddress, Places, CallOk
<1>6. CASE Invalidate(c)
  BY <1>1, <1>2, <1>3, <1>6 DEF Invalidate, Write, Places, CallOk
<1>7. CASE InsertCode(c)
  BY <1>3, <1>7 DEF InsertCode, Write
<1>8. CASE FindLive(c)
  <2>1. c \in Checks
    BY <1>8 DEF FindLive
  <2>2. PICK s \in CodesOfSubject(c) \cap CodesOfAddress(c) :
          call' = [call EXCEPT ![c] = [at |-> "spending", now |-> now, live |-> s]]
    BY <1>3, <1>8 DEF FindLive
  <2>3. call'[c] = [at |-> "spending", now |-> now, live |-> s]
    BY <2>2 DEF Typed
  <2> QED
    BY <2>1, <2>2, <2>3 DEF CodesOfSubject, CodesOfAddress
<1>9. CASE Spend(c)
  BY <1>1, <1>2, <1>3, <1>9 DEF Spend, Write, Places, CallOk
<1>10. CASE Claim(c) \/ Burn(c)
  BY <1>3, <1>10 DEF Claim, Burn, Write
<1> QED
  BY <1>4, <1>5, <1>6, <1>7, <1>8, <1>9, <1>10 DEF WorkStep

LEMMA AcceptedTyped ==
  ASSUME Typed, CallInv, NEW c \in Callers, WorkStep(c)
  PROVE  accepted' \subseteq Checks \X Sends
<1>1. accepted \subseteq Checks \X Sends /\ DOMAIN codes \subseteq Sends
  BY DEF Typed
<1>2. CASE Claim(c)
  <2>1. c \in Checks /\ call[c].live \in DOMAIN codes
    BY <1>2 DEF Claim, CallInv, CallOk
  <2> QED
    BY <1>1, <1>2, <2>1 DEF Claim
<1>3. CASE ~Claim(c)
  BY <1>1, <1>3 DEF WorkStep, ReadSubject, ReadAddress, Invalidate, InsertCode, FindLive, Spend, Burn
<1> QED
  BY <1>2, <1>3

LEMMA WorkTyped ==
  ASSUME Typed, CallInv, NEW c \in Callers, WorkStep(c)
  PROVE  Typed' /\ CallInv'
<1>1. Work(c) /\ CallOk(c)
  BY WorkShape DEF CallInv
<1>2. /\ codes' \in [DOMAIN codes' -> Codes] /\ faults' \in Nat
      /\ Inserts(c) \/ Wears
  BY CodesShape
<1>3. /\ DOMAIN codes' = DOMAIN codes \/ (c \in Sends /\ Leaves(c) /\ DOMAIN codes' = DOMAIN codes \cup {c})
      /\ IsFiniteSet(DOMAIN codes') /\ DOMAIN codes' \subseteq Sends
  <2>1. CASE Wears
    BY <2>1 DEF Wears, Typed
  <2>2. CASE Inserts(c)
    <3>1. IsFiniteSet(DOMAIN codes \cup {c})
      BY FS_AddElement DEF Typed
    <3> QED
      BY <2>2, <3>1 DEF Inserts, Typed
  <2> QED
    BY <1>2, <2>1, <2>2
<1>4. Returned \in [at : Places, now : Nat, live : Promised] /\ Returned.at = "returned"
  BY DEF Returned, Called, Places, Promised
<1>5. call' \in [Callers -> [at : Places, now : Nat, live : Promised]]
  <2>1. \A d \in Callers : call'[d] \in [at : Places, now : Nat, live : Promised]
    BY <1>1, <1>4 DEF Work, Stays, Leaves, Typed
  <2>2. \E f : call' = [call EXCEPT ![c] = f] \/ call' = call
    <3>1. Return(c) => call' = [call EXCEPT ![c] = Returned]
      BY DEF Return
    <3>2. \A place \in Places :
            Goto(c, place) => call' = [call EXCEPT ![c] = [call[c] EXCEPT !.at = place]]
      BY DEF Goto
    <3> QED
      BY <3>1, <3>2 DEF WorkStep, ReadSubject, ReadAddress, Invalidate, InsertCode,
                        FindLive, Spend, Claim, Burn, Write, Places
  <2> QED
    BY <2>1, <2>2 DEF Typed
<1>6. LockTyped'
  <2>1. over' \subseteq Callers
    BY <1>1 DEF Work, Stays, Leaves, Typed, LockTyped
  <2> QED
    BY <1>1, <2>1 DEF Work, Typed, LockTyped
<1>7. Typed'
  BY <1>1, <1>2, <1>3, <1>5, <1>6, AcceptedTyped DEF Typed, Work
<1>8. /\ Missing(c)' = Missing(c) /\ (Working(c) /\ c \notin over' => Working(c)')
      /\ c \notin waiting'
  <2>1. held'[c] = held[c] /\ waiting' = waiting
    BY <1>1 DEF Work
  <2> QED
    BY <1>1, <2>1, KeySame DEF Working, Work
<1>9. CallOk(c)'
  <2>1. CASE Leaves(c)
    BY <1>1, <1>4, <1>8, <2>1 DEF CallOk, Leaves
  <2>2. CASE Stays(c)
    <3>1. over' = over /\ c \notin over /\ Working(c)' /\ c \notin DOMAIN codes'
      BY <1>1, <1>3, <1>4, <1>8, <2>2 DEF Stays, Work, Working, CallOk, Leaves
    <3>2. Missing(c)' = {}
      BY <1>1, <1>8 DEF Work, Working
    <3>3. DOMAIN codes \subseteq DOMAIN codes'
      BY <1>3
    <3>4. \/ c \in Sends /\ call'[c].at \in {"address", "invalidating", "inserting"}
          \/ /\ c \in Checks /\ call'[c].at \in {"spending", "claiming", "burning"}
             /\ call'[c].live \in DOMAIN codes
             /\ Subject[call'[c].live] = Subject[c] /\ Address[call'[c].live] = Address[c]
      BY <2>2, WorkPlaces
    <3> QED
      BY <1>8, <2>2, <3>1, <3>2, <3>3, <3>4 DEF CallOk, Stays
  <2> QED
    BY <1>1, <2>1, <2>2 DEF Work
<1>10. \A d \in Callers \ {c} : CallOk(d)'
  <2> SUFFICES ASSUME NEW d \in Callers \ {c} PROVE CallOk(d)'
    OBVIOUS
  <2>1. /\ call'[d] = call[d] /\ held'[d] = held[d] /\ CallOk(d)
        /\ d \in waiting' <=> d \in waiting
        /\ d \in over' <=> d \in over
    BY <1>1 DEF Work, Stays, Leaves, CallInv
  <2>2. DOMAIN codes \subseteq DOMAIN codes' /\ (d \in DOMAIN codes' => d \in DOMAIN codes)
    BY <1>3
  <2> QED
    BY <2>1, <2>2, CallFrame
<1> QED
  BY <1>7, <1>9, <1>10 DEF CallInv

LEMMA TickTyped == ASSUME Typed, CallInv, Tick PROVE Typed' /\ CallInv'
<1>1. now' \in Nat /\ UNCHANGED <<lockvars, codes, call, faults, accepted>>
  BY DEF Tick, Typed
<1>2. \A d \in Callers : CallOk(d)'
  BY <1>1, CallFrame DEF CallInv, lockvars
<1> QED
  BY <1>1, <1>2 DEF Typed, LockTyped, CallInv, lockvars

LEMMA CrashTyped == ASSUME Typed, CallInv, Crash PROVE Typed' /\ CallInv'
<1>1. /\ faults' \in Nat /\ UNCHANGED <<codes, now, accepted>>
      /\ pending' = [k \in Keys |-> Nobody] /\ previous' = [c \in Callers |-> Nobody]
      /\ held' = [c \in Callers |-> {}] /\ waiting' = {} /\ resolved' = {}
      /\ over' = over \cup Begun
      /\ call' = [c \in Callers |-> IF c \in Begun THEN Returned ELSE call[c]]
  BY DEF Crash, LockLost, Typed
<1>2. Returned \in [at : Places, now : Nat, live : Promised] /\ Returned.at = "returned"
  BY DEF Returned, Called, Places, Promised
<1>3. LockTyped'
  BY <1>1 DEF Typed, LockTyped, Begun, Promised
<1>4. Typed'
  BY <1>1, <1>2, <1>3 DEF Typed
<1>5. ASSUME NEW d \in Callers PROVE CallOk(d)'
  <2>1. CallOk(d) /\ held'[d] = {} /\ d \notin waiting'
    BY <1>1 DEF CallInv
  <2>2. CASE d \in Begun
    <3>1. call'[d].at = "returned" /\ d \in over'
      BY <1>1, <1>2, <2>2
    <3> QED
      BY <2>1, <3>1 DEF CallOk
  <2>3. CASE d \notin Begun
    <3>1. call'[d] = call[d] /\ call[d].at = "called" /\ (d \in over' <=> d \in over)
      BY <1>1, <2>3 DEF Begun
    <3> QED
      BY <1>1, <2>1, <3>1 DEF CallOk
  <2> QED
    BY <2>2, <2>3
<1> QED
  BY <1>4, <1>5 DEF CallInv

LEMMA TypedStep == ASSUME Typed, CallInv, [Next]_vars PROVE Typed' /\ CallInv'
<1>1. CASE \E c \in Callers : CallStep(c)
  <2>1. PICK c \in Callers : CallStep(c)
    BY <1>1
  <2> QED
    BY <2>1, QueueTyped, GrantTyped, UnlockTyped, WorkTyped DEF CallStep, WorkStep
<1>2. CASE UNCHANGED vars
  <2>1. UNCHANGED <<lockvars, codes, call, now, faults, accepted>>
    BY <1>2 DEF vars
  <2>2. \A d \in Callers : CallOk(d)'
    BY <2>1, CallFrame DEF CallInv, lockvars
  <2> QED
    BY <2>1, <2>2 DEF Typed, LockTyped, CallInv, lockvars
<1> QED
  BY <1>1, <1>2, TickTyped, CrashTyped DEF Next


-----------------------------------------------------------------------------
(* The lines as invariants.                                                *)

(* Sends of one address stand in line in the order of their times. *)
Timely(q, k) == \A c, d \in Sends :
  AddressKey(c) = k /\ AddressKey(d) = k /\ InLine(c, k) /\ InLine(d, k) /\ q[c] < q[d] =>
    call[c].now =< call[d].now

LineInv == \A k \in Keys : \E q \in Numbers : RankedAt(q, k) /\ Timely(q, k)

NowInv ==
  /\ \A c \in Callers : call[c].now =< now
  /\ \A s \in DOMAIN codes : codes[s].created =< now

LEMMA OwnFacts ==
  ASSUME NEW c \in Sends
  PROVE  /\ Len(Wants[c]) \in DOMAIN Wants[c] /\ OwnKeys(c) \subseteq Keys
         /\ AddressKey(c) \in OwnKeys(c) /\ AddressKey(c) \in Keys
         /\ \A k \in OwnKeys(c) : AddressKey(c) =< k
         /\ \E k \in SubjectKeys(c) : k \in OwnKeys(c)
<1>1. Wants[c] # <<>> /\ SubjectKeys(c) # {}
  BY OwnKeysAssumption
<1>2. Len(Wants[c]) \in DOMAIN Wants[c]
  <2>1. Wants[c] \in Seq(SUBSET Keys)
    OBVIOUS
  <2> QED
    BY <1>1, <2>1
<1>3. OwnKeys(c) \subseteq Keys
  BY <1>2, WantsTyped DEF OwnKeys
<1>4. OwnKeys(c) # {}
  BY <1>1 DEF SubjectKeys
<1>5. AddressKey(c) \in OwnKeys(c) /\ \A k \in OwnKeys(c) : AddressKey(c) =< k
  BY <1>3, <1>4, LeastOf DEF AddressKey
<1> QED
  BY <1>1, <1>2, <1>3, <1>5 DEF SubjectKeys

LEMMA WorkingHolds ==
  ASSUME NEW c \in Sends, Working(c)
  PROVE  OwnKeys(c) \subseteq held[c]
BY OwnFacts DEF Working, Missing, OwnKeys

(* Sends at work with a key in common are one. *)
LEMMA Exclusive ==
  ASSUME LineInv, NEW c \in Sends, NEW d \in Sends, Working(c), Working(d),
         Address[c] = Address[d] \/ Subject[c] = Subject[d]
  PROVE  c = d
<1>1. \E k \in Keys : k \in held[c] /\ k \in held[d]
  <2>1. CASE Address[c] = Address[d]
    <3>1. AddressKey(c) = AddressKey(d)
      BY <2>1, OwnKeysAssumption
    <3> QED
      BY <3>1, OwnFacts, WorkingHolds
  <2>2. CASE Subject[c] = Subject[d]
    <3>1. SubjectKeys(c) = SubjectKeys(d)
      BY <2>2, OwnKeysAssumption
    <3>2. PICK k \in SubjectKeys(c) : k \in OwnKeys(c)
      BY OwnFacts
    <3>3. k \in OwnKeys(d)
      BY <3>1, <3>2 DEF SubjectKeys
    <3> QED
      BY <3>2, <3>3, OwnFacts, WorkingHolds
  <2> QED
    BY <2>1, <2>2
<1>2. PICK k \in Keys : k \in held[c] /\ k \in held[d]
  BY <1>1
<1>3. PICK q \in Numbers : RankedAt(q, k)
  BY DEF LineInv
<1> QED
  BY <1>2, <1>3, OneHolder

LEMMA TimelyKept ==
  ASSUME Typed, NowInv', Typed', NEW k \in Keys, NEW q \in Numbers, NEW n \in Numbers,
         Timely(q, k), Follows(q, n, k),
         \A d \in Sends : AddressKey(d) = k /\ InLine(d, k) /\ InLine(d, k)' =>
            call'[d].now = call[d].now,
         \A d \in Sends : AddressKey(d) = k /\ ~InLine(d, k) /\ InLine(d, k)' =>
            call'[d].now = now'
  PROVE  Timely(n, k)'
<1> SUFFICES ASSUME NEW c \in Sends, NEW d \in Sends,
                    AddressKey(c) = k, AddressKey(d) = k,
                    InLine(c, k)', InLine(d, k)', n[c] < n[d]
             PROVE  call'[c].now =< call'[d].now
  BY DEF Timely, AddressKey, OwnKeys
<1>1. n[c] \in Nat /\ n[d] \in Nat /\ c # d
  BY DEF Numbers
<1>2. CASE ~InLine(d, k)
  BY <1>2 DEF NowInv
<1>3. CASE ~InLine(c, k)
  <2>1. n[d] < n[c]
    BY <1>1, <1>3 DEF Follows
  <2> QED
    BY <1>1, <2>1
<1>4. CASE InLine(c, k) /\ InLine(d, k)
  <2>1. n[c] = q[c] /\ n[d] = q[d]
    BY <1>4 DEF Follows
  <2>2. call[c].now =< call[d].now
    BY <1>4, <2>1 DEF Timely
  <2> QED
    BY <1>4, <2>2
<1> QED
  BY <1>2, <1>3, <1>4

LEMMA NowStep == ASSUME Typed, CallInv, NowInv, [Next]_vars PROVE NowInv'
<1>0. /\ now \in Nat /\ \A c \in Callers : call[c].now \in Nat
      /\ \A s \in DOMAIN codes : codes[s].created \in Nat
  BY DEF Typed, Codes
<1>1. ASSUME NEW c \in Callers, QueueCall(c) PROVE NowInv'
  <2>1. \A d \in Callers : call'[d].now \in {call[d].now, now}
    BY <1>1 DEF QueueCall, Typed
  <2> QED
    BY <1>0, <1>1, <2>1 DEF QueueCall, NowInv
<1>2. ASSUME NEW c \in Callers, GrantCall(c) \/ UnlockCall(c) PROVE NowInv'
  BY <1>2 DEF GrantCall, UnlockCall, NowInv
<1>3. ASSUME NEW c \in Callers, WorkStep(c) PROVE NowInv'
  <2>1. Work(c) /\ (Inserts(c) \/ Wears)
    BY <1>3, WorkShape, CodesShape
  <2>2. Returned.now = 0
    BY DEF Returned, Called
  <2>3. \A d \in Callers : call'[d].now =< now
    <3>1. call'[c].now \in {call[c].now, now, 0}
      BY <2>1, <2>2 DEF Work, Stays, Leaves
    <3>2. \A d \in Callers \ {c} : call'[d] = call[d]
      BY <2>1 DEF Work
    <3>3. call'[c].now =< now
      BY <1>0, <3>1, SMTT(30) DEF NowInv
    <3> QED
      BY <3>2, <3>3 DEF NowInv
  <2>4. \A s \in DOMAIN codes' : codes'[s].created =< now
    BY <2>1 DEF Inserts, Wears, NowInv
  <2> QED
    BY <2>1, <2>3, <2>4 DEF Work, NowInv
<1>4. CASE Tick
  BY <1>0, <1>4, SMTT(30) DEF Tick, NowInv
<1>5. CASE Crash
  <2>1. Returned.now = 0
    BY DEF Returned, Called
  <2> QED
    BY <1>0, <1>5, <2>1 DEF Crash, NowInv
<1>6. CASE UNCHANGED vars
  BY <1>6 DEF vars, NowInv
<1> QED
  BY <1>1, <1>2, <1>3, <1>4, <1>5, <1>6 DEF Next, CallStep, WorkStep

LEMMA LineInit == Init => LineInv /\ NowInv
<1> SUFFICES ASSUME Init PROVE LineInv /\ NowInv
  OBVIOUS
<1>1. \A c \in Callers, k \in Keys : ~InLine(c, k)
  BY DEF Init, LockInit, InLine, Waits
<1>2. ASSUME NEW k \in Keys PROVE \E q \in Numbers : RankedAt(q, k) /\ Timely(q, k)
  <2>1. [c \in Callers |-> 0] \in Numbers
    BY DEF Numbers
  <2>3. PICK q \in Numbers : TRUE
    BY <2>1
  <2>2. RankedAt(q, k)
    BY <1>1 DEF RankedAt, First, InLine, Init, LockInit
  <2> QED
    BY <1>1, <2>2 DEF Timely
<1>3. NowInv
  BY DEF Init, NowInv, Called
<1> QED
  BY <1>2, <1>3 DEF LineInv

(* Where a send stands at its address's key, it keeps the time it took; it  *)
(* takes it with its place.                                                *)
Stands(d) ==
  /\ InLine(d, AddressKey(d)) /\ InLine(d, AddressKey(d))' => call'[d].now = call[d].now
  /\ ~InLine(d, AddressKey(d)) /\ InLine(d, AddressKey(d))' => call'[d].now = now'

LEMMA QueueStands ==
  ASSUME Typed, CallInv, LineInv, NEW c \in Callers, QueueCall(c), NEW d \in Sends
  PROVE  Stands(d)
<1> DEFINE k == AddressKey(d)
<1>1. Queue(c) /\ LockTyped /\ c \notin waiting /\ c \notin over /\ Missing(c) # {}
  BY DEF QueueCall, Typed, Queue
<1>2. k \in Keys /\ k \in Wants[d][Len(Wants[d])] /\ Len(Wants[d]) \in DOMAIN Wants[d]
  BY OwnFacts DEF OwnKeys
<1> HIDE DEF k
<1>3. PICK q \in Numbers : RankedAt(q, k)
  BY <1>2 DEF LineInv
<1>4. \A e \in Callers : InLine(e, k)' <=> InLine(e, k) \/ (e = c /\ k = NextKey(c))
  BY <1>1, <1>2, <1>3, QueueLine
<1>5. /\ now' = now /\ \A e \in Callers \ {c} : call'[e] = call[e]
      /\ call'[c].now = IF c \in Sends /\ NextLock(c) = Len(Wants[c]) THEN now ELSE call[c].now
  BY DEF QueueCall, Typed
<1>6. InLine(d, k) => call'[d].now = call[d].now
  <2> SUFFICES ASSUME d = c, InLine(c, k) PROVE call'[c].now = call[c].now
    BY <1>5
  <2>1. k \in held[c]
    BY <1>1 DEF InLine, Waits
  <2>2. \A i \in Missing(c) : Wants[c][i] \cap held[c] = {}
    BY <1>1 DEF CallInv, CallOk
  <2>3. NextLock(c) # Len(Wants[c])
    BY <1>1, <1>2, <2>1, <2>2, NextKeyFacts
  <2> QED
    BY <1>5, <2>3
<1>7. ~InLine(d, k) /\ InLine(d, k)' => call'[d].now = now'
  <2> SUFFICES ASSUME d = c, k = NextKey(c) PROVE call'[c].now = now'
    BY <1>4
  <2>1. NextLock(c) \in DOMAIN Wants[c] /\ k \in Wants[c][NextLock(c)]
    BY <1>1, NextKeyFacts DEF Missing
  <2>2. NextLock(c) = Len(Wants[c])
    BY <1>2, <2>1, NestingAssumption
  <2> QED
    BY <1>5, <2>2
<1> QED
  BY <1>6, <1>7 DEF Stands, k

LEMMA GrantStands ==
  ASSUME Typed, CallInv, LineInv, NEW c \in Callers, GrantCall(c), NEW d \in Sends
  PROVE  Stands(d)
<1> DEFINE k == AddressKey(d)
<1>1. Granted(c) /\ LockTyped /\ c \notin over /\ Missing(c) # {}
  BY GrantTyped DEF GrantCall, Typed
<1>2. k \in Keys /\ k \in Wants[d][Len(Wants[d])] /\ Len(Wants[d]) \in DOMAIN Wants[d]
  BY OwnFacts DEF OwnKeys
<1>3. \A j \in Wants[d][Len(Wants[d])] : k =< j
  BY OwnFacts DEF OwnKeys
<1> HIDE DEF k
<1>4. PICK q \in Numbers : RankedAt(q, k)
  BY <1>2 DEF LineInv
<1>5. \A e \in Callers : InLine(e, k)' <=>
         InLine(e, k) \/ (e = c /\ Rest(c) # {NextKey(c)} /\ k = Second(c))
  BY <1>1, <1>2, <1>4, GrantLine
<1>6. ASSUME d = c, Rest(c) # {NextKey(c)}, k = Second(c)
      PROVE  FALSE
  <2>1. k \in Rest(c) /\ k # NextKey(c) /\ Rest(c) \subseteq Keys /\ NextKey(c) \in Rest(c)
    BY <1>1, <1>6, SecondFacts, NextKeyFacts
  <2>2. NextLock(c) \in DOMAIN Wants[c] /\ k \in Wants[c][NextLock(c)]
    BY <1>1, <2>1, NextKeyFacts DEF Missing, Rest
  <2>3. NextLock(c) = Len(Wants[c])
    BY <1>2, <1>6, <2>2, NestingAssumption
  <2>4. k =< NextKey(c)
    BY <1>3, <1>6, <2>1, <2>3 DEF Rest
  <2>5. NextKey(c) =< k
    BY <1>1, <2>1, NextKeyFacts
  <2>6. k \in Nat /\ NextKey(c) \in Nat
    BY <2>1
  <2> QED
    BY <2>1, <2>4, <2>5, <2>6
<1>7. UNCHANGED <<now, call>>
  BY DEF GrantCall
<1> QED
  BY <1>5, <1>6, <1>7 DEF Stands, k

LEMMA QueueStep ==
  ASSUME Typed, CallInv, NowInv', Typed', LineInv, NEW c \in Callers, QueueCall(c)
  PROVE  LineInv'
<1> SUFFICES ASSUME NEW k \in Keys
             PROVE  \E n \in Numbers : RankedAt(n, k)' /\ Timely(n, k)'
  BY DEF LineInv
<1>1. PICK q \in Numbers : RankedAt(q, k) /\ Timely(q, k)
  BY DEF LineInv
<1>2. PICK n \in Numbers : RankedAt(n, k)' /\ Follows(q, n, k)
  BY <1>1, QueueLine DEF QueueCall, Typed
<1>3. \A d \in Sends : Stands(d)
  BY QueueStands
<1>4. Timely(n, k)'
  BY <1>1, <1>2, <1>3, TimelyKept DEF Stands
<1> QED
  BY <1>2, <1>4

LEMMA GrantStep ==
  ASSUME Typed, CallInv, NowInv', Typed', LineInv, NEW c \in Callers, GrantCall(c)
  PROVE  LineInv'
<1> SUFFICES ASSUME NEW k \in Keys
             PROVE  \E n \in Numbers : RankedAt(n, k)' /\ Timely(n, k)'
  BY DEF LineInv
<1>1. PICK q \in Numbers : RankedAt(q, k) /\ Timely(q, k)
  BY DEF LineInv
<1>2. Granted(c) /\ LockTyped /\ c \notin over /\ Missing(c) # {}
  BY GrantTyped DEF GrantCall, Typed
<1>3. PICK n \in Numbers : RankedAt(n, k)' /\ Follows(q, n, k)
  BY <1>1, <1>2, GrantLine
<1>4. \A d \in Sends : Stands(d)
  BY GrantStands
<1>5. Timely(n, k)'
  BY <1>1, <1>3, <1>4, TimelyKept DEF Stands
<1> QED
  BY <1>3, <1>5

LEMMA UnlockStep ==
  ASSUME Typed, CallInv, NowInv', Typed', LineInv, NEW c \in Callers, UnlockCall(c)
  PROVE  LineInv'
<1> SUFFICES ASSUME NEW k \in Keys
             PROVE  \E n \in Numbers : RankedAt(n, k)' /\ Timely(n, k)'
  BY DEF LineInv
<1>1. PICK q \in Numbers : RankedAt(q, k) /\ Timely(q, k)
  BY DEF LineInv
<1>2. Unlock(c) /\ LockTyped /\ c \notin waiting
  BY UnlockTyped DEF UnlockCall, Typed
<1>3. PICK n \in Numbers : RankedAt(n, k)' /\ Follows(q, n, k)
  BY <1>1, <1>2, UnlockLine
<1>4. \A d \in Callers : InLine(d, k)' => InLine(d, k)
  BY <1>1, <1>2, UnlockLine
<1>5. UNCHANGED <<now, call>>
  BY DEF UnlockCall
<1>6. Timely(n, k)'
  BY <1>1, <1>3, <1>4, <1>5, TimelyKept
<1> QED
  BY <1>3, <1>6

(* A step that leaves the lock alone; a send that returns was the first. *)
LEMMA StillStep ==
  ASSUME Typed, NowInv', Typed', LineInv,
         UNCHANGED <<pending, previous, resolved, held, waiting>>, over \subseteq over',
         \A d \in Sends : \/ call'[d].now = call[d].now
                          \/ call'[d].now = 0 /\ Working(d)
  PROVE  LineInv'
<1> SUFFICES ASSUME NEW k \in Keys
             PROVE  \E n \in Numbers : RankedAt(n, k)' /\ Timely(n, k)'
  BY DEF LineInv
<1>1. PICK q \in Numbers : RankedAt(q, k) /\ Timely(q, k)
  BY DEF LineInv
<1>2. \A d \in Callers : NextKey(d)' = NextKey(d)
  BY KeySame
<1>3. \A d \in Callers : (Waits(d, k)' <=> Waits(d, k)) /\ (InLine(d, k)' <=> InLine(d, k))
  BY <1>2 DEF Waits, InLine
<1>4. RankedAt(q, k)'
  BY <1>1, <1>3, LineFrame DEF Typed
<1>5. Timely(q, k)'
  <2> SUFFICES ASSUME NEW c \in Sends, NEW d \in Sends,
                      AddressKey(c) = k, AddressKey(d) = k,
                      InLine(c, k)', InLine(d, k)', q[c] < q[d]
               PROVE  call'[c].now =< call'[d].now
    BY DEF Timely, AddressKey, OwnKeys
  <2>0. q[c] \in Nat /\ q[d] \in Nat /\ c # d
    BY DEF Numbers
  <2>1. InLine(c, k) /\ InLine(d, k) /\ call[c].now =< call[d].now
    BY <1>1, <1>3 DEF Timely
  <2>2. call'[d].now \in Nat /\ call'[c].now \in Nat
    BY DEF Typed
  <2>3. ~Working(d)
    <3> SUFFICES ASSUME Working(d) PROVE FALSE
      OBVIOUS
    <3>1. k \in held[d]
      BY WorkingHolds, OwnFacts
    <3>2. q[d] < q[c]
      BY <1>1, <2>0, <2>1, <3>1 DEF RankedAt
    <3> QED
      BY <2>0, <3>2
  <2>4. call'[d].now = call[d].now
    BY <2>3
  <2> QED
    BY <2>1, <2>2, <2>4, SMTT(30)
<1> QED
  BY <1>4, <1>5

LEMMA CrashStep == ASSUME Typed, Crash PROVE LineInv'
<1> SUFFICES ASSUME NEW k \in Keys
             PROVE  \E n \in Numbers : RankedAt(n, k)' /\ Timely(n, k)'
  BY DEF LineInv
<1>1. /\ pending'[k] = Nobody /\ waiting' = {} /\ resolved' = {}
      /\ \A d \in Callers : held'[d] = {}
  BY DEF Crash, LockLost
<1>2. \A d \in Callers : ~InLine(d, k)' /\ ~Waits(d, k)' /\ ~First(d, k)'
  BY <1>1 DEF InLine, Waits, First
<1>6. [c \in Callers |-> 0] \in Numbers
  BY DEF Numbers
<1>3. PICK q \in Numbers : TRUE
  BY <1>6
<1>4. RankedAt(q, k)'
  BY <1>1, <1>2 DEF RankedAt
<1>5. Timely(q, k)'
  BY <1>2 DEF Timely
<1> QED
  BY <1>4, <1>5

LEMMA LineStep == ASSUME Typed, CallInv, NowInv, LineInv, [Next]_vars PROVE LineInv'
<1>1. Typed' /\ CallInv' /\ NowInv'
  BY TypedStep, NowStep
<1>2. ASSUME NEW c \in Callers, WorkStep(c) PROVE LineInv'
  <2>1. Work(c)
    BY <1>2, WorkShape
  <2>2. Returned.now = 0
    BY DEF Returned, Called
  <2>3. \A d \in Sends : \/ call'[d].now = call[d].now
                         \/ call'[d].now = 0 /\ Working(d)
    BY <2>1, <2>2 DEF Work, Stays, Leaves
  <2>4. UNCHANGED <<pending, previous, resolved, held, waiting>> /\ over \subseteq over'
    BY <2>1 DEF Work, Stays, Leaves
  <2> QED
    BY <1>1, <2>3, <2>4, StillStep
<1>3. CASE Tick \/ UNCHANGED vars
  BY <1>1, <1>3, StillStep DEF Tick, vars, lockvars
<1> QED
  BY <1>1, <1>2, <1>3, QueueStep, GrantStep, UnlockStep, CrashStep
     DEF Next, CallStep, WorkStep

-----------------------------------------------------------------------------
(* The promise chain implements the lock.                                  *)

Holders == [k \in Keys |-> {c \in Callers : k \in held[c]}]

LEMMA HoldersInit == Init => Holders = Abstract!Free
BY DEF Init, LockInit, Holders, Abstract!Free

(* Nobody holds the key a call is granted. *)
LEMMA GrantTakes ==
  ASSUME Typed, CallInv, LineInv, NEW c \in Callers, GrantCall(c)
  PROVE  Holders[NextKey(c)] = {} /\ Holders' = [Holders EXCEPT ![NextKey(c)] = {c}]
<1> DEFINE j == NextKey(c)
<1>1. /\ c \in waiting /\ j \in Keys /\ j \notin held[c]
      /\ previous[c] = Nobody \/ <<previous[c], j>> \in resolved
      /\ held' = [held EXCEPT ![c] = @ \cup {j}]
  BY GrantTyped, NextKeyFacts DEF GrantCall, Granted
<1>2. First(c, j)
  BY <1>1 DEF First, Waits
<1>3. PICK q \in Numbers : RankedAt(q, j)
  BY <1>1 DEF LineInv
<1>4. \A d \in Callers : j \notin held[d]
  <2> SUFFICES ASSUME NEW d \in Callers, j \in held[d] PROVE FALSE
    OBVIOUS
  <2>1. d # c /\ InLine(d, j) /\ InLine(c, j)
    BY <1>1, <1>2 DEF InLine, First
  <2>2. q[c] < q[d] /\ q[d] < q[c]
    BY <1>1, <1>2, <1>3, <2>1 DEF RankedAt
  <2> QED
    BY <2>2 DEF Numbers
<1>5. /\ held'[c] = held[c] \cup {j}
      /\ \A d \in Callers \ {c} : held'[d] = held[d]
  BY <1>1 DEF Typed, LockTyped
<1> HIDE DEF j
<1>6. Holders[j] = {}
  BY <1>1, <1>4 DEF Holders
<1>7. {d \in Callers : j \in held'[d]} = {c}
  BY <1>4, <1>5
<1>8. \A k \in Keys \ {j} : {d \in Callers : k \in held'[d]} = {d \in Callers : k \in held[d]}
  <2>1. \A k \in Keys \ {j}, d \in Callers : k \in held'[d] <=> k \in held[d]
    BY <1>5
  <2> QED
    BY <2>1
<1>9. Holders' = [Holders EXCEPT ![j] = {c}]
  <2>1. /\ Holders = [k \in Keys |-> Holders[k]]
        /\ Holders' = [k \in Keys |-> Holders'[k]]
    BY DEF Holders
  <2>2. Holders'[j] = {c}
    BY <1>1, <1>7 DEF Holders
  <2>3. \A k \in Keys \ {j} : Holders'[k] = Holders[k]
    BY <1>8 DEF Holders
  <2> QED
    BY <2>1, <2>2, <2>3
<1> QED
  BY <1>6, <1>9 DEF j

LEMMA UnlockGives ==
  ASSUME Typed, NEW c \in Callers, UnlockCall(c)
  PROVE  /\ DOMAIN Holders' = Keys
         /\ \A k \in Keys : Holders'[k] \in {Holders[k], Holders[k] \ {c}}
<1>1. held' = [held EXCEPT ![c] = @ \ Innermost(c)]
  BY DEF UnlockCall, Unlock
<1>2. /\ held'[c] \subseteq held[c]
      /\ \A d \in Callers \ {c} : held'[d] = held[d]
  BY <1>1 DEF Typed, LockTyped
<1>3. ASSUME NEW k \in Keys PROVE Holders'[k] \in {Holders[k], Holders[k] \ {c}}
  <2>1. /\ Holders[k] = {d \in Callers : k \in held[d]}
        /\ Holders'[k] = {d \in Callers : k \in held'[d]}
    BY DEF Holders
  <2>2. CASE k \in held'[c]
    BY <1>2, <2>1, <2>2
  <2>3. CASE k \notin held'[c]
    <3>1. Holders'[k] = Holders[k] \ {c}
      BY <1>2, <2>1, <2>3
    <3> QED
      BY <3>1
  <2> QED
    BY <2>2, <2>3
<1> QED
  BY <1>3 DEF Holders

LEMMA LockStep ==
  ASSUME Typed, CallInv, LineInv, [Next]_vars
  PROVE  [Abstract!LNext]_Holders
<1>1. ASSUME NEW c \in Callers, GrantCall(c) PROVE Abstract!LNext
  <2>1. NextKey(c) \in Keys
    BY <1>1, GrantTyped, NextKeyFacts
  <2>2. PICK k \in Keys : k = NextKey(c)
    BY <2>1
  <2>3. Abstract!Take(c, k)
    BY <1>1, <2>2, GrantTakes DEF Abstract!Take, Holders
  <2> QED
    BY <2>3 DEF Abstract!LNext
<1>2. ASSUME NEW c \in Callers, UnlockCall(c) PROVE Abstract!LNext
  <2>1. Abstract!Give(c)
    BY <1>2, UnlockGives DEF Abstract!Give, Holders
  <2> QED
    BY <2>1 DEF Abstract!LNext
<1>3. ASSUME NEW c \in Callers, QueueCall(c) \/ WorkStep(c) PROVE Holders' = Holders
  <2>1. held' = held
    BY <1>3, WorkShape DEF QueueCall, Queue, Enter, Work
  <2> QED
    BY <2>1 DEF Holders
<1>4. CASE Tick \/ UNCHANGED vars
  BY <1>4 DEF Tick, vars, lockvars, Holders
<1>5. CASE Crash
  <2>1. Holders' = Abstract!Free
    BY <1>5 DEF Crash, LockLost, Holders, Abstract!Free
  <2> QED
    BY <2>1 DEF Abstract!LNext, Holders
<1> QED
  BY <1>1, <1>2, <1>3, <1>4, <1>5 DEF Next, CallStep, WorkStep

LockedInv == Typed /\ CallInv /\ NowInv /\ LineInv

LEMMA LockedAlways == Spec => []LockedInv
<1>1. Init => LockedInv
  BY TypedInit, LineInit DEF LockedInv
<1>2. LockedInv /\ [Next]_vars => LockedInv'
  BY TypedStep, NowStep, LineStep DEF LockedInv
<1> QED
  BY <1>1, <1>2, PTL DEF Spec

(* However calls queue, nest, fail, throw and die, the map of promises      *)
(* lets one call at a time work under a key.                               *)
THEOREM LockImplementedHolds == Spec => LockImplemented
<1>1. LockedInv /\ [Next]_vars => [Abstract!LNext]_Holders
  BY LockStep DEF LockedInv
<1>2. Init => Holders = Abstract!Free
  BY HoldersInit
<1> QED
  BY <1>1, <1>2, LockedAlways, PTL DEF Spec, LockImplemented, Abstract!LSpec, Holders

-----------------------------------------------------------------------------
(* The budget of a code, and its single use.                               *)

Sending == {"address", "invalidating", "inserting"}

(* What a send has read of its subject and its address still holds. *)
PaceOk(c) == call[c].at \in Sending =>
  /\ SubjectPaced(c)
  /\ call[c].at # "address" =>
       Cardinality(Since(CodesOfAddress(c), call[c].now, Day)) < PerAddressDay
PaceInv == \A c \in Sends : PaceOk(c)

(* The code that can still be used is the latest of its subject. *)
BudgetInv ==
  /\ \A s \in DOMAIN codes : codes[s].attempts =< MaxAttempts
  /\ \A s, t \in DOMAIN codes : Subject[s] = Subject[t] /\ ~codes[s].used =>
       codes[t].created =< codes[s].created /\ (~codes[t].used => s = t)
  /\ \A c \in Sends : call[c].at = "inserting" =>
       \A s \in CodesOfSubject(c) : codes[s].used
  /\ \A p \in accepted : p[2] \in DOMAIN codes /\ codes[p[2]].used

(* The steps that are not work on the codes. *)
Quiet ==
  /\ codes' = codes /\ accepted' = accepted
  /\ \A d \in Callers : call'[d] = call[d] \/ call'[d].at \in {"called", "returned"}

LEMMA QuietSteps ==
  ASSUME Typed, CallInv, [Next]_vars
  PROVE  Quiet \/ \E c \in Callers : WorkStep(c)
<1>1. ASSUME NEW c \in Callers, QueueCall(c) PROVE Quiet
  <2>1. call'[c].at = "called" /\ \A d \in Callers \ {c} : call'[d] = call[d]
    BY <1>1, QueueTyped
  <2> QED
    BY <1>1, <2>1 DEF QueueCall, Quiet
<1>2. ASSUME NEW c \in Callers, GrantCall(c) \/ UnlockCall(c) PROVE Quiet
  BY <1>2 DEF GrantCall, UnlockCall, Quiet
<1>3. CASE Tick \/ UNCHANGED vars
  BY <1>3 DEF Tick, vars, Quiet
<1>4. CASE Crash
  <2>1. Returned.at = "returned"
    BY DEF Returned, Called
  <2> QED
    BY <1>4, <2>1 DEF Crash, Quiet
<1> QED
  BY <1>1, <1>2, <1>3, <1>4 DEF Next, CallStep, WorkStep

(* A call whose codes are left alone. *)
LEMMA PaceFrame ==
  ASSUME Typed, NEW c \in Sends, call'[c].now = call[c].now, DOMAIN codes \subseteq DOMAIN codes',
         \A s \in DOMAIN codes : codes'[s].created = codes[s].created,
         \A s \in DOMAIN codes' \ DOMAIN codes :
            Subject[s] # Subject[c] /\ Address[s] # Address[c]
  PROVE  /\ SubjectPaced(c)' <=> SubjectPaced(c)
         /\ CodesOfSubject(c)' = CodesOfSubject(c)
         /\ Since(CodesOfAddress(c), call[c].now, Day)' = Since(CodesOfAddress(c), call[c].now, Day)
<1>1. CodesOfSubject(c)' = CodesOfSubject(c) /\ CodesOfAddress(c)' = CodesOfAddress(c)
  BY DEF CodesOfSubject, CodesOfAddress
<1>2. CodesOfSubject(c) \subseteq DOMAIN codes /\ CodesOfAddress(c) \subseteq DOMAIN codes
  BY DEF CodesOfSubject, CodesOfAddress
<1>3. Since(CodesOfSubject(c), call[c].now, Cooldown)' = Since(CodesOfSubject(c), call[c].now, Cooldown)
  BY <1>1, <1>2 DEF Since
<1>4. Since(CodesOfSubject(c), call[c].now, Hour)' = Since(CodesOfSubject(c), call[c].now, Hour)
  BY <1>1, <1>2 DEF Since
<1>5. Since(CodesOfSubject(c), call[c].now, Day)' = Since(CodesOfSubject(c), call[c].now, Day)
  BY <1>1, <1>2 DEF Since
<1>6. Since(CodesOfAddress(c), call[c].now, Day)' = Since(CodesOfAddress(c), call[c].now, Day)
  BY <1>1, <1>2 DEF Since
<1> QED
  BY <1>1, <1>3, <1>4, <1>5, <1>6 DEF SubjectPaced

LEMMA QuietPace ==
  ASSUME Typed, PaceInv, BudgetInv, Quiet
  PROVE  PaceInv' /\ BudgetInv'
<1>1. ASSUME NEW c \in Sends PROVE PaceOk(c)'
  <2>1. CASE call'[c].at \in {"called", "returned"}
    BY <2>1 DEF PaceOk, Sending
  <2>2. CASE call'[c] = call[c]
    <3>1. /\ SubjectPaced(c)' <=> SubjectPaced(c)
          /\ Since(CodesOfAddress(c), call[c].now, Day)' = Since(CodesOfAddress(c), call[c].now, Day)
      BY <2>2, PaceFrame DEF Quiet
    <3>2. PaceOk(c)
      BY DEF PaceInv
    <3> QED
      BY <2>2, <3>1, <3>2 DEF PaceOk
  <2> QED
    BY <2>1, <2>2 DEF Quiet
<1>2. BudgetInv'
  <2>1. \A c \in Sends : call'[c].at = "inserting" => call[c].at = "inserting"
    BY DEF Quiet
  <2>2. \A c \in Sends : CodesOfSubject(c)' = CodesOfSubject(c)
    BY DEF Quiet, CodesOfSubject
  <2> QED
    BY <2>1, <2>2 DEF BudgetInv, Quiet
<1> QED
  BY <1>1, <1>2 DEF PaceInv

(* A new code's subject and address are nobody else's who is sending. *)
LEMMA InsertsOwn ==
  ASSUME Typed, CallInv, LineInv, NEW c \in Callers, WorkStep(c), Inserts(c),
         NEW d \in Sends \ {c}, call[d].at \in Sending
  PROVE  Subject[c] # Subject[d] /\ Address[c] # Address[d]
<1>1. Working(c) /\ Working(d)
  BY DEF Inserts, CallInv, CallOk, Sending
<1> QED
  BY <1>1, Exclusive DEF Inserts

LEMMA WorkPace ==
  ASSUME Typed, CallInv, LineInv, PaceInv, NEW c \in Callers, WorkStep(c)
  PROVE  PaceInv'
<1> SUFFICES ASSUME NEW d \in Sends, call'[d].at \in Sending PROVE PaceOk(d)'
  BY DEF PaceInv, PaceOk
<1>1. Work(c) /\ (Inserts(c) \/ Wears) /\ PaceOk(d)
  BY WorkShape, CodesShape DEF PaceInv
<1>2. CASE d # c
  <2>1. call'[d] = call[d]
    BY <1>1, <1>2 DEF Work
  <2>2. DOMAIN codes \subseteq DOMAIN codes'
    BY <1>1 DEF Inserts, Wears
  <2>3. \A s \in DOMAIN codes : codes'[s].created = codes[s].created
    <3>1. CASE Inserts(c)
      <4>1. c \notin DOMAIN codes
        BY <3>1 DEF Inserts, CallInv, CallOk, Working
      <4> QED
        BY <3>1, <4>1 DEF Inserts
    <3> QED
      BY <1>1, <3>1 DEF Wears
  <2>4. \A s \in DOMAIN codes' \ DOMAIN codes :
           Subject[s] # Subject[d] /\ Address[s] # Address[d]
    <3>1. CASE Inserts(c)
      BY <1>2, <2>1, <3>1, InsertsOwn DEF Inserts
    <3> QED
      BY <1>1, <3>1 DEF Wears
  <2>5. /\ SubjectPaced(d)' <=> SubjectPaced(d)
        /\ Since(CodesOfAddress(d), call[d].now, Day)' = Since(CodesOfAddress(d), call[d].now, Day)
    BY <2>1, <2>2, <2>3, <2>4, PaceFrame
  <2> QED
    BY <1>1, <2>1, <2>5 DEF PaceOk
<1>3. CASE d = c
  <2>1. Stays(c) /\ Wears
    <3>1. ~Leaves(c)
      BY <1>3 DEF Leaves, Returned, Called, Sending
    <3> QED
      BY <1>1, <3>1 DEF Work, Inserts
  <2>2. /\ SubjectPaced(c)' <=> SubjectPaced(c)
        /\ Since(CodesOfAddress(c), call[c].now, Day)' = Since(CodesOfAddress(c), call[c].now, Day)
    BY <1>3, <2>1, PaceFrame DEF Stays, Wears
  <2>3. ~Return(c)
    BY <2>1, ReturnLeaves DEF Stays, Leaves, Returned, Called
  <2>4. \A place \in Places \ {"called", "returned"} : Goto(c, place) => call'[c].at = place
    BY GotoStays
  <2>5. c \notin Checks
    BY <1>3
  <2>6. CASE ReadSubject(c)
    BY <1>3, <2>2, <2>3, <2>4, <2>6 DEF ReadSubject, PaceOk, Places
  <2>7. CASE ReadAddress(c)
    BY <1>1, <1>3, <2>2, <2>3, <2>7 DEF ReadAddress, PaceOk, Sending
  <2>8. CASE Invalidate(c)
    BY <1>1, <1>3, <2>2, <2>3, <2>8 DEF Invalidate, Write, PaceOk, Sending
  <2>9. CASE InsertCode(c)
    BY <2>3, <2>9 DEF InsertCode, Write
  <2>10. CASE FindLive(c)
    BY <2>5, <2>10 DEF FindLive
  <2>11. CASE Spend(c) \/ Claim(c) \/ Burn(c)
    BY <2>5, <2>11 DEF Spend, Claim, Burn, CallInv, CallOk
  <2> QED
    BY <2>6, <2>7, <2>8, <2>9, <2>10, <2>11 DEF WorkStep
<1> QED
  BY <1>2, <1>3

(* The work that changes what the history holds, and when sends insert. *)
LEMMA WorkMarks ==
  ASSUME Typed, CallInv, NEW c \in Callers, WorkStep(c)
  PROVE  /\ call'[c].at = "inserting" /\ c \in Sends =>
              Wears /\ \A s \in CodesOfSubject(c) : codes'[s].used
         /\ \/ accepted' = accepted
            \/ /\ accepted' = accepted \cup {<<c, call[c].live>>} /\ Wears
               /\ c \in Checks /\ call[c].live \in DOMAIN codes
               /\ ~codes[call[c].live].used /\ codes'[call[c].live].used
               /\ Subject[call[c].live] = Subject[c] /\ Address[call[c].live] = Address[c]
<1>1. CallOk(c) /\ (Inserts(c) \/ Wears)
  BY CodesShape DEF CallInv
<1>2. ASSUME call'[c].at = "inserting", c \in Sends
      PROVE  Wears /\ \A s \in CodesOfSubject(c) : codes'[s].used
  <2>1. ~Leaves(c) /\ Wears
    BY <1>1, <1>2 DEF Leaves, Returned, Called, Inserts
  <2>2. ~Return(c)
    BY <2>1, ReturnLeaves
  <2>3. \A place \in Places \ {"called", "returned"} : Goto(c, place) => place = "inserting"
    BY <1>2, GotoStays
  <2>4. ~ReadSubject(c) /\ ~ReadAddress(c) /\ ~InsertCode(c)
    BY <2>2, <2>3 DEF ReadSubject, ReadAddress, InsertCode, Write, Places
  <2>5. ~FindLive(c) /\ ~Spend(c) /\ ~Claim(c) /\ ~Burn(c)
    BY <1>1, <1>2 DEF FindLive, Spend, Claim, Burn, CallOk
  <2>6. Invalidate(c)
    BY <2>4, <2>5 DEF WorkStep
  <2>7. codes' = [s \in DOMAIN codes |->
          IF s \in CodesOfSubject(c) THEN [codes[s] EXCEPT !.used = TRUE] ELSE codes[s]]
    BY <2>2, <2>6 DEF Invalidate, Write
  <2>8. \A s \in CodesOfSubject(c) : s \in DOMAIN codes /\ codes[s] \in Codes
    BY DEF CodesOfSubject, Typed
  <2>9. \A s \in CodesOfSubject(c) : codes'[s] = [codes[s] EXCEPT !.used = TRUE]
    BY <2>7, <2>8
  <2> QED
    BY <2>1, <2>8, <2>9 DEF Codes
<1>3. CASE Claim(c) /\ accepted' # accepted
  <2> DEFINE l == call[c].live
  <2>1. /\ c \in Checks /\ l \in DOMAIN codes
        /\ Subject[l] = Subject[c] /\ Address[l] = Address[c] /\ c \notin Sends
    BY <1>1, <1>3 DEF Claim, CallOk
  <2>2. /\ ~codes[l].used /\ accepted' = accepted \cup {<<c, l>>} /\ faults' = faults
        /\ Write(c, codes' = [codes EXCEPT ![l].used = TRUE], Return(c))
    BY <1>3 DEF Claim, Claimable
  <2>3. codes' = [codes EXCEPT ![l].used = TRUE]
    <3>1. faults \in Nat
      BY DEF Typed
    <3>2. faults - 1 # faults
      BY <3>1
    <3> QED
      BY <2>2, <3>2 DEF Write
  <2>4. Wears
    BY <1>1, <2>1 DEF Inserts
  <2>5. codes'[l].used
    BY <2>1, <2>3, SMTT(30) DEF Typed, Codes
  <2> QED
    BY <1>2, <2>1, <2>2, <2>4, <2>5
<1>4. CASE ~Claim(c)
  <2>1. accepted' = accepted
    BY <1>4 DEF WorkStep, ReadSubject, ReadAddress, Invalidate, InsertCode, FindLive, Spend, Burn
  <2> QED
    BY <1>2, <2>1
<1> QED
  BY <1>2, <1>3, <1>4

LEMMA WorkBudget ==
  ASSUME Typed, CallInv, LineInv, PaceInv, BudgetInv, NEW c \in Callers, WorkStep(c)
  PROVE  BudgetInv'
<1>1. Work(c) /\ CallOk(c)
  BY WorkShape DEF CallInv
<1>2. /\ codes \in [DOMAIN codes -> Codes] /\ MaxAttempts \in Nat /\ Cooldown \in Nat \ {0}
      /\ codes' \in [DOMAIN codes' -> Codes]
  BY CodesShape DEF Typed
<1>3. \A d \in Sends \ {c} : call'[d].at = "inserting" => call[d].at = "inserting"
  BY <1>1 DEF Work
<1>4. CASE Wears
  <2>1. \A s \in DOMAIN codes' : codes'[s].attempts =< MaxAttempts
    <3> SUFFICES ASSUME NEW s \in DOMAIN codes PROVE codes'[s].attempts =< MaxAttempts
      BY <1>4 DEF Wears
    <3>1. codes[s].attempts \in Nat /\ codes[s].attempts =< MaxAttempts
      BY <1>2 DEF Codes, BudgetInv
    <3>2. CASE codes'[s].attempts = codes[s].attempts
      BY <3>1, <3>2
    <3>3. CASE codes'[s].attempts = codes[s].attempts + 1 /\ codes[s].attempts < MaxAttempts
      BY <1>2, <3>1, <3>3
    <3> QED
      BY <1>4, <3>2, <3>3 DEF Wears
  <2>2. \A s, t \in DOMAIN codes' : Subject[s] = Subject[t] /\ ~codes'[s].used =>
          codes'[t].created =< codes'[s].created /\ (~codes'[t].used => s = t)
    BY <1>4 DEF Wears, BudgetInv
  <2>3. \A d \in Sends : CodesOfSubject(d)' = CodesOfSubject(d)
    BY <1>4 DEF Wears, CodesOfSubject
  <2>4. \A d \in Sends : call'[d].at = "inserting" => \A s \in CodesOfSubject(d)' : codes'[s].used
    <3> SUFFICES ASSUME NEW d \in Sends, call'[d].at = "inserting",
                        NEW s \in CodesOfSubject(d)
                 PROVE  codes'[s].used
      BY <2>3
    <3>1. CASE d = c
      BY <3>1, WorkMarks
    <3>2. CASE d # c
      <4>1. codes[s].used /\ s \in DOMAIN codes
        BY <1>3, <3>2 DEF BudgetInv, CodesOfSubject
      <4> QED
        BY <1>4, <4>1 DEF Wears
    <3> QED
      BY <3>1, <3>2
  <2>5. \A p \in accepted' : p[2] \in DOMAIN codes' /\ codes'[p[2]].used
    <3>1. \A p \in accepted : p[2] \in DOMAIN codes' /\ codes'[p[2]].used
      BY <1>4 DEF Wears, BudgetInv
    <3>2. CASE accepted' = accepted
      BY <3>1, <3>2
    <3>3. CASE accepted' # accepted
      <4>1. /\ accepted' = accepted \cup {<<c, call[c].live>>}
            /\ call[c].live \in DOMAIN codes /\ codes'[call[c].live].used
        BY <3>3, WorkMarks
      <4>2. \A p \in accepted' : p \in accepted \/ p[2] = call[c].live
        BY <4>1
      <4> QED
        BY <1>4, <3>1, <4>1, <4>2 DEF Wears
    <3> QED
      BY <3>2, <3>3
  <2> QED
    BY <2>1, <2>2, <2>4, <2>5 DEF BudgetInv
<1>5. CASE Inserts(c)
  <2>1. /\ c \in Sends /\ call[c].at = "inserting" /\ Working(c) /\ c \notin DOMAIN codes
        /\ DOMAIN codes' = DOMAIN codes \cup {c} /\ \A s \in DOMAIN codes : codes'[s] = codes[s]
        /\ codes'[c].created = call[c].now /\ codes'[c].attempts = 0 /\ ~codes'[c].used
    BY <1>1, <1>5 DEF Inserts, CallOk, Working
  <2>2. \A s \in CodesOfSubject(c) : codes[s].used /\ codes[s].created =< call[c].now
    <3>1. Since(CodesOfSubject(c), call[c].now, Cooldown) = {}
      BY <2>1 DEF PaceInv, PaceOk, Sending, SubjectPaced
    <3>2. \A s \in CodesOfSubject(c) : ~(codes[s].created + Cooldown > call[c].now)
      BY <3>1 DEF Since
    <3>3. \A s \in CodesOfSubject(c) : codes[s].created \in Nat
      BY <1>2 DEF CodesOfSubject, Codes
    <3>4. call[c].now \in Nat
      BY DEF Typed
    <3>5. \A s \in CodesOfSubject(c) : codes[s].created =< call[c].now
      BY <1>2, <3>2, <3>3, <3>4, SMTT(30)
    <3> QED
      BY <2>1, <3>5 DEF BudgetInv
  <2>3. \A s \in DOMAIN codes' : codes'[s].attempts =< MaxAttempts
    BY <1>2, <2>1 DEF BudgetInv
  <2>4. \A s, t \in DOMAIN codes' : Subject[s] = Subject[t] /\ ~codes'[s].used =>
          codes'[t].created =< codes'[s].created /\ (~codes'[t].used => s = t)
    <3> SUFFICES ASSUME NEW s \in DOMAIN codes', NEW t \in DOMAIN codes',
                        Subject[s] = Subject[t], ~codes'[s].used
                 PROVE  codes'[t].created =< codes'[s].created /\ (~codes'[t].used => s = t)
      OBVIOUS
    <3>1. CASE s \in DOMAIN codes /\ t \in DOMAIN codes
      BY <2>1, <3>1 DEF BudgetInv
    <3>2. CASE s = c /\ t \in DOMAIN codes
      <4>1. t \in CodesOfSubject(c)
        BY <3>2 DEF CodesOfSubject
      <4> QED
        BY <2>1, <2>2, <3>2, <4>1
    <3>3. CASE s \in DOMAIN codes /\ t = c
      <4>1. s \in CodesOfSubject(c)
        BY <3>3 DEF CodesOfSubject
      <4> QED
        BY <2>1, <2>2, <3>3, <4>1
    <3>4. CASE s = c /\ t = c
      <4>1. codes'[c].created \in Nat
        BY <1>2, <2>1 DEF Codes
      <4> QED
        BY <3>4, <4>1
    <3> QED
      BY <2>1, <3>1, <3>2, <3>3, <3>4
  <2>5. \A d \in Sends : call'[d].at = "inserting" => \A s \in CodesOfSubject(d)' : codes'[s].used
    <3> SUFFICES ASSUME NEW d \in Sends, call'[d].at = "inserting",
                        NEW s \in CodesOfSubject(d)'
                 PROVE  codes'[s].used
      OBVIOUS
    <3>1. d # c
      BY <1>5 DEF Inserts, Leaves, Returned, Called
    <3>2. call[d].at = "inserting" /\ Subject[c] # Subject[d]
      BY <1>3, <1>5, <3>1, InsertsOwn DEF Sending
    <3>3. s \in DOMAIN codes /\ s \in CodesOfSubject(d)
      BY <2>1, <3>2 DEF CodesOfSubject
    <3> QED
      BY <2>1, <3>2, <3>3 DEF BudgetInv
  <2>6. accepted' = accepted
    <3>1. c \notin Checks
      BY <2>1
    <3> QED
      BY <3>1, WorkMarks
  <2>7. \A p \in accepted' : p[2] \in DOMAIN codes' /\ codes'[p[2]].used
    BY <2>1, <2>6 DEF BudgetInv
  <2> QED
    BY <2>3, <2>4, <2>5, <2>7 DEF BudgetInv
<1> QED
  BY <1>4, <1>5, CodesShape

CodesInv == LockedInv /\ PaceInv /\ BudgetInv

LEMMA CodesAlways == Spec => []CodesInv
<1>1. Init => PaceInv /\ BudgetInv
  BY DEF Init, Called, PaceInv, PaceOk, Sending, BudgetInv, CodesOfSubject
<1>2. LockedInv /\ PaceInv /\ BudgetInv /\ [Next]_vars => PaceInv' /\ BudgetInv'
  <2> SUFFICES ASSUME Typed, CallInv, LineInv, PaceInv, BudgetInv, [Next]_vars
               PROVE  PaceInv' /\ BudgetInv'
    BY DEF LockedInv
  <2> QED
    BY QuietSteps, QuietPace, WorkPace, WorkBudget
<1> QED
  BY <1>1, <1>2, LockedAlways, PTL DEF Spec, CodesInv

(* A code is compared at most MaxAttempts times, and a subject has at most  *)
(* one code that can still be used, whoever sends and guesses meanwhile.   *)
THEOREM BudgetKeptHolds == Spec => []BudgetKept
<1>1. CodesInv => BudgetKept
  BY DEF CodesInv, BudgetInv, BudgetKept
<1> QED
  BY <1>1, CodesAlways, PTL

(* One guess at most is answered ok for a code, and it uses up one that was *)
(* unused: neither burned nor replaced by a newer one of its subject.      *)
THEOREM SingleUseHolds == Spec => SingleUse
<1> DEFINE Once == \A c \in Checks, s \in Sends :
       <<c, s>> \in accepted' \ accepted =>
         /\ \A d \in Checks : <<d, s>> \notin accepted
         /\ ~codes[s].used /\ codes'[s].used
         /\ \A newer \in CodesOfSubject(c) : codes[newer].created =< codes[s].created
         /\ Subject[s] = Subject[c] /\ Address[s] = Address[c]
<1>1. ASSUME CodesInv, [Next]_vars PROVE Once
  <2> SUFFICES ASSUME NEW c \in Checks, NEW s \in Sends, <<c, s>> \in accepted' \ accepted
               PROVE  /\ \A d \in Checks : <<d, s>> \notin accepted
                      /\ ~codes[s].used /\ codes'[s].used
                      /\ \A newer \in CodesOfSubject(c) : codes[newer].created =< codes[s].created
                      /\ Subject[s] = Subject[c] /\ Address[s] = Address[c]
    OBVIOUS
  <2>1. Typed /\ CallInv /\ BudgetInv
    BY <1>1 DEF CodesInv, LockedInv
  <2>2. PICK d \in Callers : WorkStep(d)
    BY <1>1, <2>1, QuietSteps DEF Quiet
  <2>3. /\ accepted' = accepted \cup {<<d, call[d].live>>}
        /\ call[d].live \in DOMAIN codes /\ ~codes[call[d].live].used
        /\ codes'[call[d].live].used
        /\ Subject[call[d].live] = Subject[d] /\ Address[call[d].live] = Address[d]
    BY <2>1, <2>2, WorkMarks
  <2>4. d = c /\ call[d].live = s
    BY <2>3
  <2>5. \A e \in Checks : <<e, s>> \notin accepted
    <3> SUFFICES ASSUME NEW e \in Checks, <<e, s>> \in accepted PROVE FALSE
      OBVIOUS
    <3>1. codes[<<e, s>>[2]].used
      BY <2>1 DEF BudgetInv
    <3> QED
      BY <2>3, <2>4, <3>1
  <2>6. \A newer \in CodesOfSubject(c) : codes[newer].created =< codes[s].created
    BY <2>1, <2>3, <2>4 DEF BudgetInv, CodesOfSubject
  <2> QED
    BY <2>3, <2>4, <2>5, <2>6
<1> QED
  BY <1>1, CodesAlways, PTL DEF Spec, SingleUse

-----------------------------------------------------------------------------
(* How many codes an address and a subject get.                            *)

(* Of the set D: those of the group of s whose time is within w before that *)
(* of s, or later; and those of them that are not later.                   *)
Recent(D, g, t, w, s) == {r \in D : g[r] = g[s] /\ t[r] + w > t[s]}
Window(D, g, t, w, s) == {r \in Recent(D, g, t, w, s) : t[r] =< t[s]}

(* One more member, at a time no earlier than the others of its group, when *)
(* few of them are recent: each window still holds at most the limit.      *)
LEMMA WindowGrows ==
  ASSUME NEW D, IsFiniteSet(D), NEW c, c \notin D, NEW g, NEW t, NEW w \in Nat \ {0},
         NEW limit \in Nat,
         \A s \in D \cup {c} : t[s] \in Nat,
         \A s \in D : g[s] = g[c] => t[s] =< t[c],
         Cardinality(Recent(D, g, t, w, c)) < limit,
         \A s \in D : Cardinality(Window(D, g, t, w, s)) =< limit
  PROVE  \A s \in D \cup {c} : Cardinality(Window(D \cup {c}, g, t, w, s)) =< limit
<1> DEFINE recent == Recent(D, g, t, w, c)
           within(s) == Window(D \cup {c}, g, t, w, s)
<1>1. IsFiniteSet(recent) /\ c \notin recent
  BY FS_Subset DEF Recent
<1>2. ASSUME NEW s \in D \cup {c}, g[s] = g[c], t[s] = t[c]
      PROVE  Cardinality(within(s)) =< limit
  <2>1. within(s) \subseteq recent \cup {c}
    BY <1>2 DEF Recent, Window
  <2> HIDE DEF recent, within
  <2>2. Cardinality(recent \cup {c}) = Cardinality(recent) + 1 /\ IsFiniteSet(recent \cup {c})
    BY <1>1, FS_AddElement
  <2>3. Cardinality(within(s)) =< Cardinality(recent \cup {c}) /\ IsFiniteSet(within(s))
    BY <2>1, <2>2, FS_Subset
  <2>4. Cardinality(recent) \in Nat /\ Cardinality(within(s)) \in Nat
    BY <1>1, <2>3, FS_CardinalityType
  <2>5. Cardinality(recent) < limit
    BY DEF recent
  <2> QED
    BY <2>2, <2>3, <2>4, <2>5
<1>3. ASSUME NEW s \in D, ~(g[s] = g[c] /\ t[s] = t[c])
      PROVE  Cardinality(within(s)) =< limit
  <2>1. ~(g[c] = g[s] /\ t[c] =< t[s])
    <3>1. t[s] \in Nat /\ t[c] \in Nat
      OBVIOUS
    <3> QED
      BY <1>3, <3>1
  <2>2. within(s) = Window(D, g, t, w, s)
    BY <2>1 DEF Recent, Window
  <2> QED
    BY <2>2
<1>4. ASSUME NEW s \in D \cup {c} PROVE Cardinality(within(s)) =< limit
  BY <1>2, <1>3
<1> QED
  BY <1>4

(* The codes of the group of s in the window that ends with s. *)
Near(g, s, w) ==
  {r \in DOMAIN codes : /\ g[r] = g[s] /\ codes[r].created + w > codes[s].created
                        /\ codes[r].created =< codes[s].created}

Spaced(g, w, limit) == \A s \in DOMAIN codes : Cardinality(Near(g, s, w)) =< limit

LimitInv ==
  /\ Spaced(Address, Day, PerAddressDay) /\ Spaced(Subject, Day, PerSubjectDay)
  /\ Spaced(Subject, Hour, PerSubjectHour) /\ Spaced(Subject, Cooldown, 1)

(* In line at its address's key, a send comes after every code to it. *)
AfterInv == \A d \in Sends : d \notin over /\ InLine(d, AddressKey(d)) =>
  \A s \in CodesOfAddress(d) : codes[s].created =< call[d].now

LEMMA SpacedFrame ==
  ASSUME DOMAIN codes' = DOMAIN codes, \A s \in DOMAIN codes : codes'[s].created = codes[s].created,
         NEW g, NEW w, NEW limit, Spaced(g, w, limit)
  PROVE  Spaced(g, w, limit)'
<1>1. \A s \in DOMAIN codes : Near(g, s, w)' = Near(g, s, w)
  BY DEF Near
<1> QED
  BY <1>1 DEF Spaced

LEMMA SpacedGrows ==
  ASSUME Typed, Typed', NEW c \in Sends, Inserts(c), c \notin DOMAIN codes,
         NEW g, NEW w \in Nat \ {0}, NEW limit \in Nat, Spaced(g, w, limit),
         \A s \in DOMAIN codes : g[s] = g[c] => codes[s].created =< call[c].now,
         Cardinality({r \in DOMAIN codes : g[r] = g[c] /\ codes[r].created + w > call[c].now}) < limit
  PROVE  Spaced(g, w, limit)'
<1> DEFINE D == DOMAIN codes
<1>1. PICK t : t = [s \in D \cup {c} |-> IF s = c THEN call[c].now ELSE codes[s].created]
  OBVIOUS
<1>2. /\ DOMAIN codes' = D \cup {c} /\ t[c] = call[c].now
      /\ \A s \in D : t[s] = codes[s].created
      /\ \A s \in D \cup {c} : codes'[s].created = t[s]
  BY <1>1 DEF Inserts
<1>3. IsFiniteSet(D) /\ \A s \in D \cup {c} : t[s] \in Nat
  BY <1>2 DEF Typed, Codes
<1> HIDE DEF D
<1>4. \A s \in D : g[s] = g[c] => t[s] =< t[c]
  BY <1>2 DEF D
<1>5. Cardinality(Recent(D, g, t, w, c)) < limit
  <2>1. Recent(D, g, t, w, c)
          = {r \in D : g[r] = g[c] /\ codes[r].created + w > call[c].now}
    BY <1>2 DEF Recent
  <2> QED
    BY <2>1 DEF D
<1>6. \A s \in D : Cardinality(Window(D, g, t, w, s)) =< limit
  <2> SUFFICES ASSUME NEW s \in D PROVE Cardinality(Window(D, g, t, w, s)) =< limit
    OBVIOUS
  <2>1. Window(D, g, t, w, s) = Near(g, s, w)
    BY <1>2 DEF Near, D, Recent, Window
  <2> QED
    BY <2>1 DEF Spaced, D
<1>7. \A s \in D \cup {c} : Cardinality(Window(D \cup {c}, g, t, w, s)) =< limit
  <2>1. c \notin D
    BY DEF D
  <2> QED
    BY <1>3, <1>4, <1>5, <1>6, <2>1, WindowGrows
<1>8. \A s \in D \cup {c} : Near(g, s, w)' = Window(D \cup {c}, g, t, w, s)
  BY <1>2 DEF Near, Recent, Window
<1> QED
  BY <1>2, <1>7, <1>8 DEF Spaced

LEMMA LimitStep ==
  ASSUME Typed, Typed', CallInv, LineInv, PaceInv, AfterInv, LimitInv, [Next]_vars
  PROVE  LimitInv'
<1>1. CASE Quiet
  BY <1>1, SpacedFrame DEF LimitInv, Quiet
<1>2. ASSUME NEW c \in Callers, WorkStep(c), Wears PROVE LimitInv'
  BY <1>2, SpacedFrame DEF LimitInv, Wears
<1>3. ASSUME NEW c \in Callers, WorkStep(c), Inserts(c) PROVE LimitInv'
  <2>1. /\ c \in Sends /\ Working(c) /\ c \notin over /\ c \notin DOMAIN codes
        /\ call[c].at \in Sending /\ call[c].at # "address"
    BY <1>3 DEF Inserts, CallInv, CallOk, Working, Sending
  <2>2. /\ SubjectPaced(c)
        /\ Cardinality(Since(CodesOfAddress(c), call[c].now, Day)) < PerAddressDay
    BY <2>1 DEF PaceInv, PaceOk
  <2>3. \A s \in DOMAIN codes : Address[s] = Address[c] => codes[s].created =< call[c].now
    <3>1. InLine(c, AddressKey(c))
      BY <2>1, WorkingHolds, OwnFacts DEF InLine
    <3> QED
      BY <2>1, <3>1 DEF AfterInv, CodesOfAddress
  <2>4. \A s \in DOMAIN codes : Subject[s] = Subject[c] => codes[s].created =< call[c].now
    <3> SUFFICES ASSUME NEW s \in DOMAIN codes, Subject[s] = Subject[c]
                 PROVE  codes[s].created =< call[c].now
      OBVIOUS
    <3>1. ~(codes[s].created + Cooldown > call[c].now)
      BY <2>2 DEF SubjectPaced, Since, CodesOfSubject
    <3>2. codes[s].created \in Nat /\ call[c].now \in Nat /\ Cooldown \in Nat
      BY DEF Typed, Codes
    <3> QED
      BY <3>1, <3>2, SMTT(30)
  <2>5. /\ Since(CodesOfAddress(c), call[c].now, Day) =
             {r \in DOMAIN codes : Address[r] = Address[c] /\ codes[r].created + Day > call[c].now}
        /\ \A w : Since(CodesOfSubject(c), call[c].now, w) =
             {r \in DOMAIN codes : Subject[r] = Subject[c] /\ codes[r].created + w > call[c].now}
    BY DEF Since, CodesOfAddress, CodesOfSubject
  <2>6. Spaced(Address, Day, PerAddressDay)'
    BY <1>3, <2>1, <2>2, <2>3, <2>5, SpacedGrows DEF LimitInv
  <2>7. Spaced(Subject, Day, PerSubjectDay)'
    BY <1>3, <2>1, <2>2, <2>4, <2>5, SpacedGrows DEF LimitInv, SubjectPaced
  <2>8. Spaced(Subject, Hour, PerSubjectHour)'
    BY <1>3, <2>1, <2>2, <2>4, <2>5, SpacedGrows DEF LimitInv, SubjectPaced
  <2>9. Spaced(Subject, Cooldown, 1)'
    <3> DEFINE paced == Since(CodesOfSubject(c), call[c].now, Cooldown)
    <3>1. paced = {} /\ Cardinality({}) = 0
      BY <2>2, FS_EmptySet DEF SubjectPaced
    <3> HIDE DEF paced
    <3>2. Cardinality(paced) < 1
      BY <3>1
    <3> QED
      BY <1>3, <2>1, <2>4, <2>5, <3>2, SpacedGrows DEF LimitInv, paced
  <2> QED
    BY <2>6, <2>7, <2>8, <2>9 DEF LimitInv
<1> QED
  BY <1>1, <1>2, <1>3, QuietSteps, CodesShape

LEMMA AfterStep ==
  ASSUME Typed, CallInv, NowInv, NowInv', LineInv, AfterInv, [Next]_vars
  PROVE  AfterInv'
<1>1. ASSUME NEW c \in Callers, QueueCall(c) \/ GrantCall(c) \/ UnlockCall(c) PROVE AfterInv'
  <2> SUFFICES ASSUME NEW d \in Sends, d \notin over', InLine(d, AddressKey(d))',
                      NEW s \in CodesOfAddress(d)'
               PROVE  codes'[s].created =< call'[d].now
    BY DEF AfterInv, AddressKey, OwnKeys
  <2>1. codes' = codes /\ now' = now /\ over' = over /\ s \in CodesOfAddress(d) /\ s \in DOMAIN codes'
    BY <1>1 DEF QueueCall, GrantCall, UnlockCall, Queue, Granted, Unlock, CodesOfAddress
  <2>2. InLine(d, AddressKey(d)) =>
          call'[d].now = call[d].now /\ codes[s].created =< call[d].now
    <3>1. CASE QueueCall(c) \/ GrantCall(c)
      BY <2>1, <3>1, QueueStands, GrantStands DEF AfterInv, Stands
    <3>2. CASE UnlockCall(c)
      BY <2>1, <3>2 DEF AfterInv, UnlockCall
    <3> QED
      BY <1>1, <3>1, <3>2
  <2>3. ~InLine(d, AddressKey(d)) => call'[d].now = now'
    <3>1. CASE QueueCall(c) \/ GrantCall(c)
      BY <3>1, QueueStands, GrantStands DEF Stands
    <3>2. CASE UnlockCall(c)
      <4>1. AddressKey(d) \in Keys
        BY OwnFacts
      <4>2. PICK q \in Numbers : RankedAt(q, AddressKey(d))
        BY <4>1 DEF LineInv
      <4>3. InLine(d, AddressKey(d))
        BY <3>2, <4>1, <4>2, UnlockTyped, UnlockLine DEF UnlockCall, Typed
      <4> QED
        BY <4>3
    <3> QED
      BY <1>1, <3>1, <3>2
  <2> QED
    BY <2>1, <2>2, <2>3 DEF NowInv
<1>2. ASSUME NEW c \in Callers, WorkStep(c) PROVE AfterInv'
  <2> SUFFICES ASSUME NEW d \in Sends, d \notin over', InLine(d, AddressKey(d))',
                      NEW s \in CodesOfAddress(d)'
               PROVE  codes'[s].created =< call'[d].now
    BY DEF AfterInv, AddressKey, OwnKeys
  <2>1. Work(c) /\ (Inserts(c) \/ Wears)
    BY <1>2, WorkShape, CodesShape
  <2>2. NextKey(d)' = NextKey(d)
    BY <2>1, KeySame DEF Work
  <2>3. InLine(d, AddressKey(d)) /\ d \notin over
    <3>1. AddressKey(d)' = AddressKey(d)
      BY DEF AddressKey, OwnKeys
    <3> QED
      BY <2>1, <2>2, <3>1 DEF Work, InLine, Waits, Stays, Leaves
  <2>4. call'[d].now = call[d].now
    BY <2>1 DEF Work, Stays, Leaves
  <2>5. CASE s \in DOMAIN codes /\ codes'[s].created = codes[s].created
    <3>1. s \in CodesOfAddress(d)
      BY <2>5 DEF CodesOfAddress
    <3> QED
      BY <2>3, <2>4, <2>5, <3>1 DEF AfterInv
  <2>6. CASE Inserts(c) /\ s = c
    <3>1. c \in Sends /\ Working(c) /\ Leaves(c) /\ codes'[c].created = call[c].now
      BY <2>1, <2>6 DEF Inserts, Work
    <3>2. c # d /\ Address[c] = Address[d]
      BY <2>6, <3>1 DEF Leaves, CodesOfAddress
    <3>3. PICK k \in Keys : k = AddressKey(c) /\ k = AddressKey(d)
      BY <3>1, <3>2, OwnFacts, OwnKeysAssumption
    <3>4. PICK q \in Numbers : RankedAt(q, k) /\ Timely(q, k)
      BY DEF LineInv
    <3>5. k \in held[c]
      BY <3>1, <3>3, WorkingHolds, OwnFacts
    <3>6. InLine(c, k) /\ InLine(d, k)
      BY <2>3, <3>3, <3>5 DEF InLine
    <3>7. q[c] < q[d]
      BY <3>1, <3>2, <3>4, <3>5, <3>6 DEF RankedAt
    <3>8. call[c].now =< call[d].now
      BY <3>1, <3>3, <3>4, <3>6, <3>7 DEF Timely
    <3> QED
      BY <2>4, <2>6, <3>1, <3>8
  <2>7. s \in DOMAIN codes'
    BY DEF CodesOfAddress
  <2> QED
    BY <2>1, <2>5, <2>6, <2>7 DEF Inserts, Wears
<1>3. CASE Tick \/ UNCHANGED vars
  <2>1. UNCHANGED <<lockvars, codes, call>>
    BY <1>3 DEF Tick, vars
  <2>2. \A d \in Sends : /\ InLine(d, AddressKey(d))' <=> InLine(d, AddressKey(d))
                         /\ CodesOfAddress(d)' = CodesOfAddress(d)
    <3> SUFFICES ASSUME NEW d \in Sends
                 PROVE  /\ InLine(d, AddressKey(d))' <=> InLine(d, AddressKey(d))
                        /\ CodesOfAddress(d)' = CodesOfAddress(d)
      OBVIOUS
    <3>1. NextKey(d)' = NextKey(d) /\ AddressKey(d)' = AddressKey(d)
      BY <2>1, KeySame DEF lockvars, AddressKey, OwnKeys
    <3> QED
      BY <2>1, <3>1 DEF InLine, Waits, lockvars, CodesOfAddress
  <2> QED
    BY <2>1, <2>2 DEF AfterInv, lockvars
<1>4. CASE Crash
  <2>1. \A d \in Callers : held'[d] = {} /\ d \notin waiting'
    BY <1>4 DEF Crash, LockLost
  <2>2. \A d \in Sends : ~InLine(d, AddressKey(d))'
    <3> SUFFICES ASSUME NEW d \in Sends PROVE ~InLine(d, AddressKey(d))'
      OBVIOUS
    <3> QED
      BY <2>1 DEF InLine, Waits
  <2> QED
    BY <2>2 DEF AfterInv
<1> QED
  BY <1>1, <1>2, <1>3, <1>4 DEF Next, CallStep, WorkStep

LEMMA LimitAlways == Spec => [](LimitInv /\ CodesInv)
<1>1. Init => AfterInv /\ LimitInv
  BY DEF Init, AfterInv, CodesOfAddress, LimitInv, Spaced
<1>2. CodesInv /\ CodesInv' /\ AfterInv /\ LimitInv /\ [Next]_vars => AfterInv' /\ LimitInv'
  <2> SUFFICES ASSUME Typed, Typed', CallInv, NowInv, NowInv', LineInv, PaceInv,
                      AfterInv, LimitInv, [Next]_vars
               PROVE  AfterInv' /\ LimitInv'
    BY DEF CodesInv, LockedInv
  <2> QED
    BY LimitStep, AfterStep
<1> QED
  BY <1>1, <1>2, CodesAlways, PTL DEF Spec

LEMMA LimitSuffices ==
  ASSUME Typed, LimitInv
  PROVE  SendsLimited
<1> SUFFICES ASSUME NEW s \in DOMAIN codes
             PROVE  /\ Until(CodesOfAddress(s), s, Day) =< PerAddressDay
                    /\ Until(CodesOfSubject(s), s, Day) =< PerSubjectDay
                    /\ Until(CodesOfSubject(s), s, Hour) =< PerSubjectHour
                    /\ Until(CodesOfSubject(s), s, Cooldown) = 1
  BY DEF SendsLimited
<1>1. \A w : Until(CodesOfSubject(s), s, w) = Cardinality(Near(Subject, s, w))
  <2> SUFFICES ASSUME NEW w
               PROVE  Until(CodesOfSubject(s), s, w) = Cardinality(Near(Subject, s, w))
    OBVIOUS
  <2>1. {r \in Since(CodesOfSubject(s), codes[s].created, w) : codes[r].created =< codes[s].created}
          = Near(Subject, s, w)
    BY DEF Since, CodesOfSubject, Near
  <2> QED
    BY <2>1 DEF Until
<1>2. Until(CodesOfAddress(s), s, Day) = Cardinality(Near(Address, s, Day))
  <2>1. {r \in Since(CodesOfAddress(s), codes[s].created, Day) : codes[r].created =< codes[s].created}
          = Near(Address, s, Day)
    BY DEF Since, CodesOfAddress, Near
  <2> QED
    BY <2>1 DEF Until
<1>3. Cardinality(Near(Subject, s, Cooldown)) = 1
  <2>1. IsFiniteSet(DOMAIN codes) /\ Near(Subject, s, Cooldown) \subseteq DOMAIN codes
    BY DEF Typed, Near
  <2>2. IsFiniteSet(Near(Subject, s, Cooldown))
    BY <2>1, FS_Subset
  <2>3. s \in Near(Subject, s, Cooldown)
    <3>1. codes[s].created \in Nat /\ Cooldown \in Nat \ {0}
      BY DEF Typed, Codes
    <3> QED
      BY <3>1 DEF Near
  <2>4. Cardinality(Near(Subject, s, Cooldown)) \in Nat
    BY <2>2, FS_CardinalityType
  <2>5. Cardinality(Near(Subject, s, Cooldown)) # 0
    BY <2>2, <2>3, FS_EmptySet
  <2>6. Cardinality(Near(Subject, s, Cooldown)) =< 1
    BY DEF LimitInv, Spaced
  <2> QED
    BY <2>4, <2>5, <2>6
<1> QED
  BY <1>1, <1>2, <1>3 DEF LimitInv, Spaced

(* However sends overlap and from whichever subjects, an address and a      *)
(* subject get at most their number of codes in any window.                *)
THEOREM SendsLimitedHolds == Spec => []SendsLimited
<1>1. LimitInv /\ CodesInv => SendsLimited
  BY LimitSuffices DEF CodesInv, LockedInv
<1> QED
  BY <1>1, LimitAlways, PTL
=============================================================================
