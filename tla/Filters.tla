------------------------------ MODULE Filters ------------------------------
(***************************************************************************)
(* Array.filter of the client.  Sequences' SelectSeq is recursive; here    *)
(* the k-th element kept is named by its rank among the places kept, so    *)
(* that facts about it can be proved (Library_proofs).                     *)
(***************************************************************************)
EXTENDS Integers, Sequences, FiniteSets

(* The places of s that hold a member of S, and the rank of one of them.   *)
Places(s, S) == {i \in 1..Len(s) : s[i] \in S}
Rank(K, i) == Cardinality({j \in K : j <= i})

(* The elements of s that are in S, in their order. *)
Filtered(s, S) ==
  LET K == Places(s, S)
  IN [k \in 1..Cardinality(K) |-> s[CHOOSE i \in K : Rank(K, i) = k]]

=============================================================================
