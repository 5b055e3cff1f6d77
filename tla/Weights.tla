------------------------------ MODULE Weights ------------------------------
(***************************************************************************)
(* Sums of byte counts over finite sets.  A thing x that weighs w[x] bytes *)
(* is spread out as the pairs <<x, 1>> .. <<x, w[x]>>, and a sum of sizes  *)
(* is the number of such pairs.  Written this way the sum needs no         *)
(* recursion, so facts about it can be proved (Library_proofs).            *)
(***************************************************************************)
EXTENDS Integers, FiniteSets

(* The bytes of every member of S. *)
Bytes(S, w) == UNION {{x} \X (1 .. w[x]) : x \in S}

(* The sum of w[x] over the members x of S. *)
Weight(S, w) == Cardinality(Bytes(S, w))

=============================================================================
