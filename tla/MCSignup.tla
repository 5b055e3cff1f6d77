------------------------------ MODULE MCSignup ------------------------------
(* Instances of Signup for TLC. *)
EXTENDS Signup

CONSTANTS s1, s2, i1

(* One invite, two attempts that bring the same link. *)
MCSignups == {s1, s2}
MCInvites == {i1}
MCCode == [s \in MCSignups |-> i1]

(* Two people, one of whom brings an address. *)
OneAddress == [s \in MCSignups |-> IF s = s1 THEN "k@example.org" ELSE NoOne]
TwoNames == [s \in MCSignups |-> IF s = s1 THEN "kira" ELSE "mio"]
=============================================================================
