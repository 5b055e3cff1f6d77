------------------------------- MODULE MCFeed -------------------------------
(* Instances of Feed for TLC.                                              *)
EXTENDS Feed

CONSTANTS v1, v2, d1, d2

(* A note, 1, and an upload of the same millisecond, and a newer one; two  *)
(* views of upload 2, and deletions of it and of the note.                 *)
ThreeIds == 1 .. 3
ThreeWhen == [i \in ThreeIds |-> IF i = 3 THEN 2 ELSE 1]
TwoViews == {v1, v2}
TwoDeletes == {d1, d2}
ThreeTargets == [r \in TwoViews \cup TwoDeletes |-> IF r = d2 THEN 1 ELSE 2]

(* Views of the same upload are alike. *)
Alike == Permutations(TwoViews)

(* One file, one view and one deletion of it. *)
OneId == {1}
OneView == {v1}
OneDelete == {d1}
OneTarget == [r \in OneView \cup OneDelete |-> 1]
OneWhen == [i \in OneId |-> 1]
=============================================================================
