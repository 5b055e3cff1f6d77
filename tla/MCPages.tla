------------------------------- MODULE MCPages -------------------------------
(***************************************************************************)
(* An instance of each page of the web client.                             *)
(***************************************************************************)
EXTENDS Pages, TLC

(* Two tabs of one browser on one of two uploads. *)
OneBrowser == [t \in {"t1", "t2"} |-> "b1"]

(* How much a visitor does on each page. *)
MCBound ==
  [gallery |-> 6, form |-> 7, tray |-> 6, history |-> 5, card |-> 8, page |-> 3, admin |-> 4,
   views |-> 3, names |-> 2, signup |-> 6, account |-> 5]

(* One token allows two files, the other and none at all one. *)
TwoFilesWithToken == [t \in {"T1", "T2", ""} |-> IF t = "T1" THEN 2 ELSE 1]

(* Three files fit, one of them empty, and one is too large. *)
FourSizes == <<1, 2, 0, 9>>

(* Three uploads remembered, the second a link, and one to come. *)
ThreeRemembered == <<1, 2, 3>>

(* The body of three files, one empty, in packets shorter and longer than  *)
(* they are.                                                               *)
ThreeSizes == <<2, 0, 3>>

(* Two free addresses, one of which the invite may have been mailed to,    *)
(* and one that is linked to another account.                              *)
MailedTo == {Null, "x"}
=============================================================================
