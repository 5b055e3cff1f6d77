--------------------------- MODULE MCUploadTokens ---------------------------
(* A small instance of UploadTokens for TLC.                               *)
EXTENDS UploadTokens, TLC

CONSTANTS u1, u2, q1, t1, t2

MCUploads == {u1, u2}
MCPrerequests == {q1}
MCTokenIds == {t1, t2}

(* Everybody types the same value, which the admin may delete and create   *)
(* again under another id.                                                 *)
MCSecret == [r \in MCUploads \cup MCPrerequests |-> "custom"]
MCUsesMax == {1, 2}
LastUse == {1}

MCSymmetry == Permutations(MCUploads) \cup Permutations(MCTokenIds)
=============================================================================
