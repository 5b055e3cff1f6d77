--------------------------- MODULE MCUploadStore ---------------------------
(* Small instances of UploadStore for TLC.                                 *)
EXTENDS UploadStore

CONSTANTS u1, u2, u3, d1, d2

MCBlobs == {"a", "b", "c"}
MCSize == [b \in MCBlobs |-> CASE b = "a" -> 1 [] b = "b" -> 2 [] b = "c" -> 3]

(* u1 and u2 share b; u1 and u3 do not fit together, nor do all the blobs. *)
MCUploads == {u1, u2, u3}
MCFiles == [u \in MCUploads |-> CASE u = u1 -> <<"a", "b">>
                                  [] u = u2 -> <<"b">>
                                  [] u = u3 -> <<"c">>]
MCContentLength == [u \in MCUploads |-> CASE u = u1 -> 3 [] u = u2 -> 2 [] u = u3 -> 3]
MCDeletions == {d1, d2}
MCTarget == [d \in MCDeletions |-> IF d = d1 THEN u1 ELSE u2]

(* For liveness: two uploads of b, one of them twice, and a deletion of that one; u3  *)
(* declares more than its Content-Length and can only fail.                *)
LiveUploads == {u1, u2, u3}
LiveDeletions == {d1}
LiveFiles == [u \in LiveUploads |-> IF u = u1 THEN <<"b", "b">>
                                    ELSE IF u = u2 THEN <<"b">> ELSE <<"a", "b">>]
LiveContentLength == [u \in LiveUploads |-> CASE u = u1 -> 4 [] u = u2 -> 2
                                              [] u = u3 -> 1]
LiveTarget == [d \in LiveDeletions |-> u1]
=============================================================================
