------------------------------ MODULE MCFilter ------------------------------
(***************************************************************************)
(* A small instance of PostFilter: two bands of two one-bit hashes, the    *)
(* first hash of which all posts share.                                    *)
(***************************************************************************)
EXTENDS PostFilter

MCSignatures == {s \in [1..Bands -> [1..Rows -> Values]] : s[1][1] = 0}
=============================================================================
