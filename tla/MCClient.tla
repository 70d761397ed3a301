------------------------------- MODULE MCClient -------------------------------
(***************************************************************************)
(* Instances of UploadClient for TLC.                                      *)
(***************************************************************************)
EXTENDS UploadClient, TLC

CONSTANTS i1, i2, w1, w2, l1, l2, s1, s2, s3

SymmetryOfAll == Permutations(Item) \cup Permutations(Slot) \cup Permutations(Lane)
                   \cup Permutations(Sid)
=============================================================================
