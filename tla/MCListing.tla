------------------------------ MODULE MCListing ------------------------------
(* Instances of FileListing for TLC. *)
EXTENDS FileListing, TLC

CONSTANTS t1, t2, t3, n1, n2, x1, x2, a, b

SymmetryOfAll ==
  Permutations(Thread) \cup Permutations(Name) \cup Permutations(Temp) \cup Permutations(Content)
=============================================================================
