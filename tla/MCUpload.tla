------------------------------- MODULE MCUpload -------------------------------
(***************************************************************************)
(* Instances of UploadSessions for TLC.  The names, bodies and threads are *)
(* model values; the bounds are set in each configuration.                 *)
(***************************************************************************)
EXTENDS UploadSessions, TLC

CONSTANTS t1, t2, t3, s1, s2, lower, upper, d1, d2

\* "a.txt" and "A.TXT": two names on the disk, one key in s.names.
FoldToLower == [b \in Base |-> lower]

SymmetryOfAll == Permutations(Thread) \cup Permutations(Sid) \cup Permutations(Data)
=============================================================================
