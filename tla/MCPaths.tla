------------------------------- MODULE MCPaths -------------------------------
(* Instances of UploadPaths for TLC. *)
EXTENDS UploadPaths, TLC

CONSTANTS s1, s2, a, A, b, x, y, i1, i2, i3

\* a/b/x and a/y share the directory a, which somebody may want as a file; A/y
\* lies in a directory that differs from a by its case alone.
Nested == {<<a, b, x>>, <<a, y>>, <<a>>, <<A, y>>}
Deep == {<<a, b, x>>}
Symmetry == Permutations(Sid) \cup Permutations(Inode)
LowerCase == [p \in Part |-> IF p = A THEN a ELSE p]
=============================================================================
