----------------------------- MODULE MCClipboard -----------------------------
(* Instances of ClipboardStore for TLC. *)
EXTENDS ClipboardStore, TLC

CONSTANTS c1, c2, c3, e1, e2, e3

SymmetryOfAll == Permutations(Client) \cup Permutations(Id)
=============================================================================
