--------------------------- MODULE ClipboardPromise ---------------------------
(***************************************************************************)
(* What the shared clipboard promises: one durable list, newest first,     *)
(* that never holds more than MaxEntries entries.  A published entry goes  *)
(* to the front and may push out the oldest; one entry or all of them may  *)
(* be removed; nothing else ever changes the list, and each of these       *)
(* happens at once or not at all, whatever fails and whenever the process  *)
(* dies.                                                                   *)
(***************************************************************************)
EXTENDS Naturals, Sequences

CONSTANTS Entry, MaxEntries

VARIABLE list

Ids == {list[i].id : i \in 1 .. Len(list)}
Atmost(n) == IF Len(list) <= n THEN list ELSE SubSeq(list, 1, n)

Init == list = <<>>

Publish(e) ==
  /\ e.id \notin Ids
  /\ list' = <<e>> \o Atmost(MaxEntries - 1)

Remove(i) == list' = SubSeq(list, 1, i - 1) \o SubSeq(list, i + 1, Len(list))

Clear == list' = <<>>

Next == \/ \E e \in Entry : Publish(e)
        \/ \E i \in 1 .. Len(list) : Remove(i)
        \/ Clear

Spec == Init /\ [][Next]_list
=============================================================================
