---------------------------- MODULE UploadPromise ----------------------------
(***************************************************************************)
(* What the upload API promises about one session id, without goroutines,  *)
(* locks or files: chunks are accepted once each, and the upload becomes a *)
(* file with exactly the accepted contents, at most once, or nothing.      *)
(* UploadSessions implements it (PromiseKept).                             *)
(***************************************************************************)
EXTENDS Integers

CONSTANTS Sid, Data, Hole, MaxChunks

VARIABLES
  phase,    \* "unused", "open", then "saved" or "gone" for good
  length,   \* number of chunks the upload was announced with
  got       \* the body accepted for each chunk, or Hole

vars == <<phase, length, got>>
Chunk == 0 .. MaxChunks - 1

Init ==
  /\ phase = [s \in Sid |-> "unused"]
  /\ length = [s \in Sid |-> 0]
  /\ got = [s \in Sid |-> [c \in Chunk |-> Hole]]

Open(s) ==
  /\ phase[s] = "unused"
  /\ phase' = [phase EXCEPT ![s] = "open"]
  /\ \E k \in 0 .. MaxChunks : length' = [length EXCEPT ![s] = k]
  /\ UNCHANGED got

Accept(s) ==
  /\ phase[s] = "open"
  /\ \E c \in 0 .. length[s] - 1, d \in Data :
       got[s][c] = Hole /\ got' = [got EXCEPT ![s][c] = d]
  /\ UNCHANGED <<phase, length>>

Save(s) ==
  /\ phase[s] = "open"
  /\ \A c \in 0 .. length[s] - 1 : got[s][c] # Hole
  /\ phase' = [phase EXCEPT ![s] = "saved"]
  /\ UNCHANGED <<length, got>>

\* Cancelled or swept.
Drop(s) ==
  /\ phase[s] = "open"
  /\ phase' = [phase EXCEPT ![s] = "gone"]
  /\ UNCHANGED <<length, got>>

\* A restart forgets every upload in progress and no saved file.
Restart ==
  /\ phase' = [s \in Sid |-> IF phase[s] = "open" THEN "gone" ELSE phase[s]]
  /\ UNCHANGED <<length, got>>

Next == Restart \/ \E s \in Sid : Open(s) \/ Accept(s) \/ Save(s) \/ Drop(s)

Spec == Init /\ [][Next]_vars
=============================================================================
