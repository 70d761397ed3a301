---------------------------- MODULE UploadSessions ----------------------------
(***************************************************************************)
(* The chunked-upload service (internal/service/upload_session.go,         *)
(* upload_state.go, completion.go, model/types.go) under the HTTP handlers *)
(* of internal/handler/upload.go and the idle sweeper of cmd/main.go.      *)
(*                                                                         *)
(* A session is opened by InitSession, filled by WriteChunk, and ends in   *)
(* exactly one of three ways: it is published as a file, cancelled, or     *)
(* swept away.  Each handler runs in its own goroutine and is cut into the *)
(* steps between which the code releases every lock, or waits for one:     *)
(*                                                                         *)
(*   WriteChunk       wfind -> wlock -> wblock -> copy or discard          *)
(*   LookupUpload     look -> find -> peek (-> again)                      *)
(*   CompleteSession  cfind -> wait -> drain -> publish -> remember        *)
(*                          -> close -> clean                              *)
(*   CancelSession    xfind -> wait -> drain -> close -> clean             *)
(*   ExpireIdle       (TryLock) close -> clean                             *)
(*                                                                         *)
(* The locks are regions of pc, not variables: who holds entry.lifecycle   *)
(* or one of entry.blocks is read off the program counters.  s.mu is held  *)
(* inside one step only.  Directories are the subject of another module.   *)
(***************************************************************************)
EXTENDS Integers, Sequences, FiniteSets

CONSTANTS
  Thread,        \* goroutines serving HTTP requests
  Cleaner,       \* the goroutine that calls ExpireIdle every five minutes
  Sid,           \* session ids: the UUIDs the server will draw
  NoSid,
  Base,          \* sanitized file names clients ask for
  Fold,          \* lower-casing of names (nameKey), a function on Base
  NoName,
  Data,          \* bodies a client can send for a chunk
  Hole,          \* a block of the payload that holds no complete body
  Absent,        \* no file under that name
  Foreign,       \* a file this service did not publish
  MaxChunks,     \* bound of the model: chunks of the largest upload
  MaxForeign,    \* bound of the model: files of others at any time
  MaxSessions,   \* config.MaxUploadSessions
  MaxCompleted,  \* MaxCompletedSessions
  MaxStreams,    \* config.MaxConcurrentChunks
  NBlocks,       \* len(entry.blocks)
  Requests,      \* the requests clients send: a subset of
                 \* {"chunk", "status", "complete", "cancel", "delete"}
  Faults         \* what may go wrong: a subset of {"io", "external", "crash"}

ASSUME IdsAssumption == NoSid \notin Sid /\ Cleaner \notin Thread
ASSUME FoldAssumption == Fold \in [Base -> Base]
ASSUME MarksAssumption ==
  /\ Hole \notin Data
  /\ Absent \notin Sid /\ Foreign \notin Sid /\ Absent # Foreign
ASSUME LimitsAssumption ==
  /\ MaxChunks \in Nat /\ MaxForeign \in Nat /\ MaxSessions \in Nat
  /\ MaxCompleted \in Nat \ {0} /\ MaxStreams \in Nat /\ NBlocks \in Nat \ {0}

VARIABLES
  pc,         \* where each goroutine stands
  req,        \* the request it serves and the locals of its handler
  reply,      \* the response it is about to send
  unused,     \* ids not drawn yet
  sessions,   \* keys of s.sessions
  names,      \* keys of s.names
  entry,      \* the transferSession of each id
  receipts,   \* s.completed, oldest first: every receipt lives equally long
  lapsed,     \* receipts past their expiry that are still in the map
  payload,    \* contents of each session's payload file, by chunk
  temp,       \* sessions whose temporary directory exists
  disk,       \* the upload directory: whose inode a name is linked to
  todo,       \* entries the sweeper has still to visit
  published,  \* history: the name each session was linked under
  forgotten   \* history: sessions whose receipt was evicted, lapsed or lost

vars == <<pc, req, reply, unused, sessions, names, entry, receipts, lapsed,
          payload, temp, disk, todo, published, forgotten>>
-----------------------------------------------------------------------------
Actor == Thread \cup {Cleaner}
Chunk == 0 .. MaxChunks - 1

\* A name carries the UUID suffix a conflict gave it: none (gen 0), one drawn
\* by InitSession (gen 1) or one drawn at publication (gen 2).  `by` makes the
\* suffix unique, as the UUID does.
Plain(b) == [base |-> b, by |-> NoSid, gen |-> 0]
conflictName(n, s, g) == [base |-> n.base, by |-> s, gen |-> g]
Name == {Plain(b) : b \in Base}
          \cup [base : Base, by : Sid, gen : {1, 2}]
ASSUME NoNameAssumption == NoName \notin Name
nameKey(n) == [n EXCEPT !.base = Fold[n.base]]

Op == {"none", "init", "chunk", "status", "complete", "cancel", "expire"}
Pc == {"idle", "wfind", "wlock", "wblock", "copy", "discard", "look", "find",
       "peek", "again", "cfind", "xfind", "wait", "drain", "publish", "remember",
       "close", "clean", "done"}
Request == [op : Op, sid : Sid \cup {NoSid}, chunk : Chunk \cup {0},
            body : Data \cup {Hole}, seen : SUBSET Chunk]
Kind == {"none", "started", "ack", "uploading", "saved", "missing", "cancelled",
         "gone", "busy", "failed"}
Reply == [kind : Kind, name : Name \cup {NoName}, chunks : SUBSET Chunk]
Entry == [total : 0 .. MaxChunks, final : Name \cup {NoName},
          received : SUBSET Chunk, closed : BOOLEAN,
          result : Name \cup {NoName}, stale : BOOLEAN]

NoRequest == [op |-> "none", sid |-> NoSid, chunk |-> 0, body |-> Hole, seen |-> {}]
NoReply == [kind |-> "none", name |-> NoName, chunks |-> {}]
NewEntry(k, n) == [total |-> k, final |-> n, received |-> {},
                   closed |-> FALSE, result |-> NoName, stale |-> FALSE]

Chunks(s) == 0 .. entry[s].total - 1
Used == Sid \ unused
\* GetCompletion answers for s: its receipt is there and has not expired.
Receipt(s) == \E i \in 1 .. Len(receipts) : receipts[i] = s

Init ==
  /\ pc = [a \in Actor |-> "idle"]
  /\ req = [a \in Actor |-> NoRequest]
  /\ reply = [t \in Thread |-> NoReply]
  /\ unused = Sid
  /\ sessions = {} /\ names = {} /\ temp = {} /\ todo = {}
  /\ entry = [s \in Sid |-> NewEntry(0, NoName)]
  /\ receipts = <<>> /\ lapsed = {} /\ forgotten = {}
  /\ payload = [s \in Sid |-> [c \in Chunk |-> Hole]]
  /\ disk = [n \in Name |-> Absent]
  /\ published = [s \in Sid |-> NoName]
-----------------------------------------------------------------------------
(* entry.lifecycle, a sync.RWMutex: "wait" queues for the writer's slot,     *)
(* "drain" owns that slot and waits for the readers it found to leave.       *)
Streams(s) == {t \in Thread : pc[t] \in {"wblock", "copy", "discard"} /\ req[t].sid = s}
Owners(s) == {a \in Actor :
                /\ pc[a] \in {"drain", "publish", "remember", "close", "clean"}
                /\ req[a].sid = s}
CanRLock(s) == Owners(s) = {}
CanTryLock(s) == Owners(s) = {} /\ Streams(s) = {}
\* Mutant: the block is taken before the lifecycle lock, not after.
BlockHeldFirst(s, c) == \E t \in Thread : /\ pc[t] \in {"wlock", "copy", "discard"}
                                          /\ req[t].sid = s
                                          /\ req[t].chunk % NBlocks = c % NBlocks
\* Mutant: no block lock at all.
BlockNeverHeld(s, c) == FALSE
\* entry.blocks[index % len(entry.blocks)] is held by a goroutine that copies.
BlockHeld(s, c) == \E t \in Thread : /\ pc[t] \in {"copy", "discard"}
                                     /\ req[t].sid = s
                                     /\ req[t].chunk % NBlocks = c % NBlocks
\* The questions the handlers ask, each after the same question asked wrongly:
\* the check that is missing, off by one, or answered from the wrong place.
ClosedUnchecked(s) == FALSE
Closed(s) == entry[s].closed
AllButOneReceived(s) == Cardinality(entry[s].received) + 1 >= entry[s].total
AllReceived(s) == entry[s].received = Chunks(s)
ExpiredOrClosed(s) == entry[s].stale
ExpiredIfEmpty(s) == entry[s].stale /\ ~entry[s].closed /\ entry[s].received = {}
Expired(s) == entry[s].stale /\ ~entry[s].closed
FreeUnchecked(n) == TRUE
Free(n) == disk[n] = Absent
RequestedName(s) == Plain(entry[s].final.base)
SavedFilename(s) == entry[s].final
Full == Len(receipts) >= MaxCompleted
Remembered(s) == Append(IF Full THEN Tail(receipts) ELSE receipts, s)
ReceiptStill(s) == Receipt(s)
MissingFromOne(t) == Chunks(req[t].sid) \ (req[t].seen \cup {0})
Missing(t) == Chunks(req[t].sid) \ req[t].seen
\* Chunk requests in flight: each holds one of the slots.
Slots == {t \in Thread : pc[t] \in {"wfind", "wlock", "wblock", "copy", "discard"}}

Goto(a, p) == pc' = [pc EXCEPT ![a] = p]
Answer(t, kind, name, chunks) ==
  /\ Goto(t, "done")
  /\ reply' = [reply EXCEPT ![t] = [kind |-> kind, name |-> name, chunks |-> chunks]]

RegistryVars == <<unused, sessions, names, entry>>
ReceiptVars == <<receipts, lapsed, forgotten>>
FileVars == <<payload, temp, disk, published>>
Shared == <<RegistryVars, ReceiptVars, FileVars, todo>>
-----------------------------------------------------------------------------
(* Requests arrive.  The handlers pass on ids a client learned from the      *)
(* server, in any order and as often as it likes.                            *)

\* UploadInit and InitSession, which hold s.mu throughout.
InitSession(t) ==
  /\ pc[t] = "idle"
  /\ \/ /\ Cardinality(sessions) >= MaxSessions
        /\ Answer(t, "busy", NoName, {})
        /\ UNCHANGED <<RegistryVars, FileVars>>
     \/ /\ "io" \in Faults    \* storage refused, no room, invalid path
        /\ Answer(t, "failed", NoName, {})
        /\ UNCHANGED <<RegistryVars, FileVars>>
     \/ /\ Cardinality(sessions) < MaxSessions
        /\ \E s \in unused, b \in Base, k \in 0 .. MaxChunks :
             LET free == nameKey(Plain(b)) \notin names /\ disk[Plain(b)] = Absent
                 name == IF free THEN Plain(b) ELSE conflictName(Plain(b), s, 1)
             IN  /\ unused' = unused \ {s}
                 /\ sessions' = sessions \cup {s}
                 /\ names' = names \cup {nameKey(name)}
                 /\ entry' = [entry EXCEPT ![s] = NewEntry(k, name)]
                 /\ temp' = temp \cup {s}
                 /\ Answer(t, "started", name, {})
        /\ UNCHANGED <<payload, disk, published>>
  /\ UNCHANGED <<req, ReceiptVars, todo>>

\* UploadChunk takes a slot or turns the request away.
StartChunk(t) ==
  /\ pc[t] = "idle" /\ "chunk" \in Requests
  /\ \/ /\ Cardinality(Slots) < MaxStreams
        /\ \E s \in Used, c \in Chunk, d \in Data :
             req' = [req EXCEPT ![t] = [NoRequest EXCEPT !.op = "chunk",
                                          !.sid = s, !.chunk = c, !.body = d]]
        /\ Goto(t, "wfind")
        /\ UNCHANGED reply
     \/ /\ Cardinality(Slots) >= MaxStreams
        /\ Answer(t, "busy", NoName, {})
        /\ UNCHANGED req
  /\ UNCHANGED Shared

\* UploadStatus, UploadComplete and UploadCancel.
StartRequest(t) ==
  /\ pc[t] = "idle"
  /\ \E s \in Used, op \in Requests \cap {"status", "complete", "cancel"} :
       /\ req' = [req EXCEPT ![t] = [NoRequest EXCEPT !.op = op, !.sid = s]]
       /\ Goto(t, IF op = "cancel" THEN "xfind" ELSE "look")
  /\ UNCHANGED <<reply, Shared>>

\* The response leaves and the goroutine is done with the request.
Respond(t) ==
  /\ pc[t] = "done"
  /\ Goto(t, "idle")
  /\ req' = [req EXCEPT ![t] = NoRequest]
  /\ reply' = [reply EXCEPT ![t] = NoReply]
  /\ UNCHANGED Shared
-----------------------------------------------------------------------------
(* WriteChunk *)

ChunkFind(t) ==
  /\ pc[t] = "wfind"
  /\ IF req[t].sid \in sessions
       THEN Goto(t, "wlock") /\ UNCHANGED reply
       ELSE Answer(t, "gone", NoName, {})
  /\ UNCHANGED <<req, Shared>>

\* RLock, then the checks of closed and of the index.
ChunkLock(t) ==
  LET s == req[t].sid IN
  /\ pc[t] = "wlock" /\ CanRLock(s)
  /\ \/ Closed(s) /\ Answer(t, "gone", NoName, {})
     \/ /\ ~Closed(s) /\ req[t].chunk \notin Chunks(s)
        /\ Answer(t, "failed", NoName, {})
     \/ /\ ~Closed(s) /\ req[t].chunk \in Chunks(s)
        /\ Goto(t, "wblock") /\ UNCHANGED reply
  /\ UNCHANGED <<req, Shared>>

\* The block is locked and the body starts to flow, over whatever is there
\* unless the chunk was acknowledged before: then it is read and discarded.
ChunkBegin(t) ==
  LET s == req[t].sid
      c == req[t].chunk
  IN
  /\ pc[t] = "wblock" /\ ~BlockHeld(s, c)
  /\ entry' = [entry EXCEPT ![s].stale = FALSE]
  /\ \/ /\ c \in entry[s].received
        /\ Goto(t, "discard")
        /\ UNCHANGED payload
     \/ /\ c \notin entry[s].received
        /\ Goto(t, "copy")
        /\ payload' = [payload EXCEPT ![s][c] = Hole]
  /\ UNCHANGED <<req, reply, unused, sessions, names, ReceiptVars, temp, disk,
                 published, todo>>

\* The whole body and its EOF arrived: acknowledge.
ChunkAck(t) ==
  LET s == req[t].sid
      c == req[t].chunk
  IN
  /\ \/ pc[t] = "discard" /\ UNCHANGED payload
     \/ pc[t] = "copy" /\ payload' = [payload EXCEPT ![s][c] = req[t].body]
  /\ entry' = [entry EXCEPT ![s].received = @ \cup {c}, ![s].stale = FALSE]
  /\ Answer(t, "ack", NoName, {})
  /\ UNCHANGED <<req, unused, sessions, names, ReceiptVars, temp, disk,
                 published, todo>>

\* The client went away, sent too little or too much, or the disk refused: the
\* block is left torn, unless the body was being discarded.
ChunkFail(t) ==
  LET s == req[t].sid
      c == req[t].chunk
  IN
  /\ \/ pc[t] = "discard" /\ UNCHANGED payload
     \/ pc[t] = "copy" /\ payload' = [payload EXCEPT ![s][c] = Hole]
  /\ Answer(t, "failed", NoName, {})
  /\ UNCHANGED <<req, RegistryVars, ReceiptVars, temp, disk, published, todo>>
-----------------------------------------------------------------------------
(* LookupUpload, by UploadStatus and as the first half of UploadComplete *)

\* GetCompletion: an expired receipt is dropped on the way.
LookReceipt(t) ==
  LET s == req[t].sid IN
  /\ pc[t] = "look"
  /\ lapsed' = lapsed \ {s}
  /\ IF Receipt(s)
       THEN Answer(t, "saved", entry[s].result, {})
       ELSE Goto(t, "find") /\ UNCHANGED reply
  /\ UNCHANGED <<req, RegistryVars, receipts, forgotten, FileVars, todo>>

LookFind(t) ==
  /\ pc[t] = "find"
  /\ Goto(t, IF req[t].sid \in sessions THEN "peek" ELSE "again")
  /\ UNCHANGED <<req, reply, Shared>>

\* GetSession under RLock: a snapshot of the acknowledged chunks.
LookPeek(t) ==
  LET s == req[t].sid IN
  /\ pc[t] = "peek" /\ CanRLock(s)
  /\ IF Closed(s)
       THEN Goto(t, "again") /\ UNCHANGED <<req, reply>>
       ELSE IF req[t].op = "status"
         THEN /\ Answer(t, "uploading", entry[s].final, entry[s].received)
              /\ UNCHANGED req
         ELSE /\ req' = [req EXCEPT ![t].seen = entry[s].received]
              /\ Goto(t, "cfind") /\ UNCHANGED reply
  /\ UNCHANGED Shared

\* The session is gone: completion may have won the race, so ask once more.
LookAgain(t) ==
  LET s == req[t].sid IN
  /\ pc[t] = "again"
  /\ lapsed' = lapsed \ {s}
  /\ IF ReceiptStill(s) THEN Answer(t, "saved", entry[s].result, {})
                   ELSE Answer(t, "gone", NoName, {})
  /\ UNCHANGED <<req, RegistryVars, receipts, forgotten, FileVars, todo>>
-----------------------------------------------------------------------------
(* CompleteSession and CancelSession *)

\* CompleteSession falls back on the receipt when the session is gone.
CompleteFind(t) ==
  /\ pc[t] = "cfind"
  /\ Goto(t, IF req[t].sid \in sessions THEN "wait" ELSE "again")
  /\ UNCHANGED <<req, reply, Shared>>

CancelFind(t) ==
  /\ pc[t] = "xfind"
  /\ IF req[t].sid \in sessions THEN Goto(t, "wait") /\ UNCHANGED reply
                                ELSE Answer(t, "gone", NoName, {})
  /\ UNCHANGED <<req, Shared>>

\* lifecycle.Lock: the writer announces itself and bars new readers ...
LockWait(t) ==
  /\ pc[t] = "wait" /\ Owners(req[t].sid) = {}
  /\ Goto(t, "drain")
  /\ UNCHANGED <<req, reply, Shared>>

\* ... and owns the session once the streams it found have ended.
Drained(t) == pc[t] = "drain" /\ Streams(req[t].sid) = {}

CancelLocked(t) ==
  LET s == req[t].sid IN
  /\ Drained(t) /\ req[t].op = "cancel"
  /\ IF Closed(s) THEN Answer(t, "gone", NoName, {})
                  ELSE Goto(t, "close") /\ UNCHANGED reply
  /\ UNCHANGED <<req, Shared>>

\* The missing list comes from the snapshot LookPeek took, before the lock.
CompleteLocked(t) ==
  LET s == req[t].sid IN
  /\ Drained(t) /\ req[t].op = "complete"
  /\ \/ /\ Closed(s) /\ entry[s].result # NoName
        /\ Answer(t, "saved", entry[s].result, {})
     \/ /\ Closed(s) /\ entry[s].result = NoName
        /\ Answer(t, "gone", NoName, {})
     \/ /\ ~Closed(s) /\ ~AllReceived(s)
        /\ Answer(t, "missing", NoName, Missing(t))
     \/ /\ ~Closed(s) /\ AllReceived(s)
        /\ \/ Goto(t, "publish") /\ UNCHANGED reply
           \/ "io" \in Faults /\ Answer(t, "failed", NoName, {})  \* Stat, Sync
  /\ UNCHANGED <<req, Shared>>

\* Mutant: the name given up stays reserved.
ExchangedKeepingOld(old, new) == names \cup {nameKey(new)}
\* The reservation moves with the name.
Exchanged(old, new) == (names \ {nameKey(old)}) \cup {nameKey(new)}

\* Under s.mu: link the payload under the final name; a name that was taken
\* since is given up for a fresh one.  A failed link leaves the session open.
CompletePublish(t) ==
  LET s == req[t].sid
      old == entry[s].final
      new == IF Free(old) THEN old ELSE conflictName(old, s, 2)
  IN
  /\ pc[t] = "publish" /\ Free(new)
  /\ names' = Exchanged(old, new)
  /\ entry' = [entry EXCEPT ![s].final = new]
  /\ \/ /\ disk' = [disk EXCEPT ![new] = s]
        /\ published' = [published EXCEPT ![s] = new]
        /\ Goto(t, "remember") /\ UNCHANGED reply
     \/ /\ "io" \in Faults /\ Answer(t, "failed", NoName, {})
        /\ UNCHANGED <<disk, published>>
  /\ UNCHANGED <<req, unused, sessions, ReceiptVars, payload, temp, todo>>

\* entry.result and rememberCompletion: expired receipts go, then the oldest
\* one if the map is still full.
CompleteRemember(t) ==
  LET s == req[t].sid IN
  /\ pc[t] = "remember"
  /\ entry' = [entry EXCEPT ![s].result = SavedFilename(s)]
  /\ lapsed' = {}
  /\ receipts' = Remembered(s)
  /\ forgotten' = IF Full THEN forgotten \cup {Head(receipts)} ELSE forgotten
  /\ Goto(t, "close")
  /\ UNCHANGED <<req, reply, unused, sessions, names, FileVars, todo>>

\* closeSessionLocked and remove, up to the end of its critical section.
CloseEntry(a) ==
  LET s == req[a].sid IN
  /\ pc[a] = "close"
  /\ entry' = [entry EXCEPT ![s].closed = TRUE]
  /\ sessions' = sessions \ {s}
  /\ names' = names \ {nameKey(entry[s].final)}
  /\ Goto(a, "clean")
  /\ UNCHANGED <<req, reply, unused, ReceiptVars, FileVars, todo>>

\* An error of file.Close is reported to whoever cancels; completion and the
\* sweeper only log it.
CancelReplies == IF "io" \in Faults THEN {"cancelled", "failed"} ELSE {"cancelled"}

\* The temporary directory goes, or stays for the next start to remove; then
\* the lifecycle lock is released.
CleanTemp(a) ==
  LET s == req[a].sid IN
  /\ pc[a] = "clean"
  /\ \/ temp' = temp \ {s}
     \/ "io" \in Faults /\ UNCHANGED temp
  /\ CASE req[a].op = "complete" -> Answer(a, "saved", SavedFilename(s), {}) /\ UNCHANGED req
       [] req[a].op = "cancel"   -> /\ \E k \in CancelReplies : Answer(a, k, NoName, {})
                                    /\ UNCHANGED req
       [] req[a].op = "expire"   -> /\ Goto(a, "idle")
                                    /\ req' = [req EXCEPT ![a] = NoRequest]
                                    /\ UNCHANGED reply
  /\ UNCHANGED <<RegistryVars, ReceiptVars, payload, disk, published, todo>>
-----------------------------------------------------------------------------
(* ExpireIdle *)

Scan ==
  /\ pc[Cleaner] = "idle" /\ todo = {} /\ sessions # {}
  /\ lapsed' = {}
  /\ todo' = sessions
  /\ UNCHANGED <<pc, req, reply, RegistryVars, receipts, forgotten, FileVars>>

\* TryLock, and a session in use is left for the next round.
Sweep ==
  /\ pc[Cleaner] = "idle"
  /\ \E s \in todo :
       /\ todo' = todo \ {s}
       /\ IF CanTryLock(s) /\ Expired(s)
            THEN /\ Goto(Cleaner, "close")
                 /\ req' = [req EXCEPT ![Cleaner] =
                              [NoRequest EXCEPT !.op = "expire", !.sid = s]]
            ELSE UNCHANGED <<pc, req>>
  /\ UNCHANGED <<reply, RegistryVars, ReceiptVars, FileVars>>
-----------------------------------------------------------------------------
(* What happens around the service *)

\* DELETE /api/files: the name goes, whoever put it there.
DeleteFile(n) ==
  /\ "delete" \in Requests
  /\ disk[n] # Absent
  /\ disk' = [disk EXCEPT ![n] = Absent]
  /\ UNCHANGED <<pc, req, reply, RegistryVars, ReceiptVars, payload, temp,
                 published, todo>>

\* Another program, or an editor's rename, puts its own file under a name
\* that some session holds or could be given.
ExternalFile(n) ==
  /\ "external" \in Faults
  /\ disk[n] # Foreign /\ Cardinality({m \in Name : disk[m] = Foreign}) < MaxForeign
  /\ n.gen = 0 \/ \E s \in sessions : entry[s].final = n /\ n.gen = 1
  /\ disk' = [disk EXCEPT ![n] = Foreign]
  /\ UNCHANGED <<pc, req, reply, RegistryVars, ReceiptVars, payload, temp,
                 published, todo>>

\* A day passes without a chunk for s.
GoStale(s) ==
  /\ s \in sessions /\ ~entry[s].stale /\ Streams(s) = {}
  /\ entry' = [entry EXCEPT ![s].stale = TRUE]
  /\ UNCHANGED <<pc, req, reply, unused, sessions, names, ReceiptVars,
                 FileVars, todo>>

\* An hour passes since the oldest receipt was written.
ReceiptLapses ==
  /\ receipts # <<>>
  /\ lapsed' = lapsed \cup {Head(receipts)}
  /\ receipts' = Tail(receipts)
  /\ forgotten' = forgotten \cup {Head(receipts)}
  /\ UNCHANGED <<pc, req, reply, RegistryVars, FileVars, todo>>

\* The process dies; the next one starts empty and PrepareStorage removes the
\* leftover session directories.  What was linked stays.
Restart ==
  /\ "crash" \in Faults
  /\ pc' = [a \in Actor |-> "idle"]
  /\ req' = [a \in Actor |-> NoRequest]
  /\ reply' = [t \in Thread |-> NoReply]
  /\ sessions' = {} /\ names' = {} /\ temp' = {} /\ todo' = {}
  /\ entry' = [s \in Sid |-> IF s \in Used THEN [entry[s] EXCEPT !.closed = TRUE]
                                          ELSE entry[s]]
  /\ receipts' = <<>> /\ lapsed' = {}
  /\ forgotten' = forgotten \cup {s \in Sid : published[s] # NoName}
  /\ UNCHANGED <<unused, payload, disk, published>>
-----------------------------------------------------------------------------
Arrive(t) == InitSession(t) \/ StartChunk(t) \/ StartRequest(t)
WriteChunk(t) == ChunkFind(t) \/ ChunkLock(t) \/ ChunkBegin(t)
                   \/ ChunkAck(t) \/ ChunkFail(t)
LookupUpload(t) == LookReceipt(t) \/ LookFind(t) \/ LookPeek(t) \/ LookAgain(t)
EndSession(t) == CompleteFind(t) \/ CancelFind(t) \/ LockWait(t)
                   \/ CancelLocked(t) \/ CompleteLocked(t) \/ CompletePublish(t)
                   \/ CompleteRemember(t) \/ CloseEntry(t) \/ CleanTemp(t)
\* Every step of a request that was accepted.
Serve(t) == WriteChunk(t) \/ LookupUpload(t) \/ EndSession(t) \/ Respond(t)
ExpireIdle == Scan \/ Sweep \/ CloseEntry(Cleaner) \/ CleanTemp(Cleaner)
Environment == \/ \E n \in Name : DeleteFile(n) \/ ExternalFile(n)
               \/ \E s \in Sid : GoStale(s)
               \/ ReceiptLapses \/ Restart

Next == \/ \E t \in Thread : Arrive(t) \/ Serve(t)
        \/ ExpireIdle
        \/ Environment

Spec == Init /\ [][Next]_vars

\* Go's mutexes are starvation-free and RWMutex admits the readers that waited
\* for a writer, so a goroutine that could run again and again does (SF).  A
\* body always ends: http.Server's ReadTimeout cuts it off.  The ticker of
\* cmd/main.go calls ExpireIdle for ever.
FairSpec == /\ Spec
            /\ \A t \in Thread : SF_vars(Serve(t))
            /\ WF_vars(ExpireIdle)
-----------------------------------------------------------------------------
(* Properties *)

\* Type invariant: what every variable may hold.
TypeOK ==
  /\ pc \in [Actor -> Pc]
  /\ req \in [Actor -> Request]
  /\ reply \in [Thread -> Reply]
  /\ unused \subseteq Sid /\ sessions \subseteq Used /\ temp \subseteq Used
  /\ todo \subseteq Used /\ lapsed \subseteq Sid /\ forgotten \subseteq Sid
  /\ names \subseteq Name
  /\ entry \in [Sid -> Entry]
  /\ receipts \in Seq(Sid)
  /\ payload \in [Sid -> [Chunk -> Data \cup {Hole}]]
  /\ disk \in [Name -> Sid \cup {Absent, Foreign}]
  /\ published \in [Sid -> Name \cup {NoName}]

\* While a body flows into a session's payload, the file is open, its directory
\* exists, and nobody is publishing or removing it: the session was found
\* before it was locked, and may have ended in between (WriteChunk).
NoWriteAfterClose ==
  \A s \in Sid : Streams(s) # {} =>
    /\ s \in sessions /\ ~entry[s].closed /\ s \in temp
    /\ \A a \in Owners(s) : pc[a] = "drain"

\* A chunk the server acknowledged holds one whole body (WriteChunk), so a
\* client may skip it when it resumes.
AcknowledgedWhole ==
  \A s \in Sid : \A c \in entry[s].received : payload[s][c] \in Data

\* A file that was published had every chunk acknowledged, and no request is
\* still writing to the inode readers now see (CompleteSession).
PublishedWhole ==
  \A s \in Sid : published[s] # NoName =>
    /\ entry[s].received = Chunks(s)
    /\ Streams(s) = {}

\* The reserved names are those of the active sessions, one each, so that no
\* session loses its reservation to another's late cleanup (remove).
NamesExact ==
  /\ names = {nameKey(entry[s].final) : s \in sessions}
  /\ \A s, r \in sessions :
       nameKey(entry[s].final) = nameKey(entry[r].final) => s = r

\* Whoever is told that the upload was saved is told the name it was linked
\* under, whichever request did it and however often others ask.
SavedTruthful ==
  \A t \in Thread : reply[t].kind = "saved" =>
    reply[t].name = published[req[t].sid] /\ reply[t].name # NoName

\* A cancelled upload never became a file, and never does (PublishOnce is
\* about what happens later): "cancelled" and "saved" exclude one another.
CancelHonest ==
  \A t \in Thread : reply[t].kind = "cancelled" =>
    entry[req[t].sid].closed /\ published[req[t].sid] = NoName

\* Status and complete answer 404 only for an upload that ended without a
\* file, or whose receipt was evicted, expired or lost in a restart: never
\* because completion removed the session between two lookups (LookupUpload).
NoFalseGone ==
  \A t \in Thread :
    reply[t].kind = "gone" /\ req[t].op \in {"status", "complete"} =>
      \/ req[t].sid \in forgotten
      \/ entry[req[t].sid].closed /\ published[req[t].sid] = NoName

\* What clients are told of the end of an upload is true, and stays true.
AnswersTrue == SavedTruthful /\ CancelHonest /\ NoFalseGone

\* A progress report names only chunks that are whole; a list of missing
\* chunks, though computed from an older snapshot, is not empty and leaves out
\* no chunk that is still missing (UploadComplete).
ProgressHonest ==
  \A t \in Thread : LET s == req[t].sid IN
    /\ reply[t].kind = "uploading" =>
         \A c \in reply[t].chunks : payload[s][c] \in Data
    /\ reply[t].kind = "missing" =>
         /\ reply[t].chunks # {}
         /\ Chunks(s) \ entry[s].received \subseteq reply[t].chunks

\* No session loses its temporary directory before it ends, to whichever of the
\* sweeper, a cancellation and a completion, and none outlives its session but one
\* whose removal failed.
TempAccounted ==
  LET standing == sessions \cup {req[a].sid : a \in {b \in Actor : pc[b] = "clean"}}
  IN  standing \subseteq temp /\ ("io" \notin Faults => temp = standing)

\* Whatever fails or crashes between two steps, the service's tables fit together: a
\* publication that fails after its name was exchanged leaves the new name reserved, and
\* only that, and the session with its directory (CompleteSession, remove).
RegistrySound == TypeOK /\ NamesExact /\ TempAccounted

\* What was acknowledged is never overwritten, whoever sends the chunk again
\* and however that request ends; nor is it unacknowledged.
AckStable ==
  [][\A s \in Sid : \A c \in entry[s].received \cap entry'[s].received :
       payload'[s][c] = payload[s][c]]_vars

\* Publication never replaces a file that is already there.
NoClobber ==
  [][\A n \in Name : disk'[n] \in Sid /\ disk'[n] # disk[n] => disk[n] = Absent]_vars

\* A session is published at most once: not a second time when its file was
\* deleted or renamed since, and not after it was cancelled or swept away.
PublishOnce ==
  [][\A s \in Sid : published'[s] # published[s] =>
       published[s] = NoName /\ ~entry[s].closed]_vars

\* Every request is answered: the lifecycle lock, the blocks of a session and
\* the sweeper never wait for one another in a circle.
Answered == \A t \in Thread : pc[t] # "idle" ~> pc[t] = "idle"

\* A session whose client went away and which no request uses is swept.
Abandoned(s) ==
  s \in sessions /\ entry[s].stale /\ \A t \in Thread : req[t].sid # s
AbandonedSwept == \A s \in Sid : ~<>[]Abandoned(s)
-----------------------------------------------------------------------------
(* Refinement.  An upload is saved from the moment its link exists, before    *)
(* any receipt is written; what readers of a saved file get is the payload.   *)
phaseBar == [s \in Sid |-> IF s \in unused THEN "unused"
                           ELSE IF published[s] # NoName THEN "saved"
                           ELSE IF entry[s].closed THEN "gone" ELSE "open"]
lengthBar == [s \in Sid |-> entry[s].total]
gotBar == [s \in Sid |-> [c \in Chunk |->
             IF published[s] # NoName \/ c \in entry[s].received
               THEN payload[s][c] ELSE Hole]]

Promise == INSTANCE UploadPromise
             WITH phase <- phaseBar, length <- lengthBar, got <- gotBar

\* The service keeps its promise: every step of every interleaving, restarts
\* included, opens, fills, saves or drops one upload, or changes nothing a
\* client could tell.
PromiseKept == Promise!Spec
=============================================================================
