---------------------------- MODULE UploadClient ----------------------------
(***************************************************************************)
(* The browser's side of an upload: the queue of hooks/useUploadQueue.ts,  *)
(* the transfer of one file in features/upload/engine.ts, the requests of  *)
(* services/upload.ts and the buttons of pages/Upload, over a network that *)
(* loses and delays requests.  The server is UploadPromise, which          *)
(* UploadSessions implements, with the receipts of saved uploads.          *)
(*                                                                         *)
(*   file worker   next -> init -> lanes -> finish -> complete -> next     *)
(*                 complete -> status -> delay -> complete                 *)
(*                 a failure anywhere -> clean -> next, or next            *)
(*   chunk worker  go -> sent -> go, sent -> delay -> go, any -> ended     *)
(*                                                                         *)
(* JavaScript runs from one await to the next without interruption, so an  *)
(* action is a continuation.  A request that is sent stays on the wire     *)
(* until the server takes it or it is lost, whatever its sender has done   *)
(* since: it may have been told of an error, or aborted the request.       *)
(* An answer that is lost on its way back is a request that is taken after *)
(* its sender gave up on it: neither can tell the difference.              *)
(***************************************************************************)
EXTENDS Integers

CONSTANTS
  Item,         \* the objects made for the files that are chosen
  NoItem,
  Slot,         \* file workers of a run, MAX_CONCURRENT_FILES of them
  Lane,         \* chunk workers of a file, MAX_CONCURRENT_UPLOADS of them
  Sid, NoSid,   \* upload sessions of the server
  Hole,         \* stands for a chunk that was not stored
  MaxChunks,    \* bound on the chunks of a file
  Retries,      \* of a chunk or completion, after which its error is final
  MaxCommands,  \* bound on what the user asks for
  Faults        \* a subset of {"transient", "fatal", "late", "config", "restart",
                \* "sweep", "lock"}

ASSUME ClientNames == NoItem \notin Item /\ NoSid \notin Sid /\ Hole \notin Item
ASSUME ClientBounds == MaxChunks \in Nat /\ Retries \in Nat /\ MaxCommands \in Nat
ASSUME ClientLanes == Lane # {}

VARIABLES
  queue,      \* itemsRef.current; no property depends on its order
  item,       \* the fields of each item
  run,        \* runRef.current: no run, one that goes on, or a cancelled one
  todo,       \* what the run has not begun
  job,        \* where each file worker stands, and its transfer
  lane,       \* where each chunk worker stands
  paused,     \* globalPausedRef.current
  canceling,
  mounted,
  reading,    \* a dropped folder is being read
  phase, length, got,  \* the server's sessions
  receipts,   \* saved uploads the server still has a receipt of
  owner,      \* history: the item a session was opened for
  wire,       \* requests sent that the server has not seen
  forsaken,   \* history: sessions given away, by a lost message or by a user who
              \* removes a file, or leaves, while its completion is underway
  left        \* commands the user may still give

vars == <<queue, item, run, todo, job, lane, paused, canceling, mounted, reading,
          phase, length, got, receipts, owner, wire, forsaken, left>>
-----------------------------------------------------------------------------
Promise == INSTANCE UploadPromise WITH Data <- Item

Chunk == 0 .. MaxChunks - 1
NoChunk == -1
State == {"new", "pending", "initializing", "uploading", "paused", "completing",
          "canceling", "success", "error"}
\* No controller, one in use, one aborted by a failure, one cancelled by the user.
Ctrl == {"none", "live", "failed", "cancelled"}
ItemRecord == [state : State, session : Sid \cup {NoSid}, pending : BOOLEAN, ctrl : Ctrl,
               confirmed : SUBSET Chunk, total : 0 .. MaxChunks]
JobPc == {"off", "next", "heldNext", "init", "lanes", "finish", "heldFinish", "complete",
          "status", "delay", "clean"}
JobRecord == [pc : JobPc, item : Item \cup {NoItem}, tries : 0 .. Retries,
              failed : BOOLEAN, next : 0 .. MaxChunks]
LaneRecord == [pc : {"go", "held", "sent", "delay", "ended"}, chunk : Chunk \cup {NoChunk},
               tries : 0 .. Retries]
Request == [kind : {"init", "late", "chunk", "complete", "cancel"}, item : Item,
            sid : Sid \cup {NoSid}, chunk : Chunk \cup {NoChunk}]

NewItem == [state |-> "new", session |-> NoSid, pending |-> FALSE, ctrl |-> "none",
            confirmed |-> {}, total |-> 0]
NoJob == [pc |-> "off", item |-> NoItem, tries |-> 0, failed |-> FALSE, next |-> 0]
NextJob == [NoJob EXCEPT !.pc = "next"]
EndedLane == [pc |-> "ended", chunk |-> NoChunk, tries |-> 0]
FreshLane == [pc |-> "go", chunk |-> NoChunk, tries |-> 0]

Init ==
  /\ queue = {} /\ item = [i \in Item |-> NewItem]
  /\ run = "none" /\ todo = {}
  /\ job = [w \in Slot |-> NoJob]
  /\ lane = [w \in Slot |-> [l \in Lane |-> EndedLane]]
  /\ paused = FALSE /\ canceling = FALSE /\ mounted = TRUE /\ reading = FALSE
  /\ Promise!Init /\ receipts = {} /\ owner = [s \in Sid |-> NoItem]
  /\ wire = {} /\ forsaken = {} /\ left = MaxCommands
-----------------------------------------------------------------------------
Server == <<phase, length, got, receipts, owner>>
Page == <<queue, run, todo, paused, canceling, mounted, reading, left>>

\* isStopped and checkActive.
Stopped(i) ==
  run = "cancelled" \/ item[i].ctrl = "cancelled" \/ ~mounted \/ i \notin queue
Active(i) == ~Stopped(i) /\ item[i].ctrl = "live"

InitOf(i) == [kind |-> "init", item |-> i, sid |-> NoSid, chunk |-> NoChunk]
LateInitOf(i) == [InitOf(i) EXCEPT !.kind = "late"]
ChunkOf(i, s, c) == [kind |-> "chunk", item |-> i, sid |-> s, chunk |-> c]
CompleteOf(i, s) == [kind |-> "complete", item |-> i, sid |-> s, chunk |-> NoChunk]
CancelOf(i, s) == [kind |-> "cancel", item |-> i, sid |-> s, chunk |-> NoChunk]

\* The session of an item that holds one is told to go; its answer is not awaited.
Cleanup(items) == {CancelOf(i, item[i].session) : i \in {j \in items : item[j].session # NoSid}}

\* stopItem for each of some items.
StoppedItem(x) == IF x.ctrl = "none" THEN x ELSE [x EXCEPT !.ctrl = "cancelled"]

\* wakeWorkers: whoever waits for a change looks again.
WokenJob(x) ==
  CASE x.pc = "heldNext" -> [x EXCEPT !.pc = "next"]
    [] x.pc = "heldFinish" -> [x EXCEPT !.pc = "finish"]
    [] OTHER -> x
WokenLane(x) == IF x.pc = "held" THEN [x EXCEPT !.pc = "go"] ELSE x
Wake ==
  /\ job' = [w \in Slot |-> WokenJob(job[w])]
  /\ lane' = [w \in Slot |-> [l \in Lane |-> WokenLane(lane[w][l])]]
-----------------------------------------------------------------------------
(* The user.  A command can be given while its button is there.            *)

Command == left > 0 /\ mounted /\ left' = left - 1

\* handleSelection: a file that is not in the queue.  Removing it and choosing it
\* again makes another object.
Choose(i) ==
  /\ item[i].state = "new"
  /\ queue' = queue \cup {i}
  /\ \E k \in 0 .. MaxChunks :
       item' = [item EXCEPT ![i].state = "pending", ![i].total = k]
HandleSelection(i) ==
  /\ Command /\ Choose(i)
  /\ UNCHANGED <<run, todo, job, lane, paused, canceling, mounted, reading, Server, wire, forsaken>>

\* handleDrop reads the folder first, and the page may be gone when it has.
DropBegins ==
  /\ Command /\ ~reading /\ reading' = TRUE
  /\ UNCHANGED <<queue, item, run, todo, job, lane, paused, canceling, mounted, Server, wire,
                 forsaken>>
DropRead ==
  /\ reading /\ reading' = FALSE
  /\ \/ mounted /\ \E i \in Item : Choose(i)
     \/ UNCHANGED <<queue, item>>
  /\ UNCHANGED <<run, todo, job, lane, paused, canceling, mounted, Server, wire, forsaken, left>>

\* startUploads, for all files or for one; its file workers begin at once.
Startable(i) == item[i].state \in {"pending", "error"}
StartUploads(files) ==
  /\ run = "none" /\ files # {}
  /\ run' = "on" /\ todo' = files /\ paused' = FALSE
  /\ job' = [w \in Slot |-> NextJob]
  /\ UNCHANGED <<queue, item, lane, canceling, mounted, reading, Server, wire, forsaken>>
StartAll == Command /\ ~reading /\ StartUploads({i \in queue : Startable(i)})
RetryItem(i) ==
  /\ Command /\ i \in queue /\ item[i].state = "error"
  /\ StartUploads({i})

PauseAll ==
  /\ Command /\ run # "none" /\ ~canceling /\ ~paused
  /\ paused' = TRUE
  /\ UNCHANGED <<queue, item, run, todo, job, lane, canceling, mounted, reading, Server, wire,
                 forsaken>>
ResumeAllSilent ==
  /\ Command /\ run # "none" /\ ~canceling /\ paused
  /\ paused' = FALSE /\ UNCHANGED <<job, lane>>
  /\ UNCHANGED <<queue, item, run, todo, canceling, mounted, reading, Server, wire, forsaken>>
ResumeAll ==
  /\ Command /\ run # "none" /\ ~canceling /\ paused
  /\ paused' = FALSE /\ Wake
  /\ UNCHANGED <<queue, item, run, todo, canceling, mounted, reading, Server, wire, forsaken>>

CancelAllSilent ==
  /\ Command /\ run # "none" /\ ~canceling
  /\ canceling' = TRUE /\ run' = "cancelled" /\ paused' = FALSE /\ UNCHANGED <<job, lane>>
  /\ item' = [i \in Item |->
       IF i \in queue /\ item[i].ctrl # "none"
       THEN [item[i] EXCEPT !.ctrl = "cancelled", !.state = "canceling"] ELSE item[i]]
  /\ UNCHANGED <<queue, todo, mounted, reading, Server, wire, forsaken>>
CancelAll ==
  /\ Command /\ run # "none" /\ ~canceling
  /\ canceling' = TRUE /\ run' = "cancelled" /\ paused' = FALSE /\ Wake
  /\ item' = [i \in Item |->
       IF i \in queue /\ item[i].ctrl # "none"
       THEN [item[i] EXCEPT !.ctrl = "cancelled", !.state = "canceling"] ELSE item[i]]
  /\ UNCHANGED <<queue, todo, mounted, reading, Server, wire, forsaken>>

ResetAll ==
  /\ Command /\ run = "none" /\ queue # {}
  /\ \A i \in queue : item[i].state = "success"
  /\ wire' = wire \cup Cleanup({i \in queue : item[i].pending})
  /\ queue' = {} /\ paused' = FALSE /\ Wake
  /\ UNCHANGED <<item, run, todo, canceling, mounted, reading, Server, forsaken>>

\* The sessions of those whose completion was asked for: cleanupSession is not called
\* for them, here or in the catch block.
Deserted(items) ==
  {item[i].session : i \in {j \in items : item[j].pending /\ item[j].session # NoSid}}

RemoveItem(i) ==
  /\ Command /\ i \in queue /\ item[i].state # "canceling"
  /\ item' = [item EXCEPT ![i] = StoppedItem(@)]
  /\ queue' = queue \ {i}
  /\ wire' = wire \cup Cleanup({j \in {i} : item[j].pending /\ item[j].ctrl = "none"})
  /\ forsaken' = forsaken \cup Deserted({j \in {i} : item[j].ctrl # "none"})
  /\ UNCHANGED <<run, todo, job, lane, paused, canceling, mounted, reading, Server>>

\* The access gate locks the page and its children unmount: the queue is gone.
Leave ==
  /\ "lock" \in Faults /\ mounted
  /\ mounted' = FALSE
  /\ run' = IF run = "none" THEN run ELSE "cancelled"
  /\ item' = [i \in Item |-> IF i \in queue THEN StoppedItem(item[i]) ELSE item[i]]
  /\ Wake
  /\ forsaken' = forsaken \cup Deserted(queue)
  /\ UNCHANGED <<queue, todo, paused, canceling, reading, Server, wire, left>>
-----------------------------------------------------------------------------
(* A file worker of startUploads takes the next file.                      *)

At(w, pc) == job[w].pc = pc
Goto(w, pc) == job' = [job EXCEPT ![w].pc = pc]
Goes == run = "on" /\ mounted /\ todo # {}

WorkerEnds(w) ==
  /\ At(w, "next") /\ ~Goes
  /\ Goto(w, "off")
  /\ UNCHANGED <<Page, item, lane, Server, wire, forsaken>>
WorkerHolds(w) ==
  /\ At(w, "next") /\ Goes /\ paused
  /\ Goto(w, "heldNext")
  /\ UNCHANGED <<Page, item, lane, Server, wire, forsaken>>
WorkerSkips(w) ==
  /\ At(w, "next") /\ Goes /\ ~paused
  /\ \E i \in todo \ queue : todo' = todo \ {i}
  /\ UNCHANGED <<queue, item, run, job, lane, paused, canceling, mounted, reading, Server, wire,
                 forsaken, left>>

\* uploadFileChunked and transferFile up to their first request.  A completion that
\* was asked for is confirmed; anything else begins anew.
Confirming(x) == x.pending /\ x.session # NoSid
BeginForgets(w, i) ==
  /\ item' = [item EXCEPT ![i] = [@ EXCEPT !.ctrl = "live", !.state = "initializing",
                                           !.session = NoSid, !.confirmed = {}]]
  /\ job' = [job EXCEPT ![w] = [NoJob EXCEPT !.pc = "init", !.item = i]]
  /\ wire' = wire \cup {InitOf(i)}
BeginConfirms(w, i) ==
  /\ item' = [item EXCEPT ![i].ctrl = "live", ![i].state = "completing"]
  /\ job' = [job EXCEPT ![w] = [NoJob EXCEPT !.pc = "complete", !.item = i]]
  /\ wire' = wire \cup {CompleteOf(i, item[i].session)}
WorkerBegins(w) ==
  /\ At(w, "next") /\ Goes /\ ~paused
  /\ \E i \in todo \cap queue :
       /\ todo' = todo \ {i}
       /\ \/ Confirming(item[i]) /\ BeginConfirms(w, i)
          \/ ~Confirming(item[i]) /\ BeginForgets(w, i)
  /\ UNCHANGED <<queue, run, lane, paused, canceling, mounted, reading, Server, forsaken, left>>

RunEnds ==
  /\ run # "none" /\ \A w \in Slot : At(w, "off")
  /\ run' = "none" /\ todo' = {}
  /\ canceling' = IF mounted THEN FALSE ELSE canceling
  /\ UNCHANGED <<queue, item, job, lane, paused, mounted, reading, Server, wire, forsaken, left>>
-----------------------------------------------------------------------------
(* A transfer ends.                                                        *)

Success(w) ==
  /\ item' = [item EXCEPT ![job[w].item] =
                [@ EXCEPT !.state = "success", !.pending = FALSE, !.ctrl = "none"]]
  /\ job' = [job EXCEPT ![w] = NextJob]

\* The end of the catch block: the session is forgotten, unless it may be saved.
EndedItemForgets(i, x) ==
  [x EXCEPT !.session = NoSid, !.pending = FALSE,
            !.state = IF Stopped(i) THEN "pending" ELSE "error", !.ctrl = "none"]
EndedItemStale(i, x) ==
  [x EXCEPT !.session = IF x.pending THEN @ ELSE NoSid,
            !.state = IF Stopped(i) THEN @ ELSE "error", !.ctrl = "none"]
EndedItem(i, x) ==
  [x EXCEPT !.session = IF x.pending THEN @ ELSE NoSid,
            !.state = IF Stopped(i) THEN "pending" ELSE "error", !.ctrl = "none"]
Close(w, x) ==
  /\ item' = [item EXCEPT ![job[w].item] = EndedItem(job[w].item, x)]
  /\ job' = [job EXCEPT ![w] = NextJob]

\* The catch block of uploadFileChunked, for the item as the error left it, and the
\* requests that are then on the wire.
Fails(w, x, sent) ==
  IF x.pending \/ x.session = NoSid
  THEN Close(w, x) /\ wire' = sent
  ELSE /\ item' = [item EXCEPT ![job[w].item] = x]
       /\ Goto(w, "clean")
       /\ wire' = sent \cup {CancelOf(job[w].item, x.session)}
Throw(w) == Fails(w, item[job[w].item], wire)

\* cleanupSession has its answer, or gave up on it.
CleanFails(w) ==
  /\ At(w, "clean")
  /\ LET r == CancelOf(job[w].item, item[job[w].item].session) IN
       \/ "late" \in Faults /\ UNCHANGED <<wire, forsaken>>
       \/ wire' = wire \ {r} /\ forsaken' = forsaken \cup {r.sid}
  /\ Close(w, item[job[w].item])
  /\ UNCHANGED <<Page, lane, Server>>
-----------------------------------------------------------------------------
(* The initialization.                                                     *)

\* The answer is kept before anything else is looked at: a cancelled session can
\* then be cleaned up.
OpenedLost(w, s, valid) ==
  LET i == job[w].item  x == [item[i] EXCEPT !.session = s] IN
  IF Active(i) /\ valid
  THEN /\ item' = [item EXCEPT ![i] = x] /\ Goto(w, "lanes")
       /\ lane' = [lane EXCEPT ![w] = [l \in Lane |-> FreshLane]]
       /\ wire' = wire \ {InitOf(i)}
  ELSE Fails(w, IF Active(i) THEN x ELSE item[i], wire \ {InitOf(i)}) /\ UNCHANGED lane
Opened(w, s, valid) ==
  LET i == job[w].item  x == [item[i] EXCEPT !.session = s] IN
  IF Active(i) /\ valid
  THEN /\ item' = [item EXCEPT ![i] = x] /\ Goto(w, "lanes")
       /\ lane' = [lane EXCEPT ![w] = [l \in Lane |-> FreshLane]]
       /\ wire' = wire \ {InitOf(i)}
  ELSE Fails(w, x, wire \ {InitOf(i)}) /\ UNCHANGED lane

\* The server opens a session.
OpenFor(i, s) ==
  /\ length' = [length EXCEPT ![s] = item[i].total] /\ Promise!Open(s)
  /\ owner' = [owner EXCEPT ![s] = i]
  /\ UNCHANGED <<Page, receipts>>
InitServed(w, s) ==
  /\ At(w, "init") /\ OpenFor(job[w].item, s)
  /\ \E valid \in {TRUE} \cup (IF "config" \in Faults THEN {FALSE} ELSE {}) : Opened(w, s, valid)
  /\ UNCHANGED forsaken
LateInitServed(i, s) ==
  /\ LateInitOf(i) \in wire /\ wire' = wire \ {LateInitOf(i)}
  /\ OpenFor(i, s) /\ forsaken' = forsaken \cup {s}
  /\ UNCHANGED <<item, job, lane>>

\* It is refused, or times out after 30 seconds and may still arrive; no retry.
InitFails(w) ==
  /\ At(w, "init")
  /\ LET i == job[w].item  rest == wire \ {InitOf(i)} IN
       \/ Fails(w, item[i], rest)
       \/ "late" \in Faults /\ Fails(w, item[i], rest \cup {LateInitOf(i)})
  /\ UNCHANGED <<Page, lane, Server, forsaken>>
-----------------------------------------------------------------------------
(* A chunk worker.                                                         *)

InLane(w, l, pc) == At(w, "lanes") /\ lane[w][l].pc = pc
LaneGoto(w, l, pc) == lane' = [lane EXCEPT ![w][l].pc = pc]
ExhaustedEarly(w) == job[w].next + 1 >= length[item[job[w].item].session]
Exhausted(w) == job[w].next >= length[item[job[w].item].session]
Claims(w, l) == lane[w][l].chunk = NoChunk

\* The loop ends when all chunks are claimed.
LaneEnds(w, l) ==
  /\ InLane(w, l, "go") /\ Claims(w, l) /\ Exhausted(w)
  /\ LaneGoto(w, l, "ended")
  /\ UNCHANGED <<Page, item, job, Server, wire, forsaken>>

\* The first failure aborts the requests of the others.
LaneThrows(w, l) ==
  /\ lane' = [lane EXCEPT ![w][l] = EndedLane]
  /\ job' = [job EXCEPT ![w].failed = TRUE]
  /\ item' = [item EXCEPT ![job[w].item].ctrl = IF @ = "live" THEN "failed" ELSE @]

\* An aborted request, wait or pause throws; so does checkActive.
LaneStops(w, l) ==
  /\ lane[w][l].pc # "ended" /\ At(w, "lanes") /\ ~Active(job[w].item)
  /\ ~(lane[w][l].pc = "go" /\ Claims(w, l) /\ Exhausted(w))
  /\ LaneThrows(w, l)
  /\ UNCHANGED <<Page, Server, wire, forsaken>>

\* waitForResume, before a chunk is claimed and before it is sent again.
LaneHolds(w, l) ==
  /\ InLane(w, l, "go") /\ (Claims(w, l) => ~Exhausted(w)) /\ Active(job[w].item) /\ paused
  /\ LaneGoto(w, l, "held")
  /\ item' = [item EXCEPT ![job[w].item].state = "paused"]
  /\ UNCHANGED <<Page, job, Server, wire, forsaken>>

SendChunk(w, l, c) ==
  LET i == job[w].item IN
  /\ lane' = [lane EXCEPT ![w][l] = [@ EXCEPT !.pc = "sent", !.chunk = c]]
  /\ item' = [item EXCEPT ![i].state = "uploading"]
  /\ wire' = wire \cup {ChunkOf(i, item[i].session, c)}
LaneClaims(w, l) ==
  /\ InLane(w, l, "go") /\ Claims(w, l) /\ ~Exhausted(w) /\ Active(job[w].item) /\ ~paused
  /\ SendChunk(w, l, job[w].next)
  /\ job' = [job EXCEPT ![w].next = @ + 1]
  /\ UNCHANGED <<Page, Server, forsaken>>
LaneResendsAnyway(w, l) ==
  /\ InLane(w, l, "go") /\ ~Claims(w, l) /\ ~paused
  /\ SendChunk(w, l, lane[w][l].chunk)
  /\ UNCHANGED <<Page, job, Server, forsaken>>
LaneResends(w, l) ==
  /\ InLane(w, l, "go") /\ ~Claims(w, l) /\ Active(job[w].item) /\ ~paused
  /\ SendChunk(w, l, lane[w][l].chunk)
  /\ UNCHANGED <<Page, job, Server, forsaken>>

\* uploadRetryDelay: a transient error is tried again, up to a bound.
MayRetry(tries) == tries < Retries
LaneWaits(w, l) ==
  /\ lane' = [lane EXCEPT ![w][l].pc = "delay", ![w][l].tries = @ + 1]
  /\ UNCHANGED <<item, job>>
LaneWaitEnds(w, l) ==
  /\ InLane(w, l, "delay") /\ Active(job[w].item)
  /\ LaneGoto(w, l, "go")
  /\ UNCHANGED <<Page, item, job, Server, wire, forsaken>>
ChunkFails(w, l) ==
  /\ InLane(w, l, "sent") /\ Active(job[w].item)
  /\ LET r == ChunkOf(job[w].item, item[job[w].item].session, lane[w][l].chunk) IN
       \/ /\ "transient" \in Faults /\ MayRetry(lane[w][l].tries) /\ LaneWaits(w, l)
          /\ \/ wire' = wire \ {r}
             \/ "late" \in Faults /\ UNCHANGED wire
       \/ /\ "fatal" \in Faults /\ LaneThrows(w, l) /\ wire' = wire \ {r}
       \/ /\ "transient" \in Faults /\ ~MayRetry(lane[w][l].tries) /\ LaneThrows(w, l)
          /\ \/ wire' = wire \ {r}
             \/ "late" \in Faults /\ UNCHANGED wire
  /\ UNCHANGED <<Page, Server, forsaken>>

\* The chunk is stored, and its worker told; a session that is not open refuses it.
Awaits(w, l, r) ==
  /\ InLane(w, l, "sent") /\ lane[w][l].chunk = r.chunk /\ Active(job[w].item)
  /\ job[w].item = r.item /\ item[r.item].session = r.sid
Confirm(w, l, c) ==
  /\ item' = [item EXCEPT ![job[w].item].confirmed = @ \cup {c}]
  /\ lane' = [lane EXCEPT ![w][l] = FreshLane]
  /\ UNCHANGED job
ChunkServed(r) ==
  /\ r \in wire /\ r.kind = "chunk" /\ wire' = wire \ {r}
  /\ \/ /\ phase[r.sid] = "open" /\ got[r.sid][r.chunk] = Hole
        /\ got' = [got EXCEPT ![r.sid][r.chunk] = r.item] /\ Promise!Accept(r.sid)
     \/ /\ phase[r.sid] # "open" \/ got[r.sid][r.chunk] # Hole
        /\ UNCHANGED <<phase, length, got>>
  /\ \/ \E w \in Slot, l \in Lane :
          /\ Awaits(w, l, r)
          /\ \/ phase[r.sid] = "open" /\ Confirm(w, l, r.chunk)
             \/ phase[r.sid] # "open" /\ LaneThrows(w, l)
     \/ /\ ~\E w \in Slot, l \in Lane : Awaits(w, l, r)
        /\ UNCHANGED <<item, job, lane>>
  /\ UNCHANGED <<Page, receipts, owner, forsaken>>

\* Promise.allSettled: the transfer goes on when every chunk worker has ended.
Settled(w) ==
  /\ At(w, "lanes") /\ \A l \in Lane : lane[w][l].pc = "ended"
  /\ \/ job[w].failed /\ Throw(w)
     \/ ~job[w].failed /\ Goto(w, "finish") /\ UNCHANGED <<item, wire>>
  /\ UNCHANGED <<Page, lane, Server, forsaken>>
-----------------------------------------------------------------------------
(* The completion.                                                         *)

Finish(w) ==
  LET i == job[w].item IN
  /\ At(w, "finish")
  /\ \/ ~Active(i) /\ Throw(w)
     \/ /\ Active(i) /\ paused
        /\ item' = [item EXCEPT ![i].state = "paused"]
        /\ Goto(w, "heldFinish") /\ UNCHANGED wire
     \/ /\ Active(i) /\ ~paused
        /\ item' = [item EXCEPT ![i].state = "completing", ![i].pending = TRUE]
        /\ job' = [job EXCEPT ![w].pc = "complete", ![w].tries = 0]
        /\ wire' = wire \cup {CompleteOf(i, item[i].session)}
  /\ UNCHANGED <<Page, lane, Server, forsaken>>

\* Cancelled while it waits for an answer, a retry or the end of a pause.
Aborted(w) ==
  /\ job[w].pc \in {"complete", "status", "delay", "heldFinish"}
  /\ item[job[w].item].ctrl # "live"
  /\ Throw(w)
  /\ UNCHANGED <<Page, lane, Server, forsaken>>

\* The server saves the upload once; afterwards it answers from the receipt.
Known(s) == phase[s] = "saved" /\ s \in receipts
CompleteServed(r) ==
  /\ r \in wire /\ r.kind = "complete"
  /\ LET s == r.sid
         whole == phase[s] = "open" /\ \A c \in 0 .. length[s] - 1 : got[s][c] # Hole
         waiting == {w \in Slot : job[w].item = r.item /\ At(w, "complete")
                                    /\ item[r.item].ctrl = "live"}
     IN
     /\ \/ /\ whole /\ Promise!Save(s) /\ receipts' = receipts \cup {s}
        \/ ~whole /\ UNCHANGED <<phase, length, got, receipts>>
     /\ \/ /\ waiting = {} /\ wire' = wire \ {r} /\ UNCHANGED <<item, job>>
        \/ \E w \in waiting :
             \/ (whole \/ Known(s)) /\ Success(w) /\ wire' = wire \ {r}
             \/ ~(whole \/ Known(s)) /\ Fails(w, item[r.item], wire \ {r})
  /\ UNCHANGED <<Page, lane, owner, forsaken>>

\* An error: transient ones ask for the status, the others end the transfer.
CompleteFails(w) ==
  LET i == job[w].item  r == CompleteOf(i, item[i].session) IN
  /\ At(w, "complete") /\ item[i].ctrl = "live"
  /\ \/ /\ "transient" \in Faults /\ Goto(w, "status") /\ UNCHANGED item
        /\ \/ wire' = wire \ {r}
           \/ "late" \in Faults /\ UNCHANGED wire
     \/ "fatal" \in Faults /\ Fails(w, item[i], wire \ {r})
  /\ UNCHANGED <<Page, lane, Server, forsaken>>

\* The status says success, or anything else, or nothing.
StatusSaved(s) == Known(s)
StatusAnswered(w) ==
  LET i == job[w].item IN
  /\ At(w, "status") /\ item[i].ctrl = "live"
  /\ \/ StatusSaved(item[i].session) /\ Success(w) /\ UNCHANGED wire
     \/ /\ MayRetry(job[w].tries)
        /\ job' = [job EXCEPT ![w].pc = "delay", ![w].tries = @ + 1]
        /\ UNCHANGED <<item, wire>>
     \/ ~MayRetry(job[w].tries) /\ Throw(w)
  /\ UNCHANGED <<Page, lane, Server, forsaken>>
CompleteAgain(w) ==
  LET i == job[w].item IN
  /\ At(w, "delay") /\ item[i].ctrl = "live"
  /\ Goto(w, "complete") /\ wire' = wire \cup {CompleteOf(i, item[i].session)}
  /\ UNCHANGED <<Page, item, lane, Server, forsaken>>
-----------------------------------------------------------------------------
(* The server and the network.                                             *)

CancelServed(r) ==
  /\ r \in wire /\ r.kind = "cancel" /\ wire' = wire \ {r}
  /\ \/ phase[r.sid] = "open" /\ Promise!Drop(r.sid)
     \/ phase[r.sid] # "open" /\ UNCHANGED <<phase, length, got>>
  /\ \/ \E w \in Slot :
          job[w].item = r.item /\ At(w, "clean") /\ Close(w, item[r.item])
     \/ /\ ~\E w \in Slot : job[w].item = r.item /\ At(w, "clean")
        /\ UNCHANGED <<item, job>>
  /\ UNCHANGED <<Page, lane, receipts, owner, forsaken>>

\* A request nobody waits for is lost.
RequestLost(r) ==
  /\ "late" \in Faults /\ r \in wire
  /\ ~\E w \in Slot : job[w].item = r.item
  /\ wire' = wire \ {r}
  /\ forsaken' = IF r.kind = "cancel" THEN forsaken \cup {r.sid} ELSE forsaken
  /\ UNCHANGED <<Page, item, job, lane, Server>>

\* A restart forgets the sessions and the receipts, the sweep one that was idle.
Restart ==
  /\ "restart" \in Faults /\ (receipts # {} \/ \E s \in Sid : phase[s] = "open")
  /\ Promise!Restart /\ receipts' = {}
  /\ UNCHANGED <<Page, item, job, lane, owner, wire, forsaken>>
Sweep(s) ==
  /\ "sweep" \in Faults /\ Promise!Drop(s)
  /\ UNCHANGED <<Page, item, job, lane, receipts, owner, wire, forsaken>>
-----------------------------------------------------------------------------
User ==
  \/ \E i \in Item : HandleSelection(i) \/ RetryItem(i) \/ RemoveItem(i)
  \/ DropBegins \/ StartAll \/ PauseAll \/ ResumeAll \/ CancelAll \/ ResetAll \/ Leave
LaneStep(w, l) ==
  \/ LaneEnds(w, l) \/ LaneStops(w, l) \/ LaneHolds(w, l) \/ LaneClaims(w, l)
  \/ LaneResends(w, l) \/ LaneWaitEnds(w, l)
JobStep(w) ==
  \/ WorkerEnds(w) \/ WorkerHolds(w) \/ WorkerSkips(w) \/ WorkerBegins(w)
  \/ Settled(w) \/ Finish(w) \/ Aborted(w) \/ StatusAnswered(w) \/ CompleteAgain(w)
NetworkFails == \E w \in Slot :
  CleanFails(w) \/ InitFails(w) \/ CompleteFails(w) \/ \E l \in Lane : ChunkFails(w, l)
ServerStep ==
  \/ \E s \in Sid : (\E w \in Slot : InitServed(w, s)) \/ (\E i \in Item : LateInitServed(i, s))
  \/ \E r \in wire : ChunkServed(r) \/ CompleteServed(r) \/ CancelServed(r) \/ RequestLost(r)
  \/ Restart \/ \E s \in Sid : Sweep(s)

Next ==
  \/ User \/ DropRead \/ RunEnds \/ NetworkFails \/ ServerStep
  \/ \E w \in Slot : JobStep(w) \/ \E l \in Lane : LaneStep(w, l)

Spec == Init /\ [][Next]_vars

\* The event loop runs every continuation.  An initialization, a cancellation and a
\* status query time out after 30 seconds; chunks and completions never do.
Fairness ==
  /\ WF_vars(RunEnds)
  /\ \A w \in Slot :
       /\ WF_vars(JobStep(w)) /\ WF_vars(InitFails(w)) /\ WF_vars(CleanFails(w))
       /\ \A l \in Lane : WF_vars(LaneStep(w, l))
FairSpec == Spec /\ Fairness
-----------------------------------------------------------------------------
TypeOK ==
  /\ queue \subseteq Item /\ item \in [Item -> ItemRecord]
  /\ run \in {"none", "on", "cancelled"} /\ todo \subseteq Item
  /\ job \in [Slot -> JobRecord] /\ lane \in [Slot -> [Lane -> LaneRecord]]
  /\ {paused, canceling, mounted, reading} \subseteq BOOLEAN
  /\ phase \in [Sid -> {"unused", "open", "saved", "gone"}]
  /\ length \in [Sid -> 0 .. MaxChunks] /\ got \in [Sid -> [Chunk -> Item \cup {Hole}]]
  /\ receipts \subseteq Sid /\ owner \in [Sid -> Item \cup {NoItem}]
  /\ wire \subseteq Request /\ forsaken \subseteq Sid /\ left \in Nat

\* A file the page shows as uploaded is saved, whole, with that file's bytes and no
\* other's, whichever answers were lost or late (useUploadQueue.ts:184, engine.ts:58).
SuccessTrue == \A i \in Item : item[i].state = "success" =>
  LET s == item[i].session IN
  s # NoSid /\ phase[s] = "saved" /\ \A c \in 0 .. length[s] - 1 : got[s][c] = i

\* Retrying after a completion whose answer was lost never publishes the file a second
\* time (engine.ts:64, useUploadQueue.ts:200, upload.ts:120).
OnePublication == \A s, t \in Sid :
  phase[s] = "saved" /\ phase[t] = "saved" /\ owner[s] = owner[t] => s = t

\* A completion is asked for only after the server has confirmed every chunk of that
\* session (engine.ts:182).
CompletionWhole == \A r \in wire : r.kind = "complete" =>
  \A c \in 0 .. length[r.sid] - 1 : got[r.sid][c] = r.item

\* The progress shown counts only chunks the server stored (engine.ts:169).
ConfirmedStored == \A i \in Item : item[i].session # NoSid =>
  \A c \in item[i].confirmed : got[item[i].session][c] = i

\* What the page shows and asks for agrees with what the server holds.
ServerAgrees == TypeOK /\ SuccessTrue /\ CompletionWhole /\ ConfirmedStored

\* A session that is open is in use by its file, or its file is in the queue of an open
\* page and its completion may be confirmed by a retry, or it is being cancelled: a late
\* initialization of a cancelled file leaves none behind (engine.ts:79,
\* useUploadQueue.ts:201).  The exceptions are the sessions in forsaken, which only the
\* server's sweep ends.  A message was lost: that of a cancellation, or an answer to an
\* initialization that came after its deadline.  Or the file was removed, or the page
\* left, after the completion was asked for and before it was answered: removeItem cleans
\* up only a file without a controller (useUploadQueue.ts:331), the catch block only one
\* whose completion was not asked for (:196), and no retry is possible any more.
NoForgottenSession == \A s \in Sid : phase[s] = "open" =>
  \/ s \in forsaken \/ CancelOf(owner[s], s) \in wire
  \/ /\ item[owner[s]].session = s
     /\ \/ item[owner[s]].ctrl # "none"
        \/ item[owner[s]].pending /\ owner[s] \in queue /\ mounted

\* When a run has ended every file can be started again or is done
\* (useUploadQueue.ts:206, 221).
NothingStuck == run = "none" => \A i \in queue :
  item[i].ctrl = "none" /\ item[i].state \in {"pending", "error", "success"}

\* Nobody waits for a pause to end that has ended (useUploadQueue.ts:26, 30).
NoLostWakeup == ~paused =>
  \A w \in Slot :
    /\ job[w].pc \notin {"heldNext", "heldFinish"}
    /\ At(w, "lanes") => \A l \in Lane : lane[w][l].pc # "held"

\* Nothing more of a file is asked for once the run is cancelled, the file removed or
\* the page left (engine.ts:34, 47).
QuietAfterStop == \A r \in wire' \ wire :
  r.kind \in {"init", "chunk", "complete"} => ~Stopped(r.item)

\* While paused no file, chunk or completion is begun; only a completion that was asked
\* for is repeated (useUploadQueue.ts:252, engine.ts:40).
PauseHolds == \A r \in wire' \ wire :
  paused /\ r.kind \in {"init", "chunk", "complete"} =>
    r.kind = "complete" /\ item[r.item].pending

\* Stop and Pause hold from the click on, whatever was underway.
Obeyed == [][QuietAfterStop /\ PauseHolds]_vars
=============================================================================
