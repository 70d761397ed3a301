----------------------------- MODULE ClientProofs -----------------------------
(***************************************************************************)
(* Proofs about UploadClient, for any number of files, workers, sessions,  *)
(* chunks and faults: what the page shows is what the server holds, no     *)
(* file is saved twice, no session is forgotten, no worker is left waiting *)
(* and none goes on after it was stopped.                                  *)
(***************************************************************************)
EXTENDS UploadClient, TLAPS

-----------------------------------------------------------------------------
(* The inductive invariant.                                                *)

Idle == {"off", "next", "heldNext"}
Finishing == {"finish", "heldFinish"}
Asked == {"complete", "status", "delay"}
Sure(x) == x.pending \/ x.state = "success"

\* A file is in the hands of one worker at most, and has a controller as long as it is.
Held ==
  /\ \A w \in Slot : job[w].item = NoItem <=> job[w].pc \in Idle
  /\ \A v, w \in Slot : v # w /\ job[v].item = job[w].item => job[w].item = NoItem
  /\ \A w \in Slot : job[w].item # NoItem => item[job[w].item].ctrl # "none"
  /\ \A i \in Item : item[i].ctrl # "none" => \E w \in Slot : job[w].item = i
  /\ run = "none" => \A w \in Slot : job[w].pc = "off"

\* What may still be begun, and what may still send: Stop reaches every controller.
Waits == \A i \in todo : item[i].ctrl = "none" /\ item[i].state \in {"pending", "error"}
Live == \A i \in Item : item[i].ctrl = "live" => run = "on" /\ mounted /\ i \in queue

\* What the page shows of a file nobody works on.
Shown == \A i \in Item :
  /\ i \in queue /\ item[i].ctrl = "none" => item[i].state \in {"pending", "error", "success"}
  /\ item[i].state = "success" => item[i].ctrl = "none"

\* Who a session belongs to, and whose bytes it holds.
Whole(s, i) == \A c \in 0 .. length[s] - 1 : got[s][c] = i
Sessions == \A s \in Sid :
  /\ phase[s] = "unused" <=> owner[s] = NoItem
  /\ \A c \in Chunk : got[s][c] \in {Hole, owner[s]}
  /\ phase[s] = "saved" => Whole(s, owner[s])

\* What an item says of its session.
ItemTrue(i, x) ==
  /\ x.session # NoSid => owner[x.session] = i /\ \A c \in x.confirmed : got[x.session][c] = i
  /\ x.pending => x.session # NoSid /\ Whole(x.session, i)
  /\ x.state = "success" => x.session # NoSid /\ phase[x.session] = "saved"
ItemsTrue == \A i \in Item : ItemTrue(i, item[i])

\* What is on the wire: of the sender's own session, and a completion only of one that is whole.
WireTrue == \A r \in wire : r.kind \in {"chunk", "complete", "cancel"} =>
  /\ r.sid \in Sid /\ owner[r.sid] = r.item
  /\ r.kind = "chunk" => r.chunk \in 0 .. length[r.sid] - 1
  /\ r.kind = "complete" => item[r.item].session = r.sid /\ Sure(item[r.item])

\* A saved session is the one its item names, for good.
SavedNamed == \A s \in Sid : phase[s] = "saved" =>
  item[owner[s]].session = s /\ Sure(item[owner[s]])

\* The chunks of a transfer are confirmed, or in the hands of a chunk worker, or to be claimed.
Lanes(w) == LET n == length[item[job[w].item].session] IN
  /\ job[w].next <= n
  /\ \A l \in Lane :
       /\ lane[w][l].chunk = NoChunk \/ lane[w][l].chunk < job[w].next
       /\ lane[w][l].pc \in {"sent", "delay"} => lane[w][l].chunk # NoChunk
       /\ lane[w][l].pc = "ended" => lane[w][l].chunk = NoChunk /\ (job[w].failed \/ job[w].next = n)
  /\ ~job[w].failed => \A c \in 0 .. job[w].next - 1 :
       c \in item[job[w].item].confirmed \/ \E l \in Lane : lane[w][l].chunk = c

\* How far a transfer is.
Progress(w) == LET i == job[w].item  x == item[i] IN
  /\ job[w].pc = "init" => x.session = NoSid /\ ~x.pending /\ x.confirmed = {} /\ job[w].next = 0
  /\ job[w].pc \in Finishing \cup {"lanes", "clean"} => x.session # NoSid /\ ~x.pending
  /\ job[w].pc = "lanes" => Lanes(w)
  /\ job[w].pc \in Finishing => 0 .. length[x.session] - 1 \subseteq x.confirmed
  /\ job[w].pc \in Asked => x.pending
  /\ job[w].pc = "clean" => CancelOf(i, x.session) \in wire

\* An open session is held by its item, or cancelled, or forsaken.
Remembered == \A s \in Sid : phase[s] = "open" =>
  \/ s \in forsaken \/ CancelOf(owner[s], s) \in wire
  \/ item[owner[s]].session = s /\ (item[owner[s]].ctrl # "none" \/ item[owner[s]].pending)

Coherent ==
  /\ TypeOK /\ Held /\ Waits /\ Live /\ Shown /\ Sessions /\ ItemsTrue /\ WireTrue /\ SavedNamed
  /\ Remembered /\ NoLostWakeup
  /\ \A w \in Slot : Progress(w)
-----------------------------------------------------------------------------
(* Types.                                                                  *)

\* The records as they are updated.
LEMMA ItemTyped ==
  ASSUME NEW x \in ItemRecord
  PROVE  /\ x.state \in State /\ x.session \in Sid \cup {NoSid} /\ x.pending \in BOOLEAN
         /\ x.ctrl \in Ctrl /\ x.confirmed \subseteq Chunk /\ x.total \in 0 .. MaxChunks
         /\ \A v \in State : [x EXCEPT !.state = v] \in ItemRecord
         /\ \A v \in Sid \cup {NoSid} : [x EXCEPT !.session = v] \in ItemRecord
         /\ \A v \in BOOLEAN : [x EXCEPT !.pending = v] \in ItemRecord
         /\ \A v \in Ctrl : [x EXCEPT !.ctrl = v] \in ItemRecord
         /\ \A v \in SUBSET Chunk : [x EXCEPT !.confirmed = v] \in ItemRecord
         /\ \A v \in 0 .. MaxChunks : [x EXCEPT !.total = v] \in ItemRecord
  BY DEF ItemRecord

\* A job keeps its type whichever of its fields is changed.
LEMMA JobTyped ==
  /\ NoJob \in JobRecord /\ NextJob \in JobRecord
  /\ \A x \in JobRecord :
       /\ x.pc \in JobPc /\ x.item \in Item \cup {NoItem} /\ x.tries \in 0 .. Retries
       /\ x.failed \in BOOLEAN /\ x.next \in 0 .. MaxChunks
       /\ \A v \in JobPc : [x EXCEPT !.pc = v] \in JobRecord
       /\ \A v \in Item : [x EXCEPT !.item = v] \in JobRecord
       /\ \A v \in 0 .. Retries : [x EXCEPT !.tries = v] \in JobRecord
       /\ \A v \in BOOLEAN : [x EXCEPT !.failed = v] \in JobRecord
       /\ \A v \in 0 .. MaxChunks : [x EXCEPT !.next = v] \in JobRecord
<1>1. 0 \in 0 .. Retries /\ 0 \in 0 .. MaxChunks
  BY ClientBounds
<1> QED
  BY ZenonT(40), <1>1 DEF JobRecord, NoJob, NextJob, JobPc

\* So does what one chunk worker has in hand.
LEMMA LaneTyped ==
  /\ EndedLane \in LaneRecord /\ FreshLane \in LaneRecord
  /\ \A x \in LaneRecord :
       /\ x.chunk \in Chunk \cup {NoChunk} /\ x.tries \in 0 .. Retries
       /\ x.pc \in {"go", "held", "sent", "delay", "ended"}
       /\ \A v \in {"go", "held", "sent", "delay", "ended"} : [x EXCEPT !.pc = v] \in LaneRecord
       /\ \A v \in Chunk : [x EXCEPT !.chunk = v] \in LaneRecord
       /\ \A v \in 0 .. Retries : [x EXCEPT !.tries = v] \in LaneRecord
<1>1. 0 \in 0 .. Retries
  BY ClientBounds
<1> QED
  BY <1>1 DEF LaneRecord, EndedLane, FreshLane
-----------------------------------------------------------------------------
(* What a step may change, whoever takes it.                               *)

ServerTyped ==
  /\ phase \in [Sid -> {"unused", "open", "saved", "gone"}]
  /\ length \in [Sid -> 0 .. MaxChunks] /\ got \in [Sid -> [Chunk -> Item \cup {Hole}]]
  /\ receipts \subseteq Sid /\ owner \in [Sid -> Item \cup {NoItem}]

\* The server forgets nothing that was stored or saved.
Grows == \A s \in Sid :
  /\ owner[s] # NoItem => owner'[s] = owner[s] /\ length'[s] = length[s]
  /\ \A c \in Chunk : got[s][c] # Hole => got'[s][c] = got[s][c]
  /\ phase[s] = "saved" => phase'[s] = "saved"

\* The fields of the items, jobs, lanes and requests there are.
LEMMA Typed ==
  ASSUME TypeOK
  PROVE  /\ \A i \in Item : item[i] \in ItemRecord
         /\ \A w \in Slot : job[w] \in JobRecord /\ lane[w] \in [Lane -> LaneRecord]
         /\ \A w \in Slot, l \in Lane : lane[w][l] \in LaneRecord
         /\ \A r \in wire : r.item \in Item /\ r.sid \in Sid \cup {NoSid} /\ r.chunk \in Chunk \cup {NoChunk}
         /\ \A s \in Sid : length[s] \in 0 .. MaxChunks /\ owner[s] \in Item \cup {NoItem}
         /\ \A s \in Sid, c \in Chunk : got[s][c] \in Item \cup {Hole}
         /\ ServerTyped
  BY DEF TypeOK, Request, ServerTyped

\* Chunks below the length of a session are chunks.
LEMMA Chunks ==
  ASSUME NEW n \in 0 .. MaxChunks
  PROVE  n \in Nat /\ 0 .. n - 1 \subseteq Chunk /\ NoChunk \notin Chunk
<1>1. MaxChunks \in Nat
  BY ClientBounds
<1> QED
  BY <1>1 DEF Chunk, NoChunk

\* A session that holds an item's bytes keeps them.
LEMMA WholeGrows ==
  ASSUME TypeOK, Grows, NEW s \in Sid, NEW i \in Item, owner[s] = i, Whole(s, i)
  PROVE  owner'[s] = i /\ length'[s] = length[s] /\ Whole(s, i)'
<1>1. owner[s] # NoItem /\ i # Hole
  BY ClientNames
<1>2. length[s] \in 0 .. MaxChunks
  BY Typed
<1>3. 0 .. length[s] - 1 \subseteq Chunk
  BY <1>2, Chunks
<1> QED
  BY <1>1, <1>3 DEF Grows, Whole

\* What an item says of its session stays true.
LEMMA ItemTrueGrows ==
  ASSUME TypeOK, Grows, NEW i \in Item, NEW x \in ItemRecord, ItemTrue(i, x)
  PROVE  ItemTrue(i, x)'
<1>1. x.session \in Sid \cup {NoSid} /\ x.confirmed \subseteq Chunk
  BY ItemTyped
<1>2. i # NoItem /\ i # Hole
  BY ClientNames
<1>3. CASE x.session = NoSid
  BY <1>3 DEF ItemTrue
<1>4. CASE x.session \in Sid /\ x.session # NoSid
  <2>1. owner[x.session] = i /\ owner'[x.session] = i
    BY <1>2, <1>4 DEF ItemTrue, Grows
  <2>2. \A c \in x.confirmed : got'[x.session][c] = i
    BY <1>1, <1>2, <1>4 DEF ItemTrue, Grows
  <2>3. x.pending => Whole(x.session, i)'
    BY <1>4, <2>1, WholeGrows DEF ItemTrue
  <2>4. x.state = "success" => phase'[x.session] = "saved"
    BY <1>4 DEF ItemTrue, Grows
  <2> QED
    BY <1>4, <2>1, <2>2, <2>3, <2>4 DEF ItemTrue
<1> QED
  BY <1>1, <1>3, <1>4
\* The user, or a worker between two files: items keep their sessions, jobs their places, or they
\* wake up, and the requests that are added cancel sessions.
Spared(i) ==
  /\ item'[i].session = item[i].session /\ item'[i].pending = item[i].pending
  /\ item'[i].confirmed = item[i].confirmed
  /\ item'[i].ctrl = "none" <=> item[i].ctrl = "none"
  /\ item'[i].state = "success" <=> item[i].state = "success"
Stays(w) ==
  /\ job'[w].item = job[w].item
  /\ \/ job'[w].pc \in Idle /\ job[w].pc \in Idle
     \/ /\ job'[w].pc = job[w].pc \/ (job'[w].pc \in Finishing /\ job[w].pc \in Finishing)
        /\ job'[w].next = job[w].next /\ job'[w].failed = job[w].failed
        /\ \A l \in Lane : /\ lane'[w][l].chunk = lane[w][l].chunk
                           /\ \/ lane'[w][l].pc = lane[w][l].pc
                              \/ lane'[w][l].pc = "go" /\ lane[w][l].pc = "held"
\* A step of the page alone: no worker is given new work, no request is taken
\* back, and the server does not move.
LEMMA PageStep ==
  ASSUME Coherent, TypeOK', UNCHANGED Server, forsaken \subseteq forsaken',
         \A i \in Item : Spared(i), \A w \in Slot : Stays(w),
         wire \subseteq wire',
         \A r \in wire' \ wire :
           r.kind = "cancel" /\ r.sid # NoSid /\ r.sid = item[r.item].session,
         run' = "none" => \A w \in Slot : job'[w].pc = "off",
         Waits', Live', NoLostWakeup',
         \A i \in Item : i \in queue' /\ item'[i].ctrl = "none" =>
           item'[i].state \in {"pending", "error", "success"}
  PROVE  Coherent'
<1>1. TypeOK /\ UNCHANGED <<phase, length, got, receipts, owner>>
  BY DEF Coherent, Server
<1>2. \A w \in Slot : job'[w].item = job[w].item /\ (job'[w].pc \in Idle <=> job[w].pc \in Idle)
  BY DEF Stays, Idle, Finishing
<1>3. Held'
  <2>1. \A w \in Slot : job'[w].item = NoItem <=> job'[w].pc \in Idle
    BY <1>2 DEF Coherent, Held
  <2>2. \A v, w \in Slot : v # w /\ job'[v].item = job'[w].item => job'[w].item = NoItem
    BY <1>2 DEF Coherent, Held
  <2>3. ASSUME NEW w \in Slot, job'[w].item # NoItem PROVE item'[job'[w].item].ctrl # "none"
    <3>1. job[w].item \in Item
      BY <1>1, <1>2, <2>3, Typed, JobTyped
    <3> QED
      BY <1>2, <2>3, <3>1 DEF Coherent, Held, Spared
  <2>4. ASSUME NEW i \in Item, item'[i].ctrl # "none" PROVE \E w \in Slot : job'[w].item = i
    BY <1>2, <2>4 DEF Coherent, Held, Spared
  <2> QED
    BY <2>1, <2>2, <2>3, <2>4 DEF Held
<1>4. Shown'
  BY DEF Coherent, Shown, Spared
<1>5. Sessions'
  BY <1>1 DEF Coherent, Sessions, Whole
<1>6. ItemsTrue'
  BY <1>1 DEF Coherent, ItemsTrue, ItemTrue, Whole, Spared
<1>7. \A i \in Item : Sure(item[i]) => Sure(item'[i])
  BY DEF Spared, Sure
<1>8. WireTrue'
  <2> SUFFICES ASSUME NEW r \in wire', r.kind \in {"chunk", "complete", "cancel"}
               PROVE  /\ r.sid \in Sid /\ owner[r.sid] = r.item
                      /\ r.kind = "chunk" => r.chunk \in 0 .. length[r.sid] - 1
                      /\ r.kind = "complete" => item'[r.item].session = r.sid /\ Sure(item'[r.item])
    BY <1>1 DEF WireTrue, Sure
  <2>1. r.item \in Item /\ r.sid \in Sid \cup {NoSid}
    BY DEF TypeOK, Request
  <2>2. CASE r \in wire
    BY <1>7, <2>1, <2>2 DEF Coherent, WireTrue, Spared
  <2>3. CASE r \notin wire
    BY <2>1, <2>3 DEF Coherent, ItemsTrue, ItemTrue
  <2> QED
    BY <2>2, <2>3
<1>9. SavedNamed'
  <2> SUFFICES ASSUME NEW s \in Sid, phase[s] = "saved"
               PROVE  item'[owner[s]].session = s /\ Sure(item'[owner[s]])
    BY <1>1 DEF SavedNamed, Sure
  <2>1. owner[s] \in Item
    BY <1>1, Typed DEF Coherent, Sessions
  <2> QED
    BY <1>7, <2>1 DEF Coherent, SavedNamed, Spared
<1>10. Remembered'
  <2> SUFFICES ASSUME NEW s \in Sid, phase[s] = "open"
               PROVE  \/ s \in forsaken' \/ CancelOf(owner[s], s) \in wire'
                      \/ /\ item'[owner[s]].session = s
                         /\ item'[owner[s]].ctrl # "none" \/ item'[owner[s]].pending
    BY <1>1 DEF Remembered, CancelOf
  <2>1. owner[s] \in Item
    BY <1>1, Typed DEF Coherent, Sessions
  <2> QED
    BY <2>1 DEF Coherent, Remembered, Spared
<1>11. ASSUME NEW w \in Slot PROVE Progress(w)'
  <2>1. CASE job'[w].pc \in Idle
    BY <2>1 DEF Progress, Idle, Finishing, Asked
  <2>2. CASE job'[w].pc \notin Idle
    <3> DEFINE i == job[w].item
    <3>1. i \in Item /\ job'[w].item = i /\ Spared(i) /\ Progress(w)
      BY <1>1, <1>2, <2>2, Typed, JobTyped DEF Coherent, Held
    <3>2. /\ job'[w].pc = job[w].pc \/ (job'[w].pc \in Finishing /\ job[w].pc \in Finishing)
          /\ job'[w].next = job[w].next /\ job'[w].failed = job[w].failed
          /\ \A l \in Lane : /\ lane'[w][l].chunk = lane[w][l].chunk
                             /\ \/ lane'[w][l].pc = lane[w][l].pc
                                \/ lane'[w][l].pc = "go" /\ lane[w][l].pc = "held"
      BY <2>2 DEF Stays
    <3>3. job'[w].pc = "lanes" => Lanes(w)'
      <4> SUFFICES ASSUME job'[w].pc = "lanes" PROVE Lanes(w)'
        OBVIOUS
      <4>1. Lanes(w)
        BY <3>1, <3>2 DEF Progress, Finishing
      <4>2. length'[item'[job'[w].item].session] = length[item[job[w].item].session]
        BY <1>1, <3>1 DEF Spared
      <4> QED
        BY SMTT(30), <3>1, <3>2, <4>1, <4>2 DEF Lanes, Spared
    <3>4. job'[w].pc = "clean" => CancelOf(i, item'[i].session) \in wire'
      BY <3>1, <3>2 DEF Progress, Finishing, Spared
    <3>5. /\ job'[w].pc = "init" => item'[i].session = NoSid /\ ~item'[i].pending
                                    /\ item'[i].confirmed = {} /\ job'[w].next = 0
          /\ job'[w].pc \in Finishing \cup {"lanes", "clean"} => item'[i].session # NoSid /\ ~item'[i].pending
          /\ job'[w].pc \in Finishing => 0 .. length'[item'[i].session] - 1 \subseteq item'[i].confirmed
          /\ job'[w].pc \in Asked => item'[i].pending
      BY <1>1, <3>1, <3>2 DEF Progress, Finishing, Asked, Spared
    <3> QED
      BY <3>1, <3>3, <3>4, <3>5 DEF Progress, CancelOf
  <2> QED
    BY <2>1, <2>2
<1> QED
  BY <1>3, <1>4, <1>5, <1>6, <1>8, <1>9, <1>10, <1>11 DEF Coherent

\* The wire as the server grows: what is on it stays true of sessions that are there.
LEMMA WireGrows ==
  ASSUME Coherent, Grows, NEW r \in wire, r.kind \in {"chunk", "complete", "cancel"}
  PROVE  /\ r.item \in Item /\ r.sid \in Sid /\ owner[r.sid] = r.item /\ owner'[r.sid] = r.item
         /\ length'[r.sid] = length[r.sid]
         /\ r.kind = "chunk" => r.chunk \in 0 .. length'[r.sid] - 1
<1>1. r.item \in Item /\ r.item # NoItem
  BY Typed, ClientNames DEF Coherent
<1>2. /\ r.sid \in Sid /\ owner[r.sid] = r.item
      /\ r.kind = "chunk" => r.chunk \in 0 .. length[r.sid] - 1
  BY DEF Coherent, WireTrue
<1> QED
  BY <1>1, <1>2 DEF Grows

\* A job whose item, lanes and cancellation are left alone is where it was.
LEMMA ProgressGrows ==
  ASSUME Coherent, Grows, NEW w \in Slot, job'[w] = job[w], lane'[w] = lane[w],
         job[w].item # NoItem => item'[job[w].item] = item[job[w].item],
         job[w].pc = "clean" =>
           CancelOf(job[w].item, item[job[w].item].session) \in wire'
  PROVE  Progress(w)'
<1>1. CASE job[w].pc \in Idle
  BY <1>1 DEF Progress, Idle, Finishing, Asked
<1>2. CASE job[w].pc \notin Idle
  <2> DEFINE i == job[w].item
  <2>1. i \in Item /\ i # NoItem /\ item'[i] = item[i] /\ item[i] \in ItemRecord /\ Progress(w)
    BY <1>2, Typed, JobTyped, ClientNames DEF Coherent, Held
  <2>2. item[i].session # NoSid => length'[item[i].session] = length[item[i].session]
    <3>1. item[i].session # NoSid => item[i].session \in Sid /\ owner[item[i].session] = i
      BY <2>1, ItemTyped DEF Coherent, ItemsTrue, ItemTrue
    <3> QED
      BY <2>1, <3>1 DEF Grows
  <2>3. job[w].pc = "lanes" => Lanes(w)'
    <3> SUFFICES ASSUME job[w].pc = "lanes" PROVE Lanes(w)'
      OBVIOUS
    <3>1. Lanes(w) /\ item[i].session # NoSid
      BY <2>1 DEF Progress
    <3>2. length'[item'[job'[w].item].session] = length[item[job[w].item].session]
      BY <2>1, <2>2, <3>1
    <3> QED
      BY SMTT(30), <2>1, <3>1, <3>2 DEF Lanes
  <2>4. job[w].pc \in Finishing => 0 .. length'[item[i].session] - 1 \subseteq item[i].confirmed
    BY <2>1, <2>2 DEF Progress
  <2>5. /\ job[w].pc = "init" => item[i].session = NoSid /\ ~item[i].pending
                                  /\ item[i].confirmed = {} /\ job[w].next = 0
        /\ job[w].pc \in Finishing \cup {"lanes", "clean"} => item[i].session # NoSid /\ ~item[i].pending
        /\ job[w].pc \in Asked => item[i].pending
    BY <2>1 DEF Progress
  <2> QED
    BY <2>1, <2>3, <2>4, <2>5 DEF Progress, CancelOf
<1> QED
  BY <1>1, <1>2

\* The server or the network, while the page notices nothing.
LEMMA ServerAlone ==
  ASSUME Coherent, UNCHANGED <<Page, item, job, lane>>, ServerTyped', Sessions', Grows,
         wire' \subseteq wire, forsaken \subseteq forsaken', forsaken' \subseteq Sid,
         \A s \in Sid : phase'[s] = "saved" /\ phase[s] # "saved" =>
           item[owner'[s]].session = s /\ Sure(item[owner'[s]]),
         \A w \in Slot : job[w].pc = "clean" =>
           CancelOf(job[w].item, item[job[w].item].session) \in wire',
         Remembered'
  PROVE  Coherent'
<1>1. TypeOK
  BY DEF Coherent
<1>2. UNCHANGED <<queue, run, todo, paused, canceling, mounted, reading, left, item, job, lane>>
  BY DEF Page
<1>3. TypeOK'
  BY <1>1, <1>2 DEF TypeOK, ServerTyped
<1>4. (Held /\ Waits /\ Live /\ Shown /\ NoLostWakeup)'
  BY <1>2 DEF Coherent, Held, Waits, Live, Shown, NoLostWakeup, At
<1>5. ItemsTrue'
  <2> SUFFICES ASSUME NEW i \in Item PROVE ItemTrue(i, item[i])'
    BY DEF ItemsTrue
  <2>1. item[i] \in ItemRecord /\ ItemTrue(i, item[i]) /\ item'[i] = item[i]
    BY <1>1, <1>2, Typed DEF Coherent, ItemsTrue
  <2> DEFINE x == item[i]
  <2>2. ASSUME NEW y \in ItemRecord, ItemTrue(i, y) PROVE ItemTrue(i, y)'
    BY <1>1, <2>2, ItemTrueGrows
  <2>3. PICK y \in ItemRecord : y = item[i]
    BY <2>1
  <2>4. ItemTrue(i, y)'
    BY <2>1, <2>2, <2>3
  <2> QED
    BY <2>1, <2>3, <2>4 DEF ItemTrue, Whole
<1>6. WireTrue'
  <2> SUFFICES ASSUME NEW r \in wire', r.kind \in {"chunk", "complete", "cancel"}
               PROVE  /\ r.sid \in Sid /\ owner'[r.sid] = r.item
                      /\ r.kind = "chunk" => r.chunk \in 0 .. length'[r.sid] - 1
                      /\ r.kind = "complete" => item'[r.item].session = r.sid /\ Sure(item'[r.item])
    BY DEF WireTrue, Sure
  <2>1. r.kind = "complete" => item[r.item].session = r.sid /\ Sure(item[r.item])
    BY DEF Coherent, WireTrue
  <2> QED
    BY <1>2, <2>1, WireGrows
<1>7. SavedNamed'
  <2> SUFFICES ASSUME NEW s \in Sid, phase'[s] = "saved"
               PROVE  item[owner'[s]].session = s /\ Sure(item[owner'[s]])
    BY <1>2 DEF SavedNamed, Sure
  <2>1. CASE phase[s] = "saved"
    <3>1. owner'[s] = owner[s]
      BY <2>1 DEF Coherent, Sessions, Grows
    <3> QED
      BY <2>1, <3>1 DEF Coherent, SavedNamed
  <2> QED
    BY <2>1
<1>8. \A w \in Slot : Progress(w)'
  BY <1>2, ProgressGrows
<1> QED
  BY <1>3, <1>4, <1>5, <1>6, <1>7, <1>8 DEF Coherent

\* Worker w turns to job j and lanes ls, with file i as x.
Takes(w, i, j, x, ls) ==
  /\ job' = [job EXCEPT ![w] = j] /\ item' = [item EXCEPT ![i] = x]
  /\ lane' = [lane EXCEPT ![w] = ls]

\* A transfer goes on, or is let go of.
InHand(i, j, x) == j.item = i /\ j.pc \notin Idle /\ x.ctrl # "none" /\ x.state # "success"
LetGo(j, x) == j = NextJob /\ x.ctrl = "none" /\ x.state \in {"pending", "error", "success"}

\* Worker w takes one step with file i, that it holds or begins: the job becomes j, the item x, the
\* lanes ls; the server may have answered at the same time.
LEMMA WorkerStep ==
  ASSUME Coherent, NEW w \in Slot, NEW i \in Item,
         job[w].item = i \/ (job[w].item = NoItem /\ item[i].ctrl = "none"),
         item[i].state # "success", run # "none",
         NEW j \in JobRecord, NEW x \in ItemRecord, NEW ls \in [Lane -> LaneRecord],
         Takes(w, i, j, x, ls),
         UNCHANGED <<queue, run, paused, canceling, mounted, reading, left>>, todo' \subseteq todo \ {i},
         ServerTyped', Sessions', Grows, wire' \subseteq Request,
         forsaken \subseteq forsaken', forsaken' \subseteq Sid,
         InHand(i, j, x) \/ LetGo(j, x),
         x.ctrl = "live" => run = "on" /\ mounted /\ i \in queue,
         ItemTrue(i, x)',
         item[i].pending => x.session = item[i].session /\ Sure(x),
         \A r \in wire' \ wire : r.item = i /\
           \/ r.kind \in {"init", "late"}
           \/ /\ r.sid = x.session /\ r.sid # NoSid
              /\ r.kind = "chunk" => r.chunk \in 0 .. length'[r.sid] - 1
              /\ r.kind = "complete" => x.pending,
         \A r \in wire \ wire' : r.kind = "cancel" => r.item = i,
         \A s \in Sid : phase'[s] = "saved" /\ phase[s] # "saved" =>
           s = x.session /\ owner'[s] = i /\ Sure(x),
         \A s \in Sid : phase'[s] = "open" =>
           \/ phase[s] = "open" /\ owner'[s] # i
           \/ s \in forsaken'
           \/ owner'[s] = i /\ CancelOf(i, s) \in wire'
           \/ owner'[s] = i /\ x.session = s /\ (x.ctrl # "none" \/ x.pending),
         ~paused => j.pc \notin {"heldNext", "heldFinish"}
                    /\ (j.pc = "lanes" => \A l \in Lane : ls[l].pc # "held"),
         Progress(w)'
  PROVE  Coherent'
<1>1. TypeOK /\ ServerTyped
  BY Typed DEF Coherent
<1>2. /\ job' \in [Slot -> JobRecord] /\ job'[w] = j /\ \A v \in Slot : v # w => job'[v] = job[v]
      /\ item' \in [Item -> ItemRecord] /\ item'[i] = x /\ \A k \in Item : k # i => item'[k] = item[k]
      /\ lane' \in [Slot -> [Lane -> LaneRecord]] /\ lane'[w] = ls
      /\ \A v \in Slot : v # w => lane'[v] = lane[v]
  BY <1>1 DEF TypeOK, Takes
<1>3. TypeOK'
  BY <1>1, <1>2 DEF TypeOK, ServerTyped
<1>4. i # NoItem /\ NextJob.item = NoItem /\ NextJob.pc = "next"
  BY ClientNames DEF NextJob, NoJob
<1>5. \A v \in Slot : v # w => job[v].item # i
  BY <1>4 DEF Coherent, Held
<1>6. j.item \in {i, NoItem} /\ (j.item = NoItem <=> j.pc \in Idle) /\ (j.item = NoItem <=> x.ctrl = "none")
  BY <1>4 DEF InHand, LetGo, Idle
<1>7. Held'
  <2>1. \A v \in Slot : job'[v].item = NoItem <=> job'[v].pc \in Idle
    BY <1>2, <1>6 DEF Coherent, Held
  <2>2. \A u, v \in Slot : u # v /\ job'[u].item = job'[v].item => job'[u].item = NoItem
    BY <1>2, <1>5, <1>6 DEF Coherent, Held
  <2>3. ASSUME NEW v \in Slot, job'[v].item # NoItem PROVE item'[job'[v].item].ctrl # "none"
    <3>1. CASE v = w
      BY <1>2, <1>6, <2>3, <3>1
    <3>2. CASE v # w
      <4>1. job'[v].item = job[v].item /\ job[v].item \in Item /\ job[v].item # i
        BY <1>1, <1>2, <1>5, <2>3, <3>2, Typed, JobTyped
      <4> QED
        BY <1>2, <2>3, <4>1 DEF Coherent, Held
    <3> QED
      BY <3>1, <3>2
  <2>4. ASSUME NEW k \in Item, item'[k].ctrl # "none" PROVE \E v \in Slot : job'[v].item = k
    <3>1. CASE k = i
      BY <1>2, <1>6, <2>4, <3>1
    <3>2. CASE k # i
      <4>1. PICK v \in Slot : job[v].item = k
        BY <1>2, <2>4, <3>2 DEF Coherent, Held
      <4>2. k # NoItem
        BY ClientNames
      <4> QED
        BY <1>2, <3>2, <4>1, <4>2
    <3> QED
      BY <3>1, <3>2
  <2> QED
    BY <2>1, <2>2, <2>3, <2>4 DEF Held
<1>8. Waits'
  <2>1. todo' \subseteq Item /\ i \notin todo' /\ todo' \subseteq todo
    BY <1>1 DEF TypeOK
  <2> QED
    BY <1>2, <2>1 DEF Coherent, Waits
<1>9. Live'
  BY <1>2 DEF Coherent, Live
<1>10. Shown'
  BY <1>2 DEF Coherent, Shown, InHand, LetGo
<1>11. ItemsTrue'
  <2> SUFFICES ASSUME NEW k \in Item PROVE ItemTrue(k, item[k])'
    BY DEF ItemsTrue
  <2>1. CASE k = i
    BY <1>2, <2>1 DEF ItemTrue, Whole
  <2>2. CASE k # i
    <3>1. item[k] \in ItemRecord /\ ItemTrue(k, item[k]) /\ item'[k] = item[k]
      BY <1>1, <1>2, <2>2, Typed DEF Coherent, ItemsTrue
    <3>2. ASSUME NEW y \in ItemRecord, ItemTrue(k, y) PROVE ItemTrue(k, y)'
      BY <1>1, <3>2, ItemTrueGrows
    <3>3. PICK y \in ItemRecord : y = item[k]
      BY <3>1
    <3>4. ItemTrue(k, y)'
      BY <3>1, <3>2, <3>3
    <3> QED
      BY <3>1, <3>3, <3>4 DEF ItemTrue, Whole
  <2> QED
    BY <2>1, <2>2
<1>12. \A k \in Item : Sure(item[k]) => Sure(item'[k]) /\ item'[k].session = item[k].session
  BY <1>2 DEF Sure
<1>13. WireTrue'
  <2> SUFFICES ASSUME NEW r \in wire', r.kind \in {"chunk", "complete", "cancel"}
               PROVE  /\ r.sid \in Sid /\ owner'[r.sid] = r.item
                      /\ r.kind = "chunk" => r.chunk \in 0 .. length'[r.sid] - 1
                      /\ r.kind = "complete" => item'[r.item].session = r.sid /\ Sure(item'[r.item])
    BY DEF WireTrue, Sure
  <2>1. r.item \in Item /\ r.sid \in Sid \cup {NoSid}
    BY DEF Request
  <2>2. CASE r \in wire
    <3>1. r.kind = "complete" => item[r.item].session = r.sid /\ Sure(item[r.item])
      BY <2>2 DEF Coherent, WireTrue
    <3> QED
      BY <1>12, <2>1, <2>2, <3>1, WireGrows
  <2>3. CASE r \notin wire
    <3>1. /\ r.item = i /\ r.sid = x.session /\ r.sid # NoSid
          /\ r.kind = "chunk" => r.chunk \in 0 .. length'[r.sid] - 1
          /\ r.kind = "complete" => x.pending
      BY <2>3
    <3> QED
      BY <1>2, <2>1, <3>1 DEF ItemTrue, Sure
  <2> QED
    BY <2>2, <2>3
<1>14. SavedNamed'
  <2> SUFFICES ASSUME NEW s \in Sid, phase'[s] = "saved"
               PROVE  item'[owner'[s]].session = s /\ Sure(item'[owner'[s]])
    BY DEF SavedNamed, Sure
  <2>1. CASE phase[s] = "saved"
    <3>1. owner'[s] = owner[s] /\ owner[s] \in Item
      BY <1>1, <2>1, Typed DEF Coherent, Sessions, Grows
    <3> QED
      BY <1>12, <2>1, <3>1 DEF Coherent, SavedNamed
  <2>2. CASE phase[s] # "saved"
    BY <1>2, <2>2
  <2> QED
    BY <2>1, <2>2
<1>15. Remembered'
  <2> SUFFICES ASSUME NEW s \in Sid, phase'[s] = "open"
               PROVE  \/ s \in forsaken' \/ CancelOf(owner'[s], s) \in wire'
                      \/ /\ item'[owner'[s]].session = s
                         /\ item'[owner'[s]].ctrl # "none" \/ item'[owner'[s]].pending
    BY DEF Remembered, CancelOf
  <2>1. CASE phase[s] = "open" /\ owner'[s] # i
    <3>1. owner'[s] = owner[s] /\ owner[s] \in Item /\ owner[s] # i
      BY <1>1, <2>1, Typed DEF Coherent, Sessions, Grows
    <3>2. CancelOf(owner[s], s).kind = "cancel" /\ CancelOf(owner[s], s).item = owner[s]
      BY DEF CancelOf
    <3>3. CancelOf(owner[s], s) \in wire => CancelOf(owner[s], s) \in wire'
      BY <3>1, <3>2
    <3> QED
      BY <1>2, <2>1, <3>1, <3>3 DEF Coherent, Remembered
  <2>2. CASE ~(phase[s] = "open" /\ owner'[s] # i)
    BY <1>2, <2>2
  <2> QED
    BY <2>1, <2>2
<1>16. NoLostWakeup'
  BY <1>2 DEF Coherent, NoLostWakeup, At
<1>17. ASSUME NEW v \in Slot PROVE Progress(v)'
  <2>1. CASE v = w
    BY <2>1
  <2>2. CASE v # w
    <3>1. job'[v] = job[v] /\ lane'[v] = lane[v]
      BY <1>2, <2>2
    <3>2. job[v].item # NoItem => job[v].item \in Item /\ job[v].item # i /\ item'[job[v].item] = item[job[v].item]
      BY <1>1, <1>2, <1>5, <2>2, Typed, JobTyped
    <3>3. ASSUME job[v].pc = "clean" PROVE CancelOf(job[v].item, item[job[v].item].session) \in wire'
      <4> DEFINE r == CancelOf(job[v].item, item[job[v].item].session)
      <4>1. r \in wire
        BY <3>3 DEF Coherent, Progress
      <4>2. r.kind = "cancel" /\ r.item = job[v].item /\ job[v].item # NoItem
        BY <3>3 DEF CancelOf, Coherent, Held, Idle
      <4> HIDE DEF r
      <4> QED
        BY <3>2, <4>1, <4>2 DEF r
    <3> QED
      BY <3>1, <3>2, <3>3, ProgressGrows
  <2> QED
    BY <2>1, <2>2
<1> QED
  BY <1>3, <1>7, <1>8, <1>9, <1>10, <1>11, <1>13, <1>14, <1>15, <1>16, <1>17 DEF Coherent
-----------------------------------------------------------------------------
(* What the server does.                                                   *)

\* A session is opened for an item.
LEMMA Opening ==
  ASSUME Coherent, NEW i \in Item, NEW s \in Sid, OpenFor(i, s)
  PROVE  /\ ServerTyped' /\ Sessions' /\ Grows
         /\ phase[s] = "unused" /\ owner'[s] = i /\ phase'[s] = "open"
         /\ \A t \in Sid : t # s => phase'[t] = phase[t] /\ owner'[t] = owner[t]
         /\ UNCHANGED Page
<1>1. /\ phase[s] = "unused" /\ phase' = [phase EXCEPT ![s] = "open"]
      /\ length' = [length EXCEPT ![s] = item[i].total] /\ owner' = [owner EXCEPT ![s] = i]
      /\ got' = got /\ receipts' = receipts /\ UNCHANGED Page
  BY DEF OpenFor, Promise!Open
<1>2. ServerTyped /\ item[i].total \in 0 .. MaxChunks /\ owner[s] = NoItem
  BY <1>1, Typed, ItemTyped DEF Coherent, Sessions
<1>3. ServerTyped'
  BY <1>1, <1>2 DEF ServerTyped
<1>4. /\ owner'[s] = i /\ phase'[s] = "open"
      /\ \A t \in Sid : t # s => phase'[t] = phase[t] /\ owner'[t] = owner[t] /\ length'[t] = length[t]
  BY <1>1, <1>2 DEF ServerTyped
<1>5. Grows
  BY <1>1, <1>2, <1>4 DEF Grows
<1>6. Sessions'
  <2> SUFFICES ASSUME NEW t \in Sid
               PROVE  /\ phase'[t] = "unused" <=> owner'[t] = NoItem
                      /\ \A c \in Chunk : got[t][c] \in {Hole, owner'[t]}
                      /\ phase'[t] = "saved" => Whole(t, owner[t])'
    BY <1>1 DEF Sessions, Whole
  <2>1. CASE t = s
    <3>1. \A c \in Chunk : got[s][c] \in Item \cup {Hole} /\ got[s][c] \in {Hole, NoItem}
      BY <1>2, Typed DEF Coherent, Sessions
    <3>2. i # NoItem /\ NoItem \notin Item
      BY ClientNames
    <3> QED
      BY <1>4, <2>1, <3>1, <3>2
  <2>2. CASE t # s
    BY <1>1, <1>4, <2>2 DEF Coherent, Sessions, Whole
  <2> QED
    BY <2>1, <2>2
<1> QED
  BY <1>1, <1>3, <1>4, <1>5, <1>6

\* A session goes, or is saved when all its chunks are there.
LEMMA Closing ==
  ASSUME Coherent, ServerTyped', UNCHANGED <<length, got, owner>>,
         \A s \in Sid : \/ phase'[s] = phase[s]
                        \/ phase[s] = "open" /\ phase'[s] = "gone"
                        \/ /\ phase[s] = "open" /\ phase'[s] = "saved"
                           /\ \A c \in 0 .. length[s] - 1 : got[s][c] # Hole
  PROVE  Sessions' /\ Grows
<1>1. Grows
  BY DEF Grows
<1>2. Sessions'
  <2> SUFFICES ASSUME NEW s \in Sid
               PROVE  /\ phase'[s] = "unused" <=> owner[s] = NoItem
                      /\ \A c \in Chunk : got[s][c] \in {Hole, owner[s]}
                      /\ phase'[s] = "saved" => Whole(s, owner[s])
    BY DEF Sessions, Whole
  <2>1. /\ phase[s] = "unused" <=> owner[s] = NoItem
        /\ \A c \in Chunk : got[s][c] \in {Hole, owner[s]}
        /\ phase[s] = "saved" => Whole(s, owner[s])
    BY DEF Coherent, Sessions
  <2>2. 0 .. length[s] - 1 \subseteq Chunk
    BY Typed, Chunks DEF Coherent
  <2> QED
    BY <2>1, <2>2 DEF Whole
<1> QED
  BY <1>1, <1>2

\* A chunk of an open session is stored.
LEMMA Storing ==
  ASSUME Coherent, NEW s \in Sid, NEW c \in 0 .. length[s] - 1, phase[s] = "open", got[s][c] = Hole,
         got' = [got EXCEPT ![s][c] = owner[s]], UNCHANGED <<phase, length, owner, receipts>>
  PROVE  ServerTyped' /\ Sessions' /\ Grows /\ got'[s][c] = owner[s]
<1>1. ServerTyped /\ c \in Chunk /\ owner[s] \in Item
  BY Typed, Chunks DEF Coherent, Sessions
<1>2. /\ got'[s][c] = owner[s]
      /\ \A d \in Chunk : d # c => got'[s][d] = got[s][d]
      /\ \A t \in Sid : t # s => got'[t] = got[t]
      /\ got' \in [Sid -> [Chunk -> Item \cup {Hole}]]
  BY <1>1 DEF ServerTyped
<1>3. ServerTyped'
  BY <1>1, <1>2 DEF ServerTyped
<1>4. Grows
  BY <1>2 DEF Grows
<1>5. Sessions'
  <2> SUFFICES ASSUME NEW t \in Sid
               PROVE  /\ phase[t] = "unused" <=> owner[t] = NoItem
                      /\ \A d \in Chunk : got'[t][d] \in {Hole, owner[t]}
                      /\ phase[t] = "saved" => Whole(t, owner[t])'
    BY DEF Sessions, Whole
  <2>1. CASE t = s
    BY <1>2, <2>1 DEF Coherent, Sessions
  <2>2. CASE t # s
    BY <1>2, <2>2 DEF Coherent, Sessions, Whole
  <2> QED
    BY <2>1, <2>2
<1> QED
  BY <1>2, <1>3, <1>4, <1>5
-----------------------------------------------------------------------------
(* What a file worker has in its hands.                                    *)

\* What the invariant says of the worker and of the file it has in hand.
LEMMA Holder ==
  ASSUME Coherent, NEW w \in Slot, job[w].pc \notin Idle, NEW i, i = job[w].item
  PROVE  /\ i \in Item /\ item[i] \in ItemRecord /\ item[i].ctrl # "none" /\ item[i].state # "success"
         /\ run # "none" /\ i \notin todo /\ ItemTrue(i, item[i]) /\ Progress(w) /\ job[w] \in JobRecord
         /\ lane[w] \in [Lane -> LaneRecord] /\ TypeOK
         /\ item[i].ctrl = "live" => run = "on" /\ mounted /\ i \in queue
         /\ \A s \in Sid : phase[s] = "open" /\ owner[s] = i =>
              s \in forsaken \/ CancelOf(i, s) \in wire \/ item[i].session = s
         /\ ~paused => /\ job[w].pc # "heldFinish"
                       /\ job[w].pc = "lanes" => \A l \in Lane : lane[w][l].pc # "held"
<1>1. /\ i \in Item /\ item[i] \in ItemRecord /\ job[w] \in JobRecord /\ lane[w] \in [Lane -> LaneRecord]
      /\ TypeOK
  BY Typed, JobTyped DEF Coherent, Held
<1>2. i # NoItem
  BY <1>1, ClientNames
<1>3. item[i].ctrl # "none" /\ run # "none"
  BY <1>1, <1>2 DEF Coherent, Held, Idle
<1>4. item[i].state # "success" /\ i \notin todo
  BY <1>1, <1>3 DEF Coherent, Shown, Waits
<1>5. ItemTrue(i, item[i]) /\ Progress(w) /\ (item[i].ctrl = "live" => run = "on" /\ mounted /\ i \in queue)
  BY <1>1 DEF Coherent, ItemsTrue, Live
<1>6. \A s \in Sid : phase[s] = "open" /\ owner[s] = i =>
              s \in forsaken \/ CancelOf(i, s) \in wire \/ item[i].session = s
  BY DEF Coherent, Remembered
<1>7. ~paused => /\ job[w].pc # "heldFinish"
                 /\ job[w].pc = "lanes" => \A l \in Lane : lane[w][l].pc # "held"
  BY DEF Coherent, NoLostWakeup, At
<1> QED
  BY <1>1, <1>3, <1>4, <1>5, <1>6, <1>7

\* A session is what Coherent says while the server does not move.
LEMMA Unmoved ==
  ASSUME Coherent, UNCHANGED Server
  PROVE  /\ ServerTyped' /\ Sessions' /\ Grows
         /\ UNCHANGED <<phase, length, got, receipts, owner>>
<1>1. UNCHANGED <<phase, length, got, receipts, owner>>
  BY DEF Server
<1>2. ServerTyped
  BY Typed DEF Coherent
<1> QED
  BY <1>1, <1>2 DEF ServerTyped, Coherent, Sessions, Whole, Grows

\* A step within a transfer: its item keeps its session and what is confirmed, its job goes on.
LEMMA TransferStep ==
  ASSUME Coherent, NEW w \in Slot, job[w].pc \notin Idle, NEW i, i = job[w].item,
         UNCHANGED <<Page, Server, forsaken>>,
         NEW j \in JobRecord, NEW x \in ItemRecord, NEW ls \in [Lane -> LaneRecord],
         Takes(w, i, j, x, ls),
         j.item = i, j.pc \notin Idle,
         x.ctrl # "none", x.ctrl = "live" => item[i].ctrl = "live", x.state # "success",
         x.session = item[i].session, x.confirmed = item[i].confirmed, item[i].pending => x.pending,
         x.pending => x.session # NoSid /\ Whole(x.session, i),
         wire' \subseteq Request,
         \A r \in wire' \ wire : /\ r.item = i /\ r.sid = x.session /\ r.sid # NoSid
                                 /\ r.kind = "chunk" => r.chunk \in 0 .. length[r.sid] - 1
                                 /\ r.kind = "complete" => x.pending,
         \A r \in wire \ wire' : r.kind # "cancel",
         ~paused => j.pc # "heldFinish" /\ (j.pc = "lanes" => \A l \in Lane : ls[l].pc # "held"),
         Progress(w)'
  PROVE  Coherent'
<1>1. /\ i \in Item /\ item[i] \in ItemRecord /\ item[i].ctrl # "none" /\ item[i].state # "success"
      /\ run # "none" /\ i \notin todo /\ ItemTrue(i, item[i]) /\ TypeOK
      /\ item[i].ctrl = "live" => run = "on" /\ mounted /\ i \in queue
      /\ \A s \in Sid : phase[s] = "open" /\ owner[s] = i =>
           s \in forsaken \/ CancelOf(i, s) \in wire \/ item[i].session = s
  BY Holder
<1>2. ServerTyped' /\ Sessions' /\ Grows /\ UNCHANGED <<phase, length, got, receipts, owner>>
  BY Unmoved, Zenon
<1>3. UNCHANGED <<queue, run, todo, paused, canceling, mounted, reading, left, forsaken>> /\ forsaken \subseteq Sid
  BY <1>1 DEF Page, TypeOK
<1>4. ItemTrue(i, x)'
  BY <1>1, <1>2 DEF ItemTrue, Whole
<1>5. \A s \in Sid : CancelOf(i, s) \in wire => CancelOf(i, s) \in wire'
  <2>1. \A s \in Sid : CancelOf(i, s).kind = "cancel"
    BY DEF CancelOf
  <2> QED
    BY <2>1
<1>6. InHand(i, j, x)
  BY DEF InHand
<1>7. ~paused => j.pc \notin {"heldNext", "heldFinish"}
                 /\ (j.pc = "lanes" => \A l \in Lane : ls[l].pc # "held")
  BY DEF Idle
<1>8. item[i].pending => x.session = item[i].session /\ Sure(x)
  BY DEF Sure
<1>9. \A s \in Sid : phase'[s] = "open" =>
        \/ phase[s] = "open" /\ owner'[s] # i
        \/ s \in forsaken'
        \/ owner'[s] = i /\ CancelOf(i, s) \in wire'
        \/ owner'[s] = i /\ x.session = s /\ (x.ctrl # "none" \/ x.pending)
  BY <1>1, <1>2, <1>3, <1>5
<1>10. \A s \in Sid : phase'[s] = "saved" /\ phase[s] # "saved" =>
         s = x.session /\ owner'[s] = i /\ Sure(x)
  BY <1>2
<1>11. \A r \in wire' \ wire : r.item = i /\
         \/ r.kind \in {"init", "late"}
         \/ /\ r.sid = x.session /\ r.sid # NoSid
            /\ r.kind = "chunk" => r.chunk \in 0 .. length'[r.sid] - 1
            /\ r.kind = "complete" => x.pending
  BY <1>2
<1>12. todo' \subseteq todo \ {i} /\ forsaken \subseteq forsaken' /\ forsaken' \subseteq Sid
  BY <1>1, <1>3
<1>13. x.ctrl = "live" => run = "on" /\ mounted /\ i \in queue
  BY <1>1
<1>14. \A r \in wire \ wire' : r.kind = "cancel" => r.item = i
  OBVIOUS
<1>15. UNCHANGED <<queue, run, paused, canceling, mounted, reading, left>>
  BY <1>3
<1>16. i \in Item /\ item[i].state # "success" /\ run # "none"
  BY <1>1
<1> QED
  BY <1>2, <1>4, <1>6, <1>7, <1>8, <1>9, <1>10, <1>11, <1>12, <1>13, <1>14, <1>15, <1>16, WorkerStep

\* Requests as they are put on the wire.
LEMMA Requests ==
  ASSUME NEW i \in Item
  PROVE  /\ InitOf(i) \in Request /\ InitOf(i).kind = "init" /\ InitOf(i).item = i
         /\ LateInitOf(i) \in Request /\ LateInitOf(i).kind = "late" /\ LateInitOf(i).item = i
         /\ \A s \in Sid :
              /\ CancelOf(i, s) \in Request /\ CancelOf(i, s).kind = "cancel"
              /\ CancelOf(i, s).item = i /\ CancelOf(i, s).sid = s
              /\ CompleteOf(i, s) \in Request /\ CompleteOf(i, s).kind = "complete"
              /\ CompleteOf(i, s).item = i /\ CompleteOf(i, s).sid = s
              /\ \A c \in Chunk :
                   /\ ChunkOf(i, s, c) \in Request /\ ChunkOf(i, s, c).kind = "chunk"
                   /\ ChunkOf(i, s, c).item = i /\ ChunkOf(i, s, c).sid = s /\ ChunkOf(i, s, c).chunk = c
  BY DEF InitOf, LateInitOf, CancelOf, CompleteOf, ChunkOf, Request

\* A file as a failed transfer leaves it.
LEMMA Ended ==
  ASSUME NEW i, NEW x \in ItemRecord, NEW e, e = EndedItem(i, x)
  PROVE  /\ e \in ItemRecord /\ e.pending = x.pending /\ e.confirmed = x.confirmed
         /\ e.session = IF x.pending THEN x.session ELSE NoSid
         /\ e.ctrl = "none" /\ e.state \in {"pending", "error"}
<1> DEFINE v == IF x.pending THEN x.session ELSE NoSid
           u == IF Stopped(i) THEN "pending" ELSE "error"
<1>1. e = [x EXCEPT !.session = v, !.state = u, !.ctrl = "none"]
  BY DEF EndedItem
<1>2. v \in Sid \cup {NoSid} /\ u \in {"pending", "error"}
  BY ItemTyped
<1> HIDE DEF u, v
<1>3. u \in State /\ "none" \in Ctrl
  BY <1>2 DEF State, Ctrl
<1>4. /\ e \in ItemRecord /\ e.pending = x.pending /\ e.confirmed = x.confirmed
      /\ e.session = v /\ e.ctrl = "none" /\ e.state = u
  BY <1>1, <1>2, <1>3 DEF ItemRecord
<1> QED
  BY <1>2, <1>4 DEF v

\* The file is let go of after an error.
LEMMA CloseStep ==
  ASSUME Coherent, NEW w \in Slot, job[w].pc \notin Idle, NEW i, i = job[w].item,
         NEW x \in ItemRecord, Close(w, x), lane' = lane,
         UNCHANGED Page, ServerTyped', Sessions', Grows, wire' \subseteq Request,
         forsaken \subseteq forsaken', forsaken' \subseteq Sid,
         ItemTrue(i, x)', item[i].pending => x.pending /\ x.session = item[i].session,
         \A s \in Sid : phase'[s] = "saved" => phase[s] = "saved",
         \A r \in wire' \ wire : r.item = i /\ r.kind \in {"init", "late"},
         \A r \in wire \ wire' : r.kind = "cancel" => r.item = i,
         \A s \in Sid : phase'[s] = "open" =>
           \/ phase[s] = "open" /\ owner'[s] # i
           \/ s \in forsaken'
           \/ owner'[s] = i /\ CancelOf(i, s) \in wire'
           \/ owner'[s] = i /\ x.session = s /\ x.pending
  PROVE  Coherent'
<1>1. /\ i \in Item /\ item[i].state # "success" /\ run # "none" /\ i \notin todo
      /\ lane[w] \in [Lane -> LaneRecord] /\ TypeOK
  BY Holder
<1>2. PICK e \in ItemRecord : /\ e = EndedItem(i, x) /\ e.pending = x.pending /\ e.confirmed = x.confirmed
                              /\ e.session = IF x.pending THEN x.session ELSE NoSid
                              /\ e.ctrl = "none" /\ e.state \in {"pending", "error"}
  BY Ended
<1>3. Takes(w, i, NextJob, e, lane[w])
  <2>1. lane' = [lane EXCEPT ![w] = lane[w]]
    BY <1>1 DEF TypeOK
  <2>2. job' = [job EXCEPT ![w] = NextJob] /\ item' = [item EXCEPT ![i] = e]
    BY <1>2 DEF Close
  <2> QED
    BY <2>1, <2>2 DEF Takes
<1>4. NextJob \in JobRecord /\ NextJob.pc = "next"
  BY JobTyped DEF NextJob, NoJob
<1>5. LetGo(NextJob, e)
  BY <1>2 DEF LetGo
<1>6. ItemTrue(i, e)'
  BY <1>2 DEF ItemTrue
<1>7. item[i].pending => e.session = item[i].session /\ Sure(e)
  BY <1>2 DEF Sure
<1>8. Progress(w)'
  <2>1. job'[w].pc = "next"
    BY <1>1, <1>3, <1>4 DEF Takes, TypeOK
  <2> QED
    BY <2>1 DEF Progress, Finishing, Asked
<1>9. UNCHANGED <<queue, run, paused, canceling, mounted, reading, left>> /\ todo' \subseteq todo \ {i}
  BY <1>1 DEF Page
<1>10. \A s \in Sid : phase'[s] = "open" =>
         \/ phase[s] = "open" /\ owner'[s] # i
         \/ s \in forsaken'
         \/ owner'[s] = i /\ CancelOf(i, s) \in wire'
         \/ owner'[s] = i /\ e.session = s /\ (e.ctrl # "none" \/ e.pending)
  BY <1>2
<1>11. \A r \in wire' \ wire : r.item = i /\
         \/ r.kind \in {"init", "late"}
         \/ /\ r.sid = e.session /\ r.sid # NoSid
            /\ r.kind = "chunk" => r.chunk \in 0 .. length'[r.sid] - 1
            /\ r.kind = "complete" => e.pending
  OBVIOUS
<1>12. ~paused => NextJob.pc \notin {"heldNext", "heldFinish"}
                    /\ (NextJob.pc = "lanes" => \A l \in Lane : lane[w][l].pc # "held")
  BY <1>4
<1>13. e.ctrl = "live" => run = "on" /\ mounted /\ i \in queue
  BY <1>2
<1> QED
  BY <1>1, <1>2, <1>3, <1>4, <1>5, <1>6, <1>7, <1>8, <1>9, <1>10, <1>11, <1>12, <1>13, WorkerStep

\* The catch block of uploadFileChunked.
LEMMA FailsStep ==
  ASSUME Coherent, NEW w \in Slot, job[w].pc \notin Idle, NEW i, i = job[w].item,
         NEW x \in ItemRecord, NEW sent, Fails(w, x, sent), lane' = lane,
         UNCHANGED <<Page, forsaken>>, ServerTyped', Sessions', Grows, sent \subseteq Request,
         x.ctrl # "none", x.ctrl = "live" => item[i].ctrl = "live", x.state # "success",
         ItemTrue(i, x)', item[i].pending => x.pending /\ x.session = item[i].session,
         \A s \in Sid : phase'[s] = "saved" => phase[s] = "saved",
         \A r \in sent \ wire : r.item = i /\ r.kind \in {"init", "late"},
         \A r \in wire \ sent : r.kind # "cancel",
         \A s \in Sid : phase'[s] = "open" =>
           \/ phase[s] = "open" /\ owner'[s] # i
           \/ s \in forsaken \/ (owner'[s] = i /\ (CancelOf(i, s) \in wire \/ x.session = s))
  PROVE  Coherent'
<1>1. /\ i \in Item /\ item[i].state # "success" /\ run # "none" /\ i \notin todo
      /\ lane[w] \in [Lane -> LaneRecord] /\ job[w] \in JobRecord /\ TypeOK
      /\ item[i].ctrl = "live" => run = "on" /\ mounted /\ i \in queue
  BY Holder
<1>2. forsaken' = forsaken /\ forsaken \subseteq Sid /\ UNCHANGED Page
  BY <1>1 DEF TypeOK
<1>3. \A s \in Sid : CancelOf(i, s) \in wire => CancelOf(i, s) \in sent
  BY <1>1, Requests
<1>4. CASE x.pending \/ x.session = NoSid
  <2>1. Close(w, x) /\ wire' = sent
    BY <1>4 DEF Fails
  <2>2. \A s \in Sid : phase'[s] = "open" =>
           \/ phase[s] = "open" /\ owner'[s] # i
           \/ s \in forsaken'
           \/ owner'[s] = i /\ CancelOf(i, s) \in wire'
           \/ owner'[s] = i /\ x.session = s /\ x.pending
    BY <1>2, <1>3, <1>4, <2>1, ClientNames
  <2>3. \A r \in wire \ wire' : r.kind = "cancel" => r.item = i
    BY <2>1
  <2> QED
    BY <1>2, <2>1, <2>2, <2>3, CloseStep
<1>5. CASE ~(x.pending \/ x.session = NoSid)
  <2>1. /\ item' = [item EXCEPT ![i] = x] /\ job' = [job EXCEPT ![w].pc = "clean"]
        /\ wire' = sent \cup {CancelOf(i, x.session)}
    BY <1>5 DEF Fails, Goto
  <2>2. PICK j \in JobRecord : j = [job[w] EXCEPT !.pc = "clean"]
    BY <1>1, JobTyped DEF JobPc
  <2>3. j.pc = "clean" /\ j.item = i /\ j.pc \notin Idle
    BY <1>1, <2>2 DEF JobRecord, Idle
  <2>4. Takes(w, i, j, x, lane[w])
    <3>1. job' = [job EXCEPT ![w] = j]
      BY <2>1, <2>2
    <3>2. lane' = [lane EXCEPT ![w] = lane[w]]
      BY <1>1 DEF TypeOK
    <3> QED
      BY <2>1, <3>1, <3>2 DEF Takes
  <2>5. x.session \in Sid
    BY <1>5, ItemTyped
  <2> DEFINE r == CancelOf(i, x.session)
  <2>6. r \in Request /\ r.kind = "cancel" /\ r.item = i /\ r.sid = x.session
    BY <1>1, <2>5, Requests
  <2>7. Progress(w)'
    <3>1. job'[w] = j /\ item'[i] = x
      BY <1>1, <2>4 DEF Takes, TypeOK
    <3> QED
      BY <1>5, <2>1, <2>3, <3>1 DEF Progress, Finishing, Asked, CancelOf
  <2>8. InHand(i, j, x)
    BY <2>3 DEF InHand
  <2> HIDE DEF r
  <2>9. wire' = sent \cup {r}
    BY <2>1 DEF r
  <2>10. wire' \subseteq Request
    BY <2>6, <2>9
  <2>11. \A q \in wire' \ wire : q.item = i /\
           \/ q.kind \in {"init", "late"}
           \/ /\ q.sid = x.session /\ q.sid # NoSid
              /\ q.kind = "chunk" => q.chunk \in 0 .. length'[q.sid] - 1
              /\ q.kind = "complete" => x.pending
    BY <1>5, <2>6, <2>9
  <2>12. \A q \in wire \ wire' : q.kind = "cancel" => q.item = i
    BY <2>9
  <2>13. \A s \in Sid : phase'[s] = "open" =>
           \/ phase[s] = "open" /\ owner'[s] # i
           \/ s \in forsaken'
           \/ owner'[s] = i /\ CancelOf(i, s) \in wire'
           \/ owner'[s] = i /\ x.session = s /\ (x.ctrl # "none" \/ x.pending)
    BY <1>2, <1>3, <2>9
  <2>14. item[i].pending => x.session = item[i].session /\ Sure(x)
    BY <1>5
  <2>15. UNCHANGED <<queue, run, paused, canceling, mounted, reading, left>> /\ todo' \subseteq todo \ {i}
    BY <1>1, <1>2 DEF Page
  <2>16. ~paused => j.pc \notin {"heldNext", "heldFinish"}
                      /\ (j.pc = "lanes" => \A l \in Lane : lane[w][l].pc # "held")
    BY <2>3
  <2>17. x.ctrl = "live" => run = "on" /\ mounted /\ i \in queue
    BY <1>1
  <2>18. \A s \in Sid : phase'[s] = "saved" /\ phase[s] # "saved" =>
           s = x.session /\ owner'[s] = i /\ Sure(x)
    OBVIOUS
  <2> QED
    BY <1>1, <1>2, <2>4, <2>7, <2>8, <2>10, <2>11, <2>12, <2>13, <2>14, <2>15, <2>16, <2>17, <2>18, WorkerStep
<1> QED
  BY <1>4, <1>5
-----------------------------------------------------------------------------
(* The first state.                                                        *)

\* The page opens in a coherent state.
LEMMA CoherentInit ==
  ASSUME Init
  PROVE  Coherent
<1>1. /\ queue = {} /\ item = [i \in Item |-> NewItem] /\ run = "none" /\ todo = {}
      /\ job = [w \in Slot |-> NoJob] /\ lane = [w \in Slot |-> [l \in Lane |-> EndedLane]]
      /\ paused = FALSE /\ canceling = FALSE /\ mounted = TRUE /\ reading = FALSE
      /\ receipts = {} /\ owner = [s \in Sid |-> NoItem] /\ wire = {} /\ forsaken = {} /\ left = MaxCommands
  BY DEF Init
<1>2. /\ phase = [s \in Sid |-> "unused"] /\ length = [s \in Sid |-> 0]
      /\ got = [s \in Sid |-> [c \in Chunk |-> Hole]]
  BY DEF Init, Promise!Init, Promise!Chunk, Chunk
<1>3. 0 \in 0 .. MaxChunks /\ MaxCommands \in Nat /\ NoItem \notin Item
  BY ClientBounds, ClientNames
<1>4. NewItem \in ItemRecord
  BY <1>3 DEF NewItem, ItemRecord, State, Ctrl
<1>5. NoJob.pc = "off" /\ NoJob.item = NoItem
  BY DEF NoJob
<1>6. /\ NewItem.state = "new" /\ NewItem.session = NoSid /\ ~NewItem.pending /\ NewItem.ctrl = "none"
      /\ NewItem.confirmed = {}
  BY DEF NewItem
<1>7. TypeOK
  BY <1>1, <1>2, <1>3, <1>4, JobTyped, LaneTyped DEF TypeOK
<1>8. Held
  BY <1>1, <1>5, <1>6 DEF Held, Idle
<1>9. Waits /\ Live /\ Shown
  BY <1>1, <1>6 DEF Waits, Live, Shown
<1>10. Sessions
  BY <1>1, <1>2 DEF Sessions
<1>11. ItemsTrue
  BY <1>1, <1>6 DEF ItemsTrue, ItemTrue
<1>12. WireTrue /\ SavedNamed /\ Remembered
  BY <1>1, <1>2 DEF WireTrue, SavedNamed, Remembered
<1>13. NoLostWakeup
  BY <1>1, <1>5 DEF NoLostWakeup, At
<1>14. \A w \in Slot : Progress(w)
  BY <1>1, <1>5 DEF Progress, Finishing, Asked
<1> QED
  BY <1>7, <1>8, <1>9, <1>10, <1>11, <1>12, <1>13, <1>14 DEF Coherent
-----------------------------------------------------------------------------
(* The user.                                                               *)

\* Workers are left where they are.
LEMMA Still ==
  ASSUME Coherent, UNCHANGED <<job, lane>>
  PROVE  \A w \in Slot : Stays(w)
  BY DEF Stays

\* Workers that wait for a change look again.
LEMMA Woken ==
  ASSUME Coherent, Wake
  PROVE  /\ \A w \in Slot : Stays(w)
         /\ job' \in [Slot -> JobRecord] /\ lane' \in [Slot -> [Lane -> LaneRecord]]
         /\ NoLostWakeup' /\ \A w \in Slot : job[w].pc = "off" => job'[w].pc = "off"
<1>1. TypeOK /\ job' = [w \in Slot |-> WokenJob(job[w])]
      /\ lane' = [w \in Slot |-> [l \in Lane |-> WokenLane(lane[w][l])]]
  BY DEF Coherent, Wake
<1>2. ASSUME NEW j \in JobRecord
      PROVE  /\ WokenJob(j) \in JobRecord /\ WokenJob(j).item = j.item /\ WokenJob(j).next = j.next
             /\ WokenJob(j).failed = j.failed /\ WokenJob(j).pc \notin {"heldNext", "heldFinish"}
             /\ \/ WokenJob(j).pc = j.pc
                \/ WokenJob(j).pc = "next" /\ j.pc = "heldNext"
                \/ WokenJob(j).pc = "finish" /\ j.pc = "heldFinish"
  BY DEF WokenJob, JobRecord, JobPc
<1>3. ASSUME NEW x \in LaneRecord
      PROVE  /\ WokenLane(x) \in LaneRecord /\ WokenLane(x).chunk = x.chunk
             /\ WokenLane(x).pc # "held"
             /\ WokenLane(x).pc = x.pc \/ (WokenLane(x).pc = "go" /\ x.pc = "held")
  BY DEF WokenLane, LaneRecord
<1>4. \A w \in Slot : job[w] \in JobRecord /\ \A l \in Lane : lane[w][l] \in LaneRecord
  BY <1>1, Typed
<1>5. job' \in [Slot -> JobRecord] /\ lane' \in [Slot -> [Lane -> LaneRecord]]
  BY <1>1, <1>2, <1>3, <1>4
<1>6. ASSUME NEW w \in Slot
      PROVE  Stays(w) /\ job'[w].pc \notin {"heldNext", "heldFinish"}
             /\ (job[w].pc = "off" => job'[w].pc = "off") /\ \A l \in Lane : lane'[w][l].pc # "held"
  <2>1. job'[w] = WokenJob(job[w]) /\ \A l \in Lane : lane'[w][l] = WokenLane(lane[w][l])
    BY <1>1
  <2>2. PICK j \in JobRecord : j = job[w]
    BY <1>4
  <2>3. /\ job'[w].item = job[w].item /\ job'[w].next = job[w].next /\ job'[w].failed = job[w].failed
        /\ job'[w].pc \notin {"heldNext", "heldFinish"}
        /\ \/ job'[w].pc = job[w].pc
           \/ job'[w].pc = "next" /\ job[w].pc = "heldNext"
           \/ job'[w].pc = "finish" /\ job[w].pc = "heldFinish"
    BY <1>2, <2>1, <2>2
  <2>4. \A l \in Lane : /\ lane'[w][l].chunk = lane[w][l].chunk /\ lane'[w][l].pc # "held"
                        /\ \/ lane'[w][l].pc = lane[w][l].pc
                           \/ lane'[w][l].pc = "go" /\ lane[w][l].pc = "held"
    BY <1>3, <1>4, <2>1
  <2> QED
    BY <2>3, <2>4 DEF Stays, Idle, Finishing
<1>7. NoLostWakeup'
  BY <1>6 DEF NoLostWakeup, At
<1> QED
  BY <1>5, <1>6, <1>7

\* A file is chosen.
LEMMA ChooseStep ==
  ASSUME Coherent, NEW i \in Item, Choose(i), reading' \in BOOLEAN, left' \in Nat,
         UNCHANGED <<run, todo, job, lane, paused, canceling, mounted, Server, wire, forsaken>>
  PROVE  Coherent'
<1>1. TypeOK /\ item[i] \in ItemRecord /\ item[i].state = "new" /\ queue' = queue \cup {i}
  BY Typed DEF Coherent, Choose
<1>2. PICK k \in 0 .. MaxChunks :
        item' = [item EXCEPT ![i] = [item[i] EXCEPT !.state = "pending", !.total = k]]
  BY <1>1 DEF Choose, TypeOK
<1> DEFINE y == [item[i] EXCEPT !.state = "pending", !.total = k]
<1>3. PICK x \in ItemRecord : x = y
  BY <1>1 DEF ItemRecord, State
<1>4. /\ item' \in [Item -> ItemRecord] /\ item'[i] = x
      /\ \A n \in Item : n # i => item'[n] = item[n]
  BY <1>1, <1>2, <1>3 DEF TypeOK
<1>12. /\ x.state = "pending" /\ x.session = item[i].session /\ x.pending = item[i].pending
       /\ x.ctrl = item[i].ctrl /\ x.confirmed = item[i].confirmed
  BY <1>1, <1>3 DEF ItemRecord
<1> HIDE DEF y
<1>5. \A n \in Item : Spared(n)
  BY <1>1, <1>4, <1>12 DEF Spared
<1>6. TypeOK'
  BY <1>1, <1>4 DEF TypeOK, Server
<1>7. Waits' /\ Live'
  <2>1. todo \subseteq Item
    BY <1>1 DEF TypeOK
  <2> QED
    BY <1>1, <1>4, <1>12, <2>1 DEF Coherent, Waits, Live
<1>8. NoLostWakeup'
  BY DEF Coherent, NoLostWakeup, At
<1>9. \A n \in Item : n \in queue' /\ item'[n].ctrl = "none" => item'[n].state \in {"pending", "error", "success"}
  BY <1>1, <1>4, <1>12 DEF Coherent, Shown
<1>10. run' = "none" => \A w \in Slot : job'[w].pc = "off"
  BY DEF Coherent, Held
<1>11. \A w \in Slot : Stays(w)
  BY Still
<1> QED
  BY <1>5, <1>6, <1>7, <1>8, <1>9, <1>10, <1>11, PageStep

\* Only flags of the page and the queue of a run change.
LEMMA FlagStep ==
  ASSUME Coherent, UNCHANGED <<queue, item, mounted, Server, wire, forsaken>>,
         run' \in {"none", "on", "cancelled"}, todo' \subseteq todo, paused' \in BOOLEAN,
         canceling' \in BOOLEAN, reading' \in BOOLEAN, left' \in Nat,
         job' \in [Slot -> JobRecord], lane' \in [Slot -> [Lane -> LaneRecord]],
         \A w \in Slot : Stays(w), NoLostWakeup',
         run' = "none" => \A w \in Slot : job'[w].pc = "off",
         run' = run \/ \A i \in Item : item[i].ctrl # "live"
  PROVE  Coherent'
<1>1. TypeOK
  BY DEF Coherent
<1>2. TypeOK'
  BY <1>1 DEF TypeOK, Server
<1>3. Waits' /\ Live'
  BY DEF Coherent, Waits, Live
<1>4. \A n \in Item : n \in queue' /\ item'[n].ctrl = "none" => item'[n].state \in {"pending", "error", "success"}
  BY DEF Coherent, Shown
<1>5. \A n \in Item : Spared(n)
  BY DEF Spared
<1>6. wire \subseteq wire' /\ \A r \in wire' \ wire : r.kind = "cancel" /\ r.sid # NoSid /\ r.sid = item[r.item].session
  OBVIOUS
<1> QED
  BY <1>2, <1>3, <1>4, <1>5, <1>6, PageStep

\* Nobody holds a file when all file workers are off.
LEMMA NobodyWorks ==
  ASSUME Coherent, \A w \in Slot : job[w].pc = "off"
  PROVE  \A i \in Item : item[i].ctrl = "none"
<1> SUFFICES ASSUME NEW i \in Item, item[i].ctrl # "none" PROVE FALSE
  OBVIOUS
<1>1. PICK w \in Slot : job[w].item = i
  BY DEF Coherent, Held
<1>2. job[w].item = NoItem
  BY DEF Coherent, Held, Idle
<1> QED
  BY <1>1, <1>2, ClientNames

\* The commands that only change a flag of the run, and its end.
LEMMA FlagsStep ==
  ASSUME Coherent, DropBegins \/ PauseAll \/ ResumeAll \/ RunEnds
  PROVE  Coherent'
<1>1. TypeOK
  BY DEF Coherent
<1>2. /\ run \in {"none", "on", "cancelled"} /\ paused \in BOOLEAN /\ canceling \in BOOLEAN /\ reading \in BOOLEAN
      /\ left \in Nat /\ job \in [Slot -> JobRecord] /\ lane \in [Slot -> [Lane -> LaneRecord]]
  BY <1>1 DEF TypeOK
<1>3. run = "none" => \A w \in Slot : job[w].pc = "off"
  BY DEF Coherent, Held
<1>4. Command => left' \in Nat
  BY <1>2 DEF Command
<1>5. CASE DropBegins
  <2>1. /\ UNCHANGED <<queue, item, run, todo, job, lane, paused, canceling, mounted, Server, wire, forsaken>>
        /\ reading' = TRUE /\ left' \in Nat
    BY <1>4, <1>5 DEF DropBegins
  <2>2. NoLostWakeup'
    BY <2>1 DEF Coherent, NoLostWakeup, At
  <2>3. \A w \in Slot : Stays(w)
    BY <2>1, Still
  <2> QED
    BY <1>2, <1>3, <2>1, <2>2, <2>3, FlagStep
<1>6. CASE PauseAll
  <2>1. /\ UNCHANGED <<queue, item, run, todo, job, lane, canceling, mounted, reading, Server, wire, forsaken>>
        /\ paused' = TRUE /\ left' \in Nat
    BY <1>4, <1>6 DEF PauseAll
  <2>2. NoLostWakeup'
    BY <2>1 DEF NoLostWakeup
  <2>3. \A w \in Slot : Stays(w)
    BY <2>1, Still
  <2> QED
    BY <1>2, <1>3, <2>1, <2>2, <2>3, FlagStep
<1>7. CASE ResumeAll
  <2>1. /\ UNCHANGED <<queue, item, run, todo, canceling, mounted, reading, Server, wire, forsaken>>
        /\ paused' = FALSE /\ left' \in Nat /\ Wake
    BY <1>4, <1>7 DEF ResumeAll
  <2>2. /\ \A w \in Slot : Stays(w)
        /\ job' \in [Slot -> JobRecord] /\ lane' \in [Slot -> [Lane -> LaneRecord]]
        /\ NoLostWakeup' /\ \A w \in Slot : job[w].pc = "off" => job'[w].pc = "off"
    BY <2>1, Woken
  <2>3. run' \in {"none", "on", "cancelled"} /\ todo' \subseteq todo /\ paused' \in BOOLEAN
        /\ canceling' \in BOOLEAN /\ reading' \in BOOLEAN
    BY <1>2, <2>1
  <2>4. run' = "none" => \A w \in Slot : job'[w].pc = "off"
    BY <1>3, <2>1, <2>2
  <2>5. UNCHANGED <<queue, item, mounted, Server, wire, forsaken>> /\ run' = run
    BY <2>1
  <2> QED
    BY <2>1, <2>2, <2>3, <2>4, <2>5, FlagStep
<1>8. CASE RunEnds
  <2>1. /\ UNCHANGED <<queue, item, job, lane, paused, mounted, reading, Server, wire, forsaken, left>>
        /\ run' = "none" /\ todo' = {} /\ canceling' \in BOOLEAN /\ \A w \in Slot : job[w].pc = "off"
    BY <1>2, <1>8 DEF RunEnds, At
  <2>2. NoLostWakeup'
    BY <2>1 DEF Coherent, NoLostWakeup, At
  <2>3. \A w \in Slot : Stays(w)
    BY <2>1, Still
  <2>4. \A i \in Item : item[i].ctrl # "live"
    BY <2>1, NobodyWorks
  <2>5. run' \in {"none", "on", "cancelled"} /\ todo' \subseteq todo /\ paused' \in BOOLEAN /\ reading' \in BOOLEAN
        /\ left' \in Nat /\ job' \in [Slot -> JobRecord] /\ lane' \in [Slot -> [Lane -> LaneRecord]]
        /\ canceling' \in BOOLEAN
    BY <1>2, <2>1
  <2>6. run' = "none" => \A w \in Slot : job'[w].pc = "off"
    BY <2>1
  <2>7. UNCHANGED <<queue, item, mounted, Server, wire, forsaken>>
    BY <2>1
  <2> QED
    BY <2>2, <2>3, <2>4, <2>5, <2>6, <2>7, FlagStep
<1> QED
  BY <1>5, <1>6, <1>7, <1>8

\* A file worker between two files.
LEMMA TurnStep ==
  ASSUME Coherent, NEW w \in Slot, WorkerEnds(w) \/ WorkerHolds(w) \/ WorkerSkips(w)
  PROVE  Coherent'
<1>1. TypeOK /\ job[w].pc = "next" /\ job[w] \in JobRecord
  BY JobTyped, Typed DEF Coherent, WorkerEnds, WorkerHolds, WorkerSkips, At
<1>2. /\ run \in {"none", "on", "cancelled"} /\ paused \in BOOLEAN /\ canceling \in BOOLEAN /\ reading \in BOOLEAN
      /\ left \in Nat /\ job \in [Slot -> JobRecord] /\ lane \in [Slot -> [Lane -> LaneRecord]]
  BY <1>1 DEF TypeOK
<1>3. run # "none"
  BY <1>1 DEF Coherent, Held
<1>4. CASE WorkerEnds(w) \/ WorkerHolds(w)
  <2>1. PICK pc \in {"off", "heldNext"} :
          job' = [job EXCEPT ![w].pc = pc] /\ (pc = "heldNext" => paused)
    BY <1>4 DEF WorkerEnds, WorkerHolds, Goto
  <2>2. UNCHANGED <<queue, run, todo, paused, canceling, mounted, reading, left, item, lane, Server, wire, forsaken>>
    BY <1>4 DEF WorkerEnds, WorkerHolds, Page
  <2>3. PICK j \in JobRecord : j = [job[w] EXCEPT !.pc = pc]
    BY <1>1, <2>1, JobTyped DEF JobPc
  <2>4. j.pc = pc /\ j.item = job[w].item
    BY <1>1, <2>1, <2>3 DEF JobRecord
  <2>5. /\ job' \in [Slot -> JobRecord] /\ job'[w] = j /\ \A v \in Slot : v # w => job'[v] = job[v]
    BY <1>2, <2>1, <2>3
  <2>6. \A v \in Slot : Stays(v)
    BY <1>1, <2>1, <2>2, <2>4, <2>5 DEF Stays, Idle
  <2>7. NoLostWakeup'
    BY <2>1, <2>2, <2>4, <2>5 DEF Coherent, NoLostWakeup, At
  <2> QED
    BY <1>2, <1>3, <2>2, <2>5, <2>6, <2>7, FlagStep
<1>5. CASE WorkerSkips(w)
  <2>1. /\ UNCHANGED <<queue, item, run, job, lane, paused, canceling, mounted, reading, Server, wire,
                       forsaken, left>>
        /\ todo' \subseteq todo
    BY <1>5 DEF WorkerSkips
  <2>2. NoLostWakeup'
    BY <2>1 DEF Coherent, NoLostWakeup, At
  <2>3. \A v \in Slot : Stays(v)
    BY <2>1, Still
  <2> QED
    BY <1>2, <1>3, <2>1, <2>2, <2>3, FlagStep
<1> QED
  BY <1>4, <1>5

\* A run is started: nobody works.
LEMMA StartStep ==
  ASSUME Coherent, NEW files \in SUBSET queue, \A i \in files : Startable(i), StartUploads(files), Command
  PROVE  Coherent'
<1>1. TypeOK /\ run = "none" /\ run' = "on" /\ todo' = files /\ paused' = FALSE
      /\ job' = [w \in Slot |-> NextJob]
      /\ UNCHANGED <<queue, item, lane, canceling, mounted, reading, Server, wire, forsaken>>
  BY DEF Coherent, StartUploads
<1>2. \A w \in Slot : job[w].pc = "off" /\ job[w].item = NoItem
  BY <1>1 DEF Coherent, Held, Idle
<1>3. \A i \in Item : item[i].ctrl = "none"
  BY <1>2, NobodyWorks
<1>4. NextJob.pc = "next" /\ NextJob.item = NoItem /\ NextJob \in JobRecord
  BY JobTyped DEF NextJob, NoJob
<1>5. \A w \in Slot : Stays(w)
  BY <1>1, <1>2, <1>4 DEF Stays, Idle
<1>6. TypeOK'
  <2>1. left' \in Nat
    BY <1>1 DEF Command, TypeOK
  <2>2. job' \in [Slot -> JobRecord] /\ todo' \subseteq Item
    BY <1>1, <1>4 DEF TypeOK
  <2> QED
    BY <1>1, <2>1, <2>2 DEF TypeOK, Server
<1>7. Waits' /\ Live'
  BY <1>1, <1>3 DEF Waits, Live, Startable, TypeOK
<1>8. NoLostWakeup'
  BY <1>1, <1>4 DEF NoLostWakeup, At
<1>9. \A n \in Item : n \in queue' /\ item'[n].ctrl = "none" => item'[n].state \in {"pending", "error", "success"}
  BY <1>1 DEF Coherent, Shown
<1>10. \A n \in Item : Spared(n)
  BY <1>1 DEF Spared
<1>11. UNCHANGED <<Server, forsaken>> /\ wire \subseteq wire'
       /\ \A r \in wire' \ wire : r.kind = "cancel" /\ r.sid # NoSid /\ r.sid = item[r.item].session
  BY <1>1
<1>12. run' = "none" => \A w \in Slot : job'[w].pc = "off"
  BY <1>1
<1> QED
  BY <1>5, <1>6, <1>7, <1>8, <1>9, <1>10, <1>11, <1>12, PageStep

\* The cancellations of the sessions of some files.
LEMMA CleanupSent ==
  ASSUME Coherent, NEW items \in SUBSET Item
  PROVE  /\ Cleanup(items) \subseteq Request
         /\ \A r \in Cleanup(items) : r.kind = "cancel" /\ r.sid # NoSid /\ r.sid = item[r.item].session
<1> SUFFICES ASSUME NEW r \in Cleanup(items)
             PROVE  r \in Request /\ r.kind = "cancel" /\ r.sid # NoSid /\ r.sid = item[r.item].session
  OBVIOUS
<1>1. PICK i \in items : r = CancelOf(i, item[i].session) /\ item[i].session # NoSid
  BY DEF Cleanup
<1>2. i \in Item /\ item[i].session \in Sid
  BY <1>1, Typed, ItemTyped DEF Coherent
<1> QED
  BY <1>1, <1>2, Requests

\* What is given away are sessions.
LEMMA DesertedTyped ==
  ASSUME TypeOK, NEW items \in SUBSET Item
  PROVE  Deserted(items) \subseteq Sid
<1>1. \A i \in items : item[i].session \in Sid \cup {NoSid}
  BY Typed, ItemTyped
<1> QED
  BY <1>1 DEF Deserted

\* Controllers are cancelled, as stopItem does, whatever it shows.
LEMMA StopStep ==
  ASSUME Coherent, UNCHANGED <<todo, reading, Server>>, queue' \subseteq queue,
         forsaken \subseteq forsaken', forsaken' \subseteq Sid,
         item' \in [Item -> ItemRecord],
         \A i \in Item : \/ item'[i] = item[i] /\ (item[i].ctrl = "live" => run' = "on" /\ mounted' /\ i \in queue')
                         \/ /\ item[i].ctrl # "none" /\ item'[i].ctrl = "cancelled"
                            /\ item'[i].session = item[i].session /\ item'[i].pending = item[i].pending
                            /\ item'[i].confirmed = item[i].confirmed
                            /\ item'[i].state \in {item[i].state, "canceling"},
         run' \in {run, "cancelled"}, run' = "none" => run = "none",
         paused' \in BOOLEAN, canceling' \in BOOLEAN, mounted' \in BOOLEAN, left' \in Nat,
         job' \in [Slot -> JobRecord], lane' \in [Slot -> [Lane -> LaneRecord]],
         \A w \in Slot : Stays(w), NoLostWakeup',
         \A w \in Slot : job[w].pc = "off" => job'[w].pc = "off",
         wire \subseteq wire', wire' \subseteq Request,
         \A r \in wire' \ wire : r.kind = "cancel" /\ r.sid # NoSid /\ r.sid = item[r.item].session
  PROVE  Coherent'
<1>1. TypeOK
  BY DEF Coherent
<1>2. TypeOK'
  BY <1>1 DEF TypeOK, Server
<1>3. ASSUME NEW i \in Item PROVE Spared(i)
  <2>1. CASE item'[i] = item[i]
    BY <2>1 DEF Spared
  <2>2. CASE item'[i] # item[i]
    <3>1. item[i].ctrl # "none" /\ item[i].state # "success"
      BY <2>2 DEF Coherent, Shown
    <3> QED
      BY <2>2, <3>1 DEF Spared
  <2> QED
    BY <2>1, <2>2
<1>4. Waits'
  BY <1>1 DEF Coherent, Waits, TypeOK
<1>5. Live'
  BY DEF Live
<1>6. \A n \in Item : n \in queue' /\ item'[n].ctrl = "none" => item'[n].state \in {"pending", "error", "success"}
  BY DEF Coherent, Shown
<1>7. run' = "none" => \A w \in Slot : job'[w].pc = "off"
  BY DEF Coherent, Held
<1> QED
  BY <1>2, <1>3, <1>4, <1>5, <1>6, <1>7, PageStep

\* An item as stopItem leaves it.
LEMMA StoppedTyped ==
  ASSUME NEW x \in ItemRecord
  PROVE  /\ StoppedItem(x) \in ItemRecord
         /\ \/ StoppedItem(x) = x /\ x.ctrl = "none"
            \/ /\ x.ctrl # "none" /\ StoppedItem(x).ctrl = "cancelled"
               /\ StoppedItem(x).session = x.session /\ StoppedItem(x).pending = x.pending
               /\ StoppedItem(x).confirmed = x.confirmed /\ StoppedItem(x).state = x.state
  BY DEF StoppedItem, ItemRecord, Ctrl

\* Cancelling everything stops every file in the queue.
LEMMA CancelAllStep ==
  ASSUME Coherent, CancelAll
  PROVE  Coherent'
<1>1. /\ TypeOK /\ run' = "cancelled" /\ canceling' = TRUE /\ paused' = FALSE /\ Wake
      /\ UNCHANGED <<queue, todo, mounted, reading, Server, wire, forsaken>> /\ left' \in Nat
      /\ run # "none"
  <2>1. TypeOK /\ left \in Nat
    BY DEF Coherent, TypeOK
  <2>2. /\ run' = "cancelled" /\ canceling' = TRUE /\ paused' = FALSE /\ Wake
        /\ UNCHANGED <<queue, todo, mounted, reading, Server, wire, forsaken>> /\ run # "none"
        /\ left > 0 /\ left' = left - 1
    BY DEF CancelAll, Command
  <2> QED
    BY <2>1, <2>2
<1>2. mounted \in BOOLEAN /\ wire \subseteq Request /\ \A i \in Item : item[i] \in ItemRecord
  BY <1>1, Typed DEF TypeOK
<1>3. ASSUME NEW i \in Item, i \in queue, item[i].ctrl # "none"
      PROVE  /\ item'[i] \in ItemRecord /\ item'[i].ctrl = "cancelled"
             /\ item'[i].session = item[i].session /\ item'[i].pending = item[i].pending
             /\ item'[i].confirmed = item[i].confirmed /\ item'[i].state = "canceling"
  <2>1. item'[i] = [item[i] EXCEPT !.ctrl = "cancelled", !.state = "canceling"]
    BY <1>3 DEF CancelAll
  <2>2. PICK x \in ItemRecord : x = item[i]
    BY <1>2
  <2>3. [x EXCEPT !.ctrl = "cancelled", !.state = "canceling"] \in ItemRecord
    BY DEF ItemRecord, Ctrl, State
  <2> QED
    BY <2>1, <2>2, <2>3 DEF ItemRecord
<1>4. ASSUME NEW i \in Item, ~(i \in queue /\ item[i].ctrl # "none")
      PROVE  item'[i] = item[i] /\ item[i].ctrl # "live"
  <2>1. item'[i] = item[i]
    BY <1>4 DEF CancelAll
  <2> QED
    BY <1>4, <2>1 DEF Coherent, Live
<1>5. item' \in [Item -> ItemRecord]
  <2>1. item' = [i \in Item |-> item'[i]]
    BY DEF CancelAll
  <2> QED
    BY <1>2, <1>3, <1>4, <2>1
<1>6. /\ \A w \in Slot : Stays(w)
      /\ job' \in [Slot -> JobRecord] /\ lane' \in [Slot -> [Lane -> LaneRecord]]
      /\ NoLostWakeup' /\ \A w \in Slot : job[w].pc = "off" => job'[w].pc = "off"
  BY <1>1, Woken
<1>7. \A i \in Item : \/ item'[i] = item[i] /\ (item[i].ctrl = "live" => run' = "on" /\ mounted' /\ i \in queue')
                      \/ /\ item[i].ctrl # "none" /\ item'[i].ctrl = "cancelled"
                         /\ item'[i].session = item[i].session /\ item'[i].pending = item[i].pending
                         /\ item'[i].confirmed = item[i].confirmed
                         /\ item'[i].state \in {item[i].state, "canceling"}
  BY <1>3, <1>4
<1>8. forsaken \subseteq forsaken' /\ forsaken' \subseteq Sid
  BY <1>1 DEF TypeOK
<1> QED
  BY <1>1, <1>2, <1>5, <1>6, <1>7, <1>8, StopStep

\* A reset empties the queue, and cleans up after the files whose session was
\* still being asked for.
LEMMA ResetAllStep ==
  ASSUME Coherent, ResetAll
  PROVE  Coherent'
<1>1. /\ TypeOK /\ run = "none" /\ paused' = FALSE /\ Wake /\ queue' = {}
      /\ UNCHANGED <<item, run, todo, canceling, mounted, reading, Server, forsaken>> /\ left' \in Nat
      /\ wire' = wire \cup Cleanup({i \in queue : item[i].pending})
  BY DEF Coherent, ResetAll, Command, TypeOK
<1>2. /\ mounted \in BOOLEAN /\ canceling \in BOOLEAN /\ wire \subseteq Request /\ item \in [Item -> ItemRecord]
      /\ {i \in queue : item[i].pending} \in SUBSET Item
  BY <1>1 DEF TypeOK
<1>3. wire' \subseteq Request
      /\ \A r \in wire' \ wire : r.kind = "cancel" /\ r.sid # NoSid /\ r.sid = item[r.item].session
  BY <1>1, <1>2, CleanupSent
<1>4. /\ \A w \in Slot : Stays(w)
      /\ job' \in [Slot -> JobRecord] /\ lane' \in [Slot -> [Lane -> LaneRecord]]
      /\ NoLostWakeup' /\ \A w \in Slot : job[w].pc = "off" => job'[w].pc = "off"
  BY <1>1, Woken
<1>5. \A i \in Item : item[i].ctrl # "live"
  BY <1>1 DEF Coherent, Live
<1>6. forsaken \subseteq forsaken' /\ forsaken' \subseteq Sid
  BY <1>1 DEF TypeOK
<1> QED
  BY <1>1, <1>2, <1>3, <1>4, <1>5, <1>6, StopStep

\* Removing one file stops it, wherever its worker is.
LEMMA RemoveItemStep ==
  ASSUME Coherent, NEW i \in Item, RemoveItem(i)
  PROVE  Coherent'
<1>1. /\ TypeOK /\ item' = [item EXCEPT ![i] = StoppedItem(item[i])] /\ queue' = queue \ {i}
      /\ wire' = wire \cup Cleanup({j \in {i} : item[j].pending /\ item[j].ctrl = "none"})
      /\ UNCHANGED <<run, todo, job, lane, paused, canceling, mounted, reading, Server>>
      /\ forsaken' = forsaken \cup Deserted({j \in {i} : item[j].ctrl # "none"})
      /\ left' \in Nat
  BY DEF Coherent, RemoveItem, Command, TypeOK
<1>2. /\ mounted \in BOOLEAN /\ canceling \in BOOLEAN /\ paused \in BOOLEAN /\ wire \subseteq Request
      /\ item[i] \in ItemRecord
      /\ job' \in [Slot -> JobRecord] /\ lane' \in [Slot -> [Lane -> LaneRecord]]
  BY <1>1 DEF TypeOK
<1>3. wire' \subseteq Request
      /\ \A r \in wire' \ wire : r.kind = "cancel" /\ r.sid # NoSid /\ r.sid = item[r.item].session
  <2>1. {j \in {i} : item[j].pending /\ item[j].ctrl = "none"} \in SUBSET Item
    OBVIOUS
  <2> QED
    BY <1>1, <1>2, <2>1, CleanupSent
<1>4. /\ item' \in [Item -> ItemRecord] /\ item'[i] = StoppedItem(item[i])
      /\ \A k \in Item : k # i => item'[k] = item[k]
  BY <1>1, <1>2, StoppedTyped DEF TypeOK
<1>5. \A k \in Item : \/ item'[k] = item[k] /\ (item[k].ctrl = "live" => run' = "on" /\ mounted' /\ k \in queue')
                      \/ /\ item[k].ctrl # "none" /\ item'[k].ctrl = "cancelled"
                         /\ item'[k].session = item[k].session /\ item'[k].pending = item[k].pending
                         /\ item'[k].confirmed = item[k].confirmed
                         /\ item'[k].state \in {item[k].state, "canceling"}
  <2> SUFFICES ASSUME NEW k \in Item
      PROVE \/ item'[k] = item[k] /\ (item[k].ctrl = "live" => run' = "on" /\ mounted' /\ k \in queue')
            \/ /\ item[k].ctrl # "none" /\ item'[k].ctrl = "cancelled"
               /\ item'[k].session = item[k].session /\ item'[k].pending = item[k].pending
               /\ item'[k].confirmed = item[k].confirmed
               /\ item'[k].state \in {item[k].state, "canceling"}
    OBVIOUS
  <2>1. CASE k = i
    BY <1>2, <1>4, <2>1, StoppedTyped
  <2>2. CASE k # i
    BY <1>1, <1>4, <2>2 DEF Coherent, Live
  <2> QED
    BY <2>1, <2>2
<1>6. \A w \in Slot : Stays(w)
  BY <1>1, Still
<1>7. NoLostWakeup'
  BY <1>1 DEF Coherent, NoLostWakeup, At
<1>8. forsaken \subseteq forsaken' /\ forsaken' \subseteq Sid
  <2>1. {j \in {i} : item[j].ctrl # "none"} \in SUBSET Item
    OBVIOUS
  <2> QED
    BY <1>1, <2>1, DesertedTyped DEF TypeOK
<1> QED
  BY <1>1, <1>2, <1>3, <1>4, <1>5, <1>6, <1>7, <1>8, StopStep

\* Leaving the page stops every file.
LEMMA LeaveStep ==
  ASSUME Coherent, Leave
  PROVE  Coherent'
<1>1. /\ TypeOK /\ mounted' = FALSE /\ run' = (IF run = "none" THEN run ELSE "cancelled") /\ Wake
      /\ UNCHANGED <<queue, todo, paused, canceling, reading, Server, wire, left>>
      /\ forsaken' = forsaken \cup Deserted(queue)
      /\ item' = [i \in Item |-> IF i \in queue THEN StoppedItem(item[i]) ELSE item[i]]
  BY DEF Coherent, Leave
<1>2. /\ canceling \in BOOLEAN /\ paused \in BOOLEAN /\ left \in Nat /\ wire \subseteq Request
      /\ \A i \in Item : item[i] \in ItemRecord
  BY <1>1, Typed DEF TypeOK
<1>3. \A i \in Item : item'[i] = IF i \in queue THEN StoppedItem(item[i]) ELSE item[i]
  BY <1>1
<1>4. item' \in [Item -> ItemRecord]
  BY <1>1, <1>2, StoppedTyped
<1>5. \A k \in Item : \/ item'[k] = item[k] /\ (item[k].ctrl = "live" => run' = "on" /\ mounted' /\ k \in queue')
                      \/ /\ item[k].ctrl # "none" /\ item'[k].ctrl = "cancelled"
                         /\ item'[k].session = item[k].session /\ item'[k].pending = item[k].pending
                         /\ item'[k].confirmed = item[k].confirmed
                         /\ item'[k].state \in {item[k].state, "canceling"}
  <2> SUFFICES ASSUME NEW k \in Item
      PROVE \/ item'[k] = item[k] /\ (item[k].ctrl = "live" => run' = "on" /\ mounted' /\ k \in queue')
            \/ /\ item[k].ctrl # "none" /\ item'[k].ctrl = "cancelled"
               /\ item'[k].session = item[k].session /\ item'[k].pending = item[k].pending
               /\ item'[k].confirmed = item[k].confirmed
               /\ item'[k].state \in {item[k].state, "canceling"}
    OBVIOUS
  <2>1. CASE k \in queue
    BY <1>2, <1>3, <2>1, StoppedTyped
  <2>2. CASE k \notin queue
    BY <1>3, <2>2 DEF Coherent, Live
  <2> QED
    BY <2>1, <2>2
<1>6. /\ \A w \in Slot : Stays(w)
      /\ job' \in [Slot -> JobRecord] /\ lane' \in [Slot -> [Lane -> LaneRecord]]
      /\ NoLostWakeup' /\ \A w \in Slot : job[w].pc = "off" => job'[w].pc = "off"
  BY <1>1, Woken
<1>7. run' \in {run, "cancelled"} /\ (run' = "none" => run = "none") /\ queue' \subseteq queue
      /\ paused' \in BOOLEAN /\ canceling' \in BOOLEAN /\ mounted' \in BOOLEAN /\ left' \in Nat
      /\ UNCHANGED <<todo, reading, Server>> /\ wire' = wire
  BY <1>1, <1>2
<1>8. forsaken \subseteq forsaken' /\ forsaken' \subseteq Sid
  <2>1. queue \in SUBSET Item
    BY <1>1 DEF TypeOK
  <2> QED
    BY <1>1, <2>1, DesertedTyped DEF TypeOK
<1> QED
  BY <1>2, <1>4, <1>5, <1>6, <1>7, <1>8, StopStep
-----------------------------------------------------------------------------
(* The chunk workers.                                                      *)

\* A chunk worker turns to y; the transfer stays among its chunks.
LEMMA ChunkWorkerStep ==
  ASSUME Coherent, NEW w \in Slot, NEW l \in Lane, job[w].pc = "lanes", NEW i, i = job[w].item,
         UNCHANGED <<Page, Server, forsaken>>,
         NEW j \in JobRecord, NEW x \in ItemRecord, NEW y \in LaneRecord,
         Takes(w, i, j, x, [lane[w] EXCEPT ![l] = y]),
         j.item = i, j.pc = "lanes", job[w].failed => j.failed,
         x.ctrl # "none", x.ctrl = "live" => item[i].ctrl = "live", x.state # "success",
         x.session = item[i].session, x.confirmed = item[i].confirmed, x.pending = item[i].pending,
         j.next <= length[item[i].session],
         y.chunk = NoChunk \/ y.chunk < j.next,
         y.pc \in {"sent", "delay"} => y.chunk # NoChunk,
         y.pc = "ended" => y.chunk = NoChunk /\ (j.failed \/ j.next = length[item[i].session]),
         j.failed \/ lane[w][l].chunk \in {NoChunk, y.chunk},
         j.next = job[w].next \/ (j.next = job[w].next + 1 /\ y.chunk = job[w].next),
         ~paused => y.pc # "held",
         wire' \subseteq Request,
         \A r \in wire' \ wire : /\ r.item = i /\ r.sid = x.session
                                 /\ r.kind = "chunk" /\ r.chunk \in 0 .. length[r.sid] - 1,
         \A r \in wire \ wire' : r.kind # "cancel"
  PROVE  Coherent'
<1>1. /\ i \in Item /\ item[i] \in ItemRecord /\ item[i].state # "success"
      /\ Progress(w) /\ job[w] \in JobRecord
      /\ lane[w] \in [Lane -> LaneRecord] /\ TypeOK
      /\ ~paused => \A m \in Lane : lane[w][m].pc # "held"
  BY Holder DEF Idle
<1>2. Lanes(w) /\ item[i].session # NoSid /\ ~item[i].pending
  BY <1>1 DEF Progress
<1> DEFINE ls == [lane[w] EXCEPT ![l] = y]
<1>3. /\ ls \in [Lane -> LaneRecord] /\ ls[l] = y
      /\ \A m \in Lane : m # l => ls[m] = lane[w][m]
  BY <1>1
<1>4. job'[w] = j /\ item'[i] = x /\ lane'[w] = ls
  BY <1>1 DEF Takes, TypeOK
<1> HIDE DEF ls
<1> DEFINE n == length[item[i].session]
<1>5. length' = length /\ item[i].session \in Sid
  BY <1>1, <1>2, ItemTyped DEF Server
<1>6. n \in Int /\ job[w].next \in Int /\ j.next \in Int
  BY <1>1, <1>5, Typed, JobTyped, ClientBounds
<1>7. Lanes(w)'
  <2>1. n = length'[item'[job'[w].item].session]
    BY <1>4, <1>5
  <2>2. \A m \in Lane :
           /\ ls[m].chunk = NoChunk \/ ls[m].chunk < j.next
           /\ ls[m].pc \in {"sent", "delay"} => ls[m].chunk # NoChunk
           /\ ls[m].pc = "ended" => ls[m].chunk = NoChunk /\ (j.failed \/ j.next = n)
    <3> SUFFICES ASSUME NEW m \in Lane
                 PROVE  /\ ls[m].chunk = NoChunk \/ ls[m].chunk < j.next
                        /\ ls[m].pc \in {"sent", "delay"} => ls[m].chunk # NoChunk
                        /\ ls[m].pc = "ended" => ls[m].chunk = NoChunk /\ (j.failed \/ j.next = n)
      OBVIOUS
    <3>1. CASE m = l
      BY <1>3, <3>1
    <3>2. CASE m # l
      <4>1. /\ lane[w][m].chunk = NoChunk \/ lane[w][m].chunk < job[w].next
            /\ lane[w][m].pc \in {"sent", "delay"} => lane[w][m].chunk # NoChunk
            /\ lane[w][m].pc = "ended" => lane[w][m].chunk = NoChunk /\ (job[w].failed \/ job[w].next = n)
        BY SMTT(30), <1>2 DEF Lanes
      <4>2. lane[w][m].chunk \in Int
        <5>1. lane[w][m] \in LaneRecord
          BY <1>1
        <5>2. lane[w][m].chunk \in Chunk \cup {NoChunk}
          BY <5>1, LaneTyped
        <5> QED
          BY <5>2 DEF Chunk, NoChunk
      <4>3. ls[m] = lane[w][m]
        BY <1>3, <3>2
      <4> QED
        BY <1>6, <4>1, <4>2, <4>3
    <3> QED
      BY <3>1, <3>2
  <2>3. ASSUME ~j.failed, NEW c \in 0 .. j.next - 1
        PROVE  c \in x.confirmed \/ \E m \in Lane : ls[m].chunk = c
    <3>1. CASE c = job[w].next
      BY <1>3, <1>6, <2>3, <3>1
    <3>2. CASE c # job[w].next
      <4>1. c \in 0 .. job[w].next - 1
        BY <1>6, <2>3, <3>2
      <4>2. c \in item[i].confirmed \/ \E m \in Lane : lane[w][m].chunk = c
        BY <1>2, <2>3, <4>1 DEF Lanes
      <4>3. ASSUME NEW m \in Lane, lane[w][m].chunk = c PROVE ls[m].chunk = c
        <5>1. c # NoChunk
          BY DEF NoChunk
        <5> QED
          BY <1>3, <2>3, <4>3, <5>1
      <4> QED
        BY <4>2, <4>3
    <3> QED
      BY <3>1, <3>2
  <2>4. j.next <= n
    OBVIOUS
  <2> QED
    BY <1>4, <2>1, <2>2, <2>3, <2>4 DEF Lanes
<1>8. Progress(w)'
  BY <1>2, <1>4, <1>7 DEF Progress, Finishing, Asked
<1>9. ~paused => j.pc # "heldFinish" /\ (j.pc = "lanes" => \A m \in Lane : ls[m].pc # "held")
  BY <1>1, <1>3
<1>10. \A r \in wire' \ wire : /\ r.item = i /\ r.sid = x.session /\ r.sid # NoSid
                               /\ r.kind = "chunk" => r.chunk \in 0 .. length[r.sid] - 1
                               /\ r.kind = "complete" => x.pending
  BY <1>2
<1>11. Takes(w, i, j, x, ls)
  BY DEF ls
<1>12. job[w].pc \notin Idle /\ j.pc \notin Idle
  BY DEF Idle
<1>13. (item[i].pending => x.pending) /\ (x.pending => x.session # NoSid /\ Whole(x.session, i))
  BY <1>2
<1> QED
  BY <1>1, <1>3, <1>8, <1>9, <1>10, <1>11, <1>12, <1>13, TransferStep

\* What a chunk worker stands before.
LEMMA AtChunk ==
  ASSUME Coherent, NEW w \in Slot, NEW l \in Lane, job[w].pc = "lanes", NEW i, i = job[w].item
  PROVE  /\ TypeOK /\ i \in Item /\ item[i] \in ItemRecord /\ job[w] \in JobRecord /\ lane[w][l] \in LaneRecord
         /\ lane[w] \in [Lane -> LaneRecord]
         /\ item[i].ctrl # "none" /\ item[i].state # "success" /\ ~item[i].pending
         /\ item[i].session \in Sid /\ item[i].session # NoSid /\ owner[item[i].session] = i
         /\ length[item[i].session] \in 0 .. MaxChunks /\ job[w].next \in Nat
         /\ job[w].next <= length[item[i].session]
         /\ lane[w][l].chunk \in Int /\ (lane[w][l].chunk = NoChunk \/ lane[w][l].chunk < job[w].next)
         /\ lane[w][l].chunk # NoChunk => lane[w][l].chunk \in 0 .. length[item[i].session] - 1
         /\ lane[w][l].pc \in {"sent", "delay"} => lane[w][l].chunk # NoChunk
         /\ ~paused => \A m \in Lane : lane[w][m].pc # "held"
<1>1. /\ i \in Item /\ item[i] \in ItemRecord /\ item[i].ctrl # "none" /\ item[i].state # "success"
      /\ Progress(w) /\ job[w] \in JobRecord /\ TypeOK /\ ItemTrue(i, item[i])
      /\ lane[w] \in [Lane -> LaneRecord] /\ (~paused => \A m \in Lane : lane[w][m].pc # "held")
  BY Holder DEF Idle
<1>2. Lanes(w) /\ item[i].session # NoSid /\ ~item[i].pending
  BY <1>1 DEF Progress
<1>3. item[i].session \in Sid /\ owner[item[i].session] = i
  BY <1>1, <1>2, ItemTyped DEF ItemTrue
<1>4. length[item[i].session] \in 0 .. MaxChunks /\ job[w].next \in Nat
  BY <1>1, <1>3, Typed, JobTyped
<1>5. lane[w][l] \in LaneRecord
  BY <1>1
<1>6. lane[w][l].chunk \in Chunk \cup {NoChunk}
  BY <1>5, LaneTyped
<1>7. lane[w][l].chunk \in Int /\ (lane[w][l].chunk # NoChunk => lane[w][l].chunk >= 0)
  BY <1>6, ClientBounds DEF Chunk, NoChunk
<1>8. /\ job[w].next <= length[item[i].session]
      /\ lane[w][l].chunk = NoChunk \/ lane[w][l].chunk < job[w].next
      /\ lane[w][l].pc \in {"sent", "delay"} => lane[w][l].chunk # NoChunk
  BY <1>2 DEF Lanes
<1> QED
  BY <1>1, <1>2, <1>3, <1>4, <1>5, <1>7, <1>8, ClientBounds

\* A chunk worker throws.
LEMMA ThrowStep ==
  ASSUME Coherent, NEW w \in Slot, NEW l \in Lane, job[w].pc = "lanes", LaneThrows(w, l),
         UNCHANGED <<Page, Server, forsaken>>, wire' \subseteq wire,
         \A r \in wire \ wire' : r.kind # "cancel"
  PROVE  Coherent'
<1> DEFINE i == job[w].item
           c == IF item[i].ctrl = "live" THEN "failed" ELSE item[i].ctrl
<1>1. /\ TypeOK /\ i \in Item /\ item[i] \in ItemRecord /\ job[w] \in JobRecord
      /\ lane[w] \in [Lane -> LaneRecord]
      /\ item[i].ctrl # "none" /\ item[i].state # "success"
      /\ length[item[i].session] \in 0 .. MaxChunks /\ job[w].next \in Nat
      /\ job[w].next <= length[item[i].session]
  BY AtChunk
<1>2. c \in Ctrl /\ c # "none" /\ c # "live"
  BY <1>1, ItemTyped DEF Ctrl
<1>3. job' = [job EXCEPT ![w] = [job[w] EXCEPT !.failed = TRUE]]
      /\ item' = [item EXCEPT ![i] = [item[i] EXCEPT !.ctrl = c]]
      /\ lane' = [lane EXCEPT ![w] = [lane[w] EXCEPT ![l] = EndedLane]]
  BY <1>1 DEF LaneThrows, TypeOK
<1>4. PICK j \in JobRecord : j = [job[w] EXCEPT !.failed = TRUE]
  BY <1>1, JobTyped
<1>5. j.item = i /\ j.pc = "lanes" /\ j.failed /\ j.next = job[w].next
  BY <1>1, <1>4 DEF JobRecord
<1>6. PICK x \in ItemRecord : x = [item[i] EXCEPT !.ctrl = c]
  BY <1>1, <1>2, ItemTyped
<1>7. /\ x.ctrl = c /\ x.state = item[i].state /\ x.session = item[i].session
      /\ x.confirmed = item[i].confirmed /\ x.pending = item[i].pending
  BY <1>1, <1>6 DEF ItemRecord
<1>8. Takes(w, i, j, x, [lane[w] EXCEPT ![l] = EndedLane])
  BY <1>3, <1>4, <1>6 DEF Takes
<1>9. EndedLane \in LaneRecord /\ EndedLane.pc = "ended" /\ EndedLane.chunk = NoChunk
  BY LaneTyped DEF EndedLane
<1>10. wire' \subseteq Request
  BY <1>1 DEF TypeOK
<1>11. /\ x.ctrl # "none" /\ (x.ctrl = "live" => item[i].ctrl = "live") /\ x.state # "success"
       /\ j.next <= length[item[i].session]
  BY <1>1, <1>2, <1>5, <1>7
<1> HIDE DEF i, c
<1>12. i = job[w].item
  BY DEF i
<1> QED
  BY <1>5, <1>7, <1>8, <1>9, <1>10, <1>11, <1>12, ChunkWorkerStep

\* What chunk worker l turns to, and what the file shows of it.
Turns(w, l, y) == lane' = [lane EXCEPT ![w][l] = y]
Shows(i, st) == item' \in {item, [item EXCEPT ![i].state = st]}

\* A chunk worker turns to y with the chunk it has, and the file shows it.
LEMMA LaneTurn ==
  ASSUME Coherent, NEW w \in Slot, NEW l \in Lane, job[w].pc = "lanes", NEW i, i = job[w].item,
         UNCHANGED <<Page, Server, forsaken>>, job' = job,
         NEW y \in LaneRecord, Turns(w, l, y),
         NEW st \in State, st # "success", Shows(i, st),
         y.chunk = lane[w][l].chunk, y.pc \in {"sent", "delay"} => y.chunk # NoChunk,
         y.pc = "ended" => y.chunk = NoChunk /\ job[w].next = length[item[i].session],
         ~paused => y.pc # "held",
         wire' \subseteq Request,
         \A r \in wire' \ wire : /\ r.item = i /\ r.sid = item[i].session
                                 /\ r.kind = "chunk" /\ r.chunk \in 0 .. length[r.sid] - 1,
         \A r \in wire \ wire' : r.kind # "cancel"
  PROVE  Coherent'
<1>1. /\ TypeOK /\ i \in Item /\ item[i] \in ItemRecord /\ job[w] \in JobRecord
      /\ lane[w] \in [Lane -> LaneRecord]
      /\ item[i].ctrl # "none" /\ item[i].state # "success"
      /\ length[item[i].session] \in 0 .. MaxChunks /\ job[w].next \in Nat
      /\ job[w].next <= length[item[i].session]
      /\ lane[w][l].chunk = NoChunk \/ lane[w][l].chunk < job[w].next
  BY AtChunk
<1>2. PICK x \in ItemRecord : /\ item' = [item EXCEPT ![i] = x] /\ x.ctrl = item[i].ctrl /\ x.state # "success"
                              /\ x.session = item[i].session /\ x.confirmed = item[i].confirmed
                              /\ x.pending = item[i].pending
  <2>1. CASE item' = item
    <3>1. item' = [item EXCEPT ![i] = item[i]]
      BY <1>1, <2>1 DEF TypeOK
    <3> QED
      BY <1>1, <3>1
  <2>2. CASE item' = [item EXCEPT ![i].state = st]
    <3> DEFINE x == [item[i] EXCEPT !.state = st]
    <3>1. x \in ItemRecord
      BY <1>1, ItemTyped
    <3>2. /\ x.ctrl = item[i].ctrl /\ x.state = st /\ x.session = item[i].session
          /\ x.confirmed = item[i].confirmed /\ x.pending = item[i].pending
      BY <1>1 DEF ItemRecord
    <3>3. item' = [item EXCEPT ![i] = x]
      BY <1>1, <2>2 DEF TypeOK
    <3> HIDE DEF x
    <3> QED
      BY <3>1, <3>2, <3>3
  <2> QED
    BY <2>1, <2>2 DEF Shows
<1>3. Takes(w, i, job[w], x, [lane[w] EXCEPT ![l] = y])
  <2>1. job' = [job EXCEPT ![w] = job[w]]
    BY <1>1 DEF TypeOK
  <2>2. lane' = [lane EXCEPT ![w] = [lane[w] EXCEPT ![l] = y]]
    BY <1>1 DEF TypeOK, Turns
  <2> QED
    BY <1>2, <2>1, <2>2 DEF Takes
<1>4. /\ x.ctrl # "none" /\ (x.ctrl = "live" => item[i].ctrl = "live")
      /\ y.chunk = NoChunk \/ y.chunk < job[w].next
      /\ lane[w][l].chunk \in {NoChunk, y.chunk}
      /\ y.pc = "ended" => y.chunk = NoChunk /\ (job[w].failed \/ job[w].next = length[item[i].session])
  BY <1>1, <1>2
<1>5. \A r \in wire' \ wire : /\ r.item = i /\ r.sid = x.session
                              /\ r.kind = "chunk" /\ r.chunk \in 0 .. length[r.sid] - 1
  BY <1>2
<1> QED
  BY <1>1, <1>2, <1>3, <1>4, <1>5, ChunkWorkerStep

\* The steps a chunk worker takes with the chunk it has, or without one.
LEMMA LaneTurns ==
  ASSUME Coherent, NEW w \in Slot, NEW l \in Lane,
         LaneEnds(w, l) \/ LaneHolds(w, l) \/ LaneResends(w, l) \/ LaneWaitEnds(w, l)
  PROVE  Coherent'
<1>1. PICK i : i = job[w].item
  OBVIOUS
<1>2. PICK x : x = lane[w][l]
  OBVIOUS
<1>3. job[w].pc = "lanes"
  BY DEF LaneEnds, LaneHolds, LaneResends, LaneWaitEnds, InLane, At
<1>4. /\ TypeOK /\ i \in Item /\ x \in LaneRecord
      /\ item[i].session \in Sid /\ item[i].session # NoSid
      /\ length[item[i].session] \in 0 .. MaxChunks /\ job[w].next \in Nat
      /\ job[w].next <= length[item[i].session]
      /\ x.chunk \in Int /\ (x.chunk # NoChunk => x.chunk \in 0 .. length[item[i].session] - 1)
      /\ x.pc \in {"sent", "delay"} => x.chunk # NoChunk
  BY <1>1, <1>2, <1>3, AtChunk
<1>5. wire \subseteq Request
  BY <1>4 DEF TypeOK
<1>6. \A pc \in {"go", "held", "sent", "delay", "ended"} :
        [x EXCEPT !.pc = pc] \in LaneRecord /\ [x EXCEPT !.pc = pc].pc = pc /\ [x EXCEPT !.pc = pc].chunk = x.chunk
  BY <1>4 DEF LaneRecord
<1>7. "uploading" \in State /\ "paused" \in State
  BY DEF State
<1>8. CASE LaneEnds(w, l)
  <2>1. /\ lane' = [lane EXCEPT ![w][l] = [x EXCEPT !.pc = "ended"]] /\ x.chunk = NoChunk
        /\ job[w].next >= length[item[i].session]
        /\ UNCHANGED <<Page, item, job, Server, wire, forsaken>>
    BY <1>1, <1>2, <1>8 DEF LaneEnds, LaneGoto, Claims, Exhausted
  <2>2. PICK y \in LaneRecord : y = [x EXCEPT !.pc = "ended"] /\ y.pc = "ended" /\ y.chunk = x.chunk
    BY <1>6
  <2>3. Turns(w, l, y)
    BY <2>1, <2>2 DEF Turns
  <2>4. job[w].next = length[item[i].session]
    BY <1>4, <2>1, ClientBounds
  <2>5. Shows(i, "paused") /\ UNCHANGED <<Page, Server, forsaken>> /\ job' = job /\ wire' = wire
    BY <2>1 DEF Shows
  <2>6. y.chunk = lane[w][l].chunk /\ (y.pc \in {"sent", "delay"} => y.chunk # NoChunk)
        /\ (y.pc = "ended" => y.chunk = NoChunk /\ job[w].next = length[item[i].session])
        /\ (~paused => y.pc # "held")
    BY <1>2, <2>1, <2>2, <2>4
  <2>7. /\ wire' \subseteq Request
        /\ \A r \in wire' \ wire : /\ r.item = i /\ r.sid = item[i].session
                                   /\ r.kind = "chunk" /\ r.chunk \in 0 .. length[r.sid] - 1
        /\ \A r \in wire \ wire' : r.kind # "cancel"
    BY <1>5, <2>5
  <2> QED
    BY <1>1, <1>3, <1>7, <2>2, <2>3, <2>5, <2>6, <2>7, LaneTurn
<1>9. CASE LaneHolds(w, l)
  <2>1. /\ lane' = [lane EXCEPT ![w][l] = [x EXCEPT !.pc = "held"]] /\ paused
        /\ item' = [item EXCEPT ![i].state = "paused"]
        /\ UNCHANGED <<Page, job, Server, wire, forsaken>>
    BY <1>1, <1>2, <1>9 DEF LaneHolds, LaneGoto
  <2>2. PICK y \in LaneRecord : y = [x EXCEPT !.pc = "held"] /\ y.pc = "held" /\ y.chunk = x.chunk
    BY <1>6
  <2>3. Turns(w, l, y)
    BY <2>1, <2>2 DEF Turns
  <2>4. Shows(i, "paused") /\ UNCHANGED <<Page, Server, forsaken>> /\ job' = job /\ wire' = wire
    BY <2>1 DEF Shows
  <2>5. y.chunk = lane[w][l].chunk /\ (y.pc \in {"sent", "delay"} => y.chunk # NoChunk)
        /\ (y.pc = "ended" => y.chunk = NoChunk /\ job[w].next = length[item[i].session])
        /\ (~paused => y.pc # "held")
    BY <1>2, <2>1, <2>2
  <2>6. /\ wire' \subseteq Request
        /\ \A r \in wire' \ wire : /\ r.item = i /\ r.sid = item[i].session
                                   /\ r.kind = "chunk" /\ r.chunk \in 0 .. length[r.sid] - 1
        /\ \A r \in wire \ wire' : r.kind # "cancel"
    BY <1>5, <2>4
  <2> QED
    BY <1>1, <1>3, <1>7, <2>2, <2>3, <2>4, <2>5, <2>6, LaneTurn
<1>10. CASE LaneResends(w, l)
  <2>1. /\ lane' = [lane EXCEPT ![w][l] = [x EXCEPT !.pc = "sent", !.chunk = x.chunk]] /\ x.chunk # NoChunk
        /\ item' = [item EXCEPT ![i].state = "uploading"]
        /\ wire' = wire \cup {ChunkOf(i, item[i].session, x.chunk)}
        /\ UNCHANGED <<Page, job, Server, forsaken>>
    BY <1>1, <1>2, <1>4, <1>10 DEF LaneResends, SendChunk, Claims, TypeOK
  <2>2. PICK y \in LaneRecord : y = [x EXCEPT !.pc = "sent"] /\ y.pc = "sent" /\ y.chunk = x.chunk
    BY <1>6
  <2>3. Turns(w, l, y)
    <3>1. [x EXCEPT !.pc = "sent", !.chunk = x.chunk] = [x EXCEPT !.pc = "sent"]
      BY <1>4 DEF LaneRecord
    <3> QED
      BY <2>1, <2>2, <3>1 DEF Turns
  <2>4. x.chunk \in Chunk
    BY <1>4, <2>1, Chunks
  <2>5. PICK r \in Request : /\ r = ChunkOf(i, item[i].session, x.chunk) /\ r.kind = "chunk" /\ r.item = i
                             /\ r.sid = item[i].session /\ r.chunk = x.chunk
    BY <1>4, <2>4, Requests
  <2>6. /\ wire' \subseteq Request
        /\ \A q \in wire' \ wire : /\ q.item = i /\ q.sid = item[i].session
                                   /\ q.kind = "chunk" /\ q.chunk \in 0 .. length[q.sid] - 1
    BY <1>4, <1>5, <2>1, <2>5
  <2>7. \A q \in wire \ wire' : q.kind # "cancel"
    BY <2>1
  <2>8. Shows(i, "uploading")
    BY <2>1 DEF Shows
  <2>9. y.chunk = lane[w][l].chunk /\ (y.pc \in {"sent", "delay"} => y.chunk # NoChunk)
        /\ (y.pc = "ended" => y.chunk = NoChunk /\ job[w].next = length[item[i].session])
        /\ (~paused => y.pc # "held")
    BY <1>2, <2>1, <2>2
  <2>10. UNCHANGED <<Page, Server, forsaken>> /\ job' = job
    BY <2>1
  <2> QED
    BY <1>1, <1>3, <1>7, <2>2, <2>3, <2>6, <2>7, <2>8, <2>9, <2>10, LaneTurn
<1>11. CASE LaneWaitEnds(w, l)
  <2>1. /\ lane' = [lane EXCEPT ![w][l] = [x EXCEPT !.pc = "go"]]
        /\ UNCHANGED <<Page, item, job, Server, wire, forsaken>>
    BY <1>1, <1>2, <1>11 DEF LaneWaitEnds, LaneGoto
  <2>2. PICK y \in LaneRecord : y = [x EXCEPT !.pc = "go"] /\ y.pc = "go" /\ y.chunk = x.chunk
    BY <1>6
  <2>3. Turns(w, l, y)
    BY <2>1, <2>2 DEF Turns
  <2>4. Shows(i, "paused") /\ UNCHANGED <<Page, Server, forsaken>> /\ job' = job /\ wire' = wire
    BY <2>1 DEF Shows
  <2>5. y.chunk = lane[w][l].chunk /\ (y.pc \in {"sent", "delay"} => y.chunk # NoChunk)
        /\ (y.pc = "ended" => y.chunk = NoChunk /\ job[w].next = length[item[i].session])
        /\ (~paused => y.pc # "held")
    BY <1>2, <2>1, <2>2
  <2>6. /\ wire' \subseteq Request
        /\ \A r \in wire' \ wire : /\ r.item = i /\ r.sid = item[i].session
                                   /\ r.kind = "chunk" /\ r.chunk \in 0 .. length[r.sid] - 1
        /\ \A r \in wire \ wire' : r.kind # "cancel"
    BY <1>5, <2>4
  <2> QED
    BY <1>1, <1>3, <1>7, <2>2, <2>3, <2>4, <2>5, <2>6, LaneTurn
<1> QED
  BY <1>8, <1>9, <1>10, <1>11

\* A chunk worker takes the next chunk of its file, or ends when there is none.
LEMMA LaneClaimsStep ==
  ASSUME Coherent, NEW w \in Slot, NEW l \in Lane, LaneClaims(w, l)
  PROVE  Coherent'
<1>1. PICK i : i = job[w].item
  OBVIOUS
<1>2. job[w].pc = "lanes"
  BY DEF LaneClaims, InLane, At
<1>3. /\ TypeOK /\ i \in Item /\ item[i] \in ItemRecord /\ job[w] \in JobRecord /\ lane[w][l] \in LaneRecord
      /\ lane[w] \in [Lane -> LaneRecord]
      /\ item[i].ctrl # "none" /\ item[i].state # "success"
      /\ item[i].session \in Sid /\ item[i].session # NoSid
      /\ length[item[i].session] \in 0 .. MaxChunks /\ job[w].next \in Nat
  BY <1>1, <1>2, AtChunk
<1>4. PICK c \in Chunk : c = job[w].next /\ c \in 0 .. length[item[i].session] - 1
  <2>1. ~(job[w].next >= length[item[i].session])
    BY <1>1 DEF LaneClaims, Exhausted
  <2>2. job[w].next \in 0 .. length[item[i].session] - 1
    BY <1>3, <2>1, ClientBounds
  <2> QED
    BY <1>3, <2>2, Chunks
<1>5. /\ lane' = [lane EXCEPT ![w] = [lane[w] EXCEPT ![l] = [lane[w][l] EXCEPT !.pc = "sent", !.chunk = c]]]
      /\ item' = [item EXCEPT ![i] = [item[i] EXCEPT !.state = "uploading"]]
      /\ job' = [job EXCEPT ![w] = [job[w] EXCEPT !.next = c + 1]]
      /\ wire' = wire \cup {ChunkOf(i, item[i].session, c)}
      /\ UNCHANGED <<Page, Server, forsaken>> /\ lane[w][l].chunk = NoChunk
  BY <1>1, <1>3, <1>4 DEF LaneClaims, SendChunk, Claims, TypeOK
<1>15. c + 1 \in 0 .. MaxChunks
  BY <1>3, <1>4, ClientBounds
<1>16. PICK j \in JobRecord : j = [job[w] EXCEPT !.next = c + 1]
  BY <1>3, <1>15, JobTyped
<1>6. j.item = i /\ j.pc = "lanes" /\ j.failed = job[w].failed /\ j.next = c + 1
  BY <1>1, <1>2, <1>3, <1>16 DEF JobRecord
<1>17. PICK x \in ItemRecord : x = [item[i] EXCEPT !.state = "uploading"]
  BY <1>3, ItemTyped DEF State
<1>7. /\ x.ctrl = item[i].ctrl /\ x.state = "uploading" /\ x.session = item[i].session
      /\ x.confirmed = item[i].confirmed /\ x.pending = item[i].pending
  BY <1>3, <1>17 DEF ItemRecord
<1> DEFINE z == [lane[w][l] EXCEPT !.pc = "sent", !.chunk = c]
<1>18. PICK y \in LaneRecord : y = z
  BY <1>3 DEF LaneRecord
<1>8. y.pc = "sent" /\ y.chunk = c
  BY <1>3, <1>18 DEF LaneRecord
<1>9. Takes(w, i, j, x, [lane[w] EXCEPT ![l] = y])
  BY <1>5, <1>16, <1>17, <1>18 DEF Takes
<1> HIDE DEF z
<1>10. PICK r \in Request : /\ wire' = wire \cup {r} /\ r.kind = "chunk" /\ r.item = i
                            /\ r.sid = item[i].session /\ r.chunk = c
  BY <1>3, <1>5, Requests
<1>11. /\ wire' \subseteq Request
       /\ \A q \in wire' \ wire : /\ q.item = i /\ q.sid = x.session
                                  /\ q.kind = "chunk" /\ q.chunk \in 0 .. length[q.sid] - 1
       /\ \A q \in wire \ wire' : q.kind # "cancel"
  BY <1>3, <1>4, <1>7, <1>10 DEF TypeOK
<1>12. /\ j.next <= length[item[i].session] /\ y.chunk < j.next /\ y.chunk # NoChunk
       /\ j.next = job[w].next + 1 /\ y.chunk = job[w].next
       /\ lane[w][l].chunk \in {NoChunk, y.chunk}
  BY <1>3, <1>4, <1>5, <1>6, <1>8, ClientBounds DEF NoChunk
<1>13. UNCHANGED <<Page, Server, forsaken>> /\ y.pc # "held" /\ y.pc # "ended" /\ x.state # "success"
  BY <1>5, <1>7, <1>8
<1>14. /\ x.ctrl # "none" /\ (x.ctrl = "live" => item[i].ctrl = "live")
       /\ x.session = item[i].session /\ x.confirmed = item[i].confirmed /\ x.pending = item[i].pending
       /\ j.item = i /\ j.pc = "lanes" /\ (job[w].failed => j.failed)
  BY <1>3, <1>6, <1>7
<1> QED
  BY <1>1, <1>2, <1>9, <1>11, <1>12, <1>13, <1>14, ChunkWorkerStep

\* A chunk fails, is given up, or fails for good.
LEMMA ChunkEnds ==
  ASSUME Coherent, NEW w \in Slot, NEW l \in Lane, LaneStops(w, l) \/ ChunkFails(w, l)
  PROVE  Coherent'
<1>1. job[w].pc = "lanes" /\ UNCHANGED <<Page, Server, forsaken>>
  BY DEF LaneStops, ChunkFails, InLane, At
<1>2. PICK i : i = job[w].item
  OBVIOUS
<1>3. PICK x : x = lane[w][l]
  OBVIOUS
<1>4. /\ TypeOK /\ i \in Item /\ x \in LaneRecord /\ item[i].session \in Sid
      /\ length[item[i].session] \in 0 .. MaxChunks
      /\ x.chunk # NoChunk => x.chunk \in 0 .. length[item[i].session] - 1
      /\ x.pc \in {"sent", "delay"} => x.chunk # NoChunk
  BY <1>1, <1>2, <1>3, AtChunk
<1>5. CASE LaneStops(w, l)
  <2>1. LaneThrows(w, l) /\ wire' = wire
    BY <1>5 DEF LaneStops
  <2> QED
    BY <1>1, <2>1, ThrowStep
<1>6. CASE ChunkFails(w, l)
  <2> DEFINE r == ChunkOf(i, item[i].session, x.chunk)
  <2>1. r.kind = "chunk"
    BY DEF ChunkOf
  <2>2. x.pc = "sent" /\ x.chunk # NoChunk
    BY <1>3, <1>4, <1>6 DEF ChunkFails, InLane
  <2>3. /\ wire' \in {wire, wire \ {r}}
        /\ (MayRetry(x.tries) /\ LaneWaits(w, l)) \/ LaneThrows(w, l)
    BY <1>2, <1>3, <1>6 DEF ChunkFails
  <2> HIDE DEF r
  <2>4. wire' \subseteq wire /\ \A q \in wire \ wire' : q.kind # "cancel"
    BY <2>1, <2>3
  <2>5. CASE LaneThrows(w, l)
    BY <1>1, <2>4, <2>5, ThrowStep
  <2>6. CASE MayRetry(x.tries) /\ LaneWaits(w, l)
    <3> DEFINE z == [x EXCEPT !.pc = "delay", !.tries = x.tries + 1]
    <3>1. lane' = [lane EXCEPT ![w][l] = z] /\ item' = item /\ job' = job
      BY <1>3, <1>4, <2>6 DEF LaneWaits, TypeOK
    <3>2. x.tries + 1 \in 0 .. Retries
      <4>1. x.tries \in 0 .. Retries
        BY <1>4, LaneTyped
      <4> QED
        BY <2>6, <4>1, ClientBounds DEF MayRetry
    <3>8. PICK y \in LaneRecord : y = z
      BY <1>4, <3>2 DEF LaneRecord
    <3>3. y.pc = "delay" /\ y.chunk = x.chunk
      BY <1>4, <3>8 DEF LaneRecord
    <3>4. Turns(w, l, y)
      BY <3>1, <3>8 DEF Turns
    <3> HIDE DEF z
    <3>5. Shows(i, "paused") /\ "paused" \in State
      BY <3>1 DEF Shows, State
    <3>6. y.chunk = lane[w][l].chunk /\ y.chunk # NoChunk /\ y.pc # "ended" /\ y.pc # "held"
      BY <1>3, <2>2, <3>3
    <3>7. wire' \subseteq Request /\ \A q \in wire' \ wire : FALSE
      BY <1>4, <2>4 DEF TypeOK
    <3> QED
      BY <1>1, <1>2, <2>4, <3>1, <3>3, <3>4, <3>5, <3>6, <3>7, LaneTurn
  <2> QED
    BY <2>3, <2>5, <2>6
<1> QED
  BY <1>5, <1>6
-----------------------------------------------------------------------------
(* A file worker with a transfer.                                          *)

\* An error ends the transfer of an item the page has not changed.
LEMMA GivenUp ==
  ASSUME Coherent, NEW w \in Slot, job[w].pc \notin Idle, NEW i, i = job[w].item,
         NEW sent, Fails(w, item[i], sent), lane' = lane, UNCHANGED <<Page, Server, forsaken>>,
         sent \subseteq Request,
         \A r \in sent \ wire : r.item = i /\ r.kind \in {"init", "late"},
         \A r \in wire \ sent : r.kind # "cancel"
  PROVE  Coherent'
<1>1. /\ i \in Item /\ item[i] \in ItemRecord /\ item[i].ctrl # "none" /\ item[i].state # "success"
      /\ ItemTrue(i, item[i])
      /\ \A s \in Sid : phase[s] = "open" /\ owner[s] = i =>
           s \in forsaken \/ CancelOf(i, s) \in wire \/ item[i].session = s
  BY Holder
<1>2. ServerTyped' /\ Sessions' /\ Grows /\ UNCHANGED <<phase, length, got, receipts, owner>>
  BY Unmoved, Zenon
<1>3. PICK x \in ItemRecord : x = item[i]
  BY <1>1
<1>4. ItemTrue(i, x)'
  BY <1>1, <1>2, <1>3 DEF ItemTrue, Whole
<1>5. /\ \A s \in Sid : phase'[s] = "saved" => phase[s] = "saved"
      /\ \A s \in Sid : phase'[s] = "open" =>
           \/ phase[s] = "open" /\ owner'[s] # i
           \/ s \in forsaken \/ (owner'[s] = i /\ (CancelOf(i, s) \in wire \/ x.session = s))
  BY <1>1, <1>2, <1>3
<1>6. /\ Fails(w, x, sent) /\ x.ctrl # "none" /\ (x.ctrl = "live" => item[i].ctrl = "live")
      /\ x.state # "success" /\ (item[i].pending => x.pending /\ x.session = item[i].session)
  BY <1>1, <1>3
<1>7. UNCHANGED <<Page, forsaken>>
  OBVIOUS
<1> QED
  BY <1>2, <1>4, <1>5, <1>6, <1>7, FailsStep

\* Failures with no effect on the server.
LEMMA Failures ==
  ASSUME Coherent, NEW w \in Slot,
         \/ InitFails(w) \/ Aborted(w)
         \/ Settled(w) /\ job[w].failed
         \/ Finish(w) /\ ~Active(job[w].item)
         \/ CompleteFails(w) /\ job'[w].pc # "status"
         \/ StatusAnswered(w) /\ Throw(w)
  PROVE  Coherent'
<1>1. PICK i : i = job[w].item
  OBVIOUS
<1>2. job[w].pc \notin Idle
  BY DEF InitFails, Aborted, Settled, Finish, CompleteFails, StatusAnswered, At, Idle
<1>3. i \in Item /\ item[i] \in ItemRecord /\ TypeOK /\ wire \subseteq Request
      /\ Progress(w) /\ ItemTrue(i, item[i]) /\ job[w] \in JobRecord
  BY <1>1, <1>2, Holder DEF TypeOK
<1>4. lane' = lane /\ UNCHANGED <<Page, Server, forsaken>>
  BY DEF InitFails, Aborted, Settled, Finish, CompleteFails, StatusAnswered
<1>5. PICK sent : /\ Fails(w, item[i], sent) /\ sent \subseteq Request
                  /\ \A r \in sent \ wire : r.item = i /\ r.kind \in {"init", "late"}
                  /\ \A r \in wire \ sent : r.kind # "cancel"
  <2>1. ASSUME Throw(w)
        PROVE  \E sent : /\ Fails(w, item[i], sent) /\ sent \subseteq Request
                         /\ \A r \in sent \ wire : r.item = i /\ r.kind \in {"init", "late"}
                         /\ \A r \in wire \ sent : r.kind # "cancel"
    <3>1. Fails(w, item[i], wire)
      BY <1>1, <2>1 DEF Throw
    <3> QED
      BY <1>3, <3>1
  <2>2. CASE InitFails(w)
    <3>1. /\ InitOf(i).kind = "init"
          /\ LateInitOf(i) \in Request /\ LateInitOf(i).kind = "late" /\ LateInitOf(i).item = i
      BY <1>3, Requests
    <3>2. Fails(w, item[i], wire \ {InitOf(i)}) \/ Fails(w, item[i], (wire \ {InitOf(i)}) \cup {LateInitOf(i)})
      BY <1>1, <2>2 DEF InitFails
    <3> QED
      BY <1>3, <3>1, <3>2
  <2>3. CASE Aborted(w)
    BY <2>1, <2>3 DEF Aborted
  <2>4. CASE Settled(w) /\ job[w].failed
    BY <2>1, <2>4 DEF Settled
  <2>5. CASE Finish(w) /\ ~Active(job[w].item)
    BY <2>1, <2>5 DEF Finish
  <2>6. CASE StatusAnswered(w) /\ Throw(w)
    BY <2>1, <2>6
  <2>7. CASE CompleteFails(w) /\ job'[w].pc # "status"
    <3> DEFINE r == CompleteOf(i, item[i].session)
    <3>1. r.kind = "complete"
      BY DEF CompleteOf
    <3>2. Fails(w, item[i], wire \ {r}) \/ job' = [job EXCEPT ![w].pc = "status"]
      BY <1>1, <2>7 DEF CompleteFails, Goto
    <3> HIDE DEF r
    <3>3. job' # [job EXCEPT ![w].pc = "status"]
      BY <1>3, <2>7 DEF TypeOK, JobRecord
    <3> QED
      BY <1>3, <3>1, <3>2, <3>3
  <2> QED
    BY <2>2, <2>3, <2>4, <2>5, <2>6, <2>7
<1> QED
  BY <1>1, <1>2, <1>4, <1>5, GivenUp

\* A file worker turns to j after its chunks, with file i as x.
JobTurns(w, i, j, x) ==
  /\ job' = [job EXCEPT ![w] = j] /\ item' = [item EXCEPT ![i] = x] /\ lane' = lane
\* Such a turn keeps the invariant.
LEMMA JobTurn ==
  ASSUME Coherent, NEW w \in Slot, job[w].pc \notin Idle, NEW i, i = job[w].item,
         UNCHANGED <<Page, Server, forsaken>>,
         NEW j \in JobRecord, NEW x \in ItemRecord, JobTurns(w, i, j, x),
         j.item = i, j.pc \in Finishing \cup Asked, x.ctrl = item[i].ctrl, x.state # "success",
         x.session = item[i].session, x.confirmed = item[i].confirmed, item[i].pending => x.pending,
         j.pc \in Asked <=> x.pending,
         0 .. length[x.session] - 1 \subseteq x.confirmed \/ item[i].pending,
         x.session # NoSid, ~paused => j.pc # "heldFinish",
         wire' \subseteq Request,
         \A r \in wire' \ wire : r.kind = "complete" /\ r.item = i /\ r.sid = x.session /\ x.pending,
         \A r \in wire \ wire' : r.kind # "cancel"
  PROVE  Coherent'
<1>1. /\ i \in Item /\ item[i] \in ItemRecord /\ item[i].ctrl # "none" /\ item[i].state # "success"
      /\ ItemTrue(i, item[i]) /\ TypeOK /\ lane[w] \in [Lane -> LaneRecord]
  BY Holder
<1>2. Takes(w, i, j, x, lane[w])
  <2>1. lane' = [lane EXCEPT ![w] = lane[w]]
    BY <1>1 DEF JobTurns, TypeOK
  <2> QED
    BY <2>1 DEF Takes, JobTurns
<1>3. job'[w] = j /\ item'[i] = x /\ length' = length
  BY <1>1 DEF JobTurns, TypeOK, Server
<1>4. Progress(w)'
  BY <1>3 DEF Progress, Finishing, Asked
<1>5. x.pending => Whole(x.session, i)
  BY <1>1 DEF ItemTrue, Whole
<1>6. j.pc \notin Idle /\ j.pc # "lanes"
  BY DEF Idle, Finishing, Asked
<1>7. \A r \in wire' \ wire : /\ r.item = i /\ r.sid = x.session /\ r.sid # NoSid
                              /\ r.kind = "chunk" => r.chunk \in 0 .. length[r.sid] - 1
                              /\ r.kind = "complete" => x.pending
  OBVIOUS
<1>8. /\ x.ctrl # "none" /\ (x.ctrl = "live" => item[i].ctrl = "live")
      /\ x.pending => x.session # NoSid /\ Whole(x.session, i)
      /\ ~paused => j.pc # "heldFinish" /\ (j.pc = "lanes" => \A l \in Lane : lane[w][l].pc # "held")
  BY <1>1, <1>5, <1>6
<1> QED
  BY <1>1, <1>2, <1>4, <1>6, <1>7, <1>8, TransferStep

\* Every chunk worker has ended well: every chunk is confirmed.
LEMMA SettledStep ==
  ASSUME Coherent, NEW w \in Slot, Settled(w), ~job[w].failed
  PROVE  Coherent'
<1>1. PICK i : i = job[w].item
  OBVIOUS
<1>2. /\ job[w].pc = "lanes" /\ \A l \in Lane : lane[w][l].pc = "ended"
      /\ job' = [job EXCEPT ![w].pc = "finish"] /\ UNCHANGED <<Page, item, lane, Server, wire, forsaken>>
  BY DEF Settled, At, Goto
<1>3. job[w].pc \notin Idle
  BY <1>2 DEF Idle
<1>4. /\ i \in Item /\ item[i] \in ItemRecord /\ item[i].state # "success"
      /\ Progress(w) /\ job[w] \in JobRecord /\ TypeOK
  BY <1>1, <1>3, Holder
<1>5. item[i].session # NoSid /\ ~item[i].pending /\ Lanes(w)
  BY <1>1, <1>2, <1>4 DEF Progress
<1>6. 0 .. length[item[i].session] - 1 \subseteq item[i].confirmed
  <2>1. PICK l \in Lane : TRUE
    BY ClientLanes
  <2>2. job[w].next = length[item[i].session]
    BY <1>1, <1>2, <1>5, <2>1 DEF Lanes
  <2> SUFFICES ASSUME NEW c \in 0 .. length[item[i].session] - 1 PROVE c \in item[i].confirmed
    OBVIOUS
  <2>3. c \in item[i].confirmed \/ \E m \in Lane : lane[w][m].chunk = c
    BY <1>1, <1>5, <2>2 DEF Lanes
  <2>4. \A m \in Lane : lane[w][m].chunk = NoChunk
    BY <1>2, <1>5 DEF Lanes
  <2>5. c # NoChunk
    BY DEF NoChunk
  <2> QED
    BY <2>3, <2>4, <2>5
<1>7. PICK j \in JobRecord : j = [job[w] EXCEPT !.pc = "finish"]
  BY <1>4, JobTyped DEF JobPc
<1>8. j.pc = "finish" /\ j.item = i
  BY <1>1, <1>4, <1>7 DEF JobRecord
<1>9. PICK x \in ItemRecord : x = item[i]
  BY <1>4
<1>10. JobTurns(w, i, j, x)
  <2>1. item' = [item EXCEPT ![i] = x]
    BY <1>2, <1>4, <1>9 DEF TypeOK
  <2> QED
    BY <1>2, <1>7, <2>1 DEF JobTurns
<1>11. /\ wire' = wire /\ wire \subseteq Request /\ UNCHANGED <<Page, Server, forsaken>>
  BY <1>2, <1>4 DEF TypeOK
<1>12. j.pc \in Finishing /\ j.pc \notin Asked
  BY <1>8 DEF Finishing, Asked
<1> QED
  BY <1>1, <1>3, <1>4, <1>5, <1>6, <1>8, <1>9, <1>10, <1>11, <1>12, JobTurn

\* The completion is held by a pause, or asked for.
LEMMA FinishStep ==
  ASSUME Coherent, NEW w \in Slot, Finish(w), Active(job[w].item)
  PROVE  Coherent'
<1>1. PICK i : i = job[w].item
  OBVIOUS
<1>2. job[w].pc = "finish" /\ UNCHANGED <<Page, lane, Server, forsaken>>
  BY DEF Finish, At
<1>3. job[w].pc \notin Idle
  BY <1>2 DEF Idle
<1>4. /\ i \in Item /\ item[i] \in ItemRecord /\ Progress(w) /\ job[w] \in JobRecord /\ TypeOK
      /\ ItemTrue(i, item[i])
  BY <1>1, <1>3, Holder
<1>5. item[i].session # NoSid /\ ~item[i].pending /\ 0 .. length[item[i].session] - 1 \subseteq item[i].confirmed
  BY <1>1, <1>2, <1>4 DEF Progress, Finishing
<1>6. item[i].session \in Sid
  BY <1>4, <1>5, ItemTyped
<1>7. wire \subseteq Request
  BY <1>4 DEF TypeOK
<1>8. CASE paused
  <2>1. /\ item' = [item EXCEPT ![i].state = "paused"] /\ wire' = wire
        /\ job' = [job EXCEPT ![w].pc = "heldFinish"]
    BY <1>1, <1>8 DEF Finish, Goto
  <2>2. PICK j \in JobRecord : j = [job[w] EXCEPT !.pc = "heldFinish"]
    BY <1>4, JobTyped DEF JobPc
  <2>3. j.pc = "heldFinish" /\ j.item = i
    BY <1>1, <1>4, <2>2 DEF JobRecord
  <2>4. PICK x \in ItemRecord : x = [item[i] EXCEPT !.state = "paused"]
    BY <1>4, ItemTyped DEF State
  <2>5. /\ x.ctrl = item[i].ctrl /\ x.state = "paused" /\ x.session = item[i].session
        /\ x.confirmed = item[i].confirmed /\ x.pending = item[i].pending
    BY <1>4, <2>4 DEF ItemRecord
  <2>6. JobTurns(w, i, j, x)
    BY <1>2, <1>4, <2>1, <2>2, <2>4 DEF JobTurns, TypeOK
  <2>7. j.pc \in Finishing /\ j.pc \notin Asked
    BY <2>3 DEF Finishing, Asked
  <2>8. UNCHANGED <<Page, Server, forsaken>> /\ wire' = wire /\ x.state # "success"
    BY <1>2, <2>1, <2>5
  <2> QED
    BY <1>1, <1>3, <1>5, <1>7, <1>8, <2>3, <2>5, <2>6, <2>7, <2>8, JobTurn
<1>9. CASE ~paused
  <2> DEFINE z == [item[i] EXCEPT !.state = "completing", !.pending = TRUE]
             k == [job[w] EXCEPT !.pc = "complete", !.tries = 0]
  <2>1. /\ item' = [item EXCEPT ![i] = z] /\ job' = [job EXCEPT ![w] = k]
        /\ wire' = wire \cup {CompleteOf(i, item[i].session)}
    BY <1>1, <1>4, <1>9 DEF Finish, TypeOK
  <2>2. PICK j \in JobRecord : j = k
    <3>1. 0 \in 0 .. Retries
      BY ClientBounds
    <3> QED
      BY <1>4, <3>1 DEF JobRecord, JobPc
  <2>3. j.pc = "complete" /\ j.item = i
    BY <1>1, <1>4, <2>2 DEF JobRecord
  <2>4. PICK x \in ItemRecord : x = z
    BY <1>4 DEF ItemRecord, State
  <2>5. /\ x.ctrl = item[i].ctrl /\ x.state = "completing" /\ x.session = item[i].session
        /\ x.confirmed = item[i].confirmed /\ x.pending
    BY <1>4, <2>4 DEF ItemRecord
  <2>6. JobTurns(w, i, j, x)
    BY <1>2, <2>1, <2>2, <2>4 DEF JobTurns
  <2> HIDE DEF z, k
  <2>7. j.pc \in Asked
    BY <2>3 DEF Asked
  <2>8. PICK r \in Request : wire' = wire \cup {r} /\ r.kind = "complete" /\ r.item = i /\ r.sid = item[i].session
    BY <1>4, <1>6, <2>1, Requests
  <2>9. /\ wire' \subseteq Request
        /\ \A q \in wire' \ wire : q.kind = "complete" /\ q.item = i /\ q.sid = x.session /\ x.pending
        /\ \A q \in wire \ wire' : q.kind # "cancel"
    BY <1>7, <2>5, <2>8
  <2>10. UNCHANGED <<Page, Server, forsaken>> /\ x.state # "success" /\ j.pc # "heldFinish"
    BY <1>2, <2>3, <2>5
  <2> QED
    BY <1>1, <1>3, <1>5, <2>3, <2>5, <2>6, <2>7, <2>9, <2>10, JobTurn
<1> QED
  BY <1>8, <1>9

\* An error of the completion asks for the status, the status for another completion.
LEMMA AskAgain ==
  ASSUME Coherent, NEW w \in Slot,
         \/ CompleteFails(w) /\ Goto(w, "status")
         \/ StatusAnswered(w) /\ job'[w].pc = "delay"
         \/ CompleteAgain(w)
  PROVE  Coherent'
<1>1. PICK i : i = job[w].item
  OBVIOUS
<1>2. job[w].pc \in Asked /\ UNCHANGED <<Page, lane, Server, forsaken>>
  BY DEF CompleteFails, StatusAnswered, CompleteAgain, At, Asked
<1>3. job[w].pc \notin Idle
  BY <1>2 DEF Idle, Asked
<1>4. /\ i \in Item /\ item[i] \in ItemRecord /\ item[i].state # "success"
      /\ Progress(w) /\ job[w] \in JobRecord /\ TypeOK /\ ItemTrue(i, item[i])
  BY <1>1, <1>3, Holder
<1>5. item[i].pending /\ item[i].session # NoSid /\ item[i].session \in Sid
  BY <1>1, <1>2, <1>4, ItemTyped DEF Progress, ItemTrue
<1>6. wire \subseteq Request /\ CompleteOf(i, item[i].session).kind = "complete"
  BY <1>4 DEF TypeOK, CompleteOf
<1>7. /\ item' = item
      /\ \/ job' = [job EXCEPT ![w].pc = "status"]
         \/ MayRetry(job[w].tries) /\ job' = [job EXCEPT ![w].pc = "delay", ![w].tries = job[w].tries + 1]
         \/ job' = [job EXCEPT ![w].pc = "complete"]
      /\ wire' \in {wire, wire \ {CompleteOf(i, item[i].session)}, wire \cup {CompleteOf(i, item[i].session)}}
  <2>1. CASE CompleteFails(w) /\ Goto(w, "status")
    <3>1. job' = [job EXCEPT ![w].pc = "status"] /\ job'[w].pc = "status" /\ job'[w].item = i /\ w \in Slot
      BY <1>1, <1>4, <2>1 DEF Goto, TypeOK, JobRecord
    <3>2. ~Fails(w, item[i], wire \ {CompleteOf(i, item[i].session)})
      <4>1. NextJob.pc = "next"
        BY DEF NextJob, NoJob
      <4>2. ASSUME Fails(w, item[i], wire \ {CompleteOf(i, item[i].session)}) PROVE job'[w].pc \in {"next", "clean"}
        BY <1>4, <4>1, <4>2 DEF Fails, Close, Goto, TypeOK, JobRecord
      <4> QED
        BY <3>1, <4>2
    <3> QED
      BY <1>1, <2>1, <3>1, <3>2 DEF CompleteFails
  <2>2. CASE StatusAnswered(w) /\ job'[w].pc = "delay"
    <3>1. ~Throw(w) /\ ~Success(w)
      <4>1. NextJob.pc = "next"
        BY DEF NextJob, NoJob
      <4>2. ASSUME Throw(w) PROVE job'[w].pc \in {"next", "clean"}
        BY <1>4, <4>1, <4>2 DEF Throw, Fails, Close, Goto, TypeOK, JobRecord
      <4>3. ASSUME Success(w) PROVE job'[w].pc = "next"
        BY <1>4, <4>1, <4>3 DEF Success, TypeOK
      <4> QED
        BY <2>2, <4>2, <4>3
    <3> QED
      BY <2>2, <3>1 DEF StatusAnswered
  <2>3. CASE CompleteAgain(w)
    BY <1>1, <2>3 DEF CompleteAgain, Goto
  <2> QED
    BY <2>1, <2>2, <2>3
<1>8. \E j \in JobRecord : job' = [job EXCEPT ![w] = j] /\ j.item = i /\ j.pc \in Asked
  <2>1. ASSUME NEW pc \in {"status", "complete"}, job' = [job EXCEPT ![w].pc = pc]
        PROVE  \E j \in JobRecord : job' = [job EXCEPT ![w] = j] /\ j.item = i /\ j.pc \in Asked
    <3>1. PICK j \in JobRecord : j = [job[w] EXCEPT !.pc = pc]
      BY <1>4, JobTyped DEF JobPc
    <3>2. j.pc = pc /\ j.item = i
      BY <1>1, <1>4, <3>1 DEF JobRecord
    <3>3. job' = [job EXCEPT ![w] = j]
      BY <2>1, <3>1
    <3> QED
      BY <3>2, <3>3 DEF Asked
  <2>2. ASSUME MayRetry(job[w].tries), job' = [job EXCEPT ![w].pc = "delay", ![w].tries = job[w].tries + 1]
        PROVE  \E j \in JobRecord : job' = [job EXCEPT ![w] = j] /\ j.item = i /\ j.pc \in Asked
    <3> DEFINE k == [job[w] EXCEPT !.pc = "delay", !.tries = job[w].tries + 1]
    <3>1. job[w].tries + 1 \in 0 .. Retries
      <4>1. job[w].tries \in 0 .. Retries
        BY <1>4, JobTyped
      <4> QED
        BY <2>2, <4>1, ClientBounds DEF MayRetry
    <3>2. PICK j \in JobRecord : j = k
      BY <1>4, <3>1 DEF JobRecord, JobPc
    <3>3. j.pc = "delay" /\ j.item = i
      BY <1>1, <1>4, <3>2 DEF JobRecord
    <3>4. job' = [job EXCEPT ![w] = j]
      BY <1>4, <2>2, <3>2 DEF TypeOK
    <3> HIDE DEF k
    <3> QED
      BY <3>3, <3>4 DEF Asked
  <2> QED
    BY <1>7, <2>1, <2>2
<1>9. PICK j \in JobRecord : job' = [job EXCEPT ![w] = j] /\ j.item = i /\ j.pc \in Asked
  BY <1>8
<1>10. PICK x \in ItemRecord : x = item[i]
  BY <1>4
<1>11. JobTurns(w, i, j, x)
  <2>1. item' = [item EXCEPT ![i] = x]
    BY <1>4, <1>7, <1>10 DEF TypeOK
  <2> QED
    BY <1>2, <1>9, <2>1 DEF JobTurns
<1>12. /\ wire' \subseteq Request
       /\ \A q \in wire' \ wire : q.kind = "complete" /\ q.item = i /\ q.sid = x.session /\ x.pending
       /\ \A q \in wire \ wire' : q.kind # "cancel"
  <2>1. PICK r \in Request : /\ r = CompleteOf(i, item[i].session) /\ r.kind = "complete" /\ r.item = i
                             /\ r.sid = item[i].session
    BY <1>4, <1>5, Requests
  <2>2. wire' \in {wire, wire \ {r}, wire \cup {r}}
    BY <1>7, <2>1
  <2> QED
    BY <1>5, <1>6, <1>10, <2>1, <2>2
<1>13. /\ UNCHANGED <<Page, Server, forsaken>> /\ j.pc # "heldFinish" /\ j.item = i
       /\ j.pc \in Finishing \cup Asked /\ (j.pc \in Asked <=> x.pending)
       /\ x.ctrl = item[i].ctrl /\ x.state # "success"
       /\ x.session = item[i].session /\ x.confirmed = item[i].confirmed /\ (item[i].pending => x.pending)
       /\ x.session # NoSid
  BY <1>2, <1>4, <1>5, <1>9, <1>10 DEF Asked
<1> QED
  BY <1>1, <1>3, <1>5, <1>11, <1>12, <1>13, JobTurn

\* The file is saved, and its worker told.
LEMMA SuccessStep ==
  ASSUME Coherent, NEW w \in Slot, job[w].pc \notin Idle, NEW i, i = job[w].item, Success(w), lane' = lane,
         UNCHANGED <<Page, forsaken>>, ServerTyped', Sessions', Grows,
         wire' \subseteq wire, \A r \in wire \ wire' : r.kind # "cancel",
         item[i].session # NoSid, phase'[item[i].session] = "saved",
         \A s \in Sid : phase'[s] = "saved" /\ phase[s] # "saved" => s = item[i].session,
         \A s \in Sid : phase'[s] = "open" => phase[s] = "open" /\ owner'[s] = owner[s]
  PROVE  Coherent'
<1>1. /\ i \in Item /\ item[i] \in ItemRecord /\ item[i].state # "success" /\ run # "none" /\ i \notin todo
      /\ ItemTrue(i, item[i]) /\ lane[w] \in [Lane -> LaneRecord] /\ TypeOK
      /\ \A s \in Sid : phase[s] = "open" /\ owner[s] = i =>
              s \in forsaken \/ CancelOf(i, s) \in wire \/ item[i].session = s
  BY Holder
<1>2. item[i].session \in Sid /\ owner[item[i].session] = i /\ owner'[item[i].session] = i
  <2>1. item[i].session \in Sid /\ owner[item[i].session] = i
    BY <1>1, ItemTyped DEF ItemTrue
  <2> QED
    BY <1>1, <2>1, ClientNames DEF Grows
<1> DEFINE z == [item[i] EXCEPT !.state = "success", !.pending = FALSE, !.ctrl = "none"]
<1>3. item' = [item EXCEPT ![i] = z] /\ job' = [job EXCEPT ![w] = NextJob]
  BY <1>1 DEF Success, TypeOK
<1>4. PICK x \in ItemRecord : x = z
  BY <1>1 DEF ItemRecord, State, Ctrl
<1>5. /\ x.state = "success" /\ ~x.pending /\ x.ctrl = "none"
      /\ x.session = item[i].session /\ x.confirmed = item[i].confirmed
  BY <1>1, <1>4 DEF ItemRecord
<1>6. Takes(w, i, NextJob, x, lane[w])
  <2>1. lane' = [lane EXCEPT ![w] = lane[w]]
    BY <1>1 DEF TypeOK
  <2> QED
    BY <1>3, <1>4, <2>1 DEF Takes
<1> HIDE DEF z
<1>7. NextJob \in JobRecord /\ NextJob.pc = "next"
  BY JobTyped DEF NextJob, NoJob
<1>8. LetGo(NextJob, x)
  BY <1>5 DEF LetGo
<1>9. ItemTrue(i, x)'
  <2>1. \A c \in item[i].confirmed : got'[item[i].session][c] = i
    BY <1>1, <1>2, ItemTyped, ClientNames DEF ItemTrue, Grows
  <2> QED
    BY <1>2, <1>5, <2>1 DEF ItemTrue
<1>10. x.session = item[i].session /\ Sure(x)
  BY <1>5 DEF Sure
<1>11. Progress(w)'
  <2>1. job'[w].pc = "next"
    BY <1>1, <1>6, <1>7 DEF Takes, TypeOK
  <2> QED
    BY <2>1 DEF Progress, Finishing, Asked
<1>12. \A s \in Sid : CancelOf(i, s) \in wire => CancelOf(i, s) \in wire'
  <2>1. \A s \in Sid : CancelOf(i, s).kind = "cancel"
    BY DEF CancelOf
  <2> QED
    BY <2>1
<1>13. \A s \in Sid : phase'[s] = "open" =>
           \/ phase[s] = "open" /\ owner'[s] # i
           \/ s \in forsaken'
           \/ owner'[s] = i /\ CancelOf(i, s) \in wire'
           \/ owner'[s] = i /\ x.session = s /\ (x.ctrl # "none" \/ x.pending)
  BY <1>1, <1>12
<1>14. UNCHANGED <<queue, run, paused, canceling, mounted, reading, left>> /\ todo' \subseteq todo \ {i}
       /\ wire' \subseteq Request /\ forsaken \subseteq forsaken' /\ forsaken' \subseteq Sid
  BY <1>1 DEF Page, TypeOK
<1>15. \A s \in Sid : phase'[s] = "saved" /\ phase[s] # "saved" =>
           s = x.session /\ owner'[s] = i /\ Sure(x)
  BY <1>2, <1>10
<1>16. /\ ~paused => NextJob.pc \notin {"heldNext", "heldFinish"}
                     /\ (NextJob.pc = "lanes" => \A l \in Lane : lane[w][l].pc # "held")
       /\ x.ctrl = "live" => run = "on" /\ mounted /\ i \in queue
  BY <1>5, <1>7
<1>17. /\ \A r \in wire' \ wire : r.item = i /\
            \/ r.kind \in {"init", "late"}
            \/ /\ r.sid = x.session /\ r.sid # NoSid
               /\ r.kind = "chunk" => r.chunk \in 0 .. length'[r.sid] - 1
               /\ r.kind = "complete" => x.pending
       /\ \A r \in wire \ wire' : r.kind = "cancel" => r.item = i
  OBVIOUS
<1>18. item[i].pending => x.session = item[i].session /\ Sure(x)
  BY <1>10
<1>19. job[w].item = i \/ (job[w].item = NoItem /\ item[i].ctrl = "none")
  OBVIOUS
<1> QED
  BY <1>1, <1>6, <1>7, <1>8, <1>9, <1>11, <1>13, <1>14, <1>15, <1>16, <1>17, <1>18, <1>19, WorkerStep

\* The status says that the file is saved.
LEMMA StatusSavedStep ==
  ASSUME Coherent, NEW w \in Slot, StatusAnswered(w), StatusSaved(item[job[w].item].session), Success(w)
  PROVE  Coherent'
<1>1. PICK i : i = job[w].item
  OBVIOUS
<1>2. job[w].pc = "status" /\ UNCHANGED <<Page, lane, Server, forsaken>>
  BY DEF StatusAnswered, At
<1>3. job[w].pc \notin Idle
  BY <1>2 DEF Idle
<1>4. ItemTrue(i, item[i]) /\ Progress(w) /\ TypeOK /\ i \in Item
  BY <1>1, <1>3, Holder
<1>5. item[i].session # NoSid /\ phase[item[i].session] = "saved"
  BY <1>1, <1>2, <1>4 DEF Progress, Asked, ItemTrue, StatusSaved, Known
<1>6. ServerTyped' /\ Sessions' /\ Grows /\ UNCHANGED <<phase, length, got, receipts, owner>>
  BY <1>2, Unmoved, Zenon
<1>7. wire' = wire
  <2>1. job' = [job EXCEPT ![w] = NextJob] /\ NextJob.pc = "next" /\ job'[w] = NextJob
    BY <1>4 DEF Success, NextJob, NoJob, TypeOK
  <2>2. ~(job' = [job EXCEPT ![w].pc = "delay", ![w].tries = @ + 1])
    BY <1>4, <2>1 DEF TypeOK, JobRecord
  <2>3. ~Throw(w)
    <3>1. item'[i].state = "success"
      BY <1>1, <1>4 DEF Success, TypeOK, ItemRecord
    <3>2. PICK x \in ItemRecord : x = item[i]
      BY <1>4, Typed
    <3>3. EndedItem(i, x).state # "success"
      BY <3>2, Ended
    <3>4. item[i].state # "success"
      BY <1>1, <1>3, Holder
    <3>5. ASSUME Throw(w) PROVE item'[i].state # "success"
      BY <1>1, <1>4, <3>2, <3>3, <3>4, <3>5 DEF Throw, Fails, Close, TypeOK
    <3> QED
      BY <3>1, <3>5
  <2> QED
    BY <2>2, <2>3 DEF StatusAnswered
<1>8. phase'[item[i].session] = "saved" /\ (\A s \in Sid : phase'[s] = "saved" => phase[s] = "saved")
      /\ (\A s \in Sid : phase'[s] = "open" => phase[s] = "open" /\ owner'[s] = owner[s])
  BY <1>5, <1>6
<1> QED
  BY <1>1, <1>2, <1>3, <1>5, <1>6, <1>7, <1>8, SuccessStep

\* The cleanup of a session has no answer.
LEMMA CleanFailsStep ==
  ASSUME Coherent, NEW w \in Slot, CleanFails(w)
  PROVE  Coherent'
<1>1. PICK i : i = job[w].item
  OBVIOUS
<1>2. /\ job[w].pc = "clean" /\ lane' = lane /\ UNCHANGED <<Page, Server>> /\ Close(w, item[i])
      /\ LET r == CancelOf(i, item[i].session) IN
           \/ UNCHANGED <<wire, forsaken>>
           \/ wire' = wire \ {r} /\ forsaken' = forsaken \cup {r.sid}
  BY <1>1 DEF CleanFails, At
<1>3. job[w].pc \notin Idle
  BY <1>2 DEF Idle
<1>4. /\ i \in Item /\ item[i] \in ItemRecord /\ ItemTrue(i, item[i]) /\ Progress(w) /\ TypeOK
      /\ \A s \in Sid : phase[s] = "open" /\ owner[s] = i =>
           s \in forsaken \/ CancelOf(i, s) \in wire \/ item[i].session = s
  BY <1>1, <1>3, Holder
<1>5. /\ item[i].session # NoSid /\ item[i].session \in Sid /\ ~item[i].pending
      /\ CancelOf(i, item[i].session) \in wire
  BY <1>1, <1>2, <1>4, ItemTyped DEF Progress
<1>6. PICK r \in wire : /\ r = CancelOf(i, item[i].session) /\ r.sid = item[i].session /\ r.item = i
                        /\ \/ UNCHANGED <<wire, forsaken>>
                           \/ wire' = wire \ {r} /\ forsaken' = forsaken \cup {r.sid}
  <2>1. CancelOf(i, item[i].session).sid = item[i].session /\ CancelOf(i, item[i].session).item = i
    BY DEF CancelOf
  <2> QED
    BY <1>2, <1>5, <2>1
<1>7. PICK x \in ItemRecord : x = item[i]
  BY <1>4
<1>8. ServerTyped' /\ Sessions' /\ Grows /\ UNCHANGED <<phase, length, got, receipts, owner>>
  BY <1>2, Unmoved, Zenon
<1>9. ItemTrue(i, x)'
  BY <1>4, <1>7, <1>8 DEF ItemTrue, Whole
<1>10. /\ wire' \subseteq Request /\ forsaken \subseteq forsaken' /\ forsaken' \subseteq Sid
       /\ \A q \in wire' \ wire : q.item = i /\ q.kind \in {"init", "late"}
       /\ \A q \in wire \ wire' : q.kind = "cancel" => q.item = i
  BY <1>4, <1>5, <1>6 DEF TypeOK
<1>11. \A s \in Sid : phase'[s] = "open" =>
           \/ phase[s] = "open" /\ owner'[s] # i
           \/ s \in forsaken'
           \/ owner'[s] = i /\ CancelOf(i, s) \in wire'
           \/ owner'[s] = i /\ x.session = s /\ x.pending
  <2> SUFFICES ASSUME NEW s \in Sid, phase[s] = "open", owner[s] = i, s \notin forsaken'
               PROVE  CancelOf(i, s) \in wire'
    BY <1>8
  <2>1. CancelOf(i, s) \in wire
    BY <1>4, <1>5, <1>10
  <2>2. CancelOf(i, s).sid = s
    BY DEF CancelOf
  <2> QED
    BY <1>6, <2>1, <2>2
<1>12. /\ Close(w, x) /\ UNCHANGED Page /\ (item[i].pending => x.pending /\ x.session = item[i].session)
       /\ \A s \in Sid : phase'[s] = "saved" => phase[s] = "saved"
  BY <1>2, <1>7, <1>8
<1> QED
  BY <1>1, <1>2, <1>3, <1>8, <1>9, <1>10, <1>11, <1>12, CloseStep

\* The server cancels a session, and whoever cleans up is told.
LEMMA CancelServedStep ==
  ASSUME Coherent, NEW r \in wire, CancelServed(r)
  PROVE  Coherent'
<1>1. /\ r.kind = "cancel" /\ wire' = wire \ {r} /\ UNCHANGED <<Page, lane, receipts, owner, forsaken>>
      /\ \/ phase[r.sid] = "open" /\ phase' = [phase EXCEPT ![r.sid] = "gone"]
         \/ phase[r.sid] # "open" /\ phase' = phase
      /\ UNCHANGED <<length, got>>
  BY DEF CancelServed, Promise!Drop
<1>2. /\ TypeOK /\ ServerTyped /\ r.item \in Item /\ r.sid \in Sid /\ owner[r.sid] = r.item
      /\ wire \subseteq Request /\ forsaken \subseteq Sid
  BY <1>1, Typed DEF Coherent, WireTrue, TypeOK
<1>3. /\ phase' \in [Sid -> {"unused", "open", "saved", "gone"}] /\ phase'[r.sid] # "open"
      /\ \A s \in Sid : phase'[s] = phase[s] \/ (phase[s] = "open" /\ phase'[s] = "gone")
  BY <1>1, <1>2 DEF ServerTyped
<1>4. ServerTyped'
  BY <1>1, <1>2, <1>3 DEF ServerTyped
<1>5. Sessions' /\ Grows
  BY <1>1, <1>3, <1>4, Closing
<1>6. \A i, s : CancelOf(i, s).sid = s /\ CancelOf(i, s).item = i
  BY DEF CancelOf
<1>7. \A s \in Sid : phase'[s] = "open" =>
        /\ phase[s] = "open" /\ s # r.sid /\ owner'[s] = owner[s]
        /\ \A i : CancelOf(i, s) \in wire => CancelOf(i, s) \in wire'
  BY <1>1, <1>3, <1>6
<1>8. ASSUME NEW w \in Slot, job[w].item = r.item, job[w].pc = "clean", Close(w, item[r.item])
      PROVE  Coherent'
  <2>1. job[w].pc \notin Idle
    BY <1>8 DEF Idle
  <2>2. PICK i : i = job[w].item
    OBVIOUS
  <2>3. /\ i \in Item /\ item[i] \in ItemRecord /\ ItemTrue(i, item[i]) /\ Progress(w)
        /\ \A s \in Sid : phase[s] = "open" /\ owner[s] = i =>
             s \in forsaken \/ CancelOf(i, s) \in wire \/ item[i].session = s
    BY <2>1, <2>2, Holder
  <2>4. ~item[i].pending /\ CancelOf(i, item[i].session) \in wire
    BY <1>8, <2>2, <2>3 DEF Progress
  <2>5. PICK x \in ItemRecord : x = item[i]
    BY <2>3
  <2>6. ItemTrue(i, x)'
    <3>1. ItemTrue(i, x)
      BY <2>3, <2>5
    <3> QED
      BY <1>2, <1>5, <2>3, <3>1, ItemTrueGrows
  <2>7. \A s \in Sid : phase'[s] = "open" =>
           \/ phase[s] = "open" /\ owner'[s] # i
           \/ s \in forsaken'
           \/ owner'[s] = i /\ CancelOf(i, s) \in wire'
           \/ owner'[s] = i /\ x.session = s /\ x.pending
    BY <1>1, <1>7, <2>3, <2>4
  <2>8. /\ wire' \subseteq Request /\ forsaken \subseteq forsaken' /\ forsaken' \subseteq Sid
        /\ \A q \in wire' \ wire : q.item = i /\ q.kind \in {"init", "late"}
        /\ \A q \in wire \ wire' : q.kind = "cancel" => q.item = i
    BY <1>1, <1>2, <1>8, <2>2
  <2>9. /\ Close(w, x) /\ lane' = lane /\ UNCHANGED Page
        /\ item[i].pending => x.pending /\ x.session = item[i].session
        /\ \A s \in Sid : phase'[s] = "saved" => phase[s] = "saved"
    BY <1>1, <1>3, <1>8, <2>2, <2>5
  <2> QED
    BY <1>4, <1>5, <2>1, <2>2, <2>6, <2>7, <2>8, <2>9, CloseStep
<1>9. ASSUME \A w \in Slot : ~(job[w].item = r.item /\ job[w].pc = "clean"), UNCHANGED <<item, job>>
      PROVE  Coherent'
  <2>1. \A w \in Slot : job[w].pc = "clean" =>
          CancelOf(job[w].item, item[job[w].item].session) \in wire'
    <3> SUFFICES ASSUME NEW w \in Slot, job[w].pc = "clean"
                 PROVE  CancelOf(job[w].item, item[job[w].item].session) \in wire'
      OBVIOUS
    <3>1. CancelOf(job[w].item, item[job[w].item].session) \in wire
      BY DEF Coherent, Progress
    <3> QED
      BY <1>1, <1>6, <1>9, <3>1
  <2>2. Remembered'
    BY <1>1, <1>7, <1>9 DEF Coherent, Remembered, CancelOf
  <2>3. \A s \in Sid : phase'[s] = "saved" /\ phase[s] # "saved" =>
           item[owner'[s]].session = s /\ Sure(item[owner'[s]])
    BY <1>3
  <2>4. UNCHANGED <<Page, item, job, lane>> /\ wire' \subseteq wire /\ forsaken \subseteq forsaken' /\ forsaken' \subseteq Sid
    BY <1>1, <1>2, <1>9
  <2> QED
    BY <1>4, <1>5, <2>1, <2>2, <2>3, <2>4, ServerAlone
<1> QED
  BY <1>8, <1>9 DEF CancelServed, At

\* The network loses a request, the server restarts, sweeps a session, or opens one nobody waits for.
LEMMA OutsideStep ==
  ASSUME Coherent,
         \/ \E r \in wire : RequestLost(r)
         \/ Restart
         \/ \E s \in Sid : Sweep(s)
         \/ \E i \in Item, s \in Sid : LateInitServed(i, s)
  PROVE  Coherent'
<1>1. TypeOK /\ ServerTyped /\ forsaken \subseteq Sid /\ wire \subseteq Request
  BY Typed DEF Coherent, TypeOK
<1>2. \A i, s : CancelOf(i, s).sid = s /\ CancelOf(i, s).item = i /\ CancelOf(i, s).kind = "cancel"
  BY DEF CancelOf
<1>3. \A w \in Slot : job[w].pc = "clean" => CancelOf(job[w].item, item[job[w].item].session) \in wire
  BY DEF Coherent, Progress
<1>4. ASSUME NEW r \in wire, RequestLost(r) PROVE Coherent'
  <2>1. /\ \A w \in Slot : job[w].item # r.item
        /\ wire' = wire \ {r} /\ forsaken' = (IF r.kind = "cancel" THEN forsaken \cup {r.sid} ELSE forsaken)
        /\ UNCHANGED <<Page, item, job, lane>> /\ UNCHANGED Server
    BY <1>4 DEF RequestLost
  <2>2. ServerTyped' /\ Sessions' /\ Grows /\ UNCHANGED <<phase, length, got, receipts, owner>>
    BY <2>1, Unmoved, Zenon
  <2>3. r.kind = "cancel" => r.sid \in Sid
    BY DEF Coherent, WireTrue
  <2>4. forsaken \subseteq forsaken' /\ forsaken' \subseteq Sid /\ wire' \subseteq wire
    BY <1>1, <2>1, <2>3
  <2>5. Remembered'
    BY <1>2, <2>1, <2>2 DEF Coherent, Remembered, CancelOf
  <2>6. \A w \in Slot : job[w].pc = "clean" => CancelOf(job[w].item, item[job[w].item].session) \in wire'
    BY <1>2, <1>3, <2>1
  <2>7. \A s \in Sid : phase'[s] = "saved" /\ phase[s] # "saved" =>
           item[owner'[s]].session = s /\ Sure(item[owner'[s]])
    BY <2>2
  <2> QED
    BY <2>1, <2>2, <2>4, <2>5, <2>6, <2>7, ServerAlone
<1>5. ASSUME UNCHANGED <<Page, item, job, lane, owner, wire, forsaken>>, UNCHANGED <<length, got>>,
             phase' \in [Sid -> {"unused", "open", "saved", "gone"}], receipts' \subseteq Sid,
             \A s \in Sid : phase'[s] = phase[s] \/ (phase[s] = "open" /\ phase'[s] = "gone")
      PROVE  Coherent'
  <2>1. ServerTyped'
    BY <1>1, <1>5 DEF ServerTyped
  <2>2. Sessions' /\ Grows
    BY <1>5, <2>1, Closing
  <2>3. Remembered'
    BY <1>5 DEF Coherent, Remembered, CancelOf
  <2>4. \A s \in Sid : phase'[s] = "saved" /\ phase[s] # "saved" =>
           item[owner'[s]].session = s /\ Sure(item[owner'[s]])
    BY <1>5
  <2>5. UNCHANGED <<Page, item, job, lane>> /\ wire' \subseteq wire /\ forsaken \subseteq forsaken' /\ forsaken' \subseteq Sid
    BY <1>1, <1>5
  <2>6. \A w \in Slot : job[w].pc = "clean" => CancelOf(job[w].item, item[job[w].item].session) \in wire'
    BY <1>3, <1>5
  <2> QED
    BY <2>1, <2>2, <2>3, <2>4, <2>5, <2>6, ServerAlone
<1>6. CASE Restart
  <2>1. /\ phase' = [s \in Sid |-> IF phase[s] = "open" THEN "gone" ELSE phase[s]]
        /\ UNCHANGED <<length, got>> /\ receipts' = {}
        /\ UNCHANGED <<Page, item, job, lane, owner, wire, forsaken>>
    BY <1>6 DEF Restart, Promise!Restart
  <2>2. /\ phase' \in [Sid -> {"unused", "open", "saved", "gone"}] /\ receipts' \subseteq Sid
        /\ \A s \in Sid : phase'[s] = phase[s] \/ (phase[s] = "open" /\ phase'[s] = "gone")
    BY <1>1, <2>1 DEF ServerTyped
  <2> QED
    BY <1>5, <2>1, <2>2
<1>7. ASSUME NEW s \in Sid, Sweep(s) PROVE Coherent'
  <2>1. /\ phase[s] = "open" /\ phase' = [phase EXCEPT ![s] = "gone"] /\ UNCHANGED <<length, got>>
        /\ UNCHANGED <<Page, item, job, lane, receipts, owner, wire, forsaken>>
    BY <1>7 DEF Sweep, Promise!Drop
  <2>2. /\ phase' \in [Sid -> {"unused", "open", "saved", "gone"}] /\ receipts' \subseteq Sid
        /\ \A t \in Sid : phase'[t] = phase[t] \/ (phase[t] = "open" /\ phase'[t] = "gone")
    BY <1>1, <2>1 DEF ServerTyped
  <2>3. UNCHANGED <<Page, item, job, lane, owner, wire, forsaken>>
    BY <2>1
  <2> QED
    BY <1>5, <2>1, <2>2, <2>3
<1>8. ASSUME NEW i \in Item, NEW s \in Sid, LateInitServed(i, s) PROVE Coherent'
  <2>1. /\ wire' = wire \ {LateInitOf(i)} /\ OpenFor(i, s) /\ forsaken' = forsaken \cup {s}
        /\ UNCHANGED <<item, job, lane>>
    BY <1>8 DEF LateInitServed
  <2>2. /\ ServerTyped' /\ Sessions' /\ Grows
        /\ phase[s] = "unused" /\ owner'[s] = i /\ phase'[s] = "open"
        /\ \A t \in Sid : t # s => phase'[t] = phase[t] /\ owner'[t] = owner[t]
        /\ UNCHANGED Page
    BY <2>1, Opening
  <2>3. LateInitOf(i).kind = "late"
    BY Requests
  <2>4. \A j, t : CancelOf(j, t) \in wire => CancelOf(j, t) \in wire'
    BY <1>2, <2>1, <2>3
  <2>5. Remembered'
    BY <2>1, <2>2, <2>4 DEF Coherent, Remembered, CancelOf
  <2>6. \A w \in Slot : job[w].pc = "clean" => CancelOf(job[w].item, item[job[w].item].session) \in wire'
    BY <1>3, <2>4
  <2>7. /\ UNCHANGED <<Page, item, job, lane>> /\ wire' \subseteq wire /\ forsaken \subseteq forsaken' /\ forsaken' \subseteq Sid
        /\ \A t \in Sid : phase'[t] = "saved" /\ phase[t] # "saved" =>
             item[owner'[t]].session = t /\ Sure(item[owner'[t]])
    BY <1>1, <2>1, <2>2
  <2> QED
    BY <2>2, <2>5, <2>6, <2>7, ServerAlone
<1> QED
  BY <1>4, <1>6, <1>7, <1>8

\* A session is opened for a file worker that waits for it.
LEMMA InitServedStep ==
  ASSUME Coherent, NEW w \in Slot, NEW s \in Sid, InitServed(w, s)
  PROVE  Coherent'
<1>1. PICK i : i = job[w].item
  OBVIOUS
<1>2. job[w].pc = "init" /\ OpenFor(i, s) /\ forsaken' = forsaken
  BY <1>1 DEF InitServed, At
<1>3. job[w].pc \notin Idle
  BY <1>2 DEF Idle
<1>4. /\ i \in Item /\ item[i] \in ItemRecord /\ item[i].ctrl # "none" /\ item[i].state # "success"
      /\ run # "none" /\ i \notin todo /\ Progress(w) /\ job[w] \in JobRecord
      /\ lane[w] \in [Lane -> LaneRecord] /\ TypeOK
      /\ item[i].ctrl = "live" => run = "on" /\ mounted /\ i \in queue
      /\ \A t \in Sid : phase[t] = "open" /\ owner[t] = i =>
           t \in forsaken \/ CancelOf(i, t) \in wire \/ item[i].session = t
  BY <1>1, <1>3, Holder
<1>5. /\ item[i].session = NoSid /\ ~item[i].pending /\ item[i].confirmed = {} /\ job[w].next = 0
      /\ NoSid \notin Sid
  BY <1>1, <1>2, <1>4, ClientNames DEF Progress
<1>6. /\ ServerTyped' /\ Sessions' /\ Grows
      /\ phase[s] = "unused" /\ owner'[s] = i /\ phase'[s] = "open"
      /\ \A t \in Sid : t # s => phase'[t] = phase[t] /\ owner'[t] = owner[t]
      /\ UNCHANGED Page
  BY <1>2, <1>4, Opening
<1>7. PICK x \in ItemRecord : x = [item[i] EXCEPT !.session = s]
  BY <1>4, ItemTyped
<1>8. /\ x.session = s /\ x.ctrl = item[i].ctrl /\ x.state = item[i].state
      /\ ~x.pending /\ x.confirmed = {}
  BY <1>4, <1>5, <1>7 DEF ItemRecord
<1>9. PICK sent : sent = wire \ {InitOf(i)}
  OBVIOUS
<1>10. /\ sent \subseteq Request /\ sent \subseteq wire /\ \A r \in wire \ sent : r.kind # "cancel"
       /\ \A t \in Sid : CancelOf(i, t) \in wire => CancelOf(i, t) \in sent
  <2>1. InitOf(i).kind = "init"
    BY DEF InitOf
  <2>2. \A t \in Sid : CancelOf(i, t).kind = "cancel"
    BY DEF CancelOf
  <2> QED
    BY <1>4, <1>9, <2>1, <2>2 DEF TypeOK
<1>11. ItemTrue(i, x)'
  BY <1>4, <1>6, <1>8, ClientNames DEF ItemTrue
<1>12. \A t \in Sid : phase'[t] = "saved" => phase[t] = "saved"
  BY <1>6
<1>13. \A t \in Sid : phase'[t] = "open" /\ t # s =>
         \/ phase[t] = "open" /\ owner'[t] # i
         \/ t \in forsaken \/ (owner'[t] = i /\ CancelOf(i, t) \in wire)
  BY <1>4, <1>5, <1>6
<1>14. PICK valid \in BOOLEAN : Opened(w, s, valid)
  BY DEF InitServed
<1>15. CASE ~(Active(i) /\ valid)
  <2>1. Fails(w, x, sent) /\ lane' = lane
    BY <1>1, <1>7, <1>9, <1>14, <1>15 DEF Opened
  <2>2. \A t \in Sid : phase'[t] = "open" =>
           \/ phase[t] = "open" /\ owner'[t] # i
           \/ t \in forsaken \/ (owner'[t] = i /\ (CancelOf(i, t) \in wire \/ x.session = t))
    BY <1>6, <1>8, <1>13
  <2>3. /\ x.ctrl # "none" /\ (x.ctrl = "live" => item[i].ctrl = "live") /\ x.state # "success"
        /\ item[i].pending => x.pending /\ x.session = item[i].session
        /\ \A r \in sent \ wire : r.item = i /\ r.kind \in {"init", "late"}
    BY <1>4, <1>5, <1>8, <1>10
  <2>4. UNCHANGED <<Page, forsaken>>
    BY <1>2, <1>6
  <2> QED
    BY <1>1, <1>3, <1>6, <1>10, <1>11, <1>12, <2>1, <2>2, <2>3, <2>4, FailsStep
<1>16. CASE Active(i) /\ valid
  <2>1. /\ item' = [item EXCEPT ![i] = x] /\ job' = [job EXCEPT ![w].pc = "lanes"]
        /\ lane' = [lane EXCEPT ![w] = [l \in Lane |-> FreshLane]] /\ wire' = sent
    BY <1>1, <1>7, <1>9, <1>14, <1>16 DEF Opened, Goto
  <2>2. PICK j \in JobRecord : j = [job[w] EXCEPT !.pc = "lanes"]
    BY <1>4, JobTyped DEF JobPc
  <2>3. j.pc = "lanes" /\ j.item = i /\ j.next = 0
    BY <1>1, <1>4, <1>5, <2>2 DEF JobRecord
  <2>4. PICK ls \in [Lane -> LaneRecord] : ls = [l \in Lane |-> FreshLane]
    BY LaneTyped
  <2>5. \A l \in Lane : ls[l].pc = "go" /\ ls[l].chunk = NoChunk
    BY <2>4 DEF FreshLane
  <2>6. Takes(w, i, j, x, ls)
    BY <2>1, <2>2, <2>4 DEF Takes
  <2>7. job'[w] = j /\ item'[i] = x /\ lane'[w] = ls
    BY <1>4, <2>6 DEF Takes, TypeOK
  <2>8. length'[s] \in Nat
    BY <1>6, ClientBounds DEF ServerTyped
  <2>9. Lanes(w)'
    BY <1>8, <2>3, <2>5, <2>7, <2>8 DEF Lanes
  <2>10. Progress(w)'
    BY <1>5, <1>8, <2>3, <2>7, <2>9 DEF Progress, Finishing, Asked
  <2>11. InHand(i, j, x)
    BY <1>4, <1>8, <2>3 DEF InHand, Idle
  <2>12. /\ UNCHANGED <<queue, run, paused, canceling, mounted, reading, left>> /\ todo' \subseteq todo \ {i}
         /\ wire' \subseteq Request /\ forsaken \subseteq forsaken' /\ forsaken' \subseteq Sid
    BY <1>2, <1>4, <1>6, <1>10, <2>1 DEF Page, TypeOK
  <2>13. x.ctrl = "live" => run = "on" /\ mounted /\ i \in queue
    BY <1>4, <1>8
  <2>14. item[i].pending => x.session = item[i].session /\ Sure(x)
    BY <1>5
  <2>15. /\ \A r \in wire' \ wire : r.item = i /\
              \/ r.kind \in {"init", "late"}
              \/ /\ r.sid = x.session /\ r.sid # NoSid
                 /\ r.kind = "chunk" => r.chunk \in 0 .. length'[r.sid] - 1
                 /\ r.kind = "complete" => x.pending
         /\ \A r \in wire \ wire' : r.kind = "cancel" => r.item = i
    BY <1>10, <2>1
  <2>16. \A t \in Sid : phase'[t] = "saved" /\ phase[t] # "saved" =>
           t = x.session /\ owner'[t] = i /\ Sure(x)
    BY <1>12
  <2>17. \A t \in Sid : phase'[t] = "open" =>
           \/ phase[t] = "open" /\ owner'[t] # i
           \/ t \in forsaken'
           \/ owner'[t] = i /\ CancelOf(i, t) \in wire'
           \/ owner'[t] = i /\ x.session = t /\ (x.ctrl # "none" \/ x.pending)
    BY <1>2, <1>4, <1>6, <1>8, <1>10, <1>13, <2>1
  <2>18. ~paused => j.pc \notin {"heldNext", "heldFinish"}
                    /\ (j.pc = "lanes" => \A l \in Lane : ls[l].pc # "held")
    BY <2>3, <2>5
  <2>19. job[w].item = i \/ (job[w].item = NoItem /\ item[i].ctrl = "none")
    BY <1>1
  <2> QED
    BY <1>4, <1>6, <1>11, <2>6, <2>10, <2>11, <2>12, <2>13, <2>14, <2>15, <2>16, <2>17, <2>18, <2>19, WorkerStep
<1> QED
  BY <1>15, <1>16

\* A file worker begins a file.
LEMMA BeginsStep ==
  ASSUME Coherent, NEW w \in Slot, WorkerBegins(w)
  PROVE  Coherent'
<1>1. PICK i \in todo \cap queue :
        /\ todo' = todo \ {i}
        /\ \/ Confirming(item[i]) /\ BeginConfirms(w, i)
           \/ ~Confirming(item[i]) /\ BeginForgets(w, i)
  BY DEF WorkerBegins
<1>2. /\ job[w].pc = "next" /\ run = "on" /\ mounted /\ ~paused
      /\ UNCHANGED <<queue, run, lane, paused, canceling, mounted, reading, Server, forsaken, left>>
  BY DEF WorkerBegins, At, Goes
<1>3. TypeOK /\ i \in Item /\ i \in queue /\ i \in todo
  BY <1>1 DEF Coherent, TypeOK
<1>4. /\ item[i] \in ItemRecord /\ wire \subseteq Request /\ forsaken \subseteq Sid
      /\ lane[w] \in [Lane -> LaneRecord]
  BY <1>3, Typed DEF TypeOK
<1>5. item[i].ctrl = "none" /\ item[i].state \in {"pending", "error"} /\ job[w].item = NoItem
  BY <1>2, <1>3 DEF Coherent, Waits, Held, Idle
<1>6. ItemTrue(i, item[i]) /\ item[i].pending \in BOOLEAN
  BY <1>3, <1>4, ItemTyped DEF Coherent, ItemsTrue
<1>7. ServerTyped' /\ Sessions' /\ Grows /\ UNCHANGED <<phase, length, got, receipts, owner>>
  BY <1>2, Unmoved, Zenon
<1>8. \A t \in Sid : phase[t] = "open" /\ owner[t] = i =>
        t \in forsaken \/ CancelOf(i, t) \in wire \/ (item[i].session = t /\ item[i].pending)
  BY <1>5 DEF Coherent, Remembered
<1>9. lane' = [lane EXCEPT ![w] = lane[w]]
  BY <1>2, <1>3 DEF TypeOK
<1>10. NoJob.item = NoItem /\ NoJob.next = 0 /\ NoJob \in JobRecord
  BY JobTyped DEF NoJob
<1>11. /\ UNCHANGED <<queue, run, paused, canceling, mounted, reading, left>> /\ todo' \subseteq todo \ {i}
       /\ forsaken \subseteq forsaken' /\ forsaken' \subseteq Sid /\ run # "none" /\ item[i].state # "success"
       /\ \A t \in Sid : phase'[t] = "saved" => phase[t] = "saved"
  BY <1>1, <1>2, <1>4, <1>5, <1>7
<1>12. CASE Confirming(item[i]) /\ BeginConfirms(w, i)
  <2> DEFINE z == [item[i] EXCEPT !.ctrl = "live", !.state = "completing"]
             k == [NoJob EXCEPT !.pc = "complete", !.item = i]
  <2>1. /\ item' = [item EXCEPT ![i] = z] /\ job' = [job EXCEPT ![w] = k]
        /\ wire' = wire \cup {CompleteOf(i, item[i].session)}
        /\ item[i].pending /\ item[i].session # NoSid
    BY <1>3, <1>12 DEF BeginConfirms, Confirming, TypeOK
  <2>2. PICK x \in ItemRecord : x = z
    BY <1>4 DEF ItemRecord, State, Ctrl
  <2>3. /\ x.ctrl = "live" /\ x.state = "completing" /\ x.session = item[i].session
        /\ x.confirmed = item[i].confirmed /\ x.pending
    BY <1>4, <2>1, <2>2 DEF ItemRecord
  <2>4. PICK j \in JobRecord : j = k
    BY <1>3, <1>10 DEF JobRecord, JobPc
  <2>5. j.pc = "complete" /\ j.item = i
    BY <1>10, <2>4 DEF JobRecord
  <2>6. Takes(w, i, j, x, lane[w])
    BY <1>9, <2>1, <2>2, <2>4 DEF Takes
  <2> HIDE DEF z, k
  <2>7. item[i].session \in Sid
    BY <1>4, <2>1, ItemTyped
  <2>8. PICK r \in Request : /\ wire' = wire \cup {r} /\ r.kind = "complete" /\ r.item = i
                             /\ r.sid = item[i].session
    BY <1>3, <2>1, <2>7, Requests
  <2>9. ItemTrue(i, x)'
    <3>1. ItemTrue(i, x)
      BY <1>6, <2>1, <2>3 DEF ItemTrue
    <3> QED
      BY <1>3, <1>7, <3>1, ItemTrueGrows
  <2>10. Progress(w)'
    <3>1. job'[w] = j /\ item'[i] = x
      BY <1>3, <2>6 DEF Takes, TypeOK
    <3> QED
      BY <2>3, <2>5, <3>1 DEF Progress, Finishing, Asked
  <2>11. InHand(i, j, x)
    BY <2>3, <2>5 DEF InHand, Idle
  <2>12. /\ wire' \subseteq Request
         /\ \A q \in wire' \ wire : q.item = i /\
              \/ q.kind \in {"init", "late"}
              \/ /\ q.sid = x.session /\ q.sid # NoSid
                 /\ q.kind = "chunk" => q.chunk \in 0 .. length'[q.sid] - 1
                 /\ q.kind = "complete" => x.pending
         /\ \A q \in wire \ wire' : q.kind = "cancel" => q.item = i
    BY <1>4, <2>1, <2>3, <2>8
  <2>13. item[i].pending => x.session = item[i].session /\ Sure(x)
    BY <2>3 DEF Sure
  <2>14. \A t \in Sid : phase'[t] = "open" =>
           \/ phase[t] = "open" /\ owner'[t] # i
           \/ t \in forsaken'
           \/ owner'[t] = i /\ CancelOf(i, t) \in wire'
           \/ owner'[t] = i /\ x.session = t /\ (x.ctrl # "none" \/ x.pending)
    BY <1>7, <1>8, <1>11, <2>3, <2>8
  <2>15. ~paused => j.pc \notin {"heldNext", "heldFinish"}
                    /\ (j.pc = "lanes" => \A l \in Lane : lane[w][l].pc # "held")
    BY <2>5
  <2>16. \A t \in Sid : phase'[t] = "saved" /\ phase[t] # "saved" =>
           t = x.session /\ owner'[t] = i /\ Sure(x)
    BY <1>11
  <2> QED
    BY <1>2, <1>3, <1>4, <1>5, <1>7, <1>11, <2>6, <2>9, <2>10, <2>11, <2>12, <2>13, <2>14, <2>15, <2>16, WorkerStep
<1>13. CASE ~Confirming(item[i]) /\ BeginForgets(w, i)
  <2> DEFINE z == [item[i] EXCEPT !.ctrl = "live", !.state = "initializing", !.session = NoSid, !.confirmed = {}]
             k == [NoJob EXCEPT !.pc = "init", !.item = i]
  <2>1. /\ item' = [item EXCEPT ![i] = z] /\ job' = [job EXCEPT ![w] = k]
        /\ wire' = wire \cup {InitOf(i)} /\ ~item[i].pending
    BY <1>3, <1>6, <1>13 DEF BeginForgets, Confirming, TypeOK, ItemTrue
  <2>2. PICK x \in ItemRecord : x = z
    BY <1>4 DEF ItemRecord, State, Ctrl
  <2>3. /\ x.ctrl = "live" /\ x.state = "initializing" /\ x.session = NoSid
        /\ x.confirmed = {} /\ ~x.pending
    BY <1>4, <2>1, <2>2 DEF ItemRecord
  <2>4. PICK j \in JobRecord : j = k
    BY <1>3, <1>10 DEF JobRecord, JobPc
  <2>5. j.pc = "init" /\ j.item = i /\ j.next = 0
    BY <1>10, <2>4 DEF JobRecord
  <2>6. Takes(w, i, j, x, lane[w])
    BY <1>9, <2>1, <2>2, <2>4 DEF Takes
  <2> HIDE DEF z, k
  <2>7. PICK r \in Request : wire' = wire \cup {r} /\ r.kind = "init" /\ r.item = i
    BY <1>3, <2>1, Requests
  <2>8. ItemTrue(i, x)'
    BY <2>3 DEF ItemTrue
  <2>9. Progress(w)'
    <3>1. job'[w] = j /\ item'[i] = x
      BY <1>3, <2>6 DEF Takes, TypeOK
    <3> QED
      BY <2>3, <2>5, <3>1 DEF Progress, Finishing, Asked
  <2>10. InHand(i, j, x)
    BY <2>3, <2>5 DEF InHand, Idle
  <2>11. /\ wire' \subseteq Request
         /\ \A q \in wire' \ wire : q.item = i /\
              \/ q.kind \in {"init", "late"}
              \/ /\ q.sid = x.session /\ q.sid # NoSid
                 /\ q.kind = "chunk" => q.chunk \in 0 .. length'[q.sid] - 1
                 /\ q.kind = "complete" => x.pending
         /\ \A q \in wire \ wire' : q.kind = "cancel" => q.item = i
    BY <1>4, <2>7
  <2>12. item[i].pending => x.session = item[i].session /\ Sure(x)
    BY <2>1
  <2>13. \A t \in Sid : phase'[t] = "open" =>
           \/ phase[t] = "open" /\ owner'[t] # i
           \/ t \in forsaken'
           \/ owner'[t] = i /\ CancelOf(i, t) \in wire'
           \/ owner'[t] = i /\ x.session = t /\ (x.ctrl # "none" \/ x.pending)
    BY <1>7, <1>8, <1>11, <2>1, <2>7
  <2>14. ~paused => j.pc \notin {"heldNext", "heldFinish"}
                    /\ (j.pc = "lanes" => \A l \in Lane : lane[w][l].pc # "held")
    BY <2>5
  <2>15. \A t \in Sid : phase'[t] = "saved" /\ phase[t] # "saved" =>
           t = x.session /\ owner'[t] = i /\ Sure(x)
    BY <1>11
  <2> QED
    BY <1>2, <1>3, <1>4, <1>5, <1>7, <1>11, <2>6, <2>8, <2>9, <2>10, <2>11, <2>12, <2>13, <2>14, <2>15, WorkerStep
<1> QED
  BY <1>1, <1>12, <1>13
-----------------------------------------------------------------------------
(* The server answers a chunk or a completion.                             *)

\* What storing a chunk does to the server.
LEMMA ChunkStored ==
  ASSUME Coherent, NEW r \in wire, ChunkServed(r)
  PROVE  /\ r.item \in Item /\ r.sid \in Sid /\ owner[r.sid] = r.item /\ r.chunk \in 0 .. length[r.sid] - 1
         /\ ServerTyped' /\ Sessions' /\ Grows
         /\ UNCHANGED <<Page, phase, length, receipts, owner, forsaken>>
         /\ phase[r.sid] = "open" => got'[r.sid][r.chunk] = r.item
         /\ phase[r.sid] # "open" => got' = got
         /\ r.kind = "chunk" /\ wire' = wire \ {r}
<1>1. r.kind = "chunk" /\ wire' = wire \ {r} /\ UNCHANGED <<Page, receipts, owner, forsaken>>
  BY DEF ChunkServed
<1>2. r.item \in Item /\ r.sid \in Sid /\ owner[r.sid] = r.item /\ r.chunk \in 0 .. length[r.sid] - 1
  BY <1>1, Typed DEF Coherent, WireTrue
<1>3. CASE /\ phase[r.sid] = "open" /\ got[r.sid][r.chunk] = Hole
           /\ got' = [got EXCEPT ![r.sid][r.chunk] = r.item] /\ Promise!Accept(r.sid)
  <2>1. UNCHANGED <<phase, length>>
    BY <1>3 DEF Promise!Accept
  <2>2. got' = [got EXCEPT ![r.sid][r.chunk] = owner[r.sid]]
    BY <1>2, <1>3
  <2>3. UNCHANGED <<phase, length, owner, receipts>>
    BY <1>1, <2>1
  <2>4. ServerTyped' /\ Sessions' /\ Grows /\ got'[r.sid][r.chunk] = owner[r.sid]
    BY <1>2, <1>3, <2>2, <2>3, Storing
  <2> QED
    BY <1>1, <1>2, <1>3, <2>3, <2>4
<1>4. CASE (phase[r.sid] # "open" \/ got[r.sid][r.chunk] # Hole) /\ UNCHANGED <<phase, length, got>>
  <2>1. UNCHANGED Server
    BY <1>1, <1>4 DEF Server
  <2>2. ServerTyped' /\ Sessions' /\ Grows
    BY <2>1, Unmoved, Zenon
  <2>3. phase[r.sid] = "open" => got[r.sid][r.chunk] = r.item
    <3>1. r.chunk \in Chunk
      BY <1>2, Typed, Chunks DEF Coherent
    <3> QED
      BY <1>2, <1>4, <3>1 DEF Coherent, Sessions
  <2> QED
    BY <1>1, <1>2, <1>4, <2>2, <2>3
<1> QED
  BY <1>3, <1>4 DEF ChunkServed

\* A chunk is stored, and its worker told.
LEMMA ConfirmStep ==
  ASSUME Coherent, NEW r \in wire, ChunkServed(r), NEW w \in Slot, NEW l \in Lane, Awaits(w, l, r),
         phase[r.sid] = "open", Confirm(w, l, r.chunk)
  PROVE  Coherent'
<1>1. PICK i : i = job[w].item /\ i = r.item
  BY DEF Awaits
<1>2. PICK c : c = r.chunk
  OBVIOUS
<1>3. /\ job[w].pc = "lanes" /\ lane[w][l].pc = "sent" /\ lane[w][l].chunk = c /\ item[i].session = r.sid
  BY <1>1, <1>2 DEF Awaits, InLane, At
<1>4. job[w].pc \notin Idle
  BY <1>3 DEF Idle
<1>5. /\ i \in Item /\ item[i] \in ItemRecord /\ item[i].ctrl # "none" /\ item[i].state # "success"
      /\ run # "none" /\ i \notin todo /\ ItemTrue(i, item[i]) /\ Progress(w) /\ job[w] \in JobRecord
      /\ lane[w] \in [Lane -> LaneRecord] /\ TypeOK
      /\ item[i].ctrl = "live" => run = "on" /\ mounted /\ i \in queue
      /\ \A s \in Sid : phase[s] = "open" /\ owner[s] = i =>
           s \in forsaken \/ CancelOf(i, s) \in wire \/ item[i].session = s
      /\ ~paused => \A m \in Lane : lane[w][m].pc # "held"
  BY <1>1, <1>3, <1>4, Holder
<1>6. Lanes(w) /\ ~item[i].pending
  BY <1>1, <1>3, <1>5 DEF Progress
<1>7. /\ r.sid \in Sid /\ owner[r.sid] = i /\ c \in 0 .. length[r.sid] - 1
      /\ ServerTyped' /\ Sessions' /\ Grows
      /\ UNCHANGED <<Page, phase, length, receipts, owner, forsaken>>
      /\ got'[r.sid][c] = i /\ wire' = wire \ {r} /\ r.kind = "chunk"
  BY <1>1, <1>2, ChunkStored
<1>8. c \in Chunk /\ c # NoChunk /\ item[i].confirmed \subseteq Chunk /\ r.sid # NoSid
  BY <1>5, <1>7, Typed, Chunks, ItemTyped, ClientNames
<1>9. PICK cs \in SUBSET Chunk : cs = item[i].confirmed \cup {c}
  BY <1>8
<1>10. PICK x \in ItemRecord : x = [item[i] EXCEPT !.confirmed = cs]
  BY <1>5, ItemTyped
<1>11. /\ x.ctrl = item[i].ctrl /\ x.state = item[i].state /\ x.session = r.sid
       /\ ~x.pending /\ x.confirmed = item[i].confirmed \cup {c}
  BY <1>3, <1>5, <1>6, <1>9, <1>10 DEF ItemRecord
<1> DEFINE ls == [lane[w] EXCEPT ![l] = FreshLane]
<1>12. /\ ls \in [Lane -> LaneRecord] /\ ls[l] = FreshLane /\ \A m \in Lane : m # l => ls[m] = lane[w][m]
  BY <1>5, LaneTyped
<1>13. Takes(w, i, job[w], x, ls)
  <2>1. item' = [item EXCEPT ![i] = x]
    BY <1>1, <1>2, <1>5, <1>9, <1>10 DEF Confirm, TypeOK
  <2>2. lane' = [lane EXCEPT ![w] = ls] /\ job' = [job EXCEPT ![w] = job[w]]
    BY <1>5 DEF Confirm, TypeOK
  <2> QED
    BY <2>1, <2>2 DEF Takes
<1> HIDE DEF ls
<1>14. job'[w] = job[w] /\ item'[i] = x /\ lane'[w] = ls
  BY <1>5, <1>13 DEF Takes, TypeOK
<1>15. FreshLane.pc = "go" /\ FreshLane.chunk = NoChunk
  BY DEF FreshLane
<1>16. Lanes(w)'
  <2>1. length'[item'[job'[w].item].session] = length[item[job[w].item].session]
    BY <1>1, <1>3, <1>7, <1>11, <1>14
  <2>2. \A m \in Lane :
          /\ ls[m].chunk = NoChunk \/ ls[m].chunk < job[w].next
          /\ ls[m].pc \in {"sent", "delay"} => ls[m].chunk # NoChunk
          /\ ls[m].pc = "ended" => ls[m].chunk = NoChunk /\ (job[w].failed \/ job[w].next = length[item[job[w].item].session])
    BY <1>6, <1>12, <1>15 DEF Lanes
  <2>3. ASSUME ~job[w].failed, NEW d \in 0 .. job[w].next - 1
        PROVE  d \in x.confirmed \/ \E m \in Lane : ls[m].chunk = d
    <3>1. d \in item[i].confirmed \/ \E m \in Lane : lane[w][m].chunk = d
      BY <1>1, <1>6, <2>3 DEF Lanes
    <3> QED
      BY <1>3, <1>11, <1>12, <3>1
  <2>4. job[w].next <= length[item[job[w].item].session]
    BY <1>6 DEF Lanes
  <2> QED
    BY <1>1, <1>14, <2>1, <2>2, <2>3, <2>4 DEF Lanes
<1>17. Progress(w)'
  BY <1>1, <1>3, <1>8, <1>11, <1>14, <1>16 DEF Progress, Finishing, Asked
<1>18. ItemTrue(i, x)'
  <2>1. \A d \in item[i].confirmed : got'[r.sid][d] = i
    BY <1>3, <1>5, <1>7, <1>8, ClientNames DEF ItemTrue, Grows
  <2> QED
    BY <1>5, <1>7, <1>8, <1>11, <2>1 DEF ItemTrue
<1>19. InHand(i, job[w], x)
  BY <1>1, <1>4, <1>5, <1>11 DEF InHand
<1>20. /\ UNCHANGED <<queue, run, paused, canceling, mounted, reading, left>> /\ todo' \subseteq todo \ {i}
       /\ wire' \subseteq Request /\ forsaken \subseteq forsaken' /\ forsaken' \subseteq Sid
  BY <1>5, <1>7 DEF Page, TypeOK
<1>21. \A s \in Sid : CancelOf(i, s) \in wire => CancelOf(i, s) \in wire'
  <2>1. \A s \in Sid : CancelOf(i, s).kind = "cancel"
    BY DEF CancelOf
  <2> QED
    BY <1>7, <2>1
<1>22. \A s \in Sid : phase'[s] = "open" =>
         \/ phase[s] = "open" /\ owner'[s] # i
         \/ s \in forsaken'
         \/ owner'[s] = i /\ CancelOf(i, s) \in wire'
         \/ owner'[s] = i /\ x.session = s /\ (x.ctrl # "none" \/ x.pending)
  BY <1>3, <1>5, <1>7, <1>11, <1>21
<1>23. /\ \A q \in wire' \ wire : q.item = i /\
            \/ q.kind \in {"init", "late"}
            \/ /\ q.sid = x.session /\ q.sid # NoSid
               /\ q.kind = "chunk" => q.chunk \in 0 .. length'[q.sid] - 1
               /\ q.kind = "complete" => x.pending
       /\ \A q \in wire \ wire' : q.kind = "cancel" => q.item = i
       /\ \A s \in Sid : phase'[s] = "saved" /\ phase[s] # "saved" =>
            s = x.session /\ owner'[s] = i /\ Sure(x)
  BY <1>7
<1>24. ~paused => job[w].pc \notin {"heldNext", "heldFinish"}
                  /\ (job[w].pc = "lanes" => \A m \in Lane : ls[m].pc # "held")
  BY <1>3, <1>5, <1>12, <1>15
<1>25. /\ x.ctrl = "live" => run = "on" /\ mounted /\ i \in queue
       /\ item[i].pending => x.session = item[i].session /\ Sure(x)
       /\ job[w].item = i \/ (job[w].item = NoItem /\ item[i].ctrl = "none")
  BY <1>1, <1>5, <1>6, <1>11
<1> QED
  BY <1>5, <1>7, <1>12, <1>13, <1>17, <1>18, <1>19, <1>20, <1>22, <1>23, <1>24, <1>25, WorkerStep

\* The server stores a chunk, or refuses it.
LEMMA ChunkServedStep ==
  ASSUME Coherent, NEW r \in wire, ChunkServed(r)
  PROVE  Coherent'
<1>1. /\ r.item \in Item /\ r.sid \in Sid /\ owner[r.sid] = r.item
      /\ ServerTyped' /\ Sessions' /\ Grows
      /\ UNCHANGED <<Page, phase, length, receipts, owner, forsaken>>
      /\ phase[r.sid] # "open" => got' = got
      /\ r.kind = "chunk" /\ wire' = wire \ {r}
  BY ChunkStored
<1>2. lane \in [Slot -> [Lane -> LaneRecord]] /\ forsaken \subseteq Sid
  BY DEF Coherent, TypeOK
<1>3. ASSUME NEW w \in Slot, NEW l \in Lane, Awaits(w, l, r), phase[r.sid] # "open", LaneThrows(w, l)
      PROVE  Coherent'
  <2>1. job[w].pc = "lanes"
    BY <1>3 DEF Awaits, InLane, At
  <2>2. UNCHANGED <<Page, Server, forsaken>>
    BY <1>1, <1>3 DEF Server
  <2>3. wire' \subseteq wire /\ \A q \in wire \ wire' : q.kind # "cancel"
    BY <1>1
  <2> QED
    BY <1>3, <2>1, <2>2, <2>3, ThrowStep
<1>4. ASSUME NEW w \in Slot, NEW l \in Lane, Awaits(w, l, r), phase[r.sid] = "open", Confirm(w, l, r.chunk)
      PROVE  Coherent'
  BY <1>4, ConfirmStep
<1>5. ASSUME UNCHANGED <<item, job, lane>>
      PROVE  Coherent'
  <2>1. \A i, s : CancelOf(i, s).kind = "cancel"
    BY DEF CancelOf
  <2>2. \A i, s : CancelOf(i, s) \in wire => CancelOf(i, s) \in wire'
    BY <1>1, <2>1
  <2>3. \A w \in Slot : job[w].pc = "clean" => CancelOf(job[w].item, item[job[w].item].session) \in wire'
    BY <2>2 DEF Coherent, Progress
  <2>4. Remembered'
    BY <1>1, <1>5, <2>2 DEF Coherent, Remembered, CancelOf
  <2>5. /\ UNCHANGED <<Page, item, job, lane>> /\ wire' \subseteq wire
        /\ forsaken \subseteq forsaken' /\ forsaken' \subseteq Sid
        /\ \A s \in Sid : phase'[s] = "saved" /\ phase[s] # "saved" =>
             item[owner'[s]].session = s /\ Sure(item[owner'[s]])
    BY <1>1, <1>2, <1>5
  <2> QED
    BY <1>1, <2>3, <2>4, <2>5, ServerAlone
<1> QED
  BY <1>3, <1>4, <1>5 DEF ChunkServed

\* What a completion does to the server: its session is saved when it is open and whole.
LEMMA CompletionStored ==
  ASSUME Coherent, NEW r \in wire, CompleteServed(r), NEW s, s = r.sid
  PROVE  /\ r.item \in Item /\ s \in Sid /\ owner[s] = r.item /\ item[r.item].session = s /\ Sure(item[r.item])
         /\ ServerTyped' /\ Sessions' /\ Grows
         /\ UNCHANGED <<Page, length, got, owner, forsaken, lane>>
         /\ \A t \in Sid : phase'[t] = phase[t] \/ (t = s /\ phase[s] = "open" /\ phase'[s] = "saved")
         /\ (phase'[s] = phase[s] /\ UNCHANGED Server) \/ phase'[s] = "saved"
<1>1. r.kind = "complete" /\ UNCHANGED <<Page, lane, owner, forsaken>>
  BY DEF CompleteServed
<1>2. /\ r.item \in Item /\ s \in Sid /\ owner[s] = r.item /\ item[r.item].session = s /\ Sure(item[r.item])
      /\ ServerTyped
  BY <1>1, Typed DEF Coherent, WireTrue
<1>3. CASE /\ phase[s] = "open" /\ \A c \in 0 .. length[s] - 1 : got[s][c] # Hole
           /\ Promise!Save(s) /\ receipts' = receipts \cup {s}
  <2>1. phase' = [phase EXCEPT ![s] = "saved"] /\ UNCHANGED <<length, got>>
    BY <1>3 DEF Promise!Save
  <2>2. /\ phase' \in [Sid -> {"unused", "open", "saved", "gone"}] /\ phase'[s] = "saved"
        /\ \A t \in Sid : t # s => phase'[t] = phase[t]
    BY <1>2, <2>1 DEF ServerTyped
  <2>3. ServerTyped'
    BY <1>1, <1>2, <1>3, <2>1, <2>2 DEF ServerTyped
  <2>4. \A t \in Sid : \/ phase'[t] = phase[t]
                       \/ phase[t] = "open" /\ phase'[t] = "gone"
                       \/ /\ phase[t] = "open" /\ phase'[t] = "saved"
                          /\ \A c \in 0 .. length[t] - 1 : got[t][c] # Hole
    BY <1>3, <2>2
  <2>5. UNCHANGED <<length, got, owner>>
    BY <1>1, <2>1
  <2>6. Sessions' /\ Grows
    BY <2>3, <2>4, <2>5, Closing
  <2> QED
    BY <1>1, <1>2, <1>3, <2>2, <2>3, <2>5, <2>6
<1>4. CASE UNCHANGED <<phase, length, got, receipts>>
  <2>1. UNCHANGED Server
    BY <1>1, <1>4 DEF Server
  <2>2. ServerTyped' /\ Sessions' /\ Grows
    BY <2>1, Unmoved, Zenon
  <2> QED
    BY <1>1, <1>2, <1>4, <2>1, <2>2
<1> QED
  BY <1>3, <1>4 DEF CompleteServed

\* The server completes an upload, or answers that it cannot.
LEMMA CompleteServedStep ==
  ASSUME Coherent, NEW r \in wire, CompleteServed(r)
  PROVE  Coherent'
<1>1. PICK s : s = r.sid
  OBVIOUS
<1>2. /\ r.item \in Item /\ s \in Sid /\ owner[s] = r.item /\ item[r.item].session = s /\ Sure(item[r.item])
      /\ ServerTyped' /\ Sessions' /\ Grows
      /\ UNCHANGED <<Page, length, got, owner, forsaken, lane>>
      /\ \A t \in Sid : phase'[t] = phase[t] \/ (t = s /\ phase[s] = "open" /\ phase'[s] = "saved")
      /\ (phase'[s] = phase[s] /\ UNCHANGED Server) \/ phase'[s] = "saved"
  BY <1>1, CompletionStored
<1>3. r.kind = "complete" /\ wire \subseteq Request /\ forsaken \subseteq Sid /\ NoSid \notin Sid
  BY ClientNames DEF CompleteServed, Coherent, TypeOK
<1> DEFINE whole == phase[s] = "open" /\ \A c \in 0 .. length[s] - 1 : got[s][c] # Hole
<1>4. ASSUME NEW w \in Slot, job[w].item = r.item, job[w].pc = "complete", wire' = wire \ {r},
             phase'[s] = "saved", Success(w)
      PROVE  Coherent'
  <2>1. job[w].pc \notin Idle
    BY <1>4 DEF Idle
  <2>2. PICK i : i = job[w].item /\ i = r.item
    BY <1>4
  <2>3. /\ wire' \subseteq wire /\ \A q \in wire \ wire' : q.kind # "cancel"
        /\ item[i].session # NoSid /\ phase'[item[i].session] = "saved"
        /\ \A t \in Sid : phase'[t] = "saved" /\ phase[t] # "saved" => t = item[i].session
        /\ \A t \in Sid : phase'[t] = "open" => phase[t] = "open" /\ owner'[t] = owner[t]
        /\ UNCHANGED <<Page, forsaken>> /\ lane' = lane
    BY <1>2, <1>3, <1>4, <2>2
  <2> QED
    BY <1>2, <1>4, <2>1, <2>2, <2>3, SuccessStep
<1>5. ASSUME NEW w \in Slot, job[w].item = r.item, job[w].pc = "complete",
             UNCHANGED Server, Fails(w, item[r.item], wire \ {r})
      PROVE  Coherent'
  <2>1. job[w].pc \notin Idle
    BY <1>5 DEF Idle
  <2>2. PICK i : i = job[w].item /\ i = r.item
    BY <1>5
  <2>3. PICK sent : sent = wire \ {r}
    OBVIOUS
  <2>4. /\ Fails(w, item[i], sent) /\ sent \subseteq Request
        /\ \A q \in sent \ wire : q.item = i /\ q.kind \in {"init", "late"}
        /\ \A q \in wire \ sent : q.kind # "cancel"
    BY <1>3, <1>5, <2>2, <2>3
  <2>5. lane' = lane /\ UNCHANGED <<Page, Server, forsaken>>
    BY <1>2, <1>5
  <2> QED
    BY <2>1, <2>2, <2>4, <2>5, GivenUp
<1>6. ASSUME wire' = wire \ {r}, UNCHANGED <<item, job>>
      PROVE  Coherent'
  <2>1. \A i, t : CancelOf(i, t).kind = "cancel"
    BY DEF CancelOf
  <2>2. \A i, t : CancelOf(i, t) \in wire => CancelOf(i, t) \in wire'
    BY <1>3, <1>6, <2>1
  <2>3. \A w \in Slot : job[w].pc = "clean" => CancelOf(job[w].item, item[job[w].item].session) \in wire'
    BY <2>2 DEF Coherent, Progress
  <2>4. Remembered'
    BY <1>2, <1>6, <2>2 DEF Coherent, Remembered, CancelOf
  <2>5. /\ UNCHANGED <<Page, item, job, lane>> /\ wire' \subseteq wire
        /\ forsaken \subseteq forsaken' /\ forsaken' \subseteq Sid
        /\ \A t \in Sid : phase'[t] = "saved" /\ phase[t] # "saved" =>
             item[owner'[t]].session = t /\ Sure(item[owner'[t]])
    BY <1>2, <1>3, <1>6
  <2> QED
    BY <1>2, <2>3, <2>4, <2>5, ServerAlone
<1>7. /\ \/ whole /\ Promise!Save(s) /\ receipts' = receipts \cup {s}
         \/ ~whole /\ UNCHANGED <<phase, length, got, receipts>>
      /\ \/ wire' = wire \ {r} /\ UNCHANGED <<item, job>>
         \/ \E w \in Slot : /\ job[w].item = r.item /\ job[w].pc = "complete"
                            /\ \/ (whole \/ Known(s)) /\ Success(w) /\ wire' = wire \ {r}
                               \/ ~(whole \/ Known(s)) /\ Fails(w, item[r.item], wire \ {r})
  BY <1>1 DEF CompleteServed, At
<1>8. whole \/ Known(s) => phase'[s] = "saved"
  <2>1. whole => phase'[s] = "saved"
    <3>1. phase \in [Sid -> {"unused", "open", "saved", "gone"}]
      BY DEF Coherent, TypeOK
    <3> QED
      BY <1>2, <1>7, <3>1 DEF Promise!Save
  <2>2. Known(s) => phase'[s] = "saved"
    BY <1>2 DEF Known
  <2> QED
    BY <2>1, <2>2
<1>9. ~whole => UNCHANGED Server
  BY <1>2, <1>7 DEF Server
<1> HIDE DEF whole
<1> QED
  BY <1>4, <1>5, <1>6, <1>7, <1>8, <1>9
-----------------------------------------------------------------------------
(* What becomes of a completion that no retry can confirm any more.        *)

Confirmable(i) == i \in queue /\ mounted
Over(i, s) == phase[s] # "open" \/ s \in forsaken \/ CancelOf(i, s) \in wire

\* A session whose completion was asked for can be confirmed by its file, or is seen to.
SeenTo == \A i \in Item : item[i].pending => Confirmable(i) \/ Over(i, item[i].session)

\* No completion is asked for but of a file in the queue, and what is seen to stays so.
Kept == \A i \in Item : item'[i].pending =>
  Confirmable(i) \/ (item[i].pending /\ item'[i].session = item[i].session)
OverStays == \A i \in Item, s \in Sid : phase[s] # "unused" /\ Over(i, s) => Over(i, s)'
Quiet == UNCHANGED <<phase, forsaken>> /\ \A r \in wire \ wire' : r.kind # "cancel"

\* The session of a completion that was asked for exists.
LEMMA AskedSession ==
  ASSUME Coherent, NEW i \in Item, item[i].pending
  PROVE  item[i].session \in Sid /\ item[i].session # NoSid /\ phase[item[i].session] # "unused"
<1>1. item[i] \in ItemRecord /\ ItemTrue(i, item[i]) /\ i # NoItem
  BY Typed, ClientNames DEF Coherent, ItemsTrue
<1>2. item[i].session \in Sid /\ item[i].session # NoSid /\ owner[item[i].session] = i
  BY <1>1, ItemTyped DEF ItemTrue
<1>3. \A s \in Sid : phase[s] = "unused" => owner[s] = NoItem
  BY DEF Coherent, Sessions
<1> QED
  BY <1>1, <1>2, <1>3

\* A step that takes no file from the queue.
LEMMA StaysSeenTo ==
  ASSUME Coherent, SeenTo, Kept, OverStays, queue \subseteq queue', mounted' = mounted
  PROVE  SeenTo'
<1> SUFFICES ASSUME NEW i \in Item, item'[i].pending, ~Confirmable(i)'
             PROVE  Over(i, item[i].session)'
  BY DEF SeenTo
<1>1. ~Confirmable(i)
  BY DEF Confirmable
<1>2. item[i].pending /\ item'[i].session = item[i].session
  BY <1>1 DEF Kept
<1>3. Over(i, item[i].session)
  BY <1>1, <1>2 DEF SeenTo
<1>4. PICK s \in Sid : s = item[i].session /\ phase[s] # "unused"
  BY <1>2, AskedSession
<1>5. Over(i, s)'
  BY <1>3, <1>4 DEF OverStays
<1> QED
  BY <1>2, <1>4, <1>5 DEF Over

\* No session is opened again, and a cancellation that leaves the wire was served or lost.
LEMMA StaysOver ==
  ASSUME forsaken \subseteq forsaken',
         \A s \in Sid : phase'[s] = "open" => phase[s] \in {"open", "unused"},
         \A r \in wire \ wire' : r.kind = "cancel" => r.sid \in forsaken' \/ phase'[r.sid] # "open"
  PROVE  OverStays
<1>1. \A i \in Item, s \in Sid : CancelOf(i, s).kind = "cancel" /\ CancelOf(i, s).sid = s
  BY DEF CancelOf
<1> QED
  BY <1>1 DEF OverStays, Over

\* So does a step that touches neither.
LEMMA QuietOver ==
  ASSUME Quiet
  PROVE  OverStays
<1>1. \A i \in Item, s \in Sid : CancelOf(i, s).kind = "cancel"
  BY DEF CancelOf
<1> QED
  BY <1>1 DEF Quiet, OverStays, Over

\* One file changes.
LEMMA KeptOne ==
  ASSUME TypeOK, NEW i, NEW x, item' = [item EXCEPT ![i] = x],
         x.pending => Confirmable(i) \/ (item[i].pending /\ x.session = item[i].session)
  PROVE  Kept
<1>1. \A k \in Item : item'[k] = IF k = i THEN x ELSE item[k]
  BY DEF TypeOK
<1> QED
  BY <1>1 DEF Kept

\* A transfer ends after an error.
LEMMA KeptClosed ==
  ASSUME TypeOK, NEW w \in Slot, NEW x \in ItemRecord, Close(w, x),
         x.pending => item[job[w].item].pending /\ x.session = item[job[w].item].session
  PROVE  Kept
<1>1. PICK e : e = EndedItem(job[w].item, x)
  OBVIOUS
<1>2. e.pending = x.pending /\ (x.pending => e.session = x.session)
  BY <1>1, Ended
<1>3. item' = [item EXCEPT ![job[w].item] = e]
  BY <1>1 DEF Close
<1> QED
  BY <1>2, <1>3, KeptOne

\* An error of a transfer takes no cancellation off the wire.
LEMMA KeptFailing ==
  ASSUME TypeOK, NEW w \in Slot, NEW x \in ItemRecord, NEW sent, Fails(w, x, sent),
         x.pending => item[job[w].item].pending /\ x.session = item[job[w].item].session,
         \A r \in wire \ sent : r.kind # "cancel"
  PROVE  Kept /\ \A r \in wire \ wire' : r.kind # "cancel"
<1>1. CASE x.pending \/ x.session = NoSid
  BY <1>1, KeptClosed DEF Fails
<1>2. CASE ~(x.pending \/ x.session = NoSid)
  <2>1. item' = [item EXCEPT ![job[w].item] = x] /\ sent \subseteq wire'
    BY <1>2 DEF Fails
  <2> QED
    BY <2>1, KeptOne
<1> QED
  BY <1>1, <1>2

\* One of an item the page has not changed.
LEMMA KeptThrowing ==
  ASSUME TypeOK, NEW w \in Slot, job[w].item \in Item, NEW sent, Fails(w, item[job[w].item], sent),
         UNCHANGED <<phase, forsaken>>, \A r \in wire \ sent : r.kind # "cancel"
  PROVE  Kept /\ Quiet
<1>1. PICK x \in ItemRecord : x = item[job[w].item]
  BY Typed
<1>2. Kept /\ \A r \in wire \ wire' : r.kind # "cancel"
  BY <1>1, KeptFailing
<1> QED
  BY <1>2 DEF Quiet

\* A success.
LEMMA KeptSuccess ==
  ASSUME TypeOK, NEW w \in Slot, job[w].item \in Item, Success(w)
  PROVE  Kept
<1>1. PICK y \in ItemRecord : y = item[job[w].item]
  BY Typed
<1>2. PICK x : x = [y EXCEPT !.state = "success", !.pending = FALSE, !.ctrl = "none"]
  OBVIOUS
<1>3. ~x.pending
  BY <1>2 DEF ItemRecord
<1>4. item' = [item EXCEPT ![job[w].item] = x]
  BY <1>1, <1>2 DEF Success
<1> QED
  BY <1>3, <1>4, KeptOne

\* A file shows another state, or its controller ends.
LEMMA KeptShowing ==
  ASSUME TypeOK, NEW i \in Item, NEW v,
         item' \in {item, [item EXCEPT ![i].state = v], [item EXCEPT ![i].ctrl = v]}
  PROVE  Kept
<1>1. PICK y \in ItemRecord : y = item[i]
  BY Typed
<1>2. /\ [y EXCEPT !.state = v].pending = y.pending /\ [y EXCEPT !.state = v].session = y.session
      /\ [y EXCEPT !.ctrl = v].pending = y.pending /\ [y EXCEPT !.ctrl = v].session = y.session
  BY DEF ItemRecord
<1>3. CASE item' = item
  BY <1>3 DEF Kept
<1>4. CASE item' = [item EXCEPT ![i].state = v]
  <2>1. item' = [item EXCEPT ![i] = [y EXCEPT !.state = v]]
    BY <1>1, <1>4 DEF TypeOK
  <2> QED
    BY <1>1, <1>2, <2>1, KeptOne
<1>5. CASE item' = [item EXCEPT ![i].ctrl = v]
  <2>1. item' = [item EXCEPT ![i] = [y EXCEPT !.ctrl = v]]
    BY <1>1, <1>5 DEF TypeOK
  <2> QED
    BY <1>1, <1>2, <2>1, KeptOne
<1> QED
  BY <1>3, <1>4, <1>5

\* A chunk worker throws.
LEMMA KeptLaneThrows ==
  ASSUME TypeOK, NEW w \in Slot, NEW l \in Lane, job[w].item \in Item, LaneThrows(w, l)
  PROVE  Kept
<1>1. PICK v : v = IF item[job[w].item].ctrl = "live" THEN "failed" ELSE item[job[w].item].ctrl
  OBVIOUS
<1>2. item' = [item EXCEPT ![job[w].item].ctrl = v]
  BY <1>1 DEF LaneThrows
<1>3. item' \in {item, [item EXCEPT ![job[w].item].state = v], [item EXCEPT ![job[w].item].ctrl = v]}
  BY <1>2, Zenon
<1> QED
  BY <1>3, KeptShowing

\* The steps of a chunk worker.
LEMMA LanesSeeTo ==
  ASSUME Coherent, SeenTo, NEW w \in Slot, NEW l \in Lane, LaneStep(w, l) \/ ChunkFails(w, l)
  PROVE  SeenTo'
<1>1. TypeOK /\ UNCHANGED <<phase, forsaken, queue, mounted>> /\ job[w].pc = "lanes"
  BY DEF Coherent, LaneStep, LaneEnds, LaneStops, LaneHolds, LaneClaims, LaneResends, LaneWaitEnds,
         ChunkFails, InLane, At, Page, Server
<1>2. job[w].item \in Item
  BY <1>1, Holder DEF Idle
<1>3. \A r \in wire \ wire' : r.kind # "cancel"
  <2>1. \A i, s, c : ChunkOf(i, s, c).kind # "cancel"
    BY DEF ChunkOf
  <2> QED
    BY <2>1 DEF LaneStep, LaneEnds, LaneStops, LaneHolds, LaneClaims, LaneResends, LaneWaitEnds,
                ChunkFails, SendChunk
<1>4. Kept
  <2>1. \/ LaneThrows(w, l) \/ item' = item
        \/ item' = [item EXCEPT ![job[w].item].state = "paused"]
        \/ item' = [item EXCEPT ![job[w].item].state = "uploading"]
    BY DEF LaneStep, LaneEnds, LaneStops, LaneHolds, LaneClaims, LaneResends, LaneWaitEnds,
           ChunkFails, SendChunk, LaneWaits
  <2>2. CASE LaneThrows(w, l)
    BY <1>1, <1>2, <2>2, KeptLaneThrows
  <2>3. CASE item' = item
    BY <2>3 DEF Kept
  <2>4. ASSUME NEW v, item' = [item EXCEPT ![job[w].item].state = v]
        PROVE  Kept
    <3>1. item' \in {item, [item EXCEPT ![job[w].item].state = v], [item EXCEPT ![job[w].item].ctrl = v]}
      BY <2>4, Zenon
    <3> QED
      BY <1>1, <1>2, <3>1, KeptShowing
  <2>5. CASE item' = [item EXCEPT ![job[w].item].state = "paused"]
    BY <2>4, <2>5
  <2>6. CASE item' = [item EXCEPT ![job[w].item].state = "uploading"]
    BY <2>4, <2>6
  <2> QED
    BY <2>1, <2>2, <2>3, <2>5, <2>6
<1> QED
  BY <1>1, <1>3, <1>4, QuietOver, StaysSeenTo DEF Quiet

\* The errors of a file worker.
LEMMA ThrowsSeeTo ==
  ASSUME Coherent, SeenTo, NEW w \in Slot, job[w].pc \notin Idle, UNCHANGED <<Page, Server, forsaken>>,
         NEW sent, Fails(w, item[job[w].item], sent), \A r \in wire \ sent : r.kind # "cancel"
  PROVE  SeenTo'
<1>1. TypeOK /\ job[w].item \in Item /\ UNCHANGED <<phase, forsaken, queue, mounted>>
  BY Holder DEF Page, Server
<1>2. Kept /\ Quiet
  BY <1>1, KeptThrowing
<1> QED
  BY <1>1, <1>2, QuietOver, StaysSeenTo

\* A completion is asked for, and confirmed, of a file in the queue.
LEMMA JobsSeeTo ==
  ASSUME Coherent, SeenTo, NEW w \in Slot, JobStep(w)
  PROVE  SeenTo'
<1>1. TypeOK /\ UNCHANGED <<phase, forsaken, queue, mounted>> /\ UNCHANGED <<Server, forsaken>>
  BY DEF Coherent, JobStep, WorkerEnds, WorkerHolds, WorkerSkips, WorkerBegins, Settled, Finish,
         Aborted, StatusAnswered, CompleteAgain, Page, Server
<1>2. ASSUME Kept, wire \subseteq wire' PROVE SeenTo'
  BY <1>1, <1>2, QuietOver, StaysSeenTo DEF Quiet
<1>3. ASSUME Throw(w), job[w].pc \notin Idle, UNCHANGED Page PROVE SeenTo'
  <2>1. Fails(w, item[job[w].item], wire)
    BY <1>3 DEF Throw
  <2> QED
    BY <1>1, <1>3, <2>1, ThrowsSeeTo
<1>4. ASSUME item' = item, wire \subseteq wire' PROVE SeenTo'
  BY <1>2, <1>4 DEF Kept
<1>5. CASE WorkerEnds(w) \/ WorkerHolds(w) \/ WorkerSkips(w)
  BY <1>4, <1>5 DEF WorkerEnds, WorkerHolds, WorkerSkips
<1>6. CASE WorkerBegins(w)
  <2>1. PICK i \in todo \cap queue : /\ \/ BeginConfirms(w, i) \/ BeginForgets(w, i)
                                     /\ i \in Item /\ Confirmable(i)
    BY <1>1, <1>6 DEF WorkerBegins, Goes, Confirmable, TypeOK
  <2>2. wire \subseteq wire' /\ \A k \in Item : k # i => item'[k] = item[k]
    BY <1>1, <2>1 DEF BeginForgets, BeginConfirms, TypeOK
  <2> QED
    BY <1>2, <2>1, <2>2 DEF Kept
<1>7. CASE Settled(w)
  <2>1. job[w].pc \notin Idle /\ UNCHANGED Page
    BY <1>7 DEF Settled, At, Idle
  <2> QED
    BY <1>3, <1>4, <1>7, <2>1 DEF Settled
<1>8. CASE Finish(w)
  <2>1. job[w].pc \notin Idle /\ UNCHANGED Page
    BY <1>8 DEF Finish, At, Idle
  <2>2. PICK i : i = job[w].item
    OBVIOUS
  <2>3. i \in Item
    BY <2>1, <2>2, Holder
  <2>4. CASE Throw(w)
    BY <1>3, <2>1, <2>4
  <2>5. CASE ~Throw(w)
    <3>1. Confirmable(i) /\ wire \subseteq wire'
      BY <1>8, <2>2, <2>5 DEF Finish, Active, Stopped, Confirmable
    <3>2. \/ item' = [item EXCEPT ![i].state = "paused"]
          \/ item' = [item EXCEPT ![i].state = "completing", ![i].pending = TRUE]
      BY <1>8, <2>2, <2>5 DEF Finish
    <3>3. \A k \in Item : k # i => item'[k] = item[k]
      BY <1>1, <2>3, <3>2 DEF TypeOK
    <3> QED
      BY <1>2, <3>1, <3>3 DEF Kept
  <2> QED
    BY <2>4, <2>5
<1>9. CASE Aborted(w)
  <2>1. job[w].pc \notin Idle /\ UNCHANGED Page /\ Throw(w)
    BY <1>9 DEF Aborted, Idle
  <2> QED
    BY <1>3, <2>1
<1>10. CASE StatusAnswered(w)
  <2>1. job[w].pc \notin Idle /\ UNCHANGED Page
    BY <1>10 DEF StatusAnswered, At, Idle
  <2>2. job[w].item \in Item
    BY <2>1, Holder
  <2>3. CASE Success(w) /\ UNCHANGED wire
    BY <1>1, <1>2, <2>2, <2>3, KeptSuccess
  <2> QED
    BY <1>3, <1>4, <1>10, <2>1, <2>3 DEF StatusAnswered
<1>11. CASE CompleteAgain(w)
  BY <1>4, <1>11 DEF CompleteAgain
<1> QED
  BY <1>5, <1>6, <1>7, <1>8, <1>9, <1>10, <1>11 DEF JobStep

\* What the network loses is not a session's only cancellation, unless it is given away.
LEMMA NetworkSeesTo ==
  ASSUME Coherent, SeenTo, NetworkFails
  PROVE  SeenTo'
<1>1. PICK w \in Slot : CleanFails(w) \/ InitFails(w) \/ CompleteFails(w) \/ \E l \in Lane : ChunkFails(w, l)
  BY DEF NetworkFails
<1>2. CASE CleanFails(w)
  <2>1. PICK i : i = job[w].item
    OBVIOUS
  <2>2. /\ job[w].pc = "clean" /\ UNCHANGED <<Page, Server>> /\ Close(w, item[i])
        /\ LET r == CancelOf(i, item[i].session) IN
             UNCHANGED <<wire, forsaken>> \/ (wire' = wire \ {r} /\ forsaken' = forsaken \cup {r.sid})
    BY <1>2, <2>1 DEF CleanFails, At
  <2>3. i \in Item /\ TypeOK /\ UNCHANGED <<phase, queue, mounted>>
    BY <2>1, <2>2, Holder DEF Idle, Page, Server
  <2>4. PICK x \in ItemRecord : x = item[i]
    BY <2>3, Typed
  <2>5. Kept
    BY <2>1, <2>2, <2>3, <2>4, KeptClosed
  <2>6. /\ forsaken \subseteq forsaken' /\ \A r \in wire \ wire' : r.sid \in forsaken'
        /\ \A s \in Sid : phase'[s] = "open" => phase[s] \in {"open", "unused"}
    BY <2>2, <2>3
  <2>7. OverStays
    BY <2>6, StaysOver
  <2> QED
    BY <2>3, <2>5, <2>7, StaysSeenTo
<1>3. CASE InitFails(w)
  <2>1. PICK i : i = job[w].item
    OBVIOUS
  <2>2. job[w].pc \notin Idle /\ UNCHANGED <<Page, Server, forsaken>>
    BY <1>3 DEF InitFails, At, Idle
  <2>3. PICK r, late : r = InitOf(i) /\ late = LateInitOf(i) /\ r.kind # "cancel"
    <3>1. InitOf(i).kind # "cancel"
      BY DEF InitOf
    <3> QED
      BY <3>1
  <2>4. CASE Fails(w, item[i], wire \ {r})
    BY <2>1, <2>2, <2>3, <2>4, ThrowsSeeTo
  <2>5. CASE Fails(w, item[i], (wire \ {r}) \cup {late})
    BY <2>1, <2>2, <2>3, <2>5, ThrowsSeeTo
  <2> QED
    BY <1>3, <2>1, <2>3, <2>4, <2>5 DEF InitFails
<1>4. CASE CompleteFails(w)
  <2>1. PICK i : i = job[w].item
    OBVIOUS
  <2>2. PICK r : r = CompleteOf(i, item[i].session) /\ r.kind = "complete"
    <3>1. CompleteOf(i, item[i].session).kind = "complete"
      BY DEF CompleteOf
    <3> QED
      BY <3>1
  <2>3. job[w].pc \notin Idle /\ UNCHANGED <<Page, Server, forsaken>>
    BY <1>4 DEF CompleteFails, At, Idle
  <2>4. CASE Fails(w, item[i], wire \ {r})
    BY <2>1, <2>2, <2>3, <2>4, ThrowsSeeTo
  <2>5. CASE item' = item /\ (wire' = wire \ {r} \/ wire' = wire)
    <3>1. Kept /\ Quiet /\ UNCHANGED <<queue, mounted>>
      BY <2>2, <2>3, <2>5 DEF Kept, Quiet, Page, Server
    <3> QED
      BY <3>1, QuietOver, StaysSeenTo
  <2> QED
    BY <1>4, <2>1, <2>2, <2>4, <2>5 DEF CompleteFails
<1> QED
  BY <1>1, <1>2, <1>3, <1>4, LanesSeeTo

\* The server opens a session.
LEMMA OpenOver ==
  ASSUME Coherent, NEW i \in Item, NEW s \in Sid, OpenFor(i, s), forsaken \subseteq forsaken',
         \A r \in wire \ wire' : r.kind # "cancel"
  PROVE  OverStays /\ UNCHANGED <<queue, mounted>>
<1>1. phase[s] = "unused" /\ phase' = [phase EXCEPT ![s] = "open"] /\ UNCHANGED <<queue, mounted>>
  BY DEF OpenFor, Promise!Open, Page
<1>2. \A t \in Sid : phase'[t] = "open" => phase[t] \in {"open", "unused"}
  BY <1>1 DEF Coherent, TypeOK
<1> QED
  BY <1>1, <1>2, StaysOver

\* It tells the file worker, if it waits.
LEMMA InitSeesTo ==
  ASSUME Coherent, SeenTo, NEW w \in Slot, NEW s \in Sid, InitServed(w, s)
  PROVE  SeenTo'
<1>1. PICK i : i = job[w].item
  OBVIOUS
<1>2. job[w].pc = "init" /\ OpenFor(i, s) /\ forsaken' = forsaken /\ \E valid \in BOOLEAN : Opened(w, s, valid)
  BY <1>1 DEF InitServed, At
<1>3. i \in Item /\ item[i] \in ItemRecord /\ TypeOK /\ Progress(w)
  BY <1>1, <1>2, Holder DEF Idle
<1>4. PICK y \in ItemRecord : y = item[i] /\ ~y.pending
  BY <1>1, <1>2, <1>3 DEF Progress
<1>5. PICK x \in ItemRecord : x = [y EXCEPT !.session = s]
  BY ItemTyped
<1>6. ~x.pending
  BY <1>4, <1>5 DEF ItemRecord
<1>7. PICK sent : sent = wire \ {InitOf(i)} /\ \A r \in wire \ sent : r.kind # "cancel"
  <2>1. InitOf(i).kind # "cancel"
    BY DEF InitOf
  <2> QED
    BY <2>1
<1>8. \/ Fails(w, x, sent)
      \/ item' = [item EXCEPT ![i] = x] /\ wire' = sent
  <2>1. x = [item[i] EXCEPT !.session = s]
    BY <1>4, <1>5
  <2>2. PICK valid \in BOOLEAN : Opened(w, s, valid)
    BY <1>2
  <2>3. CASE ~(Active(i) /\ valid)
    BY <1>1, <1>7, <2>1, <2>2, <2>3 DEF Opened
  <2>4. CASE Active(i) /\ valid
    BY <1>1, <1>7, <2>1, <2>2, <2>4 DEF Opened
  <2> QED
    BY <2>3, <2>4
<1>9. Kept /\ \A r \in wire \ wire' : r.kind # "cancel"
  <2>1. CASE Fails(w, x, sent)
    BY <1>3, <1>6, <1>7, <2>1, KeptFailing
  <2>2. CASE item' = [item EXCEPT ![i] = x] /\ wire' = sent
    BY <1>3, <1>6, <1>7, <2>2, KeptOne
  <2> QED
    BY <1>8, <2>1, <2>2
<1> QED
  BY <1>2, <1>3, <1>9, OpenOver, StaysSeenTo

\* A cancellation that is served ends the session, whoever waits for it.
LEMMA CancelSeesTo ==
  ASSUME Coherent, SeenTo, NEW r \in wire, CancelServed(r)
  PROVE  SeenTo'
<1>1. TypeOK /\ UNCHANGED <<queue, mounted, forsaken>> /\ wire' = wire \ {r} /\ r.sid \in Sid
  BY DEF Coherent, CancelServed, Page, WireTrue
<1>2. (phase' = phase /\ phase[r.sid] # "open") \/ phase' = [phase EXCEPT ![r.sid] = "gone"]
  BY DEF CancelServed, Promise!Drop
<1>3. phase'[r.sid] # "open" /\ \A s \in Sid : phase'[s] = "open" => phase[s] \in {"open", "unused"}
  BY <1>1, <1>2 DEF TypeOK
<1>4. OverStays
  BY <1>1, <1>3, StaysOver
<1>5. Kept
  <2>1. CASE item' = item
    BY <2>1 DEF Kept
  <2>2. ASSUME NEW w \in Slot, job[w].item = r.item, Close(w, item[r.item]) PROVE Kept
    <3>1. PICK x \in ItemRecord : x = item[r.item]
      BY <1>1, Typed
    <3> QED
      BY <1>1, <2>2, <3>1, KeptClosed
  <2> QED
    BY <2>1, <2>2 DEF CancelServed
<1> QED
  BY <1>1, <1>4, <1>5, StaysSeenTo

\* A chunk or a completion that is served.
LEMMA AnswersSeeTo ==
  ASSUME Coherent, SeenTo, NEW r \in wire, ChunkServed(r) \/ CompleteServed(r)
  PROVE  SeenTo'
<1>1. TypeOK /\ UNCHANGED <<queue, mounted, forsaken>> /\ r.kind # "cancel" /\ r.item \in Item /\ r.sid \in Sid
  BY Typed DEF Coherent, ChunkServed, CompleteServed, Page, WireTrue
<1>2. \A s \in Sid : phase'[s] = "open" => phase[s] \in {"open", "unused"}
  <2>1. phase' = phase \/ phase' = [phase EXCEPT ![r.sid] = "saved"]
    BY DEF ChunkServed, CompleteServed, Promise!Accept, Promise!Save
  <2> QED
    BY <1>1, <2>1 DEF TypeOK
<1>3. ASSUME Kept, \A q \in wire \ wire' : q.kind # "cancel" PROVE SeenTo'
  BY <1>1, <1>2, <1>3, StaysOver, StaysSeenTo
<1>4. CASE ChunkServed(r)
  <2>1. wire' = wire \ {r}
    BY <1>4 DEF ChunkServed
  <2>2. CASE item' = item
    BY <1>1, <1>3, <2>1, <2>2 DEF Kept
  <2>3. ASSUME NEW w \in Slot, NEW l \in Lane, job[w].item = r.item,
               Confirm(w, l, r.chunk) \/ LaneThrows(w, l)
        PROVE  Kept
    <3>1. CASE LaneThrows(w, l)
      BY <1>1, <2>3, <3>1, KeptLaneThrows
    <3>2. CASE Confirm(w, l, r.chunk)
      <4>1. PICK y \in ItemRecord : y = item[r.item]
        BY <1>1, Typed
      <4>2. PICK x : x = [y EXCEPT !.confirmed = @ \cup {r.chunk}]
        OBVIOUS
      <4>3. x.pending = y.pending /\ x.session = y.session
        BY <4>2 DEF ItemRecord
      <4>4. item' = [item EXCEPT ![r.item] = x]
        BY <1>1, <2>3, <3>2, <4>1, <4>2 DEF Confirm, TypeOK
      <4> QED
        BY <1>1, <4>1, <4>3, <4>4, KeptOne
    <3> QED
      BY <2>3, <3>1, <3>2
  <2> QED
    BY <1>1, <1>3, <1>4, <2>1, <2>2, <2>3 DEF ChunkServed, Awaits
<1>5. CASE CompleteServed(r)
  <2>1. CASE item' = item /\ wire' = wire \ {r}
    BY <1>1, <1>3, <2>1 DEF Kept
  <2>2. ASSUME NEW w \in Slot, job[w].item = r.item, Success(w), wire' = wire \ {r}
        PROVE  SeenTo'
    BY <1>1, <1>3, <2>2, KeptSuccess
  <2>3. ASSUME NEW w \in Slot, job[w].item = r.item, Fails(w, item[r.item], wire \ {r})
        PROVE  SeenTo'
    <3>1. PICK x \in ItemRecord : x = item[r.item]
      BY <1>1, Typed
    <3>2. PICK sent : sent = wire \ {r} /\ \A q \in wire \ sent : q.kind # "cancel"
      BY <1>1
    <3>3. Kept /\ \A q \in wire \ wire' : q.kind # "cancel"
      BY <1>1, <2>3, <3>1, <3>2, KeptFailing
    <3> QED
      BY <1>3, <3>3
  <2> QED
    BY <1>5, <2>1, <2>2, <2>3 DEF CompleteServed
<1> QED
  BY <1>4, <1>5

\* What happens to the server while no answer is given.
LEMMA OutsideSeesTo ==
  ASSUME Coherent, SeenTo,
         \/ \E r \in wire : RequestLost(r)
         \/ Restart
         \/ \E s \in Sid : Sweep(s)
         \/ \E i \in Item, s \in Sid : LateInitServed(i, s)
  PROVE  SeenTo'
<1>1. TypeOK
  BY DEF Coherent
<1>2. ASSUME UNCHANGED <<item, queue, mounted>>, OverStays PROVE SeenTo'
  BY <1>2, StaysSeenTo DEF Kept
<1>3. ASSUME NEW r \in wire, RequestLost(r) PROVE SeenTo'
  <2>1. /\ UNCHANGED <<item, queue, mounted, phase>> /\ wire' = wire \ {r}
        /\ forsaken \subseteq forsaken' /\ (r.kind = "cancel" => r.sid \in forsaken')
    BY <1>3 DEF RequestLost, Page, Server
  <2>2. OverStays
    BY <2>1, StaysOver
  <2> QED
    BY <1>2, <2>1, <2>2
<1>4. ASSUME Restart \/ \E s \in Sid : Sweep(s) PROVE SeenTo'
  <2>1. UNCHANGED <<item, queue, mounted, wire, forsaken>>
    BY <1>4 DEF Restart, Sweep, Page
  <2>2. \A s \in Sid : phase'[s] = "open" => phase[s] \in {"open", "unused"}
    BY <1>1, <1>4 DEF Restart, Sweep, Promise!Restart, Promise!Drop, TypeOK
  <2>3. OverStays
    BY <2>1, <2>2, StaysOver
  <2> QED
    BY <1>2, <2>1, <2>3
<1>5. ASSUME NEW i \in Item, NEW s \in Sid, LateInitServed(i, s) PROVE SeenTo'
  <2>1. /\ OpenFor(i, s) /\ item' = item /\ forsaken \subseteq forsaken' /\ wire' = wire \ {LateInitOf(i)}
        /\ LateInitOf(i).kind = "late"
    BY <1>5, Requests DEF LateInitServed
  <2> QED
    BY <1>2, <2>1, OpenOver
<1> QED
  BY <1>3, <1>4, <1>5

\* What the user does, except for what takes files from the queue.
LEMMA UserSeesTo ==
  ASSUME Coherent, SeenTo,
         \/ \E i \in Item : HandleSelection(i) \/ RetryItem(i)
         \/ DropBegins \/ DropRead \/ StartAll \/ PauseAll \/ ResumeAll \/ CancelAll \/ RunEnds
  PROVE  SeenTo'
<1>1. TypeOK /\ UNCHANGED <<mounted, phase, wire, forsaken>>
  BY DEF Coherent, HandleSelection, RetryItem, StartUploads, DropBegins, DropRead, StartAll, PauseAll,
         ResumeAll, CancelAll, RunEnds, Server
<1>2. ASSUME Kept, queue \subseteq queue' PROVE SeenTo'
  BY <1>1, <1>2, QuietOver, StaysSeenTo DEF Quiet
<1>3. ASSUME NEW i \in Item, Choose(i) PROVE SeenTo'
  <2>1. PICK y \in ItemRecord : y = item[i]
    BY <1>1, Typed
  <2>2. PICK k \in 0 .. MaxChunks : item' = [item EXCEPT ![i].state = "pending", ![i].total = k]
    BY <1>3 DEF Choose
  <2>3. PICK x : x = [y EXCEPT !.state = "pending", !.total = k]
    OBVIOUS
  <2>4. x.pending = y.pending /\ x.session = y.session
    BY <2>3 DEF ItemRecord
  <2>5. item' = [item EXCEPT ![i] = x]
    BY <1>1, <2>1, <2>2, <2>3 DEF TypeOK
  <2>6. Kept /\ queue \subseteq queue'
    BY <1>1, <1>3, <2>1, <2>4, <2>5, KeptOne DEF Choose
  <2> QED
    BY <1>2, <2>6
<1>4. ASSUME UNCHANGED <<item, queue>> PROVE SeenTo'
  BY <1>2, <1>4 DEF Kept
<1>5. CASE CancelAll
  <2>1. ASSUME NEW i \in Item
        PROVE  item'[i].pending = item[i].pending /\ item'[i].session = item[i].session
    <3>1. PICK y \in ItemRecord : y = item[i]
      BY <1>1, Typed
    <3>2. PICK x : x = [y EXCEPT !.ctrl = "cancelled", !.state = "canceling"]
      OBVIOUS
    <3>3. x.pending = y.pending /\ x.session = y.session
      BY <3>2 DEF ItemRecord
    <3>4. item'[i] \in {x, y}
      BY <1>5, <3>1, <3>2 DEF CancelAll
    <3> QED
      BY <3>1, <3>3, <3>4
  <2> QED
    BY <1>2, <1>5, <2>1 DEF Kept, CancelAll
<1> QED
  BY <1>3, <1>4, <1>5 DEF HandleSelection, RetryItem, StartUploads, DropBegins, DropRead, StartAll,
     PauseAll, ResumeAll, RunEnds

\* A file that is taken from the queue is cleaned up after, or its session is given away.
LEMMA RemovalsSeeTo ==
  ASSUME Coherent, SeenTo, ResetAll \/ Leave \/ \E i \in Item : RemoveItem(i)
  PROVE  SeenTo'
<1>1. TypeOK /\ UNCHANGED phase /\ wire \subseteq wire' /\ forsaken \subseteq forsaken'
      /\ queue \subseteq Item /\ \A i \in Item : item[i] \in ItemRecord
  BY Typed DEF Coherent, ResetAll, Leave, RemoveItem, Server, TypeOK
<1>2. \A i \in Item : item'[i].pending = item[i].pending /\ item'[i].session = item[i].session
  <2>1. \A i \in Item : item'[i] \in {item[i], StoppedItem(item[i])}
    BY <1>1 DEF ResetAll, Leave, RemoveItem, TypeOK
  <2> QED
    BY <1>1, <2>1, StoppedTyped
<1>3. \A i \in Item : Over(i, item[i].session) => Over(i, item[i].session)'
  BY <1>1, <1>2 DEF Over, CancelOf
<1>4. ASSUME NEW i \in Item, item[i].pending, Confirmable(i), ~Confirmable(i)'
      PROVE  Over(i, item[i].session)'
  <2>1. item[i].session \in Sid /\ item[i].session # NoSid
    BY <1>4, AskedSession
  <2>2. CancelOf(i, item[i].session) \in wire' \/ item[i].session \in forsaken'
    <3>1. CASE ResetAll
      BY <1>4, <2>1, <3>1 DEF ResetAll, Cleanup, Confirmable
    <3>2. CASE Leave
      BY <1>1, <1>4, <2>1, <3>2 DEF Leave, Deserted, Confirmable
    <3>3. ASSUME NEW j \in Item, RemoveItem(j)
          PROVE  CancelOf(i, item[i].session) \in wire' \/ item[i].session \in forsaken'
      <4>1. i = j
        BY <1>4, <3>3 DEF RemoveItem, Confirmable
      <4>2. CASE item[i].ctrl = "none"
        BY <1>4, <2>1, <3>3, <4>1, <4>2 DEF RemoveItem, Cleanup
      <4>3. CASE item[i].ctrl # "none"
        BY <1>4, <2>1, <3>3, <4>1, <4>3 DEF RemoveItem, Deserted
      <4> QED
        BY <4>2, <4>3
    <3> QED
      BY <3>1, <3>2, <3>3
  <2> QED
    BY <1>2, <2>2 DEF Over, CancelOf
<1> QED
  BY <1>2, <1>3, <1>4 DEF SeenTo

\* Nothing changes.
LEMMA StutterSeesTo ==
  ASSUME SeenTo, UNCHANGED vars
  PROVE  SeenTo'
BY DEF SeenTo, Confirmable, Over, CancelOf, vars
-----------------------------------------------------------------------------
(* Every step.                                                             *)

\* The user's, and the end of a run.
LEMMA PageKeeps ==
  ASSUME Coherent, User \/ DropRead \/ RunEnds
  PROVE  Coherent'
<1>1. TypeOK
  BY DEF Coherent
<1>2. ASSUME NEW i \in Item, HandleSelection(i) PROVE Coherent'
  <2>1. /\ Choose(i) /\ left' \in Nat /\ reading' \in BOOLEAN
        /\ UNCHANGED <<run, todo, job, lane, paused, canceling, mounted, Server, wire, forsaken>>
    BY <1>1, <1>2 DEF HandleSelection, Command, TypeOK
  <2> QED
    BY <2>1, ChooseStep
<1>3. ASSUME NEW i \in Item, RetryItem(i) PROVE Coherent'
  <2>1. {i} \in SUBSET queue /\ \A k \in {i} : Startable(k)
    BY <1>3 DEF RetryItem, Startable
  <2>2. StartUploads({i}) /\ Command
    BY <1>3 DEF RetryItem
  <2> QED
    BY <2>1, <2>2, StartStep
<1>4. CASE StartAll
  <2>1. {i \in queue : Startable(i)} \in SUBSET queue /\ \A k \in {i \in queue : Startable(i)} : Startable(k)
    OBVIOUS
  <2>2. StartUploads({i \in queue : Startable(i)}) /\ Command
    BY <1>4 DEF StartAll
  <2> QED
    BY <2>1, <2>2, StartStep
<1>5. CASE DropRead
  <2>1. /\ reading' \in BOOLEAN /\ left' \in Nat
        /\ UNCHANGED <<run, todo, job, lane, paused, canceling, mounted, Server, wire, forsaken>>
        /\ UNCHANGED <<queue, item>> \/ \E i \in Item : Choose(i)
    BY <1>1, <1>5 DEF DropRead, TypeOK
  <2>2. CASE \E i \in Item : Choose(i)
    BY <2>1, <2>2, ChooseStep
  <2>3. CASE UNCHANGED <<queue, item>>
    <3>1. \A w \in Slot : Stays(w)
      BY <2>1, Still
    <3>2. NoLostWakeup'
      BY <2>1 DEF Coherent, NoLostWakeup, At
    <3>3. /\ UNCHANGED <<queue, item, mounted, Server, wire, forsaken>>
          /\ run' \in {"none", "on", "cancelled"} /\ todo' \subseteq todo /\ paused' \in BOOLEAN
          /\ canceling' \in BOOLEAN /\ run' = run
          /\ job' \in [Slot -> JobRecord] /\ lane' \in [Slot -> [Lane -> LaneRecord]]
      BY <1>1, <2>1, <2>3 DEF TypeOK
    <3>4. run' = "none" => \A w \in Slot : job'[w].pc = "off"
      BY <2>1 DEF Coherent, Held
    <3> QED
      BY <2>1, <3>1, <3>2, <3>3, <3>4, FlagStep
  <2> QED
    BY <2>1, <2>2, <2>3
<1>6. ASSUME NEW i \in Item, RemoveItem(i) PROVE Coherent'
  BY <1>6, RemoveItemStep
<1>7. CASE DropBegins \/ PauseAll \/ ResumeAll \/ RunEnds
  BY <1>7, FlagsStep
<1> QED
  BY <1>2, <1>3, <1>4, <1>5, <1>6, <1>7, CancelAllStep, ResetAllStep, LeaveStep DEF User

\* The workers'.
LEMMA WorkersKeep ==
  ASSUME Coherent, NEW w \in Slot, JobStep(w) \/ \E l \in Lane : LaneStep(w, l)
  PROVE  Coherent'
<1>1. ASSUME NEW l \in Lane, LaneStep(w, l) PROVE Coherent'
  BY <1>1, LaneTurns, ChunkEnds, LaneClaimsStep DEF LaneStep
<1>2. CASE WorkerEnds(w) \/ WorkerHolds(w) \/ WorkerSkips(w)
  BY <1>2, TurnStep
<1>3. CASE WorkerBegins(w)
  BY <1>3, BeginsStep
<1>4. CASE Settled(w)
  BY <1>4, SettledStep, Failures
<1>5. CASE Finish(w)
  BY <1>5, FinishStep, Failures
<1>6. CASE Aborted(w)
  BY <1>6, Failures
<1>7. CASE StatusAnswered(w)
  <2>1. CASE StatusSaved(item[job[w].item].session) /\ Success(w)
    BY <1>7, <2>1, StatusSavedStep
  <2>2. CASE Throw(w)
    BY <1>7, <2>2, Failures
  <2>3. CASE job' = [job EXCEPT ![w].pc = "delay", ![w].tries = @ + 1]
    <3>1. job'[w].pc = "delay"
      BY <2>3 DEF Coherent, TypeOK, JobRecord
    <3> QED
      BY <1>7, <3>1, AskAgain
  <2> QED
    BY <1>7, <2>1, <2>2, <2>3 DEF StatusAnswered
<1>8. CASE CompleteAgain(w)
  BY <1>8, AskAgain
<1> QED
  BY <1>1, <1>2, <1>3, <1>4, <1>5, <1>6, <1>7, <1>8 DEF JobStep

\* The network's and the server's.
LEMMA ServerKeeps ==
  ASSUME Coherent, NetworkFails \/ ServerStep
  PROVE  Coherent'
<1>1. ASSUME NEW w \in Slot, CompleteFails(w) PROVE Coherent'
  <2>1. CASE Goto(w, "status")
    BY <1>1, <2>1, AskAgain
  <2>2. CASE ~Goto(w, "status")
    <3>1. Fails(w, item[job[w].item], wire \ {CompleteOf(job[w].item, item[job[w].item].session)})
      BY <1>1, <2>2 DEF CompleteFails
    <3>2. job'[w].pc # "status"
      <4>1. NextJob.pc = "next"
        BY DEF NextJob, NoJob
      <4> QED
        BY <3>1, <4>1 DEF Fails, Close, Goto, Coherent, TypeOK, JobRecord
    <3> QED
      BY <1>1, <3>2, Failures
  <2> QED
    BY <2>1, <2>2
<1>2. CASE NetworkFails
  BY <1>1, <1>2, CleanFailsStep, Failures, ChunkEnds DEF NetworkFails
<1>3. CASE ServerStep
  BY <1>3, InitServedStep, OutsideStep, ChunkServedStep, CompleteServedStep, CancelServedStep DEF ServerStep
<1> QED
  BY <1>2, <1>3

\* Nothing changes.
LEMMA StutterKeeps ==
  ASSUME Coherent, UNCHANGED vars
  PROVE  Coherent'
<1>1. /\ UNCHANGED <<queue, item, run, todo, job, lane, paused, canceling, mounted, reading>>
      /\ UNCHANGED <<phase, length, got, receipts, owner, wire, forsaken, left>>
  BY DEF vars
<1>2. (TypeOK /\ Held /\ Waits /\ Live /\ Shown)'
  BY <1>1 DEF Coherent, TypeOK, Held, Waits, Live, Shown
<1>3. (Sessions /\ ItemsTrue /\ WireTrue /\ SavedNamed)'
  <2>1. Sessions'
    BY <1>1 DEF Coherent, Sessions, Whole
  <2>2. ItemsTrue'
    BY <1>1 DEF Coherent, ItemsTrue, ItemTrue, Whole
  <2>3. WireTrue'
    BY <1>1 DEF Coherent, WireTrue, Sure
  <2>4. SavedNamed'
    BY <1>1 DEF Coherent, SavedNamed, Sure
  <2> QED
    BY <2>1, <2>2, <2>3, <2>4
<1>4. (Remembered /\ NoLostWakeup)'
  BY <1>1 DEF Coherent, Remembered, NoLostWakeup, At, CancelOf
<1>5. \A w \in Slot : Progress(w)'
  BY <1>1 DEF Coherent, Progress, Lanes, CancelOf
<1> QED
  BY <1>2, <1>3, <1>4, <1>5 DEF Coherent

\* What the page knows and what the server holds agree after any steps.
THEOREM AlwaysCoherent == Spec => []Coherent
<1>1. Coherent /\ [Next]_vars => Coherent'
  BY PageKeeps, WorkersKeep, ServerKeeps, StutterKeeps DEF Next
<1> QED
  BY CoherentInit, <1>1, PTL DEF Spec

\* Everything the page shows and asks for is so on the server: what is shown as uploaded is saved with
\* that file's bytes, what is confirmed is stored, what is completed is whole (engine.ts:58, 169, 182;
\* useUploadQueue.ts:184).
THEOREM ServerAlwaysAgrees == Spec => []ServerAgrees
<1>1. ASSUME Coherent PROVE ServerAgrees
  <2>1. TypeOK
    BY <1>1 DEF Coherent
  <2>2. \A i \in Item : item[i] \in ItemRecord /\ ItemTrue(i, item[i])
    BY <1>1, <2>1, Typed DEF Coherent, ItemsTrue
  <2>3. \A i \in Item : Sure(item[i]) => item[i].session \in Sid /\ item[i].session # NoSid /\ Whole(item[i].session, i)
    <3> SUFFICES ASSUME NEW i \in Item, Sure(item[i])
                 PROVE  item[i].session \in Sid /\ item[i].session # NoSid /\ Whole(item[i].session, i)
      OBVIOUS
    <3>1. item[i].session \in Sid /\ item[i].session # NoSid /\ owner[item[i].session] = i
      BY <2>2, ItemTyped DEF ItemTrue, Sure
    <3>2. item[i].pending \/ phase[item[i].session] = "saved"
      BY <2>2 DEF ItemTrue, Sure
    <3> QED
      BY <1>1, <2>2, <3>1, <3>2 DEF Coherent, Sessions, ItemTrue
  <2>4. SuccessTrue
    BY <2>2, <2>3 DEF SuccessTrue, ItemTrue, Sure, Whole
  <2>5. CompletionWhole
    <3> SUFFICES ASSUME NEW r \in wire, r.kind = "complete"
                 PROVE  \A c \in 0 .. length[r.sid] - 1 : got[r.sid][c] = r.item
      BY DEF CompletionWhole
    <3>1. r.item \in Item /\ item[r.item].session = r.sid /\ Sure(item[r.item])
      BY <1>1, <2>1, Typed DEF Coherent, WireTrue
    <3> QED
      BY <2>3, <3>1 DEF Whole
  <2>6. ConfirmedStored
    BY <2>2 DEF ConfirmedStored, ItemTrue
  <2> QED
    BY <2>1, <2>4, <2>5, <2>6 DEF ServerAgrees
<1> QED
  BY <1>1, AlwaysCoherent, PTL

\* However often the completion of a file is repeated, one session of it is saved at most
\* (engine.ts:64, useUploadQueue.ts:200, upload.ts:120).
THEOREM PublishedOnce == Spec => []OnePublication
<1>1. ASSUME Coherent PROVE OnePublication
  BY <1>1 DEF Coherent, SavedNamed, OnePublication
<1> QED
  BY <1>1, AlwaysCoherent, PTL

\* An open session is in use by its file, or a file in the queue of an open page can have its
\* completion confirmed by a retry, or its cancellation is on the wire; the only others are those of
\* forsaken: a message was lost, or the file was removed, or the page left, while its completion was
\* underway (engine.ts:79, useUploadQueue.ts:196, 201, 331).
THEOREM NoneForgotten == Spec => []NoForgottenSession
<1>1. Init => SeenTo
  <2>1. ~NewItem.pending
    BY DEF NewItem
  <2>2. Init => \A i \in Item : item[i] = NewItem
    BY DEF Init
  <2> QED
    BY <2>1, <2>2 DEF SeenTo
<1>2. Coherent /\ SeenTo /\ [Next]_vars => SeenTo'
  <2> SUFFICES ASSUME Coherent, SeenTo, Next \/ UNCHANGED vars PROVE SeenTo'
    OBVIOUS
  <2>1. CASE User \/ DropRead \/ RunEnds
    BY <2>1, UserSeesTo, RemovalsSeeTo DEF User
  <2>2. CASE NetworkFails
    BY <2>2, NetworkSeesTo
  <2>3. CASE ServerStep
    BY <2>3, InitSeesTo, OutsideSeesTo, AnswersSeeTo, CancelSeesTo DEF ServerStep
  <2>4. ASSUME NEW w \in Slot, JobStep(w) \/ \E l \in Lane : LaneStep(w, l) PROVE SeenTo'
    BY <2>4, JobsSeeTo, LanesSeeTo
  <2> QED
    BY <2>1, <2>2, <2>3, <2>4, StutterSeesTo DEF Next
<1>3. ASSUME Coherent, SeenTo PROVE NoForgottenSession
  <2> SUFFICES ASSUME NEW s \in Sid, phase[s] = "open", s \notin forsaken, CancelOf(owner[s], s) \notin wire
               PROVE  /\ item[owner[s]].session = s
                      /\ \/ item[owner[s]].ctrl # "none"
                         \/ item[owner[s]].pending /\ owner[s] \in queue /\ mounted
    BY DEF NoForgottenSession
  <2>1. owner[s] \in Item
    <3>1. TypeOK /\ (phase[s] = "unused" <=> owner[s] = NoItem)
      BY <1>3 DEF Coherent, Sessions
    <3>2. owner[s] \in Item \cup {NoItem}
      BY <3>1, Typed
    <3> QED
      BY <3>1, <3>2
  <2>2. item[owner[s]].session = s /\ (item[owner[s]].ctrl # "none" \/ item[owner[s]].pending)
    BY <1>3 DEF Coherent, Remembered
  <2> QED
    BY <1>3, <2>1, <2>2 DEF SeenTo, Over, Confirmable
<1> QED
  BY <1>1, <1>2, <1>3, AlwaysCoherent, PTL DEF Spec

\* Whoever waits for the end of a pause is woken by it (useUploadQueue.ts:26, 30).
THEOREM AllWoken == Spec => []NoLostWakeup
<1>1. Coherent => NoLostWakeup
  BY DEF Coherent
<1> QED
  BY <1>1, AlwaysCoherent, PTL

\* Between runs every file can be started, or is done (useUploadQueue.ts:206, 221).
THEOREM NoneStuck == Spec => []NothingStuck
<1>1. ASSUME Coherent PROVE NothingStuck
  <2> SUFFICES ASSUME run = "none", NEW i \in queue
               PROVE  item[i].ctrl = "none" /\ item[i].state \in {"pending", "error", "success"}
    BY DEF NothingStuck
  <2>1. i \in Item
    BY <1>1 DEF Coherent, TypeOK
  <2>2. item[i].ctrl = "none"
    BY <1>1, <2>1, NobodyWorks DEF Coherent, Held
  <2> QED
    BY <1>1, <2>1, <2>2 DEF Coherent, Shown
<1> QED
  BY <1>1, AlwaysCoherent, PTL
-----------------------------------------------------------------------------
(* What a step asks the server for.                                        *)

\* A request that is put on the wire to send something of a file.
Sends(r) == r \in wire' \ wire /\ r.kind \in {"init", "chunk", "complete"}

\* A failure sends nothing but what cancels.
LEMMA FailsSilently ==
  ASSUME NEW w, NEW x, NEW sent, Fails(w, x, sent), NEW r \in wire'
  PROVE  r \in sent \/ r.kind = "cancel"
<1>1. \A i, s : CancelOf(i, s).kind = "cancel"
  BY DEF CancelOf
<1> QED
  BY <1>1 DEF Fails

\* Four continuations send, each after it has looked whether it may.
LEMMA Senders ==
  ASSUME Next, NEW r, Sends(r)
  PROVE  \E w \in Slot : \/ WorkerBegins(w) \/ Finish(w) \/ CompleteAgain(w)
                         \/ \E l \in Lane : LaneClaims(w, l) \/ LaneResends(w, l)
<1>1. r \in wire' /\ r \notin wire /\ r.kind \notin {"cancel", "late"}
  BY DEF Sends
<1>2. (\A i, s : CancelOf(i, s).kind = "cancel") /\ (\A i : LateInitOf(i).kind = "late")
  BY DEF CancelOf, LateInitOf, InitOf
<1>3. \A items : r \notin Cleanup(items)
  BY <1>1, <1>2 DEF Cleanup
<1>4. \A w, x, sent : Fails(w, x, sent) => r \in sent
  BY <1>1, FailsSilently
<1>5. \A w : ~Throw(w)
  BY <1>1, <1>4 DEF Throw
<1>6. ~User
  BY <1>1, <1>3 DEF User, HandleSelection, RetryItem, StartAll, StartUploads, RemoveItem, DropBegins,
                    PauseAll, ResumeAll, CancelAll, ResetAll, Leave
<1>7. ~DropRead /\ ~RunEnds
  BY <1>1 DEF DropRead, RunEnds
<1>8. ~NetworkFails
  <2>1. ASSUME NEW w \in Slot PROVE ~CleanFails(w) /\ ~CompleteFails(w)
    BY <1>1, <1>4 DEF CleanFails, CompleteFails
  <2>2. ASSUME NEW w \in Slot, InitFails(w) PROVE FALSE
    <3>1. r \in wire \ {InitOf(job[w].item)} \/ r \in (wire \ {InitOf(job[w].item)}) \cup {LateInitOf(job[w].item)}
      BY <1>4, <2>2 DEF InitFails
    <3> QED
      BY <1>1, <1>2, <3>1
  <2>3. ASSUME NEW w \in Slot, NEW l \in Lane PROVE ~ChunkFails(w, l)
    BY <1>1 DEF ChunkFails
  <2> QED
    BY <2>1, <2>2, <2>3 DEF NetworkFails
<1>9. ~ServerStep
  <2>1. ASSUME NEW w \in Slot, NEW s \in Sid, InitServed(w, s) PROVE FALSE
    BY <1>1, <1>4, <2>1 DEF InitServed, Opened
  <2>2. ASSUME NEW q \in wire, CompleteServed(q) PROVE FALSE
    BY <1>1, <1>4, <2>2 DEF CompleteServed
  <2>3. ASSUME NEW q \in wire PROVE ~ChunkServed(q) /\ ~CancelServed(q) /\ ~RequestLost(q)
    BY <1>1 DEF ChunkServed, CancelServed, RequestLost
  <2>4. ~Restart /\ (\A s : ~Sweep(s)) /\ (\A i, s : ~LateInitServed(i, s))
    BY <1>1 DEF Restart, Sweep, LateInitServed
  <2> QED
    BY <2>1, <2>2, <2>3, <2>4 DEF ServerStep
<1>10. PICK w \in Slot : JobStep(w) \/ \E l \in Lane : LaneStep(w, l)
  BY <1>6, <1>7, <1>8, <1>9 DEF Next
<1>11. CASE JobStep(w)
  BY <1>1, <1>5, <1>11 DEF JobStep, WorkerEnds, WorkerHolds, WorkerSkips, Settled, Aborted, StatusAnswered
<1>12. ASSUME NEW l \in Lane, LaneStep(w, l) PROVE LaneClaims(w, l) \/ LaneResends(w, l)
  BY <1>1, <1>12 DEF LaneStep, LaneEnds, LaneStops, LaneHolds, LaneWaitEnds
<1> QED
  BY <1>10, <1>11, <1>12

\* Nothing of a file is sent once it was stopped, and while paused nothing but the completion of a file
\* whose completion was asked for (engine.ts:34, 40, 47; useUploadQueue.ts:252).
THEOREM AlwaysObeyed == Spec => Obeyed
<1>1. ASSUME Coherent, [Next]_vars, NEW r, Sends(r)
      PROVE  ~Stopped(r.item) /\ (paused => r.kind = "complete" /\ item[r.item].pending)
  <2>1. Next /\ r \in wire' /\ r \notin wire /\ r.kind # "cancel"
    BY <1>1 DEF Sends, vars
  <2>2. PICK w \in Slot : \/ WorkerBegins(w) \/ Finish(w) \/ CompleteAgain(w)
                          \/ \E l \in Lane : LaneClaims(w, l) \/ LaneResends(w, l)
    BY <1>1, <2>1, Senders
  <2>3. CASE WorkerBegins(w)
    <3>1. run = "on" /\ mounted /\ ~paused
      BY <2>3 DEF WorkerBegins, Goes
    <3>2. PICK i \in todo \cap queue : r.item = i
      BY <2>1, <2>3 DEF WorkerBegins, BeginConfirms, BeginForgets, CompleteOf, InitOf
    <3>3. item[i].ctrl = "none"
      BY <1>1, <3>2 DEF Coherent, Waits
    <3> QED
      BY <3>1, <3>2, <3>3 DEF Stopped
  <2>4. CASE Finish(w)
    <3>1. ~Throw(w)
      BY <2>1, FailsSilently DEF Throw
    <3>2. Active(job[w].item) /\ ~paused /\ r = CompleteOf(job[w].item, item[job[w].item].session)
      BY <2>1, <2>4, <3>1 DEF Finish
    <3> QED
      BY <3>2 DEF Active, CompleteOf
  <2>5. CASE CompleteAgain(w)
    <3>1. PICK i : i = job[w].item
      OBVIOUS
    <3>2. job[w].pc = "delay" /\ item[i].ctrl = "live" /\ r.item = i /\ r.kind = "complete"
      BY <2>1, <2>5, <3>1 DEF CompleteAgain, At, CompleteOf
    <3>3. i \in Item /\ Progress(w) /\ run = "on" /\ mounted /\ i \in queue
      BY <1>1, <3>1, <3>2, Holder DEF Idle
    <3> QED
      BY <3>1, <3>2, <3>3 DEF Progress, Asked, Stopped
  <2>6. ASSUME NEW l \in Lane, LaneClaims(w, l) \/ LaneResends(w, l)
        PROVE  ~Stopped(r.item) /\ ~paused
    <3>1. \A i, s, c : ChunkOf(i, s, c).item = i
      BY DEF ChunkOf
    <3>2. Active(job[w].item) /\ ~paused /\ r.item = job[w].item
      BY <2>1, <2>6, <3>1 DEF LaneClaims, LaneResends, SendChunk
    <3> QED
      BY <3>2 DEF Active
  <2> QED
    BY <2>2, <2>3, <2>4, <2>5, <2>6
<1>2. Coherent /\ [Next]_vars => [QuietAfterStop /\ PauseHolds]_vars
  <2> SUFFICES ASSUME Coherent, [Next]_vars PROVE QuietAfterStop /\ PauseHolds
    OBVIOUS
  <2> QED
    BY <1>1 DEF QuietAfterStop, PauseHolds, Sends
<1> QED
  BY <1>2, AlwaysCoherent, PTL DEF Spec, Obeyed
=============================================================================
