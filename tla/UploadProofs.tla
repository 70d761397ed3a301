----------------------------- MODULE UploadProofs -----------------------------
(***************************************************************************)
(* Proofs about UploadSessions, for any number of goroutines, sessions,    *)
(* chunks and block locks: its types, why no interleaving corrupts an      *)
(* upload, that the service keeps the promise of UploadPromise, why what   *)
(* clients are told is true, and where temporary directories may remain.   *)
(***************************************************************************)
EXTENDS UploadSessions, TLAPS

(* What a goroutine knows about the request it serves, by where it stands. *)
Ready == \A a \in Actor : pc[a] \notin {"idle", "done"} => req[a].sid \in Used
Roles ==
  /\ pc[Cleaner] = "idle" \/ (pc[Cleaner] \in {"close", "clean"} /\ req[Cleaner].op = "expire")
  /\ \A t \in Thread :
       /\ pc[t] \in {"look", "find", "peek", "again"} => req[t].op \in {"status", "complete"}
       /\ pc[t] = "xfind" => req[t].op = "cancel"
       /\ pc[t] \in {"wait", "drain", "close", "clean"} => req[t].op \in {"complete", "cancel"}
       /\ pc[t] \in {"cfind", "publish", "remember"} => req[t].op = "complete"
       /\ pc[t] \in {"wfind", "wlock", "wblock", "copy", "discard"} =>
            req[t].body \in Data /\ req[t].chunk \in Chunk
Named == \A s \in Used : entry[s].final \in Name
Typed == TypeOK /\ Ready /\ Roles /\ Named

\* Requests and the cleaner are told apart, and no upload has the ID that stands for none.
LEMMA Constant ==
  /\ NoSid \notin Sid /\ Cleaner \notin Thread
  /\ \A t \in Thread : t \in Actor /\ t # Cleaner
  /\ Cleaner \in Actor
BY IdsAssumption DEF Actor

\* Whatever name is asked for or made up after a conflict is a name.
LEMMA NameType ==
  /\ \A b \in Base : Plain(b) \in Name
  /\ \A n \in Name, s \in Sid, g \in {1, 2} : conflictName(n, s, g) \in Name
  /\ \A n \in Name : nameKey(n) \in Name
<1>1. \A b \in Base : Plain(b) \in Name
  BY DEF Name
<1>2. \A n \in Name : n.base \in Base
  BY DEF Name, Plain
<1>3. \A n \in Name, s \in Sid, g \in {1, 2} : conflictName(n, s, g) \in Name
  BY <1>2 DEF Name, conflictName
<1>4. ASSUME NEW n \in Name PROVE nameKey(n) \in Name
  <2>1. CASE \E b \in Base : n = Plain(b)
    <3>1. PICK b \in Base : n = Plain(b)
      BY <2>1
    <3>2. nameKey(n) = Plain(Fold[b])
      BY <3>1 DEF nameKey, Plain
    <3>3. QED  BY <3>2, <1>1, FoldAssumption
  <2>2. CASE n \in [base : Base, by : Sid, gen : {1, 2}]
    BY <2>2, FoldAssumption DEF nameKey, Name
  <2>3. QED  BY <2>1, <2>2 DEF Name
<1>5. QED  BY <1>1, <1>3, <1>4

\* Every answer a handler gives is a reply.
LEMMA ReplyType ==
  /\ \A k \in Kind, n \in Name \cup {NoName}, c \in SUBSET Chunk :
       [kind |-> k, name |-> n, chunks |-> c] \in Reply
  /\ NoReply \in Reply
BY DEF Reply, NoReply, Kind

\* Every request a client sends is a request, whatever its snapshot holds.
LEMMA RequestType ==
  /\ NoRequest \in Request
  /\ \A o \in Op, s \in Sid : [NoRequest EXCEPT !.op = o, !.sid = s] \in Request
  /\ \A s \in Sid, c \in Chunk, d \in Data :
       [NoRequest EXCEPT !.op = "chunk", !.sid = s, !.chunk = c, !.body = d] \in Request
  /\ \A r \in Request, c \in SUBSET Chunk : [r EXCEPT !.seen = c] \in Request
BY DEF Request, NoRequest, Op

\* What the handlers change in a registry entry leaves it one.
LEMMA EntryType ==
  /\ \A k \in 0 .. MaxChunks, n \in Name \cup {NoName} : NewEntry(k, n) \in Entry
  /\ \A e \in Entry :
       /\ \A b \in BOOLEAN : /\ [e EXCEPT !.stale = b] \in Entry
                             /\ [e EXCEPT !.closed = b] \in Entry
       /\ \A n \in Name : /\ [e EXCEPT !.final = n] \in Entry
                          /\ [e EXCEPT !.result = n] \in Entry
       /\ \A c \in Chunk : [e EXCEPT !.received = @ \cup {c}, !.stale = FALSE] \in Entry
BY DEF Entry, NewEntry

\* The parts of an entry, and the chunks its upload is made of.
LEMMA EntryFields ==
  ASSUME TypeOK, NEW s \in Sid
  PROVE  /\ entry[s] \in Entry
         /\ entry[s].final \in Name \cup {NoName}
         /\ entry[s].result \in Name \cup {NoName}
         /\ entry[s].received \in SUBSET Chunk
         /\ Chunks(s) \in SUBSET Chunk
<1>1. entry[s] \in Entry
  BY DEF TypeOK
<1>2. entry[s].total \in 0 .. MaxChunks
  BY <1>1 DEF Entry
<1>3. Chunks(s) \in SUBSET Chunk
  BY <1>2, LimitsAssumption DEF Chunks, Chunk
<1> QED
  BY <1>1, <1>3 DEF Entry

\* Writing one chunk leaves the payloads what they are.
LEMMA PayloadType ==
  ASSUME TypeOK, NEW s \in Sid, NEW c \in Chunk, NEW v \in Data \cup {Hole},
         payload' = [payload EXCEPT ![s][c] = v]
  PROVE  payload' \in [Sid -> [Chunk -> Data \cup {Hole}]]
<1>1. payload \in [Sid -> [Chunk -> Data \cup {Hole}]]
  BY DEF TypeOK
<1> QED  BY <1>1

\* What a step may do to the response and the request of one goroutine.
Answers(t) == \E k \in Kind, n \in Name \cup {NoName}, c \in SUBSET Chunk :
  reply' = [reply EXCEPT ![t] = [kind |-> k, name |-> n, chunks |-> c]]
Asks(a) == \E r \in Request : req' = [req EXCEPT ![a] = r]

\* A goroutine that moves, is asked or answers leaves the local state well typed.
LEMMA LocalType ==
  ASSUME TypeOK, NEW a \in Actor, NEW p \in Pc, pc' = [pc EXCEPT ![a] = p],
         req' = req \/ Asks(a), reply' = reply \/ Answers(a)
  PROVE  /\ pc' \in [Actor -> Pc] /\ req' \in [Actor -> Request]
         /\ reply' \in [Thread -> Reply]
<1>1. reply' \in [Thread -> Reply]
  <2>1. reply \in [Thread -> Reply]
    BY DEF TypeOK
  <2> QED  BY <2>1, ReplyType DEF Answers
<1>2. req' \in [Actor -> Request]
  <2>1. req \in [Actor -> Request]
    BY DEF TypeOK
  <2> QED  BY <2>1 DEF Asks
<1>3. pc' \in [Actor -> Pc]
  BY DEF TypeOK
<1> QED  BY <1>1, <1>2, <1>3

\* Every step keeps the types and what a goroutine knows by where it stands.
LEMMA TypedStep == Typed /\ [Next]_vars => Typed'
<1> SUFFICES ASSUME Typed, [Next]_vars PROVE Typed'
  OBVIOUS
<1> USE Constant DEF Goto, Answer, Shared, RegistryVars, ReceiptVars, FileVars
<1>0. TypeOK /\ Ready /\ Roles /\ Named BY DEF Typed
<1>1. ASSUME NEW t \in Thread, InitSession(t) PROVE Typed'
  <2>1. PICK p \in Pc : pc' = [pc EXCEPT ![t] = p]
    BY <1>1, <1>0 DEF InitSession, Pc
  <2>2. req' = req
    BY <1>1, <1>0 DEF InitSession
  <2>3. reply' = reply \/ Answers(t)
    BY <1>1, <1>0, NameType DEF InitSession, Answers, Kind, TypeOK
  <2>4. /\ pc' \in [Actor -> Pc] /\ req' \in [Actor -> Request]
        /\ reply' \in [Thread -> Reply]
    BY <1>0, <2>1, <2>2, <2>3, LocalType
  <2>5. entry' \in [Sid -> Entry]
    <3>1. entry' = entry \/ \E s \in Sid, k \in 0 .. MaxChunks, n \in Name :
            entry' = [entry EXCEPT ![s] = NewEntry(k, n)]
      BY <1>1, <1>0, NameType DEF InitSession, TypeOK
    <3>2. \A k \in 0 .. MaxChunks, n \in Name : NewEntry(k, n) \in Entry
      BY EntryType
    <3> QED  BY <1>0, <3>1, <3>2 DEF TypeOK
  <2>6. TypeOK'
    <3>1. names' \subseteq Name
      BY <1>1, <1>0, NameType DEF InitSession, TypeOK
    <3>2. unused' \subseteq unused /\ sessions' \subseteq Sid \ unused' /\ temp' \subseteq Sid \ unused'
      BY <1>1, <1>0 DEF InitSession, TypeOK, Used
    <3> QED  BY <1>1, <1>0, <2>4, <2>5, <3>1, <3>2 DEF InitSession, TypeOK, Used
  <2>7. Ready'
    BY <1>1, <1>0 DEF InitSession, TypeOK, Ready, Used, Request, NoRequest
  <2>8. Roles'
    BY <1>1, <1>0 DEF InitSession, TypeOK, Roles, Request, NoRequest
  <2>9. Named'
    BY <1>1, <1>0, NameType DEF InitSession, TypeOK, Named, Used, Entry, NewEntry
  <2> QED BY <2>6, <2>7, <2>8, <2>9 DEF Typed
<1>2. ASSUME NEW t \in Thread, StartChunk(t) PROVE Typed'
  <2>1. PICK p \in Pc : pc' = [pc EXCEPT ![t] = p]
    BY <1>2, <1>0 DEF StartChunk, Pc
  <2>2. req' = req \/ \E s \in Used, c \in Chunk, d \in Data :
          req' = [req EXCEPT ![t] = [NoRequest EXCEPT !.op = "chunk", !.sid = s, !.chunk = c, !.body = d]]
    BY <1>2, <1>0 DEF StartChunk
  <2>3. req' = req \/ Asks(t)
    BY <2>2, RequestType DEF Asks, Used
  <2>4. reply' = reply \/ Answers(t)
    BY <1>2, <1>0 DEF StartChunk, Answers, Kind
  <2>5. /\ pc' \in [Actor -> Pc] /\ req' \in [Actor -> Request]
        /\ reply' \in [Thread -> Reply]
    BY <1>0, <2>1, <2>3, <2>4, LocalType
  <2>6. TypeOK'
    BY <1>2, <1>0, <2>5 DEF StartChunk, TypeOK, Used, Ready, Roles
  <2>7. \/ req' = req /\ p = "done"
        \/ /\ req'[t].sid \in Used /\ req'[t].body \in Data /\ req'[t].chunk \in Chunk
           /\ \A a \in Actor : a # t => req'[a] = req[a]
           /\ p = "wfind"
    <3>1. CASE req' = req /\ pc'[t] = "done"
      BY <1>0, <2>1, <3>1 DEF TypeOK
    <3>2. CASE pc'[t] = "wfind" /\ \E s \in Used, c \in Chunk, d \in Data :
                 req' = [req EXCEPT ![t] = [NoRequest EXCEPT !.op = "chunk", !.sid = s, !.chunk = c, !.body = d]]
      BY <1>0, <2>1, <3>2 DEF TypeOK, NoRequest
    <3> QED  BY <1>2, <1>0, <3>1, <3>2 DEF StartChunk, TypeOK
  <2>8. Ready' /\ Roles'
    BY <1>2, <1>0, <2>1, <2>7 DEF StartChunk, TypeOK, Ready, Roles, Used
  <2>9. Named'
    BY <1>2, <1>0, NameType DEF StartChunk, TypeOK, Named, Used, Entry, NewEntry
  <2> QED BY <2>6, <2>8, <2>9 DEF Typed
<1>3. ASSUME NEW t \in Thread, StartRequest(t) PROVE Typed'
  <2>1. PICK p \in Pc : pc' = [pc EXCEPT ![t] = p]
    BY <1>3, <1>0 DEF StartRequest, Pc
  <2>2. PICK s \in Used, op \in {"status", "complete", "cancel"} :
          req' = [req EXCEPT ![t] = [NoRequest EXCEPT !.op = op, !.sid = s]]
    BY <1>3, <1>0 DEF StartRequest
  <2>3. Asks(t)
    BY <2>2, RequestType DEF Asks, Op, Used
  <2>4. reply' = reply
    BY <1>3, <1>0 DEF StartRequest
  <2>5. /\ pc' \in [Actor -> Pc] /\ req' \in [Actor -> Request]
        /\ reply' \in [Thread -> Reply]
    BY <1>0, <2>1, <2>3, <2>4, LocalType
  <2>6. TypeOK'
    BY <1>3, <1>0, <2>5 DEF StartRequest, TypeOK, Used, Ready, Roles
  <2>7. Ready'
    BY <1>3, <1>0 DEF StartRequest, TypeOK, Ready, Used, Request, NoRequest
  <2>8. Roles'
    BY <1>3, <1>0 DEF StartRequest, TypeOK, Roles, Request, NoRequest
  <2>9. Named'
    BY <1>3, <1>0, NameType DEF StartRequest, TypeOK, Named, Used, Entry, NewEntry
  <2> QED BY <2>6, <2>7, <2>8, <2>9 DEF Typed
<1>4. ASSUME NEW t \in Thread, Respond(t) PROVE Typed'
  <2>1. PICK p \in Pc : pc' = [pc EXCEPT ![t] = p]
    BY <1>4, <1>0 DEF Respond, Pc
  <2>2. Asks(t)
    BY <1>4, <1>0, RequestType DEF Respond, Asks
  <2>3. Answers(t)
    BY <1>4, <1>0 DEF Respond, Answers, NoReply, Kind
  <2>4. /\ pc' \in [Actor -> Pc] /\ req' \in [Actor -> Request]
        /\ reply' \in [Thread -> Reply]
    BY <1>0, <2>1, <2>2, <2>3, LocalType
  <2>5. TypeOK'
    BY <1>4, <1>0, <2>4 DEF Respond, TypeOK, Used, Ready, Roles
  <2>6. Ready'
    BY <1>4, <1>0 DEF Respond, TypeOK, Ready, Used, Request, NoRequest
  <2>7. Roles'
    BY <1>4, <1>0 DEF Respond, TypeOK, Roles, Request, NoRequest
  <2>8. Named'
    BY <1>4, <1>0, NameType DEF Respond, TypeOK, Named, Used, Entry, NewEntry
  <2> QED BY <2>5, <2>6, <2>7, <2>8 DEF Typed
<1>5. ASSUME NEW t \in Thread, ChunkFind(t) PROVE Typed'
  <2>1. PICK p \in Pc : pc' = [pc EXCEPT ![t] = p]
    BY <1>5, <1>0 DEF ChunkFind, Pc
  <2>2. req' = req
    BY <1>5, <1>0 DEF ChunkFind
  <2>3. reply' = reply \/ Answers(t)
    BY <1>5, <1>0 DEF ChunkFind, Answers, Kind
  <2>4. /\ pc' \in [Actor -> Pc] /\ req' \in [Actor -> Request]
        /\ reply' \in [Thread -> Reply]
    BY <1>0, <2>1, <2>2, <2>3, LocalType
  <2>5. TypeOK'
    BY <1>5, <1>0, <2>4 DEF ChunkFind, TypeOK, Used, Ready, Roles
  <2>6. Ready'
    BY <1>5, <1>0 DEF ChunkFind, TypeOK, Ready, Used, Request, NoRequest
  <2>7. Roles'
    BY <1>5, <1>0 DEF ChunkFind, TypeOK, Roles, Request, NoRequest
  <2>8. Named'
    BY <1>5, <1>0, NameType DEF ChunkFind, TypeOK, Named, Used, Entry, NewEntry
  <2> QED BY <2>5, <2>6, <2>7, <2>8 DEF Typed
<1>6. ASSUME NEW t \in Thread, ChunkLock(t) PROVE Typed'
  <2>1. PICK p \in Pc : pc' = [pc EXCEPT ![t] = p]
    BY <1>6, <1>0 DEF ChunkLock, Pc
  <2>2. req' = req
    BY <1>6, <1>0 DEF ChunkLock
  <2>3. reply' = reply \/ Answers(t)
    BY <1>6, <1>0 DEF ChunkLock, Answers, Kind
  <2>4. /\ pc' \in [Actor -> Pc] /\ req' \in [Actor -> Request]
        /\ reply' \in [Thread -> Reply]
    BY <1>0, <2>1, <2>2, <2>3, LocalType
  <2>5. TypeOK'
    BY <1>6, <1>0, <2>4 DEF ChunkLock, TypeOK, Used, Ready, Roles
  <2>6. Ready'
    BY <1>6, <1>0 DEF ChunkLock, TypeOK, Ready, Used, Request, NoRequest
  <2>7. Roles'
    BY <1>6, <1>0 DEF ChunkLock, TypeOK, Roles, Request, NoRequest
  <2>8. Named'
    BY <1>6, <1>0, NameType DEF ChunkLock, TypeOK, Named, Used, Entry, NewEntry
  <2> QED BY <2>5, <2>6, <2>7, <2>8 DEF Typed
<1>7. ASSUME NEW t \in Thread, ChunkBegin(t) PROVE Typed'
  <2>1. PICK p \in Pc : pc' = [pc EXCEPT ![t] = p]
    BY <1>7, <1>0 DEF ChunkBegin, Pc
  <2>2. req' = req
    BY <1>7, <1>0 DEF ChunkBegin
  <2>3. reply' = reply
    BY <1>7, <1>0 DEF ChunkBegin
  <2>4. /\ pc' \in [Actor -> Pc] /\ req' \in [Actor -> Request]
        /\ reply' \in [Thread -> Reply]
    BY <1>0, <2>1, <2>2, <2>3, LocalType
  <2>5. entry' \in [Sid -> Entry]
    BY <1>7, <1>0, EntryType, EntryFields, NameType DEF ChunkBegin, TypeOK, Ready, Roles, Used, Named, SavedFilename
  <2>6. payload' \in [Sid -> [Chunk -> Data \cup {Hole}]]
    <3>1. req[t].sid \in Sid /\ req[t].body \in Data /\ req[t].chunk \in Chunk
      BY <1>7, <1>0 DEF ChunkBegin, TypeOK, Ready, Roles, Used
    <3>2. payload' = payload \/ \E v \in Data \cup {Hole} :
            payload' = [payload EXCEPT ![req[t].sid][req[t].chunk] = v]
      BY <1>7, <3>1 DEF ChunkBegin
    <3>3. payload \in [Sid -> [Chunk -> Data \cup {Hole}]]
      BY <1>0 DEF TypeOK
    <3>4. ASSUME NEW v \in Data \cup {Hole},
                 payload' = [payload EXCEPT ![req[t].sid][req[t].chunk] = v]
          PROVE  payload' \in [Sid -> [Chunk -> Data \cup {Hole}]]
      BY <1>0, <3>1, <3>4, PayloadType
    <3> QED  BY <3>2, <3>3, <3>4
  <2>7. TypeOK'
    BY <1>7, <1>0, <2>4, <2>5, <2>6 DEF ChunkBegin, TypeOK, Used, Ready, Roles
  <2>8. Ready'
    BY <1>7, <1>0 DEF ChunkBegin, TypeOK, Ready, Used, Request, NoRequest
  <2>9. Roles'
    BY <1>7, <1>0 DEF ChunkBegin, TypeOK, Roles, Request, NoRequest
  <2>10. Named'
    BY <1>7, <1>0, NameType DEF ChunkBegin, TypeOK, Named, Used, Entry, NewEntry
  <2> QED BY <2>7, <2>8, <2>9, <2>10 DEF Typed
<1>8. ASSUME NEW t \in Thread, ChunkAck(t) PROVE Typed'
  <2>1. PICK p \in Pc : pc' = [pc EXCEPT ![t] = p]
    BY <1>8, <1>0 DEF ChunkAck, Pc
  <2>2. req' = req
    BY <1>8, <1>0 DEF ChunkAck
  <2>3. reply' = reply \/ Answers(t)
    BY <1>8, <1>0 DEF ChunkAck, Answers, Kind
  <2>4. /\ pc' \in [Actor -> Pc] /\ req' \in [Actor -> Request]
        /\ reply' \in [Thread -> Reply]
    BY <1>0, <2>1, <2>2, <2>3, LocalType
  <2>5. entry' \in [Sid -> Entry]
    BY <1>8, <1>0, EntryType, EntryFields, NameType DEF ChunkAck, TypeOK, Ready, Roles, Used, Named, SavedFilename
  <2>6. payload' \in [Sid -> [Chunk -> Data \cup {Hole}]]
    <3>1. req[t].sid \in Sid /\ req[t].body \in Data /\ req[t].chunk \in Chunk
      BY <1>8, <1>0 DEF ChunkAck, TypeOK, Ready, Roles, Used
    <3>2. payload' = payload \/ \E v \in Data \cup {Hole} :
            payload' = [payload EXCEPT ![req[t].sid][req[t].chunk] = v]
      BY <1>8, <3>1 DEF ChunkAck
    <3>3. payload \in [Sid -> [Chunk -> Data \cup {Hole}]]
      BY <1>0 DEF TypeOK
    <3>4. ASSUME NEW v \in Data \cup {Hole},
                 payload' = [payload EXCEPT ![req[t].sid][req[t].chunk] = v]
          PROVE  payload' \in [Sid -> [Chunk -> Data \cup {Hole}]]
      BY <1>0, <3>1, <3>4, PayloadType
    <3> QED  BY <3>2, <3>3, <3>4
  <2>7. TypeOK'
    BY <1>8, <1>0, <2>4, <2>5, <2>6 DEF ChunkAck, TypeOK, Used, Ready, Roles
  <2>8. Ready'
    BY <1>8, <1>0 DEF ChunkAck, TypeOK, Ready, Used, Request, NoRequest
  <2>9. Roles'
    BY <1>8, <1>0 DEF ChunkAck, TypeOK, Roles, Request, NoRequest
  <2>10. Named'
    BY <1>8, <1>0, NameType DEF ChunkAck, TypeOK, Named, Used, Entry, NewEntry
  <2> QED BY <2>7, <2>8, <2>9, <2>10 DEF Typed
<1>9. ASSUME NEW t \in Thread, ChunkFail(t) PROVE Typed'
  <2>1. PICK p \in Pc : pc' = [pc EXCEPT ![t] = p]
    BY <1>9, <1>0 DEF ChunkFail, Pc
  <2>2. req' = req
    BY <1>9, <1>0 DEF ChunkFail
  <2>3. reply' = reply \/ Answers(t)
    BY <1>9, <1>0 DEF ChunkFail, Answers, Kind
  <2>4. /\ pc' \in [Actor -> Pc] /\ req' \in [Actor -> Request]
        /\ reply' \in [Thread -> Reply]
    BY <1>0, <2>1, <2>2, <2>3, LocalType
  <2>5. payload' \in [Sid -> [Chunk -> Data \cup {Hole}]]
    <3>1. req[t].sid \in Sid /\ req[t].body \in Data /\ req[t].chunk \in Chunk
      BY <1>9, <1>0 DEF ChunkFail, TypeOK, Ready, Roles, Used
    <3>2. payload' = payload \/ \E v \in Data \cup {Hole} :
            payload' = [payload EXCEPT ![req[t].sid][req[t].chunk] = v]
      BY <1>9, <3>1 DEF ChunkFail
    <3>3. payload \in [Sid -> [Chunk -> Data \cup {Hole}]]
      BY <1>0 DEF TypeOK
    <3>4. ASSUME NEW v \in Data \cup {Hole},
                 payload' = [payload EXCEPT ![req[t].sid][req[t].chunk] = v]
          PROVE  payload' \in [Sid -> [Chunk -> Data \cup {Hole}]]
      BY <1>0, <3>1, <3>4, PayloadType
    <3> QED  BY <3>2, <3>3, <3>4
  <2>6. TypeOK'
    BY <1>9, <1>0, <2>4, <2>5 DEF ChunkFail, TypeOK, Used, Ready, Roles
  <2>7. Ready'
    BY <1>9, <1>0 DEF ChunkFail, TypeOK, Ready, Used, Request, NoRequest
  <2>8. Roles'
    BY <1>9, <1>0 DEF ChunkFail, TypeOK, Roles, Request, NoRequest
  <2>9. Named'
    BY <1>9, <1>0, NameType DEF ChunkFail, TypeOK, Named, Used, Entry, NewEntry
  <2> QED BY <2>6, <2>7, <2>8, <2>9 DEF Typed
<1>10. ASSUME NEW t \in Thread, LookReceipt(t) PROVE Typed'
  <2>1. PICK p \in Pc : pc' = [pc EXCEPT ![t] = p]
    BY <1>10, <1>0 DEF LookReceipt, Pc
  <2>2. req' = req
    BY <1>10, <1>0 DEF LookReceipt
  <2>3. reply' = reply \/ Answers(t)
    BY <1>10, <1>0, EntryFields DEF LookReceipt, Answers, Kind, Ready, Used
  <2>4. /\ pc' \in [Actor -> Pc] /\ req' \in [Actor -> Request]
        /\ reply' \in [Thread -> Reply]
    BY <1>0, <2>1, <2>2, <2>3, LocalType
  <2>5. TypeOK'
    BY <1>10, <1>0, <2>4 DEF LookReceipt, TypeOK, Used, Ready, Roles
  <2>6. Ready'
    BY <1>10, <1>0 DEF LookReceipt, TypeOK, Ready, Used, Request, NoRequest
  <2>7. Roles'
    BY <1>10, <1>0 DEF LookReceipt, TypeOK, Roles, Request, NoRequest
  <2>8. Named'
    BY <1>10, <1>0, NameType DEF LookReceipt, TypeOK, Named, Used, Entry, NewEntry
  <2> QED BY <2>5, <2>6, <2>7, <2>8 DEF Typed
<1>11. ASSUME NEW t \in Thread, LookFind(t) PROVE Typed'
  <2>1. PICK p \in Pc : pc' = [pc EXCEPT ![t] = p]
    BY <1>11, <1>0 DEF LookFind, Pc
  <2>2. req' = req
    BY <1>11, <1>0 DEF LookFind
  <2>3. reply' = reply
    BY <1>11, <1>0 DEF LookFind
  <2>4. /\ pc' \in [Actor -> Pc] /\ req' \in [Actor -> Request]
        /\ reply' \in [Thread -> Reply]
    BY <1>0, <2>1, <2>2, <2>3, LocalType
  <2>5. TypeOK'
    BY <1>11, <1>0, <2>4 DEF LookFind, TypeOK, Used, Ready, Roles
  <2>6. Ready'
    BY <1>11, <1>0 DEF LookFind, TypeOK, Ready, Used, Request, NoRequest
  <2>7. Roles'
    BY <1>11, <1>0 DEF LookFind, TypeOK, Roles, Request, NoRequest
  <2>8. Named'
    BY <1>11, <1>0, NameType DEF LookFind, TypeOK, Named, Used, Entry, NewEntry
  <2> QED BY <2>5, <2>6, <2>7, <2>8 DEF Typed
<1>12. ASSUME NEW t \in Thread, LookPeek(t) PROVE Typed'
  <2>1. PICK p \in Pc : pc' = [pc EXCEPT ![t] = p]
    BY <1>12, <1>0 DEF LookPeek, Pc
  <2>2. req[t].sid \in Sid /\ req[t] \in Request
    BY <1>12, <1>0 DEF LookPeek, TypeOK, Ready, Used
  <2>3. req' = req \/ req' = [req EXCEPT ![t] = [req[t] EXCEPT !.seen = entry[req[t].sid].received]]
    BY <1>12, <1>0 DEF LookPeek
  <2>4. req' = req \/ Asks(t)
    BY <1>0, <2>2, <2>3, RequestType, EntryFields DEF Asks
  <2>5. reply' = reply \/ Answers(t)
    BY <1>12, <1>0, EntryFields DEF LookPeek, Answers, Kind, Ready, Used
  <2>6. /\ pc' \in [Actor -> Pc] /\ req' \in [Actor -> Request]
        /\ reply' \in [Thread -> Reply]
    BY <1>0, <2>1, <2>4, <2>5, LocalType
  <2>7. TypeOK'
    BY <1>12, <1>0, <2>6 DEF LookPeek, TypeOK, Used, Ready, Roles
  <2>8. Ready'
    <3>1. \A a \in Actor : a # t => req'[a] = req[a] /\ pc'[a] = pc[a]
      BY <1>0, <2>1, <2>3 DEF TypeOK
    <3>2. req'[t].sid = req[t].sid
      BY <1>0, <2>2, <2>3 DEF TypeOK, Request
    <3> QED  BY <1>12, <1>0, <3>1, <3>2 DEF LookPeek, Ready, Used
  <2>9. Roles'
    <3>1. \A a \in Actor : a # t => req'[a] = req[a] /\ pc'[a] = pc[a]
      BY <1>0, <2>1, <2>3 DEF TypeOK
    <3>2. req'[t].op = req[t].op
      BY <1>0, <2>2, <2>3 DEF TypeOK, Request
    <3>3. pc'[t] \in {"again", "done"} \/ (pc'[t] = "cfind" /\ req[t].op # "status")
      BY <1>12, <1>0 DEF LookPeek, TypeOK
    <3>4. pc[t] = "peek"
      BY <1>12 DEF LookPeek
    <3> QED  BY <1>0, <3>1, <3>2, <3>3, <3>4 DEF Roles
  <2>10. Named'
    BY <1>12, <1>0, NameType DEF LookPeek, TypeOK, Named, Used, Entry, NewEntry
  <2> QED BY <2>7, <2>8, <2>9, <2>10 DEF Typed
<1>13. ASSUME NEW t \in Thread, LookAgain(t) PROVE Typed'
  <2>1. PICK p \in Pc : pc' = [pc EXCEPT ![t] = p]
    BY <1>13, <1>0 DEF LookAgain, Pc
  <2>2. req' = req
    BY <1>13, <1>0 DEF LookAgain
  <2>3. reply' = reply \/ Answers(t)
    BY <1>13, <1>0, EntryFields DEF LookAgain, Answers, Kind, Ready, Used
  <2>4. /\ pc' \in [Actor -> Pc] /\ req' \in [Actor -> Request]
        /\ reply' \in [Thread -> Reply]
    BY <1>0, <2>1, <2>2, <2>3, LocalType
  <2>5. TypeOK'
    BY <1>13, <1>0, <2>4 DEF LookAgain, TypeOK, Used, Ready, Roles
  <2>6. Ready'
    BY <1>13, <1>0 DEF LookAgain, TypeOK, Ready, Used, Request, NoRequest
  <2>7. Roles'
    BY <1>13, <1>0 DEF LookAgain, TypeOK, Roles, Request, NoRequest
  <2>8. Named'
    BY <1>13, <1>0, NameType DEF LookAgain, TypeOK, Named, Used, Entry, NewEntry
  <2> QED BY <2>5, <2>6, <2>7, <2>8 DEF Typed
<1>14. ASSUME NEW t \in Thread, CompleteFind(t) PROVE Typed'
  <2>1. PICK p \in Pc : pc' = [pc EXCEPT ![t] = p]
    BY <1>14, <1>0 DEF CompleteFind, Pc
  <2>2. req' = req
    BY <1>14, <1>0 DEF CompleteFind
  <2>3. reply' = reply
    BY <1>14, <1>0 DEF CompleteFind
  <2>4. /\ pc' \in [Actor -> Pc] /\ req' \in [Actor -> Request]
        /\ reply' \in [Thread -> Reply]
    BY <1>0, <2>1, <2>2, <2>3, LocalType
  <2>5. TypeOK'
    BY <1>14, <1>0, <2>4 DEF CompleteFind, TypeOK, Used, Ready, Roles
  <2>6. Ready'
    BY <1>14, <1>0 DEF CompleteFind, TypeOK, Ready, Used, Request, NoRequest
  <2>7. Roles'
    BY <1>14, <1>0 DEF CompleteFind, TypeOK, Roles, Request, NoRequest
  <2>8. Named'
    BY <1>14, <1>0, NameType DEF CompleteFind, TypeOK, Named, Used, Entry, NewEntry
  <2> QED BY <2>5, <2>6, <2>7, <2>8 DEF Typed
<1>15. ASSUME NEW t \in Thread, CancelFind(t) PROVE Typed'
  <2>1. PICK p \in Pc : pc' = [pc EXCEPT ![t] = p]
    BY <1>15, <1>0 DEF CancelFind, Pc
  <2>2. req' = req
    BY <1>15, <1>0 DEF CancelFind
  <2>3. reply' = reply \/ Answers(t)
    BY <1>15, <1>0 DEF CancelFind, Answers, Kind
  <2>4. /\ pc' \in [Actor -> Pc] /\ req' \in [Actor -> Request]
        /\ reply' \in [Thread -> Reply]
    BY <1>0, <2>1, <2>2, <2>3, LocalType
  <2>5. TypeOK'
    BY <1>15, <1>0, <2>4 DEF CancelFind, TypeOK, Used, Ready, Roles
  <2>6. Ready'
    BY <1>15, <1>0 DEF CancelFind, TypeOK, Ready, Used, Request, NoRequest
  <2>7. Roles'
    BY <1>15, <1>0 DEF CancelFind, TypeOK, Roles, Request, NoRequest
  <2>8. Named'
    BY <1>15, <1>0, NameType DEF CancelFind, TypeOK, Named, Used, Entry, NewEntry
  <2> QED BY <2>5, <2>6, <2>7, <2>8 DEF Typed
<1>16. ASSUME NEW t \in Thread, LockWait(t) PROVE Typed'
  <2>1. PICK p \in Pc : pc' = [pc EXCEPT ![t] = p]
    BY <1>16, <1>0 DEF LockWait, Pc
  <2>2. req' = req
    BY <1>16, <1>0 DEF LockWait
  <2>3. reply' = reply
    BY <1>16, <1>0 DEF LockWait
  <2>4. /\ pc' \in [Actor -> Pc] /\ req' \in [Actor -> Request]
        /\ reply' \in [Thread -> Reply]
    BY <1>0, <2>1, <2>2, <2>3, LocalType
  <2>5. TypeOK'
    BY <1>16, <1>0, <2>4 DEF LockWait, TypeOK, Used, Ready, Roles
  <2>6. Ready'
    BY <1>16, <1>0 DEF LockWait, TypeOK, Ready, Used, Request, NoRequest
  <2>7. Roles'
    BY <1>16, <1>0 DEF LockWait, TypeOK, Roles, Request, NoRequest
  <2>8. Named'
    BY <1>16, <1>0, NameType DEF LockWait, TypeOK, Named, Used, Entry, NewEntry
  <2> QED BY <2>5, <2>6, <2>7, <2>8 DEF Typed
<1>17. ASSUME NEW t \in Thread, CancelLocked(t) PROVE Typed'
  <2>1. PICK p \in Pc : pc' = [pc EXCEPT ![t] = p]
    BY <1>17, <1>0 DEF CancelLocked, Pc
  <2>2. req' = req
    BY <1>17, <1>0 DEF CancelLocked
  <2>3. reply' = reply \/ Answers(t)
    BY <1>17, <1>0 DEF CancelLocked, Answers, Kind
  <2>4. /\ pc' \in [Actor -> Pc] /\ req' \in [Actor -> Request]
        /\ reply' \in [Thread -> Reply]
    BY <1>0, <2>1, <2>2, <2>3, LocalType
  <2>5. TypeOK'
    BY <1>17, <1>0, <2>4 DEF CancelLocked, TypeOK, Used, Ready, Roles
  <2>6. Ready'
    BY <1>17, <1>0 DEF CancelLocked, TypeOK, Ready, Used, Request, NoRequest, Drained
  <2>7. Roles'
    BY <1>17, <1>0 DEF CancelLocked, TypeOK, Roles, Request, NoRequest, Drained
  <2>8. Named'
    BY <1>17, <1>0, NameType DEF CancelLocked, TypeOK, Named, Used, Entry, NewEntry
  <2> QED BY <2>5, <2>6, <2>7, <2>8 DEF Typed
<1>18. ASSUME NEW t \in Thread, CompleteLocked(t) PROVE Typed'
  <2>1. PICK p \in Pc : pc' = [pc EXCEPT ![t] = p]
    BY <1>18, <1>0 DEF CompleteLocked, Pc
  <2>2. req' = req
    BY <1>18, <1>0 DEF CompleteLocked
  <2>3. reply' = reply \/ Answers(t)
    <3>1. req[t].sid \in Sid
      BY <1>18, <1>0 DEF CompleteLocked, Drained, Ready, Used, TypeOK
    <3>2. Missing(t) \in SUBSET Chunk /\ entry[req[t].sid].result \in Name \cup {NoName}
      BY <1>0, <3>1, EntryFields DEF Missing
    <3>3. \/ reply' = reply
          \/ \E k \in {"gone", "failed"} :
               reply' = [reply EXCEPT ![t] = [kind |-> k, name |-> NoName, chunks |-> {}]]
          \/ reply' = [reply EXCEPT ![t] = [kind |-> "missing", name |-> NoName, chunks |-> Missing(t)]]
          \/ reply' = [reply EXCEPT ![t] = [kind |-> "saved", name |-> entry[req[t].sid].result, chunks |-> {}]]
      BY <1>18 DEF CompleteLocked
    <3> QED  BY <3>2, <3>3 DEF Answers, Kind
  <2>4. /\ pc' \in [Actor -> Pc] /\ req' \in [Actor -> Request]
        /\ reply' \in [Thread -> Reply]
    BY <1>0, <2>1, <2>2, <2>3, LocalType
  <2>5. TypeOK'
    BY <1>18, <1>0, <2>4 DEF CompleteLocked, TypeOK, Used, Ready, Roles
  <2>6. Ready'
    BY <1>18, <1>0 DEF CompleteLocked, TypeOK, Ready, Used, Request, NoRequest, Drained
  <2>7. Roles'
    BY <1>18, <1>0 DEF CompleteLocked, TypeOK, Roles, Request, NoRequest, Drained
  <2>8. Named'
    BY <1>18, <1>0, NameType DEF CompleteLocked, TypeOK, Named, Used, Entry, NewEntry
  <2> QED BY <2>5, <2>6, <2>7, <2>8 DEF Typed
<1>19. ASSUME NEW t \in Thread, CompletePublish(t) PROVE Typed'
  <2>1. PICK p \in Pc : pc' = [pc EXCEPT ![t] = p]
    BY <1>19, <1>0 DEF CompletePublish, Pc
  <2>2. req' = req
    BY <1>19, <1>0 DEF CompletePublish
  <2>3. reply' = reply \/ Answers(t)
    BY <1>19, <1>0 DEF CompletePublish, Answers, Kind
  <2>4. /\ pc' \in [Actor -> Pc] /\ req' \in [Actor -> Request]
        /\ reply' \in [Thread -> Reply]
    BY <1>0, <2>1, <2>2, <2>3, LocalType
  <2>5. entry' \in [Sid -> Entry]
    BY <1>19, <1>0, EntryType, EntryFields, NameType DEF CompletePublish, TypeOK, Ready, Roles, Used, Named, SavedFilename
  <2>6. TypeOK'
    <3>1. PICK n \in Name :
            /\ names' \subseteq names \cup {nameKey(n)}
            /\ disk' = disk \/ disk' = [disk EXCEPT ![n] = req[t].sid]
            /\ published' = published \/ published' = [published EXCEPT ![req[t].sid] = n]
      BY <1>19, <1>0, NameType DEF CompletePublish, Exchanged, TypeOK, Ready, Used, Named
    <3>2. req[t].sid \in Sid
      BY <1>19, <1>0 DEF CompletePublish, Ready, Used, TypeOK
    <3>3. /\ names' \subseteq Name
          /\ disk' \in [Name -> Sid \cup {Absent, Foreign}]
          /\ published' \in [Sid -> Name \cup {NoName}]
      BY <1>0, <3>1, <3>2, NameType DEF TypeOK
    <3> QED  BY <1>19, <1>0, <2>4, <2>5, <3>3 DEF CompletePublish, TypeOK, Used
  <2>7. Ready'
    BY <1>19, <1>0 DEF CompletePublish, TypeOK, Ready, Used, Request, NoRequest
  <2>8. Roles'
    BY <1>19, <1>0 DEF CompletePublish, TypeOK, Roles, Request, NoRequest
  <2>9. Named'
    <3>1. PICK n \in Name : entry' = [entry EXCEPT ![req[t].sid].final = n]
      BY <1>19, <1>0, NameType DEF CompletePublish, TypeOK, Ready, Used, Named
    <3>2. unused' = unused /\ entry \in [Sid -> Entry]
      BY <1>19, <1>0 DEF CompletePublish, TypeOK
    <3>3. \A s \in Sid : entry'[s].final = entry[s].final \/ entry'[s].final = n
      BY <3>1, <3>2 DEF Entry
    <3> QED  BY <1>0, <3>1, <3>2, <3>3 DEF Named, Used
  <2> QED BY <2>6, <2>7, <2>8, <2>9 DEF Typed
<1>20. ASSUME NEW t \in Thread, CompleteRemember(t) PROVE Typed'
  <2>1. PICK p \in Pc : pc' = [pc EXCEPT ![t] = p]
    BY <1>20, <1>0 DEF CompleteRemember, Pc
  <2>2. req' = req
    BY <1>20, <1>0 DEF CompleteRemember
  <2>3. reply' = reply
    BY <1>20, <1>0 DEF CompleteRemember
  <2>4. /\ pc' \in [Actor -> Pc] /\ req' \in [Actor -> Request]
        /\ reply' \in [Thread -> Reply]
    BY <1>0, <2>1, <2>2, <2>3, LocalType
  <2>5. entry' \in [Sid -> Entry]
    BY <1>20, <1>0, EntryType, EntryFields, NameType DEF CompleteRemember, TypeOK, Ready, Roles, Used, Named, SavedFilename
  <2>6. TypeOK'
    <3>1. req[t].sid \in Used /\ receipts \in Seq(Sid)
      BY <1>20, <1>0 DEF CompleteRemember, Remembered, Full, Ready, TypeOK
    <3>2. Len(receipts) >= MaxCompleted => receipts # <<>>
      BY <3>1, LimitsAssumption
    <3>3. receipts' \in Seq(Sid)
      BY <1>20, <3>1, <3>2 DEF CompleteRemember, Remembered, Full, Used
    <3>4. forgotten' \subseteq Sid
      BY <1>20, <1>0, <3>1, <3>2 DEF CompleteRemember, Remembered, Full, Used, TypeOK
    <3> QED  BY <1>20, <1>0, <2>4, <2>5, <3>3, <3>4 DEF CompleteRemember, Remembered, Full, TypeOK, Used
  <2>7. Ready'
    BY <1>20, <1>0 DEF CompleteRemember, TypeOK, Ready, Used, Request, NoRequest
  <2>8. Roles'
    BY <1>20, <1>0 DEF CompleteRemember, TypeOK, Roles, Request, NoRequest
  <2>9. Named'
    BY <1>20, <1>0, NameType DEF CompleteRemember, TypeOK, Named, Used, Entry, NewEntry
  <2> QED BY <2>6, <2>7, <2>8, <2>9 DEF Typed
<1>21. ASSUME NEW a \in Actor, CloseEntry(a) PROVE Typed'
  <2>1. req[a].sid \in Sid /\ req' = req /\ reply' = reply /\ pc' = [pc EXCEPT ![a] = "clean"]
    BY <1>21, <1>0 DEF CloseEntry, Ready, Used
  <2>2. entry' \in [Sid -> Entry]
    <3>1. entry' = [entry EXCEPT ![req[a].sid] = [entry[req[a].sid] EXCEPT !.closed = TRUE]]
      BY <1>21 DEF CloseEntry
    <3> QED  BY <1>0, <2>1, <3>1, EntryType, EntryFields DEF TypeOK
  <2>3. TypeOK'
    BY <1>21, <1>0, <2>1, <2>2 DEF CloseEntry, TypeOK, Used, Pc
  <2>4. Ready' /\ Roles'
    BY <1>21, <1>0, <2>1 DEF CloseEntry, TypeOK, Ready, Roles, Used
  <2>5. Named'
    BY <1>21, <1>0, <2>1 DEF CloseEntry, TypeOK, Named, Used, Entry
  <2> QED  BY <2>3, <2>4, <2>5 DEF Typed
<1>22. ASSUME NEW t \in Thread, CleanTemp(t) PROVE Typed'
  <2>1. /\ req[t].sid \in Sid /\ req[t].op \in {"complete", "cancel"}
        /\ SavedFilename(req[t].sid) \in Name \cup {NoName}
    BY <1>22, <1>0, EntryFields DEF CleanTemp, Roles, Ready, Used, SavedFilename
  <2>2. req' = req /\ pc' = [pc EXCEPT ![t] = "done"] /\ Answers(t)
    <3>1. CASE req[t].op = "complete"
      BY <1>22, <2>1, <3>1 DEF CleanTemp, Answers, Kind
    <3>2. CASE req[t].op = "cancel"
      BY <1>22, <2>1, <3>2 DEF CleanTemp, CancelReplies, Answers, Kind
    <3> QED  BY <2>1, <3>1, <3>2
  <2>3. /\ pc' \in [Actor -> Pc] /\ req' \in [Actor -> Request]
        /\ reply' \in [Thread -> Reply]
    BY <1>0, <2>2, LocalType DEF Pc
  <2>4. TypeOK'
    BY <1>22, <1>0, <2>3 DEF CleanTemp, TypeOK, Used
  <2>5. Ready' /\ Roles'
    BY <1>22, <1>0, <2>2 DEF CleanTemp, TypeOK, Ready, Roles, Used
  <2>6. Named'
    BY <1>22, <1>0 DEF CleanTemp, Named, Used
  <2> QED  BY <2>4, <2>5, <2>6 DEF Typed
<1>23. ASSUME CleanTemp(Cleaner) PROVE Typed'
  <2>1. /\ req' = [req EXCEPT ![Cleaner] = NoRequest]
        /\ pc' = [pc EXCEPT ![Cleaner] = "idle"] /\ reply' = reply
    BY <1>23, <1>0 DEF CleanTemp, Roles
  <2>2. /\ pc' \in [Actor -> Pc] /\ req' \in [Actor -> Request]
        /\ reply' \in [Thread -> Reply]
    BY <1>0, <2>1, RequestType DEF TypeOK, Pc
  <2>3. TypeOK'
    BY <1>23, <1>0, <2>2 DEF CleanTemp, TypeOK, Used
  <2>4. Ready' /\ Roles'
    <3>1. \A a \in Actor : a # Cleaner => req'[a] = req[a] /\ pc'[a] = pc[a]
      BY <1>0, <2>1 DEF TypeOK
    <3>2. pc'[Cleaner] = "idle"
      BY <1>0, <2>1 DEF TypeOK
    <3>3. UNCHANGED unused
      BY <1>23 DEF CleanTemp, RegistryVars
    <3>4. Ready'
      BY <1>0, <3>1, <3>2, <3>3 DEF Ready, Used
    <3>5. \A t \in Thread : req'[t] = req[t] /\ pc'[t] = pc[t]
      BY <3>1
    <3>6. Roles'
      BY ONLY <1>0, <3>2, <3>5 DEF Roles
    <3> QED  BY <3>4, <3>6
  <2>5. Named'
    BY <1>23, <1>0 DEF CleanTemp, Named, Used
  <2> QED  BY <2>3, <2>4, <2>5 DEF Typed
<1>24. ASSUME Scan PROVE Typed'
  BY <1>24, <1>0 DEF Scan, Typed, TypeOK, Ready, Roles, Named, Used
<1>25. ASSUME Sweep PROVE Typed'
  <2>1. PICK s \in todo :
          \/ pc' = pc /\ req' = req
          \/ /\ pc' = [pc EXCEPT ![Cleaner] = "close"]
             /\ req' = [req EXCEPT ![Cleaner] = [NoRequest EXCEPT !.op = "expire", !.sid = s]]
    BY <1>25 DEF Sweep
  <2>2. s \in Used
    BY <1>0 DEF TypeOK
  <2>3. pc' \in [Actor -> Pc] /\ req' \in [Actor -> Request]
    <3>1. [NoRequest EXCEPT !.op = "expire", !.sid = s] \in Request
      BY <2>2, RequestType DEF Op, Used
    <3> QED  BY SMTT(30), <1>0, <2>1, <3>1 DEF TypeOK, Pc
  <2>4. TypeOK'
    BY <1>25, <1>0, <2>3 DEF Sweep, TypeOK, Used
  <2>5. Ready' /\ Roles'
    <3>1. \A a \in Actor : a # Cleaner => req'[a] = req[a] /\ pc'[a] = pc[a]
      BY <1>0, <2>1 DEF TypeOK
    <3>2. \/ pc' = pc /\ req' = req
          \/ /\ pc'[Cleaner] = "close"
             /\ req'[Cleaner].op = "expire" /\ req'[Cleaner].sid = s
      <4>1. CASE pc' = pc /\ req' = req
        BY <4>1
      <4>2. CASE /\ pc' = [pc EXCEPT ![Cleaner] = "close"]
                 /\ req' = [req EXCEPT ![Cleaner] = [NoRequest EXCEPT !.op = "expire", !.sid = s]]
        <5>1. LET r == [NoRequest EXCEPT !.op = "expire", !.sid = s]
              IN  r.op = "expire" /\ r.sid = s
          BY DEF NoRequest
        <5> QED  BY <1>0, <4>2, <5>1 DEF TypeOK
      <4> QED  BY <2>1, <4>1, <4>2
    <3>3. UNCHANGED unused
      BY <1>25 DEF Sweep
    <3> QED  BY <1>0, <2>2, <3>1, <3>2, <3>3 DEF Ready, Roles, Used
  <2>6. Named'
    BY <1>25, <1>0 DEF Sweep, Named, Used
  <2> QED  BY <2>4, <2>5, <2>6 DEF Typed
<1>26. ASSUME NEW n \in Name, DeleteFile(n) \/ ExternalFile(n) PROVE Typed'
  BY <1>26, <1>0 DEF DeleteFile, ExternalFile, Typed, TypeOK, Ready, Roles, Named, Used
<1>27. ASSUME NEW s \in Sid, GoStale(s) PROVE Typed'
  <2>1. entry' \in [Sid -> Entry]
    <3>1. entry' = [entry EXCEPT ![s] = [entry[s] EXCEPT !.stale = TRUE]]
      BY <1>27 DEF GoStale
    <3> QED  BY <1>0, <3>1, EntryType, EntryFields DEF TypeOK
  <2>2. TypeOK' /\ Ready' /\ Roles'
    BY <1>27, <1>0, <2>1 DEF GoStale, TypeOK, Ready, Roles, Used
  <2>3. Named'
    BY <1>27, <1>0 DEF GoStale, TypeOK, Named, Used, Entry
  <2> QED  BY <2>2, <2>3 DEF Typed
<1>28. ASSUME ReceiptLapses PROVE Typed'
  <2>1. receipts \in Seq(Sid) /\ receipts # <<>>
    BY <1>28, <1>0 DEF ReceiptLapses, TypeOK
  <2>2. receipts' \in Seq(Sid) /\ Head(receipts) \in Sid
    BY <1>28, <2>1 DEF ReceiptLapses
  <2> QED
    BY <1>28, <1>0, <2>2 DEF ReceiptLapses, Typed, TypeOK, Ready, Roles, Named, Used
<1>29. ASSUME Restart PROVE Typed'
  <2>1. /\ pc' = [a \in Actor |-> "idle"] /\ req' = [a \in Actor |-> NoRequest]
        /\ reply' = [t \in Thread |-> NoReply]
        /\ sessions' = {} /\ names' = {} /\ temp' = {} /\ todo' = {}
        /\ receipts' = <<>> /\ lapsed' = {}
        /\ UNCHANGED <<unused, payload, disk, published>>
    BY <1>29 DEF Restart
  <2>2. forgotten' \subseteq Sid
    BY <1>29, <1>0 DEF Restart, TypeOK
  <2>3. \A s \in Sid : /\ entry'[s] \in Entry
                       /\ entry'[s].final = entry[s].final
    <3> SUFFICES ASSUME NEW s \in Sid
                 PROVE  entry'[s] \in Entry /\ entry'[s].final = entry[s].final
      OBVIOUS
    <3>1. entry'[s] = entry[s] \/ entry'[s] = [entry[s] EXCEPT !.closed = TRUE]
      BY <1>29 DEF Restart
    <3>2. entry[s] \in Entry
      BY <1>0 DEF TypeOK
    <3> QED  BY <3>1, <3>2 DEF Entry
  <2>4. entry' \in [Sid -> Entry]
    <3>1. entry' = [s \in Sid |-> entry'[s]]
      BY <1>29 DEF Restart
    <3> QED  BY <2>3, <3>1
  <2>5. pc' \in [Actor -> Pc] /\ req' \in [Actor -> Request] /\ reply' \in [Thread -> Reply]
    BY <2>1, RequestType, ReplyType DEF Pc
  <2>6. TypeOK'
    BY <1>0, <2>1, <2>2, <2>4, <2>5 DEF TypeOK, Used
  <2>7. Ready' /\ Roles'
    <3>1. \A a \in Actor : pc'[a] = "idle"
      BY <2>1
    <3>2. Ready'
      BY <3>1 DEF Ready
    <3>3. pc'[Cleaner] = "idle" /\ \A t \in Thread : pc'[t] = "idle"
      BY <3>1
    <3>4. Roles'
      BY ONLY <3>3 DEF Roles
    <3> QED  BY <3>2, <3>4
  <2>8. Named'
    BY <1>0, <2>1, <2>3 DEF Named, Used
  <2> QED  BY <2>6, <2>7, <2>8 DEF Typed
<1>30. ASSUME UNCHANGED vars PROVE Typed'
  BY <1>30, <1>0 DEF vars, Typed, TypeOK, Ready, Roles, Named, Used
<1> QED
  BY <1>1, <1>2, <1>3, <1>4, <1>5, <1>6, <1>7, <1>8, <1>9, <1>10, <1>11, <1>12, <1>13,
     <1>14, <1>15, <1>16, <1>17, <1>18, <1>19, <1>20, <1>21, <1>22, <1>23, <1>24, <1>25,
     <1>26, <1>27, <1>28, <1>29, <1>30
     DEF Next, Arrive, Serve, WriteChunk, LookupUpload, EndSession, ExpireIdle, Environment

\* They hold before the first request.
LEMMA TypedInit == Init => Typed
<1> SUFFICES ASSUME Init PROVE Typed
  OBVIOUS
<1>1. pc \in [Actor -> Pc] /\ req \in [Actor -> Request] /\ reply \in [Thread -> Reply]
  BY RequestType, ReplyType DEF Init, Pc
<1>2. entry \in [Sid -> Entry]
  <2>1. 0 \in 0 .. MaxChunks
    BY LimitsAssumption
  <2>2. NewEntry(0, NoName) \in Entry
    BY <2>1, EntryType
  <2> QED  BY <2>2 DEF Init
<1>3. TypeOK
  BY <1>1, <1>2 DEF Init, TypeOK, Used
<1>4. Ready /\ Roles /\ Named
  <2>1. (\A a \in Actor : pc[a] = "idle") /\ Used = {}
    BY DEF Init, Used
  <2>2. Ready
    BY <2>1 DEF Ready
  <2>3. pc[Cleaner] = "idle" /\ \A t \in Thread : pc[t] = "idle"
    BY <2>1, Constant
  <2>4. Roles
    BY ONLY <2>3 DEF Roles
  <2> QED  BY <2>1, <2>2, <2>4 DEF Named
<1> QED  BY <1>3, <1>4 DEF Typed

\* Every variable keeps its type in every behaviour.
THEOREM TypeCorrect == Spec => []TypeOK
<1>1. Typed => TypeOK
  BY DEF Typed
<1> QED  BY <1>1, TypedInit, TypedStep, PTL DEF Spec
-----------------------------------------------------------------------------
(* Why no interleaving corrupts an upload: the inductive invariant, and what *)
(* follows from it.                                                          *)

Streaming == {"wblock", "copy", "discard"}
Copying == {"copy", "discard"}
\* An owner of the lifecycle lock, once the streams it found have ended.
Deciding == {"publish", "remember", "close", "clean"}
Owning == {"drain"} \cup Deciding
Completing(a) == pc[a] \in {"publish", "remember"}
                   \/ (pc[a] \in {"close", "clean"} /\ req[a].op = "complete")

\* The lifecycle lock has one owner, who decides with no stream on the session.
Exclusive == \A a, b \in Actor : a # b /\ req[a].sid = req[b].sid =>
  /\ pc[a] \in Owning => pc[b] \notin Owning
  /\ pc[a] \in Deciding => pc[b] \notin Streaming

\* The registry holds the sessions that are not closed; their directories stand.
\* An id that was not drawn is blank.
Registered ==
  /\ \A s \in Used : s \in sessions <=> ~entry[s].closed
  /\ sessions \subseteq temp
  /\ \A s \in unused : entry[s].total = 0

\* What a goroutine in a critical region relies on.
Holds(a) == LET s == req[a].sid IN
  /\ pc[a] \in Streaming \cup {"publish", "remember", "close"} => ~entry[s].closed
  /\ pc[a] = "clean" => entry[s].closed
  /\ pc[a] \in Streaming => req[a].chunk \in Chunks(s)
  /\ pc[a] = "copy" => req[a].chunk \notin entry[s].received
  /\ pc[a] = "discard" => req[a].chunk \in entry[s].received
  /\ Completing(a) => entry[s].received = Chunks(s)
Holding == \A a \in Actor : Holds(a)

\* Nobody else copies the chunk that a goroutine copies.
OwnBlock == \A t, u \in Thread :
  t # u /\ pc[t] \in Copying /\ pc[u] \in Copying /\ req[t].sid = req[u].sid
    => req[t].chunk # req[u].chunk

Received == \A s \in Sid :
  /\ entry[s].received \subseteq Chunks(s)
  /\ \A c \in entry[s].received : payload[s][c] \in Data
  /\ \A c \in Chunk \ Chunks(s) : payload[s][c] = Hole

\* Between publishing a session and closing it, its completion is at work.
Finishing(s) == \E a \in Actor : /\ pc[a] \in {"remember", "close"} /\ Completing(a)
                                 /\ req[a].sid = s
Finished(s) == s \in Used /\ entry[s].received = Chunks(s) /\ (entry[s].closed \/ Finishing(s))
Published == \A s \in Sid : published[s] # NoName => Finished(s)

Guarded == Exclusive /\ Registered /\ Holding /\ OwnBlock /\ Received /\ Published
Safe == Typed /\ Guarded
-----------------------------------------------------------------------------
(* A step moves at most one goroutine; most steps leave what Safe is about   *)
(* alone, or only take a goroutine out of the regions it speaks of.          *)
Stays(a) == pc'[a] = pc[a] /\ req'[a] = req[a]
Leaves(a) == pc'[a] \notin Streaming \cup Owning /\ pc[a] \notin {"remember", "close"}
Same(s) == /\ entry'[s].total = entry[s].total
           /\ entry'[s].received = entry[s].received
           /\ entry'[s].closed = entry[s].closed
SameRegistry == unused' = unused /\ sessions' = sessions /\ temp' = temp

\* A step moves its own goroutine only.
LEMMA Moved ==
  ASSUME TypeOK, NEW a \in Actor, NEW p, Goto(a, p)
  PROVE  pc'[a] = p /\ \A b \in Actor \ {a} : pc'[b] = pc[b]
BY DEF TypeOK, Goto

\* Only goroutines of requests stream.
LEMMA StreamsAreThreads ==
  ASSUME Typed, NEW a \in Actor, pc[a] \in Streaming
  PROVE  a \in Thread /\ a \in Streams(req[a].sid)
BY DEF Typed, Roles, Actor, Streaming, Streams

\* Those who stay, leave, or move within a region keep the regions apart.
LEMMA ExclusiveKept ==
  ASSUME Exclusive,
         \A b \in Actor : \/ Stays(b) \/ Leaves(b)
                          \/ /\ req'[b] = req[b]
                             /\ \/ pc[b] \in Streaming /\ pc'[b] \in Streaming
                                \/ pc[b] \in Deciding /\ pc'[b] \in Deciding
  PROVE  Exclusive'
BY DEF Exclusive, Stays, Leaves, Streaming, Owning, Deciding

\* One goroutine may enter a region where nobody is in its way.
LEMMA ExclusiveMove ==
  ASSUME Exclusive, NEW a \in Actor, \A b \in Actor \ {a} : Stays(b),
         \A b \in Actor \ {a} : req[b].sid = req'[a].sid =>
           /\ pc'[a] \in Owning => pc[b] \notin Owning
           /\ pc'[a] \in Deciding => pc[b] \notin Streaming
           /\ pc'[a] \in Streaming => pc[b] \notin Deciding
  PROVE  Exclusive'
BY DEF Exclusive, Stays, Owning

\* The registry keeps its shape where nothing is registered or removed.
LEMMA RegisteredKept ==
  ASSUME Registered, TypeOK, SameRegistry, \A s \in Sid : Same(s)
  PROVE  Registered'
BY DEF Registered, SameRegistry, Same, Used, TypeOK

\* Block locks stay with their holders while nobody else begins to copy.
LEMMA OwnBlockKept ==
  ASSUME OwnBlock, Typed,
         \A b \in Actor : Stays(b) \/ pc'[b] \notin Copying
  PROVE  OwnBlock'
BY Constant DEF OwnBlock, Stays, Typed, Roles, Copying

\* Received chunks stay whole where nothing is written.
LEMMA ReceivedKept ==
  ASSUME Received, payload' = payload, \A s \in Sid : Same(s)
  PROVE  Received'
BY DEF Received, Same, Chunks

\* Published files stay finished while those who finish them stay.
LEMMA PublishedKept ==
  ASSUME Published, published' = published, unused' = unused, \A s \in Sid : Same(s),
         \A b \in Actor : Stays(b) \/ pc[b] \notin {"remember", "close"}
  PROVE  Published'
BY DEF Published, Finished, Finishing, Same, Chunks, Used, Stays, Completing

\* For the goroutines that a step neither moves nor disturbs.
LEMMA HoldsKept ==
  ASSUME Typed, NEW a \in Actor, Holds(a), Stays(a), req[a].sid \in Sid => Same(req[a].sid)
  PROVE  Holds(a)'
<1>1. pc[a] \notin {"idle", "done"} => Same(req[a].sid)
  BY DEF Typed, Ready, Used
<1>2. CASE pc[a] \in {"idle", "done"}
  BY <1>2 DEF Holds, Stays, Completing, Streaming
<1>3. CASE pc[a] \notin {"idle", "done"}
  BY <1>3, <1>1 DEF Holds, Stays, Completing, Same, Chunks
<1> QED  BY <1>2, <1>3
-----------------------------------------------------------------------------
(* The steps one by one.  Typed' is TypedStep's business.                    *)
\* The steps that tell, refuse, look or wait.
LEMMA CalmStep ==
  ASSUME Safe, \A b \in Actor : Stays(b) \/ Leaves(b),
         SameRegistry, payload' = payload, published' = published, \A s \in Sid : Same(s)
  PROVE  Guarded'
<1>0. /\ Typed /\ TypeOK /\ Exclusive /\ Registered /\ Holding /\ OwnBlock /\ Received
      /\ Published
  BY DEF Safe, Guarded, Typed
<1>1. Exclusive'
  BY <1>0, ExclusiveKept
<1>2. Registered'
  BY <1>0, RegisteredKept
<1>3. Holding'
  <2>1. ASSUME NEW a \in Actor, Stays(a) PROVE Holds(a)'
    BY <1>0, <2>1, HoldsKept DEF Holding
  <2>2. ASSUME NEW a \in Actor, Leaves(a) PROVE Holds(a)'
    BY <2>2 DEF Holds, Leaves, Completing, Owning, Deciding, Streaming
  <2> QED  BY <2>1, <2>2 DEF Holding, Actor
<1>4. OwnBlock'
  BY <1>0, OwnBlockKept DEF Leaves, Copying, Streaming
<1>5. Received'
  BY <1>0, ReceivedKept
<1>6. Published'
  BY <1>0, PublishedKept DEF SameRegistry, Leaves
<1> QED  BY <1>1, <1>2, <1>3, <1>4, <1>5, <1>6 DEF Guarded

\* A session is opened under a fresh id.
LEMMA OpenStep ==
  ASSUME Safe, NEW t \in Thread, pc[t] = "idle", Goto(t, "done"), req' = req,
         NEW r \in unused, NEW k \in 0 .. MaxChunks, NEW n \in Name,
         unused' = unused \ {r}, sessions' = sessions \cup {r}, temp' = temp \cup {r},
         entry' = [entry EXCEPT ![r] = NewEntry(k, n)],
         payload' = payload, published' = published
  PROVE  Guarded'
<1>0. /\ Typed /\ TypeOK /\ Exclusive /\ Registered /\ Holding /\ OwnBlock /\ Received
      /\ Published
  BY DEF Safe, Guarded, Typed
<1>1. \A b \in Actor : Stays(b) \/ Leaves(b)
  BY <1>0, Constant, Moved DEF Stays, Leaves, Streaming, Owning, Deciding
<1>2. /\ r \in Sid /\ entry'[r].total = k /\ entry'[r].received = {}
      /\ ~entry'[r].closed
      /\ \A s \in Sid \ {r} : Same(s)
  BY <1>0 DEF TypeOK, Same, NewEntry
<1>3. Exclusive'
  BY <1>0, <1>1, ExclusiveKept
<1>4. Registered'
  BY <1>0, <1>2 DEF Registered, Used, Same, TypeOK
<1>5. Holding'
  <2>1. ASSUME NEW a \in Actor, Stays(a), pc[a] \notin {"idle", "done"} PROVE Holds(a)'
    <3>1. req[a].sid \in Sid \ {r}
      BY <1>0, <2>1 DEF Typed, Ready, Used
    <3> QED  BY <1>0, <1>2, <2>1, <3>1, HoldsKept DEF Holding
  <2>2. ASSUME NEW a \in Actor, Leaves(a) \/ (Stays(a) /\ pc[a] \in {"idle", "done"})
        PROVE  Holds(a)'
    BY <2>2 DEF Holds, Leaves, Stays, Completing, Owning, Deciding, Streaming
  <2> QED  BY <1>1, <2>1, <2>2 DEF Holding, Actor
<1>6. OwnBlock'
  BY <1>0, <1>1, OwnBlockKept DEF Leaves, Copying, Streaming
<1>7. Received'
  <2>1. \A c \in Chunk : payload'[r][c] = Hole
    BY <1>0, <1>2 DEF Registered, Received, Chunks
  <2> QED  BY <1>0, <1>2, <2>1 DEF Received, Same, Chunks
<1>8. Published'
  BY <1>0, <1>1, <1>2 DEF Published, Finished, Finishing, Same, Chunks, Used, Stays, Leaves, Completing
<1> QED  BY <1>3, <1>4, <1>5, <1>6, <1>7, <1>8 DEF Guarded

\* A body is admitted: the lifecycle lock has no owner.
LEMMA AdmitStep ==
  ASSUME Safe, NEW t \in Thread, pc[t] = "wlock", CanRLock(req[t].sid),
         ~Closed(req[t].sid), req[t].chunk \in Chunks(req[t].sid),
         Goto(t, "wblock"), req' = req, SameRegistry, entry' = entry,
         payload' = payload, published' = published
  PROVE  Guarded'
<1>0. /\ Typed /\ TypeOK /\ Exclusive /\ Registered /\ Holding /\ OwnBlock /\ Received
      /\ Published
  BY DEF Safe, Guarded, Typed
<1>1. pc'[t] = "wblock" /\ \A b \in Actor \ {t} : Stays(b)
  BY <1>0, Constant, Moved DEF Stays
<1>2. \A s \in Sid : Same(s)
  BY DEF Same
<1>3. \A b \in Actor : req[b].sid = req[t].sid => pc[b] \notin Owning
  BY DEF CanRLock, Owners, Owning, Deciding
<1>4. Exclusive'
  BY <1>0, <1>1, <1>3, Constant, ExclusiveMove DEF Streaming, Owning, Deciding
<1>5. Registered'
  BY <1>0, <1>2, RegisteredKept
<1>6. Holding'
  <2>1. ASSUME NEW a \in Actor \ {t} PROVE Holds(a)'
    BY <1>0, <1>1, <1>2, HoldsKept DEF Holding
  <2>2. Holds(t)'
    BY <1>1 DEF Holds, Completing, Closed, Chunks
  <2> QED  BY <2>1, <2>2 DEF Holding, Actor
<1>7. OwnBlock'
  BY <1>0, <1>1, OwnBlockKept DEF Copying
<1>8. Received'
  BY <1>0, <1>2, ReceivedKept
<1>9. Published'
  BY <1>0, <1>1, <1>2, PublishedKept DEF SameRegistry
<1> QED  BY <1>4, <1>5, <1>6, <1>7, <1>8, <1>9 DEF Guarded

\* A body starts to flow, or to be discarded.
LEMMA BeginStep ==
  ASSUME Safe, NEW t \in Thread, ChunkBegin(t)
  PROVE  Guarded'
<1>0. /\ Typed /\ TypeOK /\ Exclusive /\ Registered /\ Holding /\ OwnBlock /\ Received
      /\ Published
  BY DEF Safe, Guarded, Typed
<1> DEFINE r == req[t].sid
           c == req[t].chunk
<1>1. /\ pc[t] = "wblock" /\ ~BlockHeld(r, c)
      /\ r \in Sid /\ c \in Chunk /\ Holds(t)
  BY <1>0, Constant DEF ChunkBegin, Typed, Ready, Roles, Used, Holding
<1>2. /\ pc'[t] \in Copying /\ \A b \in Actor \ {t} : Stays(b)
      /\ pc'[t] = "copy" => c \notin entry[r].received
      /\ pc'[t] = "discard" => c \in entry[r].received
      /\ req' = req
  BY <1>0, Constant DEF ChunkBegin, Goto, Stays, TypeOK, Copying
<1>3. SameRegistry /\ published' = published
  BY DEF ChunkBegin, SameRegistry
<1>4. \A s \in Sid : Same(s)
  BY <1>0, <1>1 DEF ChunkBegin, Same, TypeOK, Entry
<1>5. \A s \in Sid, d \in Chunk :
        payload'[s][d] # payload[s][d] => s = r /\ d = c /\ c \notin entry[r].received
  BY <1>0, <1>1 DEF ChunkBegin, TypeOK
<1>6. Exclusive'
  BY <1>0, <1>1, <1>2, ExclusiveKept DEF Streaming, Copying
<1>7. Registered'
  BY <1>0, <1>3, <1>4, RegisteredKept
<1>8. Holding'
  <2>1. ASSUME NEW a \in Actor \ {t} PROVE Holds(a)'
    BY <1>0, <1>2, <1>4, HoldsKept DEF Holding
  <2>2. Holds(t)'
    BY <1>1, <1>2, <1>4 DEF Holds, Completing, Streaming, Copying, Same, Chunks
  <2> QED  BY <2>1, <2>2 DEF Holding, Actor
<1>9. OwnBlock'
  <2>1. ASSUME NEW u \in Thread \ {t}, pc[u] \in Copying, req[u].sid = r
        PROVE  req[u].chunk # c
    BY <1>1, <2>1 DEF BlockHeld, Copying
  <2> QED  BY <1>0, <1>2, <2>1, Constant DEF OwnBlock, Stays
<1>10. Received'
  <2>1. c \in Chunks(r)
    BY <1>1 DEF Holds, Streaming
  <2> QED  BY <1>0, <1>4, <1>5, <2>1, EntryFields DEF Received, Same, Chunks
<1>11. Published'
  BY <1>0, <1>1, <1>2, <1>3, <1>4, PublishedKept DEF SameRegistry
<1> QED  BY <1>6, <1>7, <1>8, <1>9, <1>10, <1>11 DEF Guarded

\* A chunk is acknowledged.
LEMMA AckStep ==
  ASSUME Safe, NEW t \in Thread, ChunkAck(t)
  PROVE  Guarded'
<1>0. /\ Typed /\ TypeOK /\ Exclusive /\ Registered /\ Holding /\ OwnBlock /\ Received
      /\ Published
  BY DEF Safe, Guarded, Typed
<1> DEFINE r == req[t].sid
           c == req[t].chunk
<1>1. /\ pc[t] \in Copying /\ r \in Sid /\ c \in Chunk /\ Holds(t) /\ req[t].body \in Data
      /\ ~entry[r].closed /\ c \in Chunks(r)
  BY <1>0, Constant DEF ChunkAck, Typed, Ready, Roles, Used, Holding, Copying, Holds, Streaming
<1>2. /\ \A b \in Actor \ {t} : Stays(b)
      /\ \A b \in Actor : Stays(b) \/ Leaves(b)
      /\ pc'[t] = "done" /\ req' = req
  BY <1>0, <1>1, Constant
     DEF ChunkAck, Answer, Goto, Stays, Leaves, TypeOK, Copying, Streaming, Owning, Deciding
<1>3. SameRegistry /\ published' = published
  BY DEF ChunkAck, SameRegistry
<1>4. /\ \A s \in Sid \ {r} : Same(s)
      /\ entry'[r].total = entry[r].total /\ entry'[r].closed = entry[r].closed
      /\ entry'[r].received = entry[r].received \cup {c}
  BY <1>0, <1>1 DEF ChunkAck, Same, TypeOK, Entry
<1>5. /\ pc[t] = "discard" => Same(r)
      /\ \A s \in Sid, d \in Chunk : payload'[s][d] # payload[s][d] => s = r /\ d = c
      /\ payload'[r][c] \in Data
  <2>1. CASE pc[t] = "discard"
    <3>1. c \in entry[r].received
      BY <1>1, <2>1 DEF Holds
    <3> QED  BY <1>0, <1>1, <1>4, <2>1, <3>1 DEF ChunkAck, Same, Received
  <2>2. CASE pc[t] = "copy"
    BY <1>0, <1>1, <2>2 DEF ChunkAck, TypeOK
  <2> QED  BY <1>1, <2>1, <2>2 DEF Copying
<1>6. \A b \in Actor : Completing(b) => req[b].sid # r
  BY <1>0, <1>1, Constant DEF Exclusive, Completing, Deciding, Owning, Streaming, Copying
<1>7. Exclusive'
  BY <1>0, <1>2, ExclusiveKept
<1>8. Registered'
  BY <1>0, <1>3, <1>4 DEF Registered, SameRegistry, Same, Used, TypeOK
<1>9. Holding'
  <2>1. ASSUME NEW a \in Actor \ {t}, req[a].sid # r \/ Same(r) PROVE Holds(a)'
    BY <1>0, <1>2, <1>4, <2>1, HoldsKept DEF Holding
  <2>2. ASSUME NEW a \in Actor \ {t}, req[a].sid = r, pc[t] = "copy" PROVE Holds(a)'
    <3>1. pc[a] = "copy" => req[a].chunk # c
      BY <1>0, <2>2, Constant, StreamsAreThreads DEF OwnBlock, Copying, Streaming
    <3> QED  BY <1>0, <1>2, <1>4, <1>6, <2>2, <3>1
               DEF Holding, Holds, Stays, Completing, Chunks
  <2>3. Holds(t)'
    BY <1>2 DEF Holds, Completing, Streaming
  <2> QED  BY <1>1, <1>5, <2>1, <2>2, <2>3 DEF Holding, Actor, Copying
<1>10. OwnBlock'
  BY <1>0, <1>2, OwnBlockKept DEF Copying
<1>11. Received'
  BY <1>0, <1>1, <1>4, <1>5, EntryFields DEF Received, Same, Chunks
<1>12. Published'
  <2>1. ASSUME NEW s \in Sid, published[s] # NoName PROVE Same(s)
    <3>1. s = r => c \in entry[r].received
      BY <1>0, <1>1, <2>1 DEF Published, Finished
    <3> QED  BY <1>4, <3>1 DEF Same
  <2>2. ASSUME NEW b \in Actor PROVE Stays(b) \/ pc[b] \notin {"remember", "close"}
    BY <1>1, <1>2, <2>2 DEF Copying
  <2> QED  BY <1>0, <1>3, <2>1, <2>2 DEF Published, Finished, Finishing, SameRegistry, Used, Same, Chunks, Stays, Completing
<1> QED  BY <1>7, <1>8, <1>9, <1>10, <1>11, <1>12 DEF Guarded

\* A body ends badly: its block is torn, but nobody counts on that chunk.
LEMMA FailStep ==
  ASSUME Safe, NEW t \in Thread, ChunkFail(t)
  PROVE  Guarded'
<1>0. /\ Typed /\ TypeOK /\ Exclusive /\ Registered /\ Holding /\ OwnBlock /\ Received
      /\ Published
  BY DEF Safe, Guarded, Typed
<1> DEFINE r == req[t].sid
           c == req[t].chunk
<1>1. pc[t] \in Copying /\ r \in Sid /\ c \in Chunk /\ Holds(t)
  BY <1>0, Constant DEF ChunkFail, Typed, Ready, Roles, Used, Holding, Copying
<1>2. /\ \A b \in Actor : Stays(b) \/ Leaves(b)
      /\ \A b \in Actor : Stays(b) \/ (b = t /\ pc'[b] = "done")
  BY <1>0, <1>1, Constant
     DEF ChunkFail, Answer, Goto, Stays, Leaves, TypeOK, Copying, Streaming, Owning, Deciding
<1>3. SameRegistry /\ published' = published /\ \A s \in Sid : Same(s)
  BY DEF ChunkFail, SameRegistry, RegistryVars, Same
<1>4. \A s \in Sid, d \in Chunk :
        payload'[s][d] # payload[s][d] => s = r /\ d = c /\ c \notin entry[r].received
  BY <1>0, <1>1 DEF ChunkFail, TypeOK, Holds
<1>5. Exclusive'
  BY <1>0, <1>2, ExclusiveKept
<1>6. Registered'
  BY <1>0, <1>3, RegisteredKept
<1>7. Holding'
  <2>1. ASSUME NEW a \in Actor, Stays(a) PROVE Holds(a)'
    BY <1>0, <1>3, <2>1, HoldsKept DEF Holding
  <2>2. ASSUME NEW a \in Actor, pc'[a] = "done" PROVE Holds(a)'
    BY <2>2 DEF Holds, Completing, Streaming
  <2> QED  BY <1>2, <2>1, <2>2 DEF Holding, Actor
<1>8. OwnBlock'
  BY <1>0, <1>2, OwnBlockKept DEF Copying
<1>9. Received'
  <2>1. c \in Chunks(r)
    BY <1>1 DEF Holds, Streaming, Copying
  <2> QED  BY <1>0, <1>3, <1>4, <2>1, EntryFields DEF Received, Same, Chunks
<1>10. Published'
  BY <1>0, <1>1, <1>2, <1>3, PublishedKept DEF SameRegistry, Copying
<1> QED  BY <1>5, <1>6, <1>7, <1>8, <1>9, <1>10 DEF Guarded

\* The writer's slot is taken: nobody had it.
LEMMA WaitStep ==
  ASSUME Safe, NEW t \in Thread, LockWait(t)
  PROVE  Guarded'
<1>0. /\ Typed /\ TypeOK /\ Exclusive /\ Registered /\ Holding /\ OwnBlock /\ Received
      /\ Published
  BY DEF Safe, Guarded, Typed
<1>1. /\ pc[t] = "wait" /\ pc'[t] = "drain" /\ req' = req
      /\ \A b \in Actor \ {t} : Stays(b)
      /\ \A b \in Actor : req[b].sid = req[t].sid => pc[b] \notin Owning
  BY <1>0, Constant DEF LockWait, Goto, Stays, TypeOK, Owners, Owning, Deciding
<1>2. /\ SameRegistry /\ payload' = payload /\ published' = published
      /\ \A s \in Sid : Same(s)
  BY DEF LockWait, SameRegistry, Shared, RegistryVars, FileVars, Same
<1>3. Exclusive'
  BY <1>0, <1>1, Constant, ExclusiveMove DEF Owning, Deciding, Streaming
<1>4. Registered'
  BY <1>0, <1>2, RegisteredKept
<1>5. Holding'
  <2>1. ASSUME NEW a \in Actor \ {t} PROVE Holds(a)'
    BY <1>0, <1>1, <1>2, HoldsKept DEF Holding
  <2>2. Holds(t)'
    BY <1>1 DEF Holds, Completing, Streaming
  <2> QED  BY <2>1, <2>2 DEF Holding, Actor
<1>6. OwnBlock'
  BY <1>0, <1>1, OwnBlockKept DEF Copying
<1>7. Received'
  BY <1>0, <1>2, ReceivedKept
<1>8. Published'
  BY <1>0, <1>1, <1>2, PublishedKept DEF SameRegistry
<1> QED  BY <1>3, <1>4, <1>5, <1>6, <1>7, <1>8 DEF Guarded

\* The owner has drained the session and goes on: to cancel it, or to publish
\* it when every chunk was received.
LEMMA DecideStep ==
  ASSUME Safe, NEW t \in Thread, Drained(t), NEW p \in {"publish", "close"}, Goto(t, p),
         ~Closed(req[t].sid),
         p = "publish" => AllReceived(req[t].sid),
         p = "close" => req[t].op = "cancel",
         req' = req, Shared' = Shared
  PROVE  Guarded'
<1>0. /\ Typed /\ TypeOK /\ Exclusive /\ Registered /\ Holding /\ OwnBlock /\ Received
      /\ Published
  BY DEF Safe, Guarded, Typed
<1>1. /\ pc[t] = "drain" /\ pc'[t] = p /\ \A b \in Actor \ {t} : Stays(b)
      /\ \A b \in Actor \ {t} :
           req[b].sid = req[t].sid => pc[b] \notin Owning /\ pc[b] \notin Streaming
  <2>1. pc[t] = "drain" /\ Streams(req[t].sid) = {}
    BY DEF Drained
  <2>2. pc'[t] = p /\ \A b \in Actor \ {t} : Stays(b)
    BY <1>0, Constant, Moved DEF Stays
  <2>3. ASSUME NEW b \in Actor \ {t}, req[b].sid = req[t].sid
        PROVE  pc[b] \notin Owning /\ pc[b] \notin Streaming
    BY <1>0, <2>1, <2>3, Constant, StreamsAreThreads DEF Exclusive, Owning
  <2> QED  BY <2>1, <2>2, <2>3
<1>2. /\ SameRegistry /\ payload' = payload /\ published' = published
      /\ \A s \in Sid : Same(s)
  BY DEF SameRegistry, Shared, RegistryVars, FileVars, Same
<1>3. Exclusive'
  BY <1>0, <1>1, Constant, ExclusiveMove DEF Owning, Deciding, Streaming
<1>4. Registered'
  BY <1>0, <1>2, RegisteredKept
<1>5. Holding'
  <2>1. ASSUME NEW a \in Actor \ {t} PROVE Holds(a)'
    BY <1>0, <1>1, <1>2, HoldsKept DEF Holding
  <2>2. Holds(t)'
    <3>1. entry' = entry
      BY DEF Shared, RegistryVars
    <3> QED  BY <1>1, <3>1
             DEF Holds, Completing, Streaming, Closed, AllReceived, Chunks
  <2> QED  BY <2>1, <2>2 DEF Holding, Actor
<1>6. OwnBlock'
  BY <1>0, <1>1, OwnBlockKept DEF Copying
<1>7. Received'
  BY <1>0, <1>2, ReceivedKept
<1>8. Published'
  BY <1>0, <1>1, <1>2, PublishedKept DEF SameRegistry
<1> QED  BY <1>3, <1>4, <1>5, <1>6, <1>7, <1>8 DEF Guarded

\* The payload is linked.
LEMMA LinkStep ==
  ASSUME Safe, NEW t \in Thread, pc[t] = "publish", Goto(t, "remember"), req' = req,
         NEW n, published' = [published EXCEPT ![req[t].sid] = n],
         entry' = [entry EXCEPT ![req[t].sid].final = n],
         SameRegistry, payload' = payload
  PROVE  Guarded'
<1>0. /\ Typed /\ TypeOK /\ Exclusive /\ Registered /\ Holding /\ OwnBlock /\ Received
      /\ Published
  BY DEF Safe, Guarded, Typed
<1> DEFINE r == req[t].sid
<1>1. /\ r \in Used /\ r \in Sid /\ Holds(t) /\ req[t].op = "complete"
  BY <1>0, Constant DEF Typed, Ready, Roles, Used, Holding
<1>2. pc'[t] = "remember" /\ \A b \in Actor \ {t} : Stays(b)
  BY <1>0, Constant, Moved DEF Stays
<1>3. \A s \in Sid : Same(s) /\ (s # r => published'[s] = published[s])
  BY <1>0, <1>1 DEF Same, TypeOK, Entry
<1>4. Exclusive'
  BY <1>0, <1>2, ExclusiveKept DEF Deciding, Stays
<1>5. Registered'
  BY <1>0, <1>3, RegisteredKept
<1>6. Holding'
  <2>1. ASSUME NEW a \in Actor \ {t} PROVE Holds(a)'
    BY <1>0, <1>2, <1>3, HoldsKept DEF Holding
  <2>2. Holds(t)'
    BY <1>1, <1>2, <1>3 DEF Holds, Completing, Streaming, Same, Chunks
  <2> QED  BY <2>1, <2>2 DEF Holding, Actor
<1>7. OwnBlock'
  BY <1>0, <1>2, OwnBlockKept DEF Copying
<1>8. Received'
  BY <1>0, <1>3, ReceivedKept
<1>9. Published'
  <2>1. ASSUME NEW s \in Sid \ {r}, published'[s] # NoName
        PROVE  Finished(s)'
    BY <1>0, <1>1, <1>2, <1>3, <2>1
       DEF Published, Finished, Finishing, Same, Chunks, Used, SameRegistry, Stays, Completing
  <2>2. Finished(r)'
    BY <1>1, <1>2, <1>3, Constant
       DEF Same, Chunks, Used, SameRegistry, Completing, Holds, Finished, Finishing
  <2> QED  BY <2>1, <2>2, Constant DEF Published
<1> QED  BY <1>4, <1>5, <1>6, <1>7, <1>8, <1>9 DEF Guarded

\* The receipt is written.
LEMMA RememberStep ==
  ASSUME Safe, NEW t \in Thread, CompleteRemember(t)
  PROVE  Guarded'
<1>0. /\ Typed /\ TypeOK /\ Exclusive /\ Registered /\ Holding /\ OwnBlock /\ Received
      /\ Published
  BY DEF Safe, Guarded, Typed
<1>1. /\ pc[t] = "remember" /\ pc'[t] = "close" /\ req[t].op = "complete" /\ req' = req
      /\ Holds(t) /\ req[t].sid \in Sid
      /\ \A b \in Actor \ {t} : Stays(b)
  BY <1>0, Constant
     DEF CompleteRemember, Goto, Stays, TypeOK, Typed, Ready, Roles, Used, Holding
<1>2. /\ SameRegistry /\ payload' = payload /\ published' = published
      /\ \A s \in Sid : Same(s)
  BY <1>0, <1>1 DEF CompleteRemember, SameRegistry, FileVars, Same, TypeOK, Entry
<1>3. \A b \in Actor : /\ req'[b] = req[b]
                       /\ pc[b] \in {"remember", "close"} => pc'[b] \in {"remember", "close"}
                       /\ Completing(b) => Completing(b)'
  BY <1>1 DEF Stays, Completing
<1>4. Exclusive'
  BY <1>0, <1>1, ExclusiveKept DEF Deciding
<1>5. Registered'
  BY <1>0, <1>2, RegisteredKept
<1>6. Holding'
  <2>1. ASSUME NEW a \in Actor \ {t} PROVE Holds(a)'
    BY <1>0, <1>1, <1>2, HoldsKept DEF Holding
  <2>2. Holds(t)'
    BY <1>1, <1>2 DEF Holds, Completing, Streaming, Same, Chunks
  <2> QED  BY <2>1, <2>2 DEF Holding, Actor
<1>7. OwnBlock'
  BY <1>0, <1>1, OwnBlockKept DEF Copying
<1>8. Received'
  BY <1>0, <1>2, ReceivedKept
<1>9. Published'
  BY <1>0, <1>2, <1>3 DEF Published, Finished, Finishing, Same, Chunks, Used, SameRegistry
<1> QED  BY <1>4, <1>5, <1>6, <1>7, <1>8, <1>9 DEF Guarded

\* The session is closed and leaves the registry.
LEMMA CloseStep ==
  ASSUME Safe, NEW a \in Actor, CloseEntry(a)
  PROVE  Guarded'
<1>0. /\ Typed /\ TypeOK /\ Exclusive /\ Registered /\ Holding /\ OwnBlock /\ Received
      /\ Published
  BY DEF Safe, Guarded, Typed
<1> DEFINE r == req[a].sid
<1>1. /\ pc[a] = "close" /\ pc'[a] = "clean" /\ req' = req
      /\ Holds(a) /\ r \in Used /\ r \in Sid
      /\ \A b \in Actor \ {a} : Stays(b)
  BY <1>0 DEF CloseEntry, Goto, Stays, TypeOK, Typed, Ready, Used, Holding
<1>2. /\ \A s \in Sid \ {r} : Same(s)
      /\ entry'[r].closed
      /\ entry'[r].total = entry[r].total /\ entry'[r].received = entry[r].received
      /\ sessions' = sessions \ {r} /\ unused' = unused /\ temp' = temp
      /\ payload' = payload /\ published' = published
  BY <1>0, <1>1 DEF CloseEntry, FileVars, Same, TypeOK, Entry
<1>3. Exclusive'
  BY <1>0, <1>1, ExclusiveKept DEF Deciding
<1>4. Registered'
  BY <1>0, <1>1, <1>2 DEF Registered, Used, Same, TypeOK
<1>5. Holding'
  <2>1. ASSUME NEW b \in Actor \ {a}, req[b].sid # r PROVE Holds(b)'
    BY <1>0, <1>1, <1>2, <2>1, HoldsKept DEF Holding
  <2>2. ASSUME NEW b \in Actor \ {a}, req[b].sid = r PROVE Holds(b)'
    BY <1>0, <1>1, <2>2
       DEF Exclusive, Stays, Holds, Completing, Owning, Deciding, Streaming
  <2>3. Holds(a)'
    BY <1>1, <1>2 DEF Holds, Completing, Streaming, Chunks
  <2> QED  BY <2>1, <2>2, <2>3 DEF Holding, Actor
<1>6. OwnBlock'
  BY <1>0, <1>1, OwnBlockKept DEF Copying
<1>7. Received'
  BY <1>0, <1>1, <1>2 DEF Received, Same, Chunks
<1>8. Published'
  <2>1. ASSUME NEW s \in Sid \ {r}, published'[s] # NoName
        PROVE  Finished(s)'
    BY <1>0, <1>1, <1>2, <2>1 DEF Published, Finished, Finishing, Same, Chunks, Used, Stays, Completing
  <2>2. published'[r] # NoName => Finished(r)'
    BY <1>0, <1>1, <1>2 DEF Published, Finished, Chunks, Used
  <2> QED  BY <1>1, <2>1, <2>2 DEF Published
<1> QED  BY <1>3, <1>4, <1>5, <1>6, <1>7, <1>8 DEF Guarded

\* The directory of a closed session goes.
LEMMA CleanStep ==
  ASSUME Safe, NEW a \in Actor, CleanTemp(a)
  PROVE  Guarded'
<1>0. /\ Typed /\ TypeOK /\ Exclusive /\ Registered /\ Holding /\ OwnBlock /\ Received
      /\ Published
  BY DEF Safe, Guarded, Typed
<1> DEFINE r == req[a].sid
<1>1. /\ pc[a] = "clean" /\ pc'[a] \in {"done", "idle"} /\ Holds(a) /\ r \in Used /\ r \in Sid
      /\ \A b \in Actor \ {a} : Stays(b)
  BY <1>0 DEF CleanTemp, Answer, Goto, Stays, TypeOK, Typed, Ready, Roles, Actor, Used, Holding
<1>2. /\ unused' = unused /\ sessions' = sessions /\ temp \ {r} \subseteq temp'
      /\ payload' = payload /\ published' = published
      /\ \A s \in Sid : Same(s)
  BY DEF CleanTemp, RegistryVars, Same
<1>3. \A b \in Actor : Stays(b) \/ Leaves(b)
  BY <1>1 DEF Leaves, Streaming, Owning, Deciding
<1>4. Exclusive'
  BY <1>0, <1>3, ExclusiveKept
<1>5. Registered'
  <2>1. r \notin sessions
    BY <1>0, <1>1 DEF Registered, Holds
  <2> QED  BY <1>0, <1>2, <2>1 DEF Registered, Used, Same, TypeOK
<1>6. Holding'
  <2>1. ASSUME NEW b \in Actor \ {a} PROVE Holds(b)'
    BY <1>0, <1>1, <1>2, HoldsKept DEF Holding
  <2>2. Holds(a)'
    BY <1>1 DEF Holds, Completing, Streaming
  <2> QED  BY <2>1, <2>2 DEF Holding, Actor
<1>7. OwnBlock'
  BY <1>0, <1>1, OwnBlockKept DEF Copying
<1>8. Received'
  BY <1>0, <1>2, ReceivedKept
<1>9. Published'
  BY <1>0, <1>1, <1>2, PublishedKept
<1> QED  BY <1>4, <1>5, <1>6, <1>7, <1>8, <1>9 DEF Guarded

\* The sweeper takes the lock of an idle session that is still open.
LEMMA SweepStep ==
  ASSUME Safe, pc[Cleaner] = "idle", NEW r \in Sid, CanTryLock(r), Expired(r),
         Goto(Cleaner, "close"),
         req' = [req EXCEPT ![Cleaner] = [NoRequest EXCEPT !.op = "expire", !.sid = r]],
         SameRegistry, entry' = entry, payload' = payload, published' = published
  PROVE  Guarded'
<1>0. /\ Typed /\ TypeOK /\ Exclusive /\ Registered /\ Holding /\ OwnBlock /\ Received
      /\ Published
  BY DEF Safe, Guarded, Typed
<1>1. /\ pc'[Cleaner] = "close" /\ req'[Cleaner].sid = r /\ req'[Cleaner].op = "expire"
      /\ \A b \in Actor \ {Cleaner} : Stays(b)
  BY <1>0, Constant DEF Goto, Stays, TypeOK, NoRequest
<1>2. \A s \in Sid : Same(s)
  BY DEF Same
<1>3. ASSUME NEW b \in Actor, req[b].sid = r PROVE pc[b] \notin Owning \cup Streaming
  BY <1>0, <1>3, StreamsAreThreads DEF CanTryLock, Owners, Owning, Deciding
<1>4. Exclusive'
  BY <1>0, <1>1, <1>3, Constant, ExclusiveMove DEF Owning, Deciding, Streaming
<1>5. Registered'
  BY <1>0, <1>2, RegisteredKept
<1>6. Holding'
  <2>1. ASSUME NEW a \in Actor \ {Cleaner} PROVE Holds(a)'
    BY <1>0, <1>1, <1>2, HoldsKept DEF Holding
  <2>2. Holds(Cleaner)'
    BY <1>1 DEF Holds, Completing, Streaming, Expired
  <2> QED  BY <2>1, <2>2 DEF Holding, Actor
<1>7. OwnBlock'
  BY <1>0, <1>1, OwnBlockKept DEF Copying
<1>8. Received'
  BY <1>0, <1>2, ReceivedKept
<1>9. Published'
  BY <1>0, <1>1, <1>2, PublishedKept DEF SameRegistry
<1> QED  BY <1>4, <1>5, <1>6, <1>7, <1>8, <1>9 DEF Guarded

\* The process dies: every session is closed, nobody is at work.
LEMMA RestartStep ==
  ASSUME Safe, Restart
  PROVE  Guarded'
<1>0. /\ Typed /\ TypeOK /\ Exclusive /\ Registered /\ Holding /\ OwnBlock /\ Received
      /\ Published
  BY DEF Safe, Guarded, Typed
<1>1. \A b \in Actor : pc'[b] = "idle"
  BY DEF Restart
<1>2. /\ sessions' = {} /\ unused' = unused /\ payload' = payload /\ published' = published
      /\ \A s \in Sid : /\ entry'[s].total = entry[s].total
                        /\ entry'[s].received = entry[s].received
                        /\ s \in Used => entry'[s].closed
  BY <1>0 DEF Restart, TypeOK, Entry
<1>3. Exclusive' /\ OwnBlock'
  BY <1>1, Constant DEF Exclusive, OwnBlock, Owning, Deciding, Copying
<1>4. Registered'
  BY <1>0, <1>2 DEF Registered, Used, TypeOK
<1>5. Holding'
  BY <1>1 DEF Holding, Holds, Completing, Streaming
<1>6. Received'
  BY <1>0, <1>2 DEF Received, Chunks
<1>7. Published'
  BY <1>0, <1>2 DEF Published, Finished, Chunks, Used
<1> QED  BY <1>3, <1>4, <1>5, <1>6, <1>7 DEF Guarded

\* One request moves, in or to no region that matters, and nothing is changed.
Quiet(t) ==
  /\ pc'[t] \notin Streaming \cup Owning /\ pc[t] \notin {"remember", "close"}
  /\ \A b \in Actor \ {t} : Stays(b)
  /\ SameRegistry /\ payload' = payload /\ published' = published
  /\ \A s \in Sid : Same(s)

\* A quiet step keeps the invariant.
LEMMA QuietStep ==
  ASSUME Safe, NEW t \in Thread, Quiet(t)
  PROVE  Guarded'
BY Constant, CalmStep DEF Quiet, Leaves

\* To send a request and to take its answer is quiet, and so is an init that is refused.
LEMMA QuietArrive ==
  ASSUME TypeOK, NEW t \in Thread,
         \/ InitSession(t) /\ UNCHANGED <<RegistryVars, FileVars>>
         \/ StartChunk(t) \/ StartRequest(t) \/ Respond(t)
  PROVE  Quiet(t)
<1> USE Constant DEF Quiet, Stays, SameRegistry, Same, Streaming, Owning, Deciding,
        Goto, Answer, Shared, RegistryVars, FileVars, TypeOK
<1>1. CASE InitSession(t) /\ UNCHANGED <<RegistryVars, FileVars>>
  BY <1>1 DEF InitSession
<1>2. CASE StartChunk(t)
  BY <1>2 DEF StartChunk
<1>3. CASE StartRequest(t)
  BY <1>3 DEF StartRequest
<1>4. CASE Respond(t)
  BY <1>4 DEF Respond
<1> QED  BY <1>1, <1>2, <1>3, <1>4

\* A handler that only looks, waits its turn or refuses is quiet.
LEMMA QuietServe ==
  ASSUME TypeOK, NEW t \in Thread,
         \/ ChunkFind(t) \/ (ChunkLock(t) /\ pc'[t] # "wblock") \/ LookupUpload(t)
         \/ CompleteFind(t) \/ CancelFind(t)
         \/ (CancelLocked(t) \/ CompleteLocked(t)) /\ pc'[t] = "done"
         \/ CompletePublish(t) /\ published' = published /\ pc'[t] = "done"
  PROVE  Quiet(t)
<1> USE Constant DEF Quiet, Stays, SameRegistry, Same, Streaming, Owning, Deciding,
        Goto, Answer, Shared, RegistryVars, FileVars, TypeOK
<1>1. CASE ChunkFind(t)
  BY <1>1 DEF ChunkFind
<1>2. CASE ChunkLock(t) /\ pc'[t] # "wblock"
  BY <1>2 DEF ChunkLock
<1>3. CASE LookReceipt(t)
  BY <1>3 DEF LookReceipt
<1>4. CASE LookFind(t)
  BY <1>4 DEF LookFind
<1>5. CASE LookPeek(t)
  BY <1>5 DEF LookPeek
<1>6. CASE LookAgain(t)
  BY <1>6 DEF LookAgain
<1>7. CASE CompleteFind(t)
  BY <1>7 DEF CompleteFind
<1>8. CASE CancelFind(t)
  BY <1>8 DEF CancelFind
<1>9. CASE CancelLocked(t) /\ pc'[t] = "done"
  BY <1>9 DEF CancelLocked, Drained
<1>10. CASE CompleteLocked(t) /\ pc'[t] = "done"
  BY <1>10 DEF CompleteLocked, Drained
<1>11. CASE CompletePublish(t) /\ published' = published /\ pc'[t] = "done"
  <2>1. \E n : entry' = [entry EXCEPT ![req[t].sid].final = n]
    BY <1>11 DEF CompletePublish
  <2>2. \A s \in Sid : Same(s)
    BY ONLY <2>1, TypeOK DEF Same, Entry, TypeOK
  <2> QED  BY <1>11, <2>2 DEF CompletePublish
<1> QED
  BY <1>1, <1>2, <1>3, <1>4, <1>5, <1>6, <1>7, <1>8, <1>9, <1>10, <1>11 DEF LookupUpload

\* Steps that move nobody.
LEMMA AloneStep ==
  ASSUME Safe, UNCHANGED <<pc, req, unused, sessions, temp, payload, published>>,
         \A s \in Sid : Same(s)
  PROVE  Guarded'
BY CalmStep DEF Stays, SameRegistry

\* Every step keeps the invariant.
LEMMA SafeStep == Safe /\ [Next]_vars => Safe'
<1> SUFFICES ASSUME Safe, [Next]_vars PROVE Guarded'
  BY TypedStep DEF Safe
<1> USE Constant
<1>0. Typed /\ TypeOK
  BY DEF Safe, Typed
<1>1. ASSUME NEW t \in Thread, InitSession(t) PROVE Guarded'
  <2>1. CASE UNCHANGED <<RegistryVars, FileVars>>
    BY <1>0, <1>1, <2>1, QuietArrive, QuietStep
  <2>2. ASSUME NEW s \in unused, NEW b \in Base, NEW k \in 0 .. MaxChunks, NEW n \in Name,
               unused' = unused \ {s}, sessions' = sessions \cup {s}, temp' = temp \cup {s},
               entry' = [entry EXCEPT ![s] = NewEntry(k, n)], Answer(t, "started", n, {}),
               UNCHANGED <<payload, published>>
        PROVE  Guarded'
    BY <1>1, <2>2, OpenStep DEF InitSession, Answer
  <2> QED  BY <1>0, <1>1, <2>1, <2>2, NameType DEF InitSession, TypeOK
<1>2. ASSUME NEW t \in Thread, StartChunk(t) \/ StartRequest(t) \/ Respond(t) PROVE Guarded'
  BY <1>0, <1>2, QuietArrive, QuietStep
<1>3. ASSUME NEW t \in Thread, WriteChunk(t) PROVE Guarded'
  <2>1. CASE ChunkFind(t) \/ (ChunkLock(t) /\ pc'[t] # "wblock")
    BY <1>0, <2>1, QuietServe, QuietStep
  <2>2. CASE ChunkLock(t) /\ pc'[t] = "wblock"
    <3>1. /\ pc[t] = "wlock" /\ CanRLock(req[t].sid) /\ Goto(t, "wblock") /\ req' = req
          /\ ~Closed(req[t].sid) /\ req[t].chunk \in Chunks(req[t].sid) /\ Shared' = Shared
      BY <1>0, <2>2 DEF ChunkLock, Answer, Goto, TypeOK
    <3> QED  BY <3>1, AdmitStep DEF Shared, RegistryVars, FileVars, SameRegistry
  <2>3. CASE ChunkBegin(t) \/ ChunkAck(t) \/ ChunkFail(t)
    BY <2>3, BeginStep, AckStep, FailStep
  <2> QED  BY <1>3, <2>1, <2>2, <2>3 DEF WriteChunk
<1>4. ASSUME NEW t \in Thread, LookupUpload(t) \/ CompleteFind(t) \/ CancelFind(t)
      PROVE  Guarded'
  BY <1>0, <1>4, QuietServe, QuietStep
<1>5. ASSUME NEW t \in Thread, CancelLocked(t) \/ CompleteLocked(t) PROVE Guarded'
  <2>1. CASE pc'[t] = "done"
    BY <1>0, <1>5, <2>1, QuietServe, QuietStep
  <2>2. CASE pc'[t] # "done"
    <3>1. /\ Drained(t) /\ ~Closed(req[t].sid) /\ req' = req /\ Shared' = Shared
          /\ \/ Goto(t, "close") /\ req[t].op = "cancel"
             \/ Goto(t, "publish") /\ AllReceived(req[t].sid)
      BY <1>0, <1>5, <2>2 DEF CancelLocked, CompleteLocked, Answer, Goto, TypeOK
    <3> QED  BY <3>1, DecideStep
  <2> QED  BY <2>1, <2>2
<1>6. ASSUME NEW t \in Thread, CompletePublish(t) PROVE Guarded'
  <2>1. CASE published' = published /\ pc'[t] = "done"
    BY <1>0, <1>6, <2>1, QuietServe, QuietStep
  <2>2. CASE ~(published' = published /\ pc'[t] = "done")
    <3>1. \E n : /\ pc[t] = "publish" /\ Goto(t, "remember") /\ req' = req
                 /\ published' = [published EXCEPT ![req[t].sid] = n]
                 /\ entry' = [entry EXCEPT ![req[t].sid].final = n]
                 /\ SameRegistry /\ payload' = payload
      BY <1>0, <1>6, <2>2 DEF CompletePublish, Answer, Goto, TypeOK, SameRegistry
    <3> QED  BY <3>1, LinkStep
  <2> QED  BY <2>1, <2>2
<1>7. ASSUME NEW t \in Thread, LockWait(t) \/ CompleteRemember(t) PROVE Guarded'
  BY <1>7, WaitStep, RememberStep
<1>8. ASSUME NEW a \in Actor, CloseEntry(a) \/ CleanTemp(a) PROVE Guarded'
  BY <1>8, CloseStep, CleanStep
<1>9. CASE Scan
  BY <1>9, AloneStep DEF Scan, RegistryVars, FileVars, Same
<1>10. CASE Sweep
  <2>1. CASE UNCHANGED <<pc, req>>
    BY <1>10, <2>1, AloneStep DEF Sweep, RegistryVars, FileVars, Same
  <2>2. CASE ~UNCHANGED <<pc, req>>
    <3>1. PICK s \in todo :
            /\ CanTryLock(s) /\ Expired(s) /\ Goto(Cleaner, "close")
            /\ req' = [req EXCEPT ![Cleaner] = [NoRequest EXCEPT !.op = "expire", !.sid = s]]
      BY <1>10, <2>2 DEF Sweep
    <3>2. s \in Sid /\ pc[Cleaner] = "idle"
      BY <1>0, <1>10 DEF Sweep, TypeOK, Used
    <3>3. SameRegistry /\ entry' = entry /\ payload' = payload /\ published' = published
      BY <1>10 DEF Sweep, SameRegistry, RegistryVars, FileVars
    <3> QED  BY <3>1, <3>2, <3>3, SweepStep
  <2> QED  BY <2>1, <2>2
<1>11. CASE Environment
  <2>1. ASSUME NEW n \in Name, DeleteFile(n) \/ ExternalFile(n) PROVE Guarded'
    BY <2>1, AloneStep DEF DeleteFile, ExternalFile, RegistryVars, Same
  <2>2. ASSUME NEW s \in Sid, GoStale(s) PROVE Guarded'
    <3>1. \A r \in Sid : Same(r)
      BY <1>0, <2>2 DEF GoStale, Same, TypeOK, Entry
    <3> QED  BY <2>2, <3>1, AloneStep DEF GoStale, FileVars
  <2>3. CASE ReceiptLapses
    BY <2>3, AloneStep DEF ReceiptLapses, RegistryVars, FileVars, Same
  <2> QED  BY <1>11, <2>1, <2>2, <2>3, RestartStep DEF Environment
<1>12. CASE UNCHANGED vars
  BY <1>12, AloneStep DEF vars, Same
<1> QED
  BY <1>1, <1>2, <1>3, <1>4, <1>5, <1>6, <1>7, <1>8, <1>9, <1>10, <1>11, <1>12
     DEF Next, Arrive, Serve, EndSession, ExpireIdle

\* It holds before the first request.
LEMMA SafeInit == Init => Safe
<1> SUFFICES ASSUME Init PROVE Guarded
  BY TypedInit DEF Safe
<1>1. /\ \A a \in Actor : pc[a] = "idle"
      /\ sessions = {} /\ temp = {} /\ Used = {}
      /\ \A s \in Sid : /\ entry[s].received = {} /\ entry[s].total = 0
                        /\ published[s] = NoName
                        /\ \A c \in Chunk : payload[s][c] = Hole
      /\ unused \subseteq Sid
  BY DEF Init, Used, NewEntry
<1> QED
  BY <1>1, Constant DEF Guarded, Exclusive, Registered, Holding, Holds, Completing, OwnBlock,
     Received, Published, Streaming, Owning, Deciding, Copying
-----------------------------------------------------------------------------
(* What follows from it, in every behaviour.                                 *)
THEOREM AlwaysSafe == Spec => []Safe
BY SafeInit, SafeStep, PTL DEF Spec

\* It contains what is promised.
LEMMA SafeImplies == Safe => NoWriteAfterClose /\ AcknowledgedWhole /\ PublishedWhole
<1> SUFFICES ASSUME Safe PROVE NoWriteAfterClose /\ AcknowledgedWhole /\ PublishedWhole
  OBVIOUS
<1>0. Typed /\ TypeOK /\ Exclusive /\ Registered /\ Holding /\ Received /\ Published
  BY DEF Safe, Guarded, Typed
<1>1. ASSUME NEW s \in Sid, NEW t \in Streams(s)
      PROVE  /\ s \in Used /\ ~entry[s].closed /\ s \in sessions /\ s \in temp
             /\ \A a \in Owners(s) : pc[a] = "drain"
             /\ ~Finishing(s)
  <2>1. t \in Actor /\ t \in Thread /\ pc[t] \in Streaming /\ req[t].sid = s
    BY Constant DEF Streams, Streaming
  <2>2. s \in Used /\ ~entry[s].closed
    BY <1>0, <2>1 DEF Holding, Holds, Typed, Ready, Streaming
  <2>3. \A a \in Actor : req[a].sid = s => pc[a] \notin Deciding
    BY <1>0, <2>1 DEF Exclusive, Deciding, Streaming
  <2> QED  BY <1>0, <2>2, <2>3 DEF Registered, Owners, Deciding, Finishing
<1>2. NoWriteAfterClose
  BY <1>1 DEF NoWriteAfterClose
<1>3. AcknowledgedWhole
  BY <1>0 DEF AcknowledgedWhole, Received
<1>4. PublishedWhole
  BY <1>0, <1>1 DEF PublishedWhole, Published, Finished
<1> QED  BY <1>2, <1>3, <1>4

\* No body flows into a payload that is being published, closed or removed.
THEOREM NeverWrittenAfterClose == Spec => []NoWriteAfterClose
BY AlwaysSafe, SafeImplies, PTL

\* A chunk the server acknowledged holds one whole body.
THEOREM AlwaysAcknowledgedWhole == Spec => []AcknowledgedWhole
BY AlwaysSafe, SafeImplies, PTL

\* A published file is complete, and nobody writes to it any more.
THEOREM AlwaysPublishedWhole == Spec => []PublishedWhole
BY AlwaysSafe, SafeImplies, PTL
-----------------------------------------------------------------------------
(* The refinement: every step opens, fills, saves or drops one upload,     *)
(* drops all that are open, or changes nothing a client could tell.        *)

(* What a step can do to the part of the state a client can tell. *)
Silent == /\ unused' = unused /\ payload' = payload /\ published' = published
          /\ \A s \in Sid : Same(s)
Opens(r, k, n) == /\ unused' = unused \ {r} /\ UNCHANGED <<payload, published>>
                  /\ entry' = [entry EXCEPT ![r] = NewEntry(k, n)]
Writes(t) == ChunkBegin(t) \/ ChunkAck(t) \/ ChunkFail(t)
Links(t, n) == /\ pc[t] = "publish" /\ unused' = unused /\ payload' = payload
               /\ published' = [published EXCEPT ![req[t].sid] = n]
               /\ entry' = [entry EXCEPT ![req[t].sid].final = n]

\* Every step is silent, opens, writes, links or closes one upload, or restarts the service.
LEMMA Effects ==
  ASSUME Typed, [Next]_vars
  PROVE  \/ Silent \/ Restart
         \/ \E r \in unused, k \in 0 .. MaxChunks, n \in Name : Opens(r, k, n)
         \/ \E t \in Thread : Writes(t)
         \/ \E t \in Thread, n \in Name : Links(t, n)
         \/ \E a \in Actor : CloseEntry(a)
<1> USE Constant
<1>0. TypeOK
  BY DEF Typed
<1>1. ASSUME UNCHANGED <<unused, entry, payload, published>> PROVE Silent
  BY <1>1 DEF Silent, Same
<1>2. ASSUME NEW t \in Thread, Quiet(t) PROVE Silent
  BY <1>2 DEF Silent, Quiet, SameRegistry
<1>3. ASSUME NEW t \in Thread, InitSession(t)
      PROVE  Silent \/ \E r \in unused, k \in 0 .. MaxChunks, n \in Name : Opens(r, k, n)
  <2>1. CASE UNCHANGED <<RegistryVars, FileVars>>
    BY <1>1, <2>1 DEF RegistryVars, FileVars
  <2>2. CASE ~UNCHANGED <<RegistryVars, FileVars>>
    <3>1. \A s \in unused, b \in Base : Plain(b) \in Name /\ conflictName(Plain(b), s, 1) \in Name
      BY <1>0, NameType DEF TypeOK
    <3> QED  BY <1>3, <2>2, <3>1 DEF InitSession, Opens
  <2> QED  BY <2>1, <2>2
<1>4. ASSUME NEW t \in Thread, StartChunk(t) \/ StartRequest(t) \/ Respond(t) PROVE Silent
  BY <1>0, <1>2, <1>4, QuietArrive
<1>5. ASSUME NEW t \in Thread,
             \/ ChunkFind(t) \/ ChunkLock(t) \/ LookupUpload(t) \/ CompleteFind(t)
             \/ CancelFind(t) \/ LockWait(t) \/ CancelLocked(t) \/ CompleteLocked(t)
      PROVE  Silent
  BY <1>1, <1>5
     DEF ChunkFind, ChunkLock, LookupUpload, LookReceipt, LookFind, LookPeek, LookAgain,
         CompleteFind, CancelFind, LockWait, CancelLocked, CompleteLocked,
         Shared, RegistryVars, FileVars
<1>6. ASSUME NEW t \in Thread, CompletePublish(t)
      PROVE  Silent \/ \E n \in Name : Links(t, n)
  <2>1. CASE published' = published /\ pc'[t] = "done"
    BY <1>0, <1>2, <1>6, <2>1, QuietServe
  <2>2. CASE ~(published' = published /\ pc'[t] = "done")
    <3> DEFINE old == entry[req[t].sid].final
               new == IF Free(old) THEN old ELSE conflictName(old, req[t].sid, 2)
    <3>1. new \in Name
      BY <1>0, <1>6, NameType DEF CompletePublish, Typed, Ready, Named, Used
    <3>2. Links(t, new)
      BY <1>0, <1>6, <2>2 DEF CompletePublish, Links, Answer, Goto, TypeOK
    <3> QED  BY <3>1, <3>2
  <2> QED  BY <2>1, <2>2
<1>7. ASSUME NEW t \in Thread, CompleteRemember(t) PROVE Silent
  <2>1. \E n : entry' = [entry EXCEPT ![req[t].sid].result = n]
    BY <1>7 DEF CompleteRemember
  <2>2. \A s \in Sid : Same(s)
    BY ONLY <1>0, <2>1 DEF Same, Entry, TypeOK
  <2> QED  BY <1>7, <2>2 DEF CompleteRemember, FileVars, Silent
<1>8. ASSUME NEW a \in Actor, CleanTemp(a) PROVE Silent
  BY <1>1, <1>8 DEF CleanTemp, RegistryVars
<1>9. ASSUME Scan \/ Sweep \/ ReceiptLapses \/ UNCHANGED vars PROVE Silent
  BY <1>1, <1>9 DEF Scan, Sweep, ReceiptLapses, vars, RegistryVars, FileVars
<1>10. ASSUME NEW n \in Name, DeleteFile(n) \/ ExternalFile(n) PROVE Silent
  BY <1>1, <1>10 DEF DeleteFile, ExternalFile, RegistryVars
<1>11. ASSUME NEW s \in Sid, GoStale(s) PROVE Silent
  <2>1. \A r \in Sid : Same(r)
    BY <1>0, <1>11 DEF GoStale, Same, TypeOK, Entry
  <2> QED  BY <1>11, <2>1 DEF GoStale, FileVars, Silent
<1>12. CASE \E t \in Thread : Arrive(t) \/ Serve(t)
  BY <1>3, <1>4, <1>5, <1>6, <1>7, <1>8, <1>12
     DEF Arrive, Serve, WriteChunk, EndSession, Writes
<1>13. CASE ExpireIdle
  BY <1>8, <1>9, <1>13 DEF ExpireIdle
<1>14. CASE Environment
  BY <1>9, <1>10, <1>11, <1>14 DEF Environment
<1> QED  BY <1>9, <1>12, <1>13, <1>14 DEF Next

\* A session being published or written to was never published before.
LEMMA Unpublished ==
  ASSUME Safe, NEW t \in Thread, pc[t] \in {"publish"} \cup Streaming
  PROVE  /\ req[t].sid \in Used /\ req[t].sid \in Sid
         /\ ~entry[req[t].sid].closed /\ published[req[t].sid] = NoName
<1>0. Typed /\ Exclusive /\ Holding /\ Published
  BY DEF Safe, Guarded
<1>1. req[t].sid \in Used /\ req[t].sid \in Sid /\ ~entry[req[t].sid].closed
  BY <1>0, Constant DEF Typed, Ready, Used, Holding, Holds, Streaming
<1>2. ~Finishing(req[t].sid)
  BY <1>0, Constant DEF Exclusive, Finishing, Owning, Deciding, Streaming
<1> QED  BY <1>0, <1>1, <1>2 DEF Published, Finished

\* A body only ever flows over a chunk that is not acknowledged.
LEMMA Overwrites ==
  ASSUME Safe, NEW t \in Thread, Writes(t)
  PROVE  /\ pc[t] \in Streaming /\ req[t].chunk \in Chunks(req[t].sid)
         /\ \A s \in Sid, c \in Chunk : payload'[s][c] # payload[s][c] =>
              s = req[t].sid /\ c = req[t].chunk /\ c \notin entry[s].received
<1>0. Typed /\ TypeOK /\ Holding
  BY DEF Safe, Guarded, Typed
<1>1. pc[t] \in Streaming /\ Holds(t) /\ req[t].sid \in Sid /\ req[t].chunk \in Chunk
  BY <1>0, Constant DEF Writes, ChunkBegin, ChunkAck, ChunkFail, Streaming, Holding, Typed,
     Ready, Roles, Used
<1> QED
  BY <1>0, <1>1 DEF Writes, ChunkBegin, ChunkAck, ChunkFail, Holds, TypeOK, Streaming

Keeps == \A s \in Sid :
  /\ \A c \in entry[s].received \cap entry'[s].received : payload'[s][c] = payload[s][c]
  /\ published'[s] # published[s] => published[s] = NoName /\ ~entry[s].closed

\* No step overwrites a chunk that was received, or links an upload again or after its close.
LEMMA StepKeeps ==
  ASSUME Safe, [Next]_vars
  PROVE  Keeps
<1>0. Typed /\ TypeOK
  BY DEF Safe, Typed
<1>1. CASE UNCHANGED <<payload, published>>
  BY <1>1 DEF Keeps
<1>2. ASSUME NEW t \in Thread, Writes(t) PROVE Keeps
  <2>1. \A s \in Sid : entry[s].received \subseteq Chunk
    BY <1>0, EntryFields
  <2>2. published' = published
    BY <1>2 DEF Writes, ChunkBegin, ChunkAck, ChunkFail
  <2> QED  BY <1>2, <2>1, <2>2, Overwrites DEF Keeps
<1>3. ASSUME NEW t \in Thread, NEW n \in Name, Links(t, n) PROVE Keeps
  <2>1. /\ req[t].sid \in Sid
        /\ ~entry[req[t].sid].closed /\ published[req[t].sid] = NoName
    BY <1>3, Unpublished DEF Links
  <2> QED  BY <1>0, <1>3, <2>1 DEF Keeps, Links, TypeOK
<1> QED
  BY <1>0, <1>1, <1>2, <1>3, Effects DEF Silent, Opens, CloseEntry, FileVars, Restart

\* What was acknowledged is never overwritten.
THEOREM AckKept == Spec => AckStable
<1>1. Safe /\ [Next]_vars => [\A s \in Sid : \A c \in entry[s].received \cap entry'[s].received :
        payload'[s][c] = payload[s][c]]_vars
  BY StepKeeps DEF Keeps
<1> QED  BY <1>1, AlwaysSafe, PTL DEF Spec, AckStable

\* A session becomes a file at most once, and never after it was closed.
THEOREM PublishedOnce == Spec => PublishOnce
<1>1. Safe /\ [Next]_vars => [\A s \in Sid : published'[s] # published[s] =>
        published[s] = NoName /\ ~entry[s].closed]_vars
  BY StepKeeps DEF Keeps
<1> QED  BY <1>1, AlwaysSafe, PTL DEF Spec, PublishOnce
-----------------------------------------------------------------------------
(* Refinement *)
LEMMA PromiseInit == Init => Promise!Init
BY DEF Init, Promise!Init, phaseBar, lengthBar, gotBar, NewEntry, Chunk, Promise!Chunk

\* What a step does to the mapped state, from what it does to the parts of it.
LEMMA BarsSame ==
  ASSUME unused' = unused, published' = published,
         \A s \in Sid : /\ Same(s)
                        /\ \A c \in Chunk : payload'[s][c] # payload[s][c] =>
                             published[s] = NoName /\ c \notin entry[s].received
  PROVE  UNCHANGED Promise!vars
<1>1. phaseBar' = phaseBar
  BY DEF phaseBar, Same
<1>2. lengthBar' = lengthBar
  BY DEF lengthBar, Same
<1>3. gotBar' = gotBar
  BY DEF gotBar, Same
<1> QED  BY <1>1, <1>2, <1>3 DEF Promise!vars

\* An init opens one upload of the promise.
LEMMA PromiseOpen ==
  ASSUME Safe, NEW r \in unused, NEW k \in 0 .. MaxChunks, NEW n \in Name, Opens(r, k, n)
  PROVE  Promise!Open(r)
<1>0. TypeOK /\ Registered /\ Received /\ Published
  BY DEF Safe, Guarded, Typed
<1>1. /\ r \in Sid /\ published[r] = NoName
      /\ entry'[r].total = k /\ entry'[r].received = {} /\ ~entry'[r].closed
      /\ \A s \in Sid \ {r} : entry'[s] = entry[s]
      /\ unused' = unused \ {r} /\ payload' = payload /\ published' = published
  BY <1>0 DEF Opens, TypeOK, NewEntry, Published, Finished, Used
<1>2. entry[r].received = {}
  BY <1>0, <1>1 DEF Registered, Received, Chunks
<1>3. phaseBar[r] = "unused" /\ phaseBar' = [phaseBar EXCEPT ![r] = "open"]
  BY <1>1 DEF phaseBar
<1>4. lengthBar' = [lengthBar EXCEPT ![r] = k]
  BY <1>1 DEF lengthBar
<1>5. gotBar' = gotBar
  BY <1>1, <1>2 DEF gotBar
<1> QED  BY <1>3, <1>4, <1>5 DEF Promise!Open

\* A chunk is accepted at its last byte, and before that nothing is told.
LEMMA PromiseWrite ==
  ASSUME Safe, NEW t \in Thread, Writes(t)
  PROVE  UNCHANGED Promise!vars \/ \E s \in Sid : Promise!Accept(s)
<1> DEFINE r == req[t].sid
           c == req[t].chunk
<1>0. Typed /\ TypeOK /\ Holding /\ Received
  BY DEF Safe, Guarded, Typed
<1>1. /\ r \in Used /\ r \in Sid /\ ~entry[r].closed /\ published[r] = NoName
      /\ pc[t] \in Streaming /\ c \in Chunks(r) /\ c \in Chunk
  BY <1>0, Unpublished, Overwrites, EntryFields
<1>2. unused' = unused /\ published' = published
  BY DEF Writes, ChunkBegin, ChunkAck, ChunkFail, RegistryVars
<1>3. CASE ChunkBegin(t) \/ ChunkFail(t)
  <2>1. \A s \in Sid : Same(s)
    <3>1. CASE ChunkBegin(t)
      BY <1>0, <1>1, <3>1 DEF ChunkBegin, Same, TypeOK, Entry
    <3>2. CASE ChunkFail(t)
      BY <3>2 DEF ChunkFail, Same, RegistryVars
    <3> QED  BY <1>3, <3>1, <3>2
  <2> QED  BY <1>1, <1>2, <2>1, Overwrites, BarsSame
<1>4. CASE ChunkAck(t)
  <2>1. /\ \A s \in Sid \ {r} : Same(s)
        /\ entry'[r].total = entry[r].total /\ entry'[r].closed = entry[r].closed
        /\ entry'[r].received = entry[r].received \cup {c}
    BY SMTT(30), <1>0, <1>1, <1>4 DEF ChunkAck, Same, TypeOK, Entry
  <2>2. CASE pc[t] = "discard"
    <3>1. c \in entry[r].received
      BY <1>0, <2>2, Constant DEF Holding, Holds
    <3>2. \A s \in Sid : Same(s)
      BY <2>1, <3>1 DEF Same
    <3> QED  BY <1>1, <1>2, <3>2, Overwrites, BarsSame
  <2>3. CASE pc[t] = "copy"
    <3>1. c \notin entry[r].received /\ req[t].body \in Data
      BY <1>0, <2>3, Constant DEF Holding, Holds, Typed, Roles
    <3>2. payload' = [payload EXCEPT ![r][c] = req[t].body]
      BY <1>4, <2>3 DEF ChunkAck
    <3>3. phaseBar[r] = "open" /\ phaseBar' = phaseBar
      BY <1>1, <1>2, <2>1 DEF phaseBar, Used, Same
    <3>4. lengthBar' = lengthBar /\ c \in 0 .. lengthBar[r] - 1
      BY <1>1, <2>1 DEF lengthBar, Same, Chunks
    <3>5. gotBar[r][c] = Hole
      BY <1>1, <3>1 DEF gotBar
    <3>6. gotBar' = [gotBar EXCEPT ![r][c] = req[t].body]
      <4>1. \A s \in Sid \ {r} : gotBar'[s] = gotBar[s]
        BY <1>0, <1>1, <1>2, <2>1, <3>2 DEF gotBar, Same, TypeOK
      <4>2. \A d \in Chunk : gotBar'[r][d] = IF d = c THEN req[t].body ELSE gotBar[r][d]
        BY <1>0, <1>1, <1>2, <2>1, <3>2 DEF gotBar, TypeOK
      <4>3. gotBar'[r] = [gotBar[r] EXCEPT ![c] = req[t].body]
        <5>1. gotBar[r] = [d \in Chunk |-> gotBar[r][d]]
          BY <1>1 DEF gotBar
        <5>2. gotBar'[r] = [d \in Chunk |-> gotBar'[r][d]]
          BY <1>1 DEF gotBar
        <5> QED  BY ONLY <4>2, <5>1, <5>2
      <4>4. gotBar = [s \in Sid |-> gotBar[s]] /\ gotBar' = [s \in Sid |-> gotBar'[s]]
        BY DEF gotBar
      <4> QED  BY ONLY <4>1, <4>3, <4>4
    <3> QED  BY <1>1, <3>1, <3>3, <3>4, <3>5, <3>6 DEF Promise!Accept
  <2> QED  BY <1>4, <2>2, <2>3 DEF ChunkAck
<1> QED  BY <1>3, <1>4 DEF Writes

\* The link saves the upload.
LEMMA PromiseSave ==
  ASSUME Safe, NEW t \in Thread, NEW n \in Name, Links(t, n)
  PROVE  Promise!Save(req[t].sid)
<1> DEFINE r == req[t].sid
<1>0. TypeOK /\ Holding /\ Received
  BY DEF Safe, Guarded, Typed
<1>1. r \in Used /\ r \in Sid /\ ~entry[r].closed /\ published[r] = NoName
  BY Unpublished DEF Links
<1>2. entry[r].received = Chunks(r)
  BY <1>0, Constant DEF Links, Holding, Holds, Completing
<1>3. /\ \A s \in Sid : Same(s) /\ (s # r => published'[s] = published[s])
      /\ published'[r] = n /\ n # NoName
      /\ unused' = unused /\ payload' = payload
  BY <1>0, <1>1, NoNameAssumption DEF Links, Same, TypeOK, Entry
<1>4. phaseBar[r] = "open" /\ phaseBar' = [phaseBar EXCEPT ![r] = "saved"]
  BY <1>1, <1>3 DEF phaseBar, Used, Same
<1>5. lengthBar' = lengthBar
  BY <1>3 DEF lengthBar, Same
<1>6. \A c \in 0 .. lengthBar[r] - 1 : gotBar[r][c] # Hole
  BY <1>0, <1>1, <1>2, EntryFields, MarksAssumption DEF lengthBar, gotBar, Chunks, Received
<1>7. gotBar' = gotBar
  BY <1>0, <1>1, <1>2, <1>3 DEF gotBar, Same, Received
<1> QED  BY <1>4, <1>5, <1>6, <1>7 DEF Promise!Save

\* A close drops the upload, unless it was saved before.
LEMMA PromiseDrop ==
  ASSUME Safe, NEW a \in Actor, CloseEntry(a)
  PROVE  UNCHANGED Promise!vars \/ \E s \in Sid : Promise!Drop(s)
<1> DEFINE r == req[a].sid
<1>0. TypeOK /\ Typed /\ Holding
  BY DEF Safe, Guarded, Typed
<1>1. r \in Used /\ r \in Sid /\ ~entry[r].closed
  BY <1>0 DEF CloseEntry, Typed, Ready, Used, Holding, Holds
<1>2. /\ \A s \in Sid \ {r} : Same(s)
      /\ entry'[r].closed
      /\ entry'[r].total = entry[r].total /\ entry'[r].received = entry[r].received
      /\ unused' = unused /\ payload' = payload /\ published' = published
  BY ZenonT(40), <1>0, <1>1 DEF CloseEntry, FileVars, Same, TypeOK, Entry
<1>3. lengthBar' = lengthBar /\ gotBar' = gotBar
  BY <1>2 DEF lengthBar, gotBar, Same
<1>4. CASE published[r] = NoName
  <2>1. phaseBar[r] = "open" /\ phaseBar' = [phaseBar EXCEPT ![r] = "gone"]
    BY <1>1, <1>2, <1>4 DEF phaseBar, Used, Same
  <2> QED  BY <1>1, <1>3, <2>1 DEF Promise!Drop
<1>5. CASE published[r] # NoName
  <2>1. phaseBar' = phaseBar
    BY <1>1, <1>2, <1>5 DEF phaseBar, Used, Same
  <2> QED  BY <1>3, <2>1 DEF Promise!vars
<1> QED  BY <1>4, <1>5

\* A restart of the service drops what is open.
LEMMA PromiseRestart ==
  ASSUME Safe, Restart
  PROVE  Promise!Restart
<1>0. TypeOK /\ Registered
  BY DEF Safe, Guarded, Typed
<1>1. /\ unused' = unused /\ payload' = payload /\ published' = published
      /\ \A s \in Sid : /\ entry'[s].total = entry[s].total
                        /\ entry'[s].received = entry[s].received
                        /\ s \in Used => entry'[s].closed
  BY <1>0 DEF Restart, TypeOK, Entry
<1>2. phaseBar' = [s \in Sid |-> IF phaseBar[s] = "open" THEN "gone" ELSE phaseBar[s]]
  BY <1>1 DEF phaseBar, Used
<1>3. lengthBar' = lengthBar /\ gotBar' = gotBar
  BY <1>1 DEF lengthBar, gotBar
<1> QED  BY <1>2, <1>3 DEF Promise!Restart

\* Every step of the service is one of the promise, or a stutter.
LEMMA PromiseStep == Safe /\ [Next]_vars => [Promise!Next]_(Promise!vars)
<1> SUFFICES ASSUME Safe, [Next]_vars PROVE [Promise!Next]_(Promise!vars)
  OBVIOUS
<1>0. Typed /\ TypeOK
  BY DEF Safe, Typed
<1>1. CASE Silent
  BY <1>1, BarsSame DEF Silent
<1>2. ASSUME NEW r \in unused, NEW k \in 0 .. MaxChunks, NEW n \in Name, Opens(r, k, n)
      PROVE  \E s \in Sid : Promise!Open(s)
  BY <1>0, <1>2, PromiseOpen DEF TypeOK
<1>3. ASSUME NEW t \in Thread, NEW n \in Name, Links(t, n)
      PROVE  \E s \in Sid : Promise!Save(s)
  BY <1>3, PromiseSave, Unpublished DEF Links
<1> QED
  BY <1>0, <1>1, <1>2, <1>3, Effects, PromiseWrite, PromiseDrop, PromiseRestart DEF Promise!Next

\* Every behaviour of the service is one its promise allows.
THEOREM Refines == Spec => PromiseKept
BY PromiseInit, PromiseStep, AlwaysSafe, PTL DEF Spec, PromiseKept, Promise!Spec
-----------------------------------------------------------------------------
(* What clients are told.  A handler asks at one step and answers at a later  *)
(* one; between them another request may publish, cancel or forget the        *)
(* upload.  Answering says what is reserved, what is remembered, and what     *)
(* each request knows on its way.                                             *)

\* The names that are reserved are those of the active sessions, and a suffix
\* names the session it was drawn for.
Suffixed == \A s \in sessions : entry[s].final.by \in {NoSid, s}
Reserved == NamesExact /\ Suffixed

\* What is remembered of a publication: the entry's result and the receipts tell
\* the name that was linked, until the receipt is forgotten.
Remembering(s) == \E t \in Thread : pc[t] = "remember" /\ req[t].sid = s
Recorded == \A s \in Sid :
  /\ published[s] # NoName => entry[s].final = published[s]
  /\ entry[s].result # NoName => entry[s].result = published[s]
  /\ Receipt(s) => entry[s].result # NoName
  /\ published[s] # NoName =>
       s \in forgotten \/ Remembering(s) \/ (Receipt(s) /\ entry[s].result # NoName)

\* Replies that say something of the session asked about, and what they say.
Telling(t) ==
  \/ reply[t].kind \in {"saved", "cancelled", "uploading", "missing"}
  \/ reply[t].kind = "gone" /\ req[t].op \in {"status", "complete"}
Said(t) == LET s == req[t].sid IN
  /\ s \in Used
  /\ reply[t].kind = "saved" => reply[t].name = published[s] /\ reply[t].name # NoName
  /\ reply[t].kind = "cancelled" => entry[s].closed /\ published[s] = NoName
  /\ reply[t].kind = "gone" => entry[s].closed /\ (s \in forgotten \/ published[s] = NoName)
  /\ reply[t].kind = "uploading" => reply[t].chunks \subseteq entry[s].received
  /\ reply[t].kind = "missing" => /\ reply[t].chunks # {}
                                  /\ Chunks(s) \ entry[s].received \subseteq reply[t].chunks

\* What a request has found out on its way to an answer.
Found(t) == LET s == req[t].sid IN
  /\ pc[t] \in {"wfind", "wlock", "wblock", "copy", "discard"} => req[t].op = "chunk"
  /\ pc[t] = "again" => entry[s].closed
  /\ pc[t] \in {"cfind", "wait", "drain"} /\ req[t].op = "complete" =>
       req[t].seen \subseteq entry[s].received
  /\ pc[t] = "clean" /\ req[t].op = "cancel" => published[s] = NoName
  /\ pc[t] \in {"remember", "close", "clean"} /\ req[t].op = "complete" => published[s] # NoName

Truth(t) == /\ pc[t] # "done" => reply[t].kind = "none"
            /\ Telling(t) => Said(t)
            /\ Found(t)
Truthful == \A t \in Thread : Truth(t)

Answering == Safe /\ Reserved /\ Recorded /\ Truthful

\* A step that leaves what is reserved and remembered alone.
Still ==
  /\ names' = names /\ sessions' = sessions /\ unused' = unused
  /\ receipts' = receipts /\ forgotten' = forgotten /\ published' = published
  /\ \A s \in Sid : entry'[s].final = entry[s].final /\ entry'[s].result = entry[s].result
  /\ \A t \in Thread : pc[t] = "remember" => Stays(t)

\* Apart from five actions, a step leaves what is reserved and remembered alone.
LEMMA Changes ==
  ASSUME Typed, [Next]_vars
  PROVE  \/ Still \/ ReceiptLapses \/ Restart
         \/ \E t \in Thread : InitSession(t) \/ CompletePublish(t) \/ CompleteRemember(t)
         \/ \E a \in Actor : CloseEntry(a)
<1> USE Constant DEF Shared, RegistryVars, ReceiptVars, FileVars, Stays
<1>0. TypeOK
  BY DEF Typed
<1>1. ASSUME NEW a \in Actor, pc[a] # "remember", NEW p, Goto(a, p),
             req' = req \/ \E r : req' = [req EXCEPT ![a] = r]
      PROVE  \A t \in Thread : pc[t] = "remember" => Stays(t)
  BY <1>0, <1>1 DEF Goto, TypeOK
<1>2. ASSUME NEW s \in Sid, NEW b, entry' = [entry EXCEPT ![s].stale = b]
      PROVE  \A r \in Sid : entry'[r].final = entry[r].final /\ entry'[r].result = entry[r].result
  BY <1>0, <1>2 DEF TypeOK, Entry
<1>3. ASSUME NEW t \in Thread, StartChunk(t) \/ StartRequest(t) \/ Respond(t) PROVE Still
  <2>1. \A u \in Thread : pc[u] = "remember" => Stays(u)
    BY <1>0, <1>3 DEF StartChunk, StartRequest, Respond, Goto, Answer, TypeOK
  <2> QED  BY <1>3, <2>1 DEF StartChunk, StartRequest, Respond, Still
<1>4. ASSUME NEW t \in Thread, WriteChunk(t) PROVE Still
  <2>1. pc[t] # "remember" /\ req' = req /\ \E p : Goto(t, p)
    BY <1>4 DEF WriteChunk, ChunkFind, ChunkLock, ChunkBegin, ChunkAck, ChunkFail, Answer
  <2>2. \A u \in Thread : pc[u] = "remember" => Stays(u)
    BY <1>1, <2>1
  <2>3. CASE ChunkFind(t) \/ ChunkLock(t) \/ ChunkFail(t)
    BY <2>2, <2>3 DEF ChunkFind, ChunkLock, ChunkFail, Still
  <2>4. CASE ChunkBegin(t) \/ ChunkAck(t)
    <3>1. req[t].sid \in Sid
      BY <1>0, <2>4, Constant DEF Typed, Ready, Used, ChunkBegin, ChunkAck
    <3>2. CASE ChunkBegin(t)
      <4>1. \A r \in Sid : entry'[r].final = entry[r].final /\ entry'[r].result = entry[r].result
        BY <1>2, <3>1, <3>2 DEF ChunkBegin
      <4> QED  BY <2>2, <3>2, <4>1 DEF ChunkBegin, Still
    <3>3. CASE ChunkAck(t)
      <4>1. \A r \in Sid : entry'[r].final = entry[r].final /\ entry'[r].result = entry[r].result
        BY <1>0, <3>1, <3>3 DEF ChunkAck, TypeOK, Entry
      <4> QED  BY <2>2, <3>3, <4>1 DEF ChunkAck, Still
    <3> QED  BY <2>4, <3>2, <3>3
  <2> QED  BY <1>4, <2>3, <2>4 DEF WriteChunk
<1>5. ASSUME NEW t \in Thread,
             \/ LookupUpload(t) \/ CompleteFind(t) \/ CancelFind(t) \/ LockWait(t)
             \/ CancelLocked(t) \/ CompleteLocked(t)
      PROVE  Still
  <2>1. /\ pc[t] # "remember" /\ \E p : Goto(t, p)
        /\ req' = req \/ \E r : req' = [req EXCEPT ![t] = r]
    <3>1. CASE LookPeek(t)
      BY <3>1 DEF LookPeek, Answer
    <3>2. CASE ~LookPeek(t)
      BY <1>5, <3>2 DEF LookupUpload, LookReceipt, LookFind, LookAgain, CompleteFind, CancelFind,
        LockWait, CancelLocked, CompleteLocked, Drained, Answer
    <3> QED  BY <3>1, <3>2
  <2>2. \A u \in Thread : pc[u] = "remember" => Stays(u)
    BY <1>1, <2>1
  <2> QED
    BY <1>5, <2>2 DEF LookupUpload, LookReceipt, LookFind, LookPeek, LookAgain, CompleteFind,
      CancelFind, LockWait, CancelLocked, CompleteLocked, Still
<1>6. ASSUME NEW a \in Actor, CleanTemp(a) PROVE Still
  <2>1. /\ pc[a] # "remember" /\ \E p : Goto(a, p)
        /\ req' = req \/ \E r : req' = [req EXCEPT ![a] = r]
    BY <1>0, <1>6 DEF CleanTemp, Answer, Typed, Roles, Actor
  <2>2. \A u \in Thread : pc[u] = "remember" => Stays(u)
    BY <1>1, <2>1
  <2> QED  BY <1>6, <2>2 DEF CleanTemp, Still
<1>7. CASE Scan \/ Sweep
  <2>1. \A u \in Thread : pc[u] = "remember" => Stays(u)
    BY <1>0, <1>7, IdsAssumption DEF Scan, Sweep, Goto, TypeOK
  <2> QED  BY <1>7, <2>1 DEF Scan, Sweep, Still
<1>8. ASSUME NEW n \in Name, DeleteFile(n) \/ ExternalFile(n) PROVE Still
  BY <1>8 DEF DeleteFile, ExternalFile, Still
<1>9. ASSUME NEW s \in Sid, GoStale(s) PROVE Still
  <2>1. \A r \in Sid : entry'[r].final = entry[r].final /\ entry'[r].result = entry[r].result
    BY <1>2, <1>9 DEF GoStale
  <2> QED  BY <1>9, <2>1 DEF GoStale, Still
<1>10. CASE UNCHANGED vars
  BY <1>10 DEF vars, Still
<1> QED
  BY <1>3, <1>4, <1>5, <1>6, <1>7, <1>8, <1>9, <1>10
     DEF Next, Arrive, Serve, EndSession, ExpireIdle, Environment

\* What the suffix of a name tells survives the folding of its key.
LEMMA Suffixes ==
  /\ \A b \in Base : Plain(b).by = NoSid
  /\ \A n \in Name, s \in Sid : conflictName(n, s, 1).by = s /\ conflictName(n, s, 2).by = s
  /\ \A n \in Name : nameKey(n).by = n.by
<1>1. \A n \in Name : nameKey(n).by = n.by
  BY DEF Name, Plain, nameKey
<1> QED  BY <1>1 DEF Plain, conflictName

\* A new session takes a name whose key nobody holds.
Reserves(r, n) ==
  /\ r \in unused /\ n \in Name /\ n.by \in {NoSid, r} /\ nameKey(n) \notin names
  /\ unused' = unused \ {r} /\ sessions' = sessions \cup {r} /\ names' = names \cup {nameKey(n)}
  /\ \A s \in Sid \ {r} : entry'[s] = entry[s]
  /\ entry'[r].final = n /\ entry'[r].result = NoName
  /\ UNCHANGED <<receipts, forgotten, published>>
  /\ \A t \in Thread : pc[t] = "remember" => Stays(t)

\* What InitSession does to the registry, the name it draws included.
LEMMA Opening ==
  ASSUME Safe, Reserved, NEW t \in Thread, InitSession(t)
  PROVE  Still \/ \E r, n : Reserves(r, n)
<1>0. Typed /\ TypeOK
  BY DEF Safe, Typed
<1>1. \A u \in Thread : pc[u] = "remember" => Stays(u)
  BY <1>0, Constant DEF InitSession, Answer, Goto, TypeOK, Stays
<1>2. CASE UNCHANGED <<RegistryVars, FileVars>>
  BY <1>1, <1>2 DEF InitSession, RegistryVars, ReceiptVars, FileVars, Still
<1>3. CASE ~UNCHANGED <<RegistryVars, FileVars>>
  <2> DEFINE free(b) == nameKey(Plain(b)) \notin names /\ disk[Plain(b)] = Absent
             name(b, s) == IF free(b) THEN Plain(b) ELSE conflictName(Plain(b), s, 1)
  <2>1. PICK s \in unused, b \in Base, k \in 0 .. MaxChunks :
          /\ unused' = unused \ {s} /\ sessions' = sessions \cup {s}
          /\ names' = names \cup {nameKey(name(b, s))}
          /\ entry' = [entry EXCEPT ![s] = NewEntry(k, name(b, s))]
    BY <1>3 DEF InitSession
  <2>2. UNCHANGED <<receipts, forgotten, published>>
    BY <1>3 DEF InitSession, ReceiptVars, RegistryVars, FileVars
  <2>3. PICK n : n = name(b, s)
    OBVIOUS
  <2>4. s \in Sid /\ s \notin sessions
    BY <1>0 DEF TypeOK, Used
  <2>5. n \in Name /\ (free(b) => n = Plain(b)) /\ (~free(b) => n = conflictName(Plain(b), s, 1))
    BY <2>3, <2>4, NameType
  <2>6. n.by \in {NoSid, s} /\ (~free(b) => n.by = s)
    BY <2>4, <2>5, NameType, Suffixes
  <2>7. nameKey(n) \notin names
    <3>1. CASE free(b)
      BY <2>5, <3>1
    <3>2. CASE ~free(b)
      <4>1. nameKey(n).by = s
        BY <2>5, <2>6, <3>2, Suffixes
      <4>2. ASSUME NEW r \in sessions PROVE nameKey(entry[r].final) # nameKey(n)
        <5>1. r \in Sid /\ entry[r].final \in Name /\ entry[r].final.by \in {NoSid, r}
          BY <1>0 DEF TypeOK, Used, Typed, Named, Reserved, Suffixed
        <5> QED  BY <2>4, <4>1, <5>1, Suffixes, Constant
      <4> QED  BY <4>2 DEF Reserved, NamesExact
    <3> QED  BY <3>1, <3>2
  <2>8. /\ \A r \in Sid \ {s} : entry'[r] = entry[r]
        /\ entry'[s].final = n /\ entry'[s].result = NoName
    BY <1>0, <2>1, <2>3, <2>4 DEF TypeOK, NewEntry
  <2>9. /\ unused' = unused \ {s} /\ sessions' = sessions \cup {s} /\ names' = names \cup {nameKey(n)}
    BY <2>1, <2>3
  <2> QED  BY <1>1, <2>2, <2>5, <2>6, <2>7, <2>8, <2>9 DEF Reserves
<1> QED  BY <1>2, <1>3

\* A completion settles on the name it links, or tries to.
Renames(s, n) ==
  /\ s \in sessions /\ n \in Name /\ (n = entry[s].final \/ n.by = s)
  /\ sessions' = sessions /\ names' = (names \ {nameKey(entry[s].final)}) \cup {nameKey(n)}
  /\ \A r \in Sid \ {s} : entry'[r] = entry[r]
  /\ entry'[s].final = n

\* What CompletePublish does: the name is settled, and linked or, after an error, not.
LEMMA Settles ==
  ASSUME Safe, NEW t \in Thread, CompletePublish(t)
  PROVE  /\ \E n : Renames(req[t].sid, n)
         /\ entry'[req[t].sid].result = entry[req[t].sid].result
         /\ \A s \in Sid \ {req[t].sid} : published'[s] = published[s]
         /\ published'[req[t].sid] \in {published[req[t].sid], entry'[req[t].sid].final}
         /\ published'[req[t].sid] # published[req[t].sid] => pc'[t] = "remember"
         /\ UNCHANGED <<receipts, forgotten, unused>>
         /\ req' = req /\ \A u \in Thread : pc[u] = "remember" => Stays(u)
<1> DEFINE s == req[t].sid
           old == entry[s].final
<1>0. Typed /\ TypeOK /\ Holding /\ Registered
  BY DEF Safe, Guarded, Typed
<1>1. s \in Used /\ s \in Sid /\ s \in sessions
  BY <1>0, Unpublished DEF CompletePublish, Registered
<1>2. old \in Name
  BY <1>0, <1>1 DEF Typed, Named
<1>3. PICK n : n = IF Free(old) THEN old ELSE conflictName(old, s, 2)
  OBVIOUS
<1>4. n \in Name /\ (n = old \/ n.by = s)
  BY <1>1, <1>2, <1>3, NameType, Suffixes
<1>5. /\ names' = (names \ {nameKey(old)}) \cup {nameKey(n)}
      /\ entry' = [entry EXCEPT ![s].final = n] /\ sessions' = sessions
      /\ published' = published \/ (published' = [published EXCEPT ![s] = n] /\ Goto(t, "remember"))
      /\ UNCHANGED <<receipts, forgotten, unused>> /\ req' = req
  BY <1>3 DEF CompletePublish, Exchanged, ReceiptVars
<1>6. /\ \A r \in Sid \ {s} : entry'[r] = entry[r]
      /\ entry'[s].final = n /\ entry'[s].result = entry[s].result
  BY <1>0, <1>1, <1>5 DEF TypeOK, Entry
<1>7. /\ \A r \in Sid \ {s} : published'[r] = published[r]
      /\ published'[s] \in {published[s], n}
      /\ published'[s] # published[s] => pc'[t] = "remember"
  BY <1>0, <1>1, <1>5, Constant DEF TypeOK, Goto
<1>8. \A u \in Thread : pc[u] = "remember" => Stays(u)
  BY <1>0, Constant DEF CompletePublish, Goto, Answer, TypeOK, Stays
<1>9. Renames(s, n)
  BY <1>1, <1>4, <1>5, <1>6 DEF Renames
<1> QED  BY <1>5, <1>6, <1>7, <1>8, <1>9

\* The registry and the reservations through one step.
LEMMA ReservedStep ==
  ASSUME Safe, Reserved, [Next]_vars
  PROVE  Reserved'
<1>0. Typed /\ TypeOK /\ Holding /\ Registered
  BY DEF Safe, Guarded, Typed
<1>1. /\ sessions \subseteq Sid
      /\ \A s \in sessions : entry[s].final \in Name /\ entry[s].final.by \in {NoSid, s}
      /\ names = {nameKey(entry[s].final) : s \in sessions}
      /\ \A s, r \in sessions : nameKey(entry[s].final) = nameKey(entry[r].final) => s = r
  BY <1>0 DEF TypeOK, Used, Typed, Named, Reserved, Suffixed, NamesExact
<1>2. CASE Still
  <2>1. \A s \in sessions : entry'[s].final = entry[s].final
    BY <1>1, <1>2 DEF Still
  <2>2. sessions' = sessions /\ names' = names
    BY <1>2 DEF Still
  <2> QED  BY <1>1, <2>1, <2>2 DEF Reserved, NamesExact, Suffixed
<1>3. ASSUME NEW r, NEW n, Reserves(r, n) PROVE Reserved'
  <2>1. /\ r \notin sessions /\ sessions' = sessions \cup {r} /\ names' = names \cup {nameKey(n)}
        /\ nameKey(n) \notin names /\ n.by \in {NoSid, r} /\ entry'[r].final = n
        /\ \A s \in sessions : entry'[s].final = entry[s].final
    BY <1>0, <1>1, <1>3 DEF Reserves, TypeOK, Used
  <2>2. \A s \in sessions : nameKey(entry[s].final) # nameKey(n)
    BY <1>1, <2>1
  <2>3. names' = {nameKey(entry'[s].final) : s \in sessions'}
    BY <1>1, <2>1
  <2> QED  BY <1>1, <2>1, <2>2, <2>3 DEF Reserved, NamesExact, Suffixed
<1>4. ASSUME NEW s, NEW n, Renames(s, n) PROVE Reserved'
  <2>1. /\ s \in sessions /\ n \in Name /\ (n = entry[s].final \/ n.by = s)
        /\ sessions' = sessions /\ names' = (names \ {nameKey(entry[s].final)}) \cup {nameKey(n)}
        /\ \A r \in sessions \ {s} : entry'[r].final = entry[r].final
        /\ entry'[s].final = n
    BY <1>1, <1>4 DEF Renames
  <2>2. n.by \in {NoSid, s}
    BY <1>1, <2>1
  <2>3. ASSUME NEW r \in sessions \ {s} PROVE nameKey(entry[r].final) # nameKey(n)
    <3>1. CASE n = entry[s].final
      BY <1>1, <2>1, <2>3, <3>1
    <3>2. CASE n.by = s
      <4>1. /\ nameKey(n).by = s /\ nameKey(entry[r].final).by = entry[r].final.by
            /\ entry[r].final.by \in {NoSid, r} /\ s \in Sid /\ r # s
        BY <1>1, <2>1, <2>3, <3>2, Suffixes
      <4> QED  BY <4>1, Constant
    <3> QED  BY <2>1, <3>1, <3>2
  <2>4. names' = {nameKey(entry'[r].final) : r \in sessions'}
    BY <1>1, <2>1
  <2> QED  BY <1>1, <2>1, <2>2, <2>3, <2>4 DEF Reserved, NamesExact, Suffixed
<1>5. ASSUME NEW t \in Thread, CompleteRemember(t) PROVE Reserved'
  <2>1. sessions' = sessions /\ names' = names
        /\ \E n : entry' = [entry EXCEPT ![req[t].sid].result = n]
    BY <1>5 DEF CompleteRemember
  <2>2. \A s \in sessions : entry'[s].final = entry[s].final
    BY <1>0, <1>1, <2>1 DEF TypeOK, Entry
  <2> QED  BY <1>1, <2>1, <2>2 DEF Reserved, NamesExact, Suffixed
<1>6. ASSUME NEW a \in Actor, CloseEntry(a) PROVE Reserved'
  <2>1. PICK s : s = req[a].sid
    OBVIOUS
  <2>2. /\ sessions' = sessions \ {s} /\ names' = names \ {nameKey(entry[s].final)}
        /\ entry' = [entry EXCEPT ![s].closed = TRUE]
    BY <1>6, <2>1 DEF CloseEntry
  <2>3. s \in sessions
    BY <1>0, <1>6, <2>1 DEF CloseEntry, Holding, Holds, Registered, Typed, Ready
  <2>4. \A r \in sessions : entry'[r].final = entry[r].final
    BY <1>0, <1>1, <2>2, <2>3 DEF TypeOK, Entry
  <2>5. names' = {nameKey(entry'[r].final) : r \in sessions'}
    BY <1>1, <2>2, <2>3, <2>4
  <2> QED  BY <1>1, <2>2, <2>3, <2>4, <2>5 DEF Reserved, NamesExact, Suffixed
<1>7. CASE ReceiptLapses
  BY <1>7 DEF ReceiptLapses, RegistryVars, Reserved, NamesExact, Suffixed
<1>8. CASE Restart
  BY <1>8 DEF Restart, Reserved, NamesExact, Suffixed
<1> QED
  BY <1>0, <1>2, <1>3, <1>4, <1>5, <1>6, <1>7, <1>8, Changes, Opening, Settles

\* A receipt that is not there any more was forgotten.
LEMMA ReceiptKept ==
  ASSUME Safe, NEW t \in Thread, CompleteRemember(t), NEW s, s = req[t].sid
  PROVE  /\ Receipt(s)' /\ forgotten \subseteq forgotten'
         /\ \A x : Receipt(x)' => Receipt(x) \/ x = s
         /\ \A x : Receipt(x) => Receipt(x)' \/ x \in forgotten'
<1> DEFINE kept == IF Full THEN Tail(receipts) ELSE receipts
<1>0. Typed /\ TypeOK
  BY DEF Safe, Typed
<1>1. receipts \in Seq(Sid) /\ s \in Sid
  BY <1>0, Constant DEF TypeOK, Typed, Ready, Used, CompleteRemember
<1>2. receipts' = Append(kept, s) /\ (Full => forgotten' = forgotten \cup {receipts[1]})
      /\ forgotten \subseteq forgotten'
  BY DEF CompleteRemember, Remembered
<1>3. Full => Len(receipts) >= 1
  BY <1>1, LimitsAssumption DEF Full
<1>4. kept \in Seq(Sid)
  BY <1>1, <1>3
<1>5. /\ Len(receipts') = Len(kept) + 1 /\ receipts'[Len(kept) + 1] = s
      /\ \A i \in 1 .. Len(kept) : receipts'[i] = kept[i]
      /\ Len(kept) \in Nat
  BY <1>1, <1>2, <1>4
<1>6. Receipt(s)'
  <2>1. Len(kept) + 1 \in 1 .. Len(receipts')
    BY <1>5
  <2> QED  BY <1>5, <2>1 DEF Receipt
<1>7. ASSUME NEW x, Receipt(x)' PROVE Receipt(x) \/ x = s
  <2>1. PICK i \in 1 .. Len(kept) + 1 : receipts'[i] = x
    BY <1>5, <1>7 DEF Receipt
  <2>2. CASE i = Len(kept) + 1
    BY <1>5, <2>1, <2>2
  <2>3. CASE i \in 1 .. Len(kept)
    <3>1. kept[i] = x
      BY <1>5, <2>1, <2>3
    <3>2. CASE Full
      BY <1>1, <1>3, <2>3, <3>1, <3>2 DEF Receipt
    <3>3. CASE ~Full
      BY <2>3, <3>1, <3>3 DEF Receipt
    <3> QED  BY <3>2, <3>3
  <2> QED  BY <1>5, <2>1, <2>2, <2>3
<1>8. ASSUME NEW x, Receipt(x) PROVE Receipt(x)' \/ x \in forgotten'
  <2>1. PICK i \in 1 .. Len(receipts) : receipts[i] = x
    BY <1>8 DEF Receipt
  <2>2. CASE Full /\ i = 1
    BY <1>2, <2>1, <2>2
  <2>3. CASE Full /\ i # 1
    <3>1. i - 1 \in 1 .. Len(kept) /\ kept[i - 1] = x
      BY <1>1, <1>3, <2>1, <2>3
    <3>2. i - 1 \in 1 .. Len(receipts') /\ receipts'[i - 1] = x
      BY <1>5, <3>1
    <3> QED  BY <3>2 DEF Receipt
  <2>4. CASE ~Full
    BY <1>5, <2>1, <2>4 DEF Receipt
  <2> QED  BY <2>2, <2>3, <2>4
<1> QED  BY <1>2, <1>6, <1>7, <1>8

\* When the oldest receipt lapses it is forgotten, and no other is lost.
LEMMA ReceiptLost ==
  ASSUME TypeOK, ReceiptLapses
  PROVE  /\ \A x : Receipt(x)' => Receipt(x)
         /\ \A x : Receipt(x) => Receipt(x)' \/ x \in forgotten'
         /\ forgotten \subseteq forgotten'
<1>1. receipts \in Seq(Sid) /\ Len(receipts) >= 1
  BY DEF TypeOK, ReceiptLapses
<1>2. receipts' = Tail(receipts) /\ forgotten' = forgotten \cup {receipts[1]}
  BY DEF ReceiptLapses
<1>3. /\ Len(receipts') = Len(receipts) - 1
      /\ \A i \in 1 .. Len(receipts) - 1 : receipts'[i] = receipts[i + 1]
  BY <1>1, <1>2
<1>4. \A x : Receipt(x)' => Receipt(x)
  BY <1>1, <1>3 DEF Receipt
<1>5. ASSUME NEW x, Receipt(x) PROVE Receipt(x)' \/ x \in forgotten'
  <2>1. PICK i \in 1 .. Len(receipts) : receipts[i] = x
    BY <1>5 DEF Receipt
  <2>2. CASE i = 1
    BY <1>2, <2>1, <2>2
  <2>3. CASE i # 1
    <3>1. i - 1 \in 1 .. Len(receipts) - 1 /\ receipts'[i - 1] = x
      BY <1>1, <1>3, <2>1, <2>3
    <3> QED  BY <1>3, <3>1 DEF Receipt
  <2> QED  BY <2>2, <2>3
<1> QED  BY <1>2, <1>4, <1>5

\* What is remembered of one session.
Record(s) ==
  /\ published[s] # NoName => entry[s].final = published[s]
  /\ entry[s].result # NoName => entry[s].result = published[s]
  /\ Receipt(s) => entry[s].result # NoName
  /\ published[s] # NoName =>
       s \in forgotten \/ Remembering(s) \/ (Receipt(s) /\ entry[s].result # NoName)

\* The record of a session nothing was done to.
LEMMA RecordKept ==
  ASSUME NEW s, Record(s), published'[s] = published[s], entry'[s].final = entry[s].final,
         entry'[s].result = entry[s].result, Receipt(s)' => Receipt(s),
         Receipt(s) => Receipt(s)' \/ s \in forgotten', forgotten \subseteq forgotten',
         Remembering(s) => Remembering(s)'
  PROVE  Record(s)'
BY DEF Record

\* Every step keeps the records of the publications.
LEMMA RecordedStep ==
  ASSUME Answering, [Next]_vars
  PROVE  Recorded'
<1>0. Safe /\ Typed /\ TypeOK /\ Published /\ Holding /\ Reserved /\ Truthful
  BY DEF Answering, Safe, Guarded, Typed
<1>1. \A s \in Sid : Record(s)
  BY DEF Answering, Recorded, Record
<1>2. SUFFICES ASSUME NEW s \in Sid PROVE Record(s)'
  BY DEF Recorded, Record
<1>3. ASSUME \A t \in Thread : pc[t] = "remember" /\ req[t].sid = s => Stays(t)
      PROVE  Remembering(s) => Remembering(s)'
  BY <1>3 DEF Remembering, Stays
<1>4. ASSUME receipts' = receipts PROVE Receipt(s)' <=> Receipt(s)
  BY <1>4 DEF Receipt
<1>5. CASE Still
  <2>1. /\ published'[s] = published[s] /\ entry'[s].final = entry[s].final
        /\ entry'[s].result = entry[s].result /\ receipts' = receipts /\ forgotten' = forgotten
        /\ \A t \in Thread : pc[t] = "remember" /\ req[t].sid = s => Stays(t)
    BY <1>5 DEF Still
  <2>2. (Receipt(s)' <=> Receipt(s)) /\ (Remembering(s) => Remembering(s)')
    BY <1>3, <1>4, <2>1
  <2> QED  BY <1>1, <2>1, <2>2, RecordKept
<1>6. ASSUME NEW r, NEW n, Reserves(r, n) PROVE Record(s)'
  <2>1. /\ r \in unused /\ UNCHANGED <<receipts, forgotten, published>>
        /\ \A x \in Sid \ {r} : entry'[x] = entry[x]
        /\ entry'[r].result = NoName
        /\ \A t \in Thread : pc[t] = "remember" /\ req[t].sid = s => Stays(t)
    BY <1>6 DEF Reserves
  <2>2. (Receipt(s)' <=> Receipt(s)) /\ (Remembering(s) => Remembering(s)')
    BY <1>3, <1>4, <2>1
  <2>3. CASE s # r
    <3>1. published'[s] = published[s] /\ entry'[s] = entry[s] /\ forgotten' = forgotten
      BY <2>1, <2>3
    <3> QED  BY <1>1, <2>2, <3>1, RecordKept
  <2>4. CASE s = r
    <3>1. published[s] = NoName
      BY <1>0, <2>1, <2>4 DEF Published, Finished, Used
    <3>2. ~Receipt(s)
      BY <1>1, <3>1 DEF Record
    <3> QED  BY <2>1, <2>2, <2>4, <3>1, <3>2 DEF Record
  <2> QED  BY <2>3, <2>4
<1>7. ASSUME NEW t \in Thread, CompletePublish(t) PROVE Record(s)'
  <2>1. PICK r : r = req[t].sid
    OBVIOUS
  <2>2. /\ \A x \in Sid \ {r} : entry'[x] = entry[x] /\ published'[x] = published[x]
        /\ entry'[r].result = entry[r].result
        /\ published'[r] \in {published[r], entry'[r].final}
        /\ published'[r] # published[r] => pc'[t] = "remember"
        /\ UNCHANGED <<receipts, forgotten, unused>>
        /\ req' = req /\ \A u \in Thread : pc[u] = "remember" /\ req[u].sid = s => Stays(u)
    BY <1>0, <1>7, <2>1, Settles DEF Renames
  <2>3. (Receipt(s)' <=> Receipt(s)) /\ (Remembering(s) => Remembering(s)')
    BY <1>3, <1>4, <2>2
  <2>4. CASE s # r
    <3>1. published'[s] = published[s] /\ entry'[s] = entry[s] /\ forgotten' = forgotten
      BY <2>2, <2>4
    <3> QED  BY <1>1, <2>3, <3>1, RecordKept
  <2>5. CASE s = r
    <3>1. published[s] = NoName
      BY <1>0, <1>7, <2>1, <2>5, Unpublished DEF CompletePublish
    <3>2. ~Receipt(s) /\ entry[s].result = NoName
      BY <1>1, <3>1 DEF Record
    <3>3. published'[s] # NoName => Remembering(s)'
      BY <2>1, <2>2, <2>5, <3>1 DEF Remembering
    <3>4. published'[s] # NoName => entry'[s].final = published'[s]
      BY <2>2, <2>5, <3>1
    <3>5. ~Receipt(s)' /\ entry'[s].result = NoName
      BY <2>2, <2>3, <2>5, <3>2
    <3> QED  BY <3>3, <3>4, <3>5 DEF Record
  <2> QED  BY <2>4, <2>5
<1>8. ASSUME NEW t \in Thread, CompleteRemember(t) PROVE Record(s)'
  <2>1. PICK r : r = req[t].sid
    OBVIOUS
  <2>2. pc[t] = "remember" /\ r \in Sid /\ published[r] # NoName
    BY <1>0, <1>8, <2>1, Constant
       DEF CompleteRemember, Typed, Ready, Roles, Used, Truthful, Truth, Found
  <2>3. /\ entry' = [entry EXCEPT ![r].result = entry[r].final]
        /\ published' = published /\ req' = req /\ pc' = [pc EXCEPT ![t] = "close"]
    BY <1>8, <2>1 DEF CompleteRemember, SavedFilename, FileVars, Goto
  <2>4. /\ \A x \in Sid : entry'[x].final = entry[x].final
        /\ \A x \in Sid \ {r} : entry'[x].result = entry[x].result
        /\ entry'[r].result = published[r]
    BY <1>0, <1>1, <2>2, <2>3 DEF TypeOK, Entry, Record
  <2>5. /\ Receipt(r)' /\ forgotten \subseteq forgotten'
        /\ Receipt(s)' => Receipt(s) \/ s = r
        /\ Receipt(s) => Receipt(s)' \/ s \in forgotten'
    <3>1. /\ Receipt(r)' /\ forgotten \subseteq forgotten'
          /\ \A x : Receipt(x)' => Receipt(x) \/ x = r
          /\ \A x : Receipt(x) => Receipt(x)' \/ x \in forgotten'
      BY <1>0, <1>8, <2>1, ReceiptKept
    <3> QED  BY <3>1
  <2>6. CASE s # r
    <3>1. Remembering(s) => Remembering(s)'
      <4>1. \A u \in Thread : pc[u] = "remember" /\ req[u].sid = s => Stays(u)
        BY <1>0, <2>1, <2>3, <2>6, Constant DEF Stays, TypeOK
      <4> QED  BY <1>3, <4>1
    <3>2. published'[s] = published[s] /\ entry'[s].final = entry[s].final
          /\ entry'[s].result = entry[s].result
      BY <2>3, <2>4, <2>6
    <3> QED  BY <1>1, <2>5, <2>6, <3>1, <3>2, RecordKept
  <2>7. CASE s = r
    BY <1>1, <2>2, <2>3, <2>4, <2>5, <2>7 DEF Record
  <2> QED  BY <2>6, <2>7
<1>9. ASSUME NEW a \in Actor, CloseEntry(a) PROVE Record(s)'
  <2>1. /\ entry' = [entry EXCEPT ![req[a].sid].closed = TRUE] /\ pc[a] = "close"
        /\ pc' = [pc EXCEPT ![a] = "clean"] /\ req' = req
        /\ UNCHANGED <<receipts, forgotten, published>>
    BY <1>9 DEF CloseEntry, ReceiptVars, FileVars, Goto
  <2>2. entry'[s].final = entry[s].final /\ entry'[s].result = entry[s].result
    BY <1>0, <2>1 DEF TypeOK, Entry
  <2>3. \A t \in Thread : pc[t] = "remember" /\ req[t].sid = s => Stays(t)
    BY <1>0, <2>1, Constant DEF Stays, TypeOK
  <2>4. (Receipt(s)' <=> Receipt(s)) /\ (Remembering(s) => Remembering(s)')
    BY <1>3, <1>4, <2>1, <2>3
  <2> QED  BY <1>1, <2>1, <2>2, <2>4, RecordKept
<1>10. CASE ReceiptLapses
  <2>1. entry' = entry /\ published' = published /\ pc' = pc /\ req' = req
    BY <1>10 DEF ReceiptLapses, RegistryVars, FileVars
  <2>2. Remembering(s) => Remembering(s)'
    BY <2>1 DEF Remembering
  <2> QED  BY <1>0, <1>1, <1>10, <2>1, <2>2, ReceiptLost, RecordKept
<1>11. CASE Restart
  <2>1. /\ published' = published /\ (published[s] # NoName => s \in forgotten')
        /\ receipts' = <<>>
    BY <1>11 DEF Restart
  <2>2. entry'[s].final = entry[s].final /\ entry'[s].result = entry[s].result
    BY <1>0, <1>11 DEF Restart, TypeOK, Entry
  <2>3. ~Receipt(s)'
    BY <2>1 DEF Receipt
  <2> QED  BY <1>1, <2>1, <2>2, <2>3 DEF Record
<1> QED
  BY <1>0, <1>5, <1>6, <1>7, <1>8, <1>9, <1>10, <1>11, Changes, Opening

\* What is known of a session stays known.
Grow ==
  /\ unused' \subseteq unused /\ forgotten \subseteq forgotten'
  /\ \A s \in Used : /\ entry'[s].total = entry[s].total
                     /\ entry[s].received \subseteq entry'[s].received
                     /\ entry[s].closed => entry'[s].closed /\ published'[s] = published[s]
                     /\ published[s] # NoName => published'[s] = published[s]

\* Acknowledgements are not withdrawn, and an upload that ended stays as it ended.
LEMMA Growing ==
  ASSUME Safe, [Next]_vars
  PROVE  Grow
<1>0. Typed /\ TypeOK
  BY DEF Safe, Typed
<1>1. forgotten \subseteq forgotten'
  <2>1. ASSUME NEW t \in Thread, CompleteRemember(t) PROVE forgotten \subseteq forgotten'
    BY <2>1, ReceiptKept
  <2> QED
    BY <1>0, <2>1, Changes, ReceiptLost
       DEF Still, Restart, InitSession, CompletePublish, CloseEntry, ReceiptVars
<1>2. unused' \subseteq unused /\ \A s \in Used : s \in Sid
  BY <1>0, Effects DEF Silent, Restart, Opens, Writes, ChunkBegin, ChunkAck, ChunkFail,
    RegistryVars, Links, CloseEntry, Used
<1>3. SUFFICES ASSUME NEW s \in Used
               PROVE  /\ entry'[s].total = entry[s].total
                      /\ entry[s].received \subseteq entry'[s].received
                      /\ entry[s].closed => entry'[s].closed /\ published'[s] = published[s]
                      /\ published[s] # NoName => published'[s] = published[s]
  BY <1>1, <1>2 DEF Grow
<1>4. s \in Sid /\ s \notin unused
  BY DEF Used
<1>5. CASE Silent
  BY <1>4, <1>5 DEF Silent, Same
<1>6. CASE Restart
  <2>1. /\ entry'[s].total = entry[s].total /\ entry'[s].received = entry[s].received
        /\ entry'[s].closed /\ published' = published
    BY <1>0, <1>4, <1>6 DEF Restart, TypeOK, Entry
  <2> QED  BY <2>1
<1>7. ASSUME NEW r \in unused, NEW k, NEW n, Opens(r, k, n)
      PROVE  entry'[s] = entry[s] /\ published' = published
  BY <1>0, <1>4, <1>7 DEF Opens, TypeOK
<1>8. ASSUME NEW t \in Thread, Writes(t)
      PROVE  /\ entry'[s].total = entry[s].total
             /\ entry[s].received \subseteq entry'[s].received
             /\ entry'[s].closed = entry[s].closed /\ published' = published
  <2>1. CASE ChunkBegin(t)
    BY <1>0, <1>4, <2>1 DEF ChunkBegin, TypeOK, Entry
  <2>2. CASE ChunkAck(t)
    BY <1>0, <1>4, <2>2 DEF ChunkAck, TypeOK, Entry
  <2>3. CASE ChunkFail(t)
    BY <2>3 DEF ChunkFail, RegistryVars
  <2> QED  BY <1>8, <2>1, <2>2, <2>3 DEF Writes
<1>9. ASSUME NEW t \in Thread, NEW n \in Name, Links(t, n)
      PROVE  /\ entry'[s].total = entry[s].total /\ entry'[s].received = entry[s].received
             /\ entry'[s].closed = entry[s].closed
             /\ published'[s] = published[s] \/ (~entry[s].closed /\ published[s] = NoName)
  <2>1. /\ entry'[s].total = entry[s].total /\ entry'[s].received = entry[s].received
        /\ entry'[s].closed = entry[s].closed
    BY <1>0, <1>4, <1>9 DEF Links, TypeOK, Entry
  <2>2. published'[s] = published[s] \/ s = req[t].sid
    BY <1>0, <1>4, <1>9 DEF Links, TypeOK
  <2>3. ~entry[req[t].sid].closed /\ published[req[t].sid] = NoName
    BY <1>9, Unpublished DEF Links
  <2> QED  BY <2>1, <2>2, <2>3
<1>10. ASSUME NEW a \in Actor, CloseEntry(a)
       PROVE  /\ entry'[s].total = entry[s].total /\ entry'[s].received = entry[s].received
              /\ entry[s].closed => entry'[s].closed
              /\ published' = published
  <2>1. /\ entry'[s].total = entry[s].total /\ entry'[s].received = entry[s].received
        /\ entry[s].closed => entry'[s].closed
    BY <1>0, <1>4, <1>10 DEF CloseEntry, TypeOK, Entry
  <2> QED  BY <1>10, <2>1 DEF CloseEntry, FileVars
<1> QED
  BY <1>0, <1>5, <1>6, <1>7, <1>8, <1>9, <1>10, Effects

\* A request that does not move keeps what it knows and what it says.
LEMMA TruthKept ==
  ASSUME Safe, Grow, NEW t \in Thread, Truth(t), Stays(t), reply'[t] = reply[t]
  PROVE  Truth(t)'
<1>0. Typed /\ Holding
  BY DEF Safe, Guarded
<1>1. PICK s : s = req[t].sid
  OBVIOUS
<1>2. /\ pc'[t] = pc[t] /\ req'[t] = req[t] /\ req'[t].sid = s
      /\ (Telling(t)' <=> Telling(t))
  BY <1>1 DEF Stays, Telling
<1>3. pc[t] \notin {"idle", "done"} => s \in Used
  BY <1>0, <1>1, Constant DEF Typed, Ready
<1>4. pc[t] = "clean" => entry[s].closed
  BY <1>0, <1>1, Constant DEF Holding, Holds
<1>5. Found(t)'
  <2>1. CASE pc[t] \in {"idle", "done"}
    BY <1>2, <2>1 DEF Found
  <2>2. CASE pc[t] \notin {"idle", "done"}
    BY <1>1, <1>2, <1>3, <1>4, <2>2 DEF Truth, Found, Grow
  <2> QED  BY <2>1, <2>2
<1>6. ASSUME Telling(t) PROVE Said(t)'
  <2>1. s \in Used /\ Said(t)
    BY <1>1, <1>6 DEF Truth, Said
  <2>2. /\ s \in Used' /\ entry'[s].total = entry[s].total
        /\ entry[s].received \subseteq entry'[s].received
        /\ entry[s].closed => entry'[s].closed /\ published'[s] = published[s]
        /\ published[s] # NoName => published'[s] = published[s]
        /\ s \in forgotten => s \in forgotten'
    BY <2>1 DEF Grow, Used
  <2>3. Chunks(s)' = Chunks(s)
    BY <2>2 DEF Chunks
  <2> QED  BY <1>1, <1>2, <2>1, <2>2, <2>3 DEF Said
<1> QED  BY <1>2, <1>5, <1>6 DEF Truth

\* What a thread that moves has to know, or to say.
LEMMA OnItsWay ==
  ASSUME NEW t \in Thread, pc'[t] # "done", reply'[t].kind = "none", Found(t)'
  PROVE  Truth(t)'
BY DEF Truth, Telling

\* What an answer has to satisfy.
LEMMA AtTheEnd ==
  ASSUME NEW t \in Thread, pc'[t] = "done", Telling(t)' => Said(t)'
  PROVE  Truth(t)'
BY DEF Truth, Found

\* Requests that arrive, and responses that leave.
LEMMA ArriveTruth ==
  ASSUME Answering, NEW t \in Thread, Arrive(t) \/ Respond(t)
  PROVE  Truth(t)'
<1>0. Typed /\ TypeOK /\ Truth(t)
  BY DEF Answering, Safe, Typed, Truthful
<1> USE Constant DEF Goto, Answer
<1>1. CASE InitSession(t)
  <2>1. pc'[t] = "done" /\ reply'[t].kind \in {"busy", "failed", "started"}
    BY <1>0, <1>1 DEF InitSession, TypeOK
  <2> QED  BY <2>1, AtTheEnd DEF Telling
<1>2. CASE StartChunk(t)
  <2>1. CASE pc'[t] = "wfind"
    <3>1. reply'[t].kind = "none" /\ req'[t].op = "chunk"
      BY ZenonT(40), <1>0, <1>2, <2>1 DEF StartChunk, TypeOK, Truth, NoRequest
    <3> QED  BY <2>1, <3>1, OnItsWay DEF Found
  <2>2. CASE pc'[t] # "wfind"
    <3>1. Goto(t, "wfind") \/ Answer(t, "busy", NoName, {})
      BY <1>2 DEF StartChunk
    <3>2. pc'[t] = "done" /\ reply'[t].kind = "busy"
      BY <1>0, <2>2, <3>1 DEF TypeOK
    <3> QED  BY <3>2, AtTheEnd DEF Telling
  <2> QED  BY <2>1, <2>2
<1>3. CASE StartRequest(t)
  <2>1. pc'[t] \in {"xfind", "look"} /\ reply'[t].kind = "none"
    BY <1>0, <1>3 DEF StartRequest, TypeOK, Truth
  <2> QED  BY <2>1, OnItsWay DEF Found
<1>4. CASE Respond(t)
  <2>1. pc'[t] = "idle" /\ reply'[t].kind = "none"
    BY <1>0, <1>4 DEF Respond, TypeOK, NoReply
  <2> QED  BY <2>1, OnItsWay DEF Found
<1> QED  BY <1>1, <1>2, <1>3, <1>4 DEF Arrive

\* WriteChunk says nothing of the upload's end.
LEMMA ChunkTruth ==
  ASSUME Answering, NEW t \in Thread, WriteChunk(t)
  PROVE  Truth(t)'
<1>0. Typed /\ TypeOK /\ Truth(t)
  BY DEF Answering, Safe, Typed, Truthful
<1>1. /\ pc[t] \in {"wfind", "wlock", "wblock", "copy", "discard"} /\ req' = req
      /\ \/ Goto(t, "wlock") /\ reply' = reply
         \/ Goto(t, "wblock") /\ reply' = reply
         \/ Goto(t, "copy") /\ reply' = reply
         \/ Goto(t, "discard") /\ reply' = reply
         \/ \E k \in {"gone", "failed", "ack"} : Answer(t, k, NoName, {})
  BY DEF WriteChunk, ChunkFind, ChunkLock, ChunkBegin, ChunkAck, ChunkFail
<1>2. req[t].op = "chunk" /\ reply[t].kind = "none"
  BY <1>0, <1>1 DEF Truth, Found
<1>3. CASE pc'[t] = "done"
  <2>1. reply'[t].kind \in {"gone", "failed", "ack"} /\ req'[t].op = "chunk"
    BY <1>0, <1>1, <1>2, <1>3, Constant DEF TypeOK, Goto, Answer
  <2> QED  BY <1>3, <2>1, AtTheEnd DEF Telling
<1>4. CASE pc'[t] # "done"
  <2>1. /\ pc'[t] \in {"wlock", "wblock", "copy", "discard"}
        /\ reply'[t].kind = "none" /\ req'[t].op = "chunk"
    BY <1>0, <1>1, <1>2, <1>4, Constant DEF TypeOK, Goto, Answer
  <2> QED  BY <1>4, <2>1, OnItsWay DEF Found
<1> QED  BY <1>3, <1>4

\* An upload that is closed and was linked has its receipt, or it was forgotten.
LEMMA ClosedRecord ==
  ASSUME Answering, NEW s \in Sid, entry[s].closed, published[s] # NoName, s \notin forgotten
  PROVE  Receipt(s) /\ entry[s].result # NoName
<1>1. ~Remembering(s)
  BY Constant DEF Answering, Safe, Guarded, Holding, Holds, Remembering
<1> QED  BY <1>1 DEF Answering, Recorded

\* The threads that say the upload is saved say its name.
LEMMA SavedTruth ==
  ASSUME Answering, NEW t \in Thread, NEW s \in Used, s = req[t].sid, req' = req,
         entry' = entry, published' = published, unused' = unused,
         NEW n, n = entry[s].result, n # NoName, Answer(t, "saved", n, {})
  PROVE  Truth(t)'
<1>0. TypeOK /\ s \in Sid
  BY DEF Answering, Safe, Typed, Used
<1>1. n = published[s]
  BY <1>0 DEF Answering, Recorded
<1>2. pc'[t] = "done" /\ reply'[t].kind = "saved" /\ reply'[t].name = n
  BY <1>0, Constant DEF TypeOK, Answer, Goto
<1>3. Said(t)'
  BY <1>1, <1>2 DEF Said, Used
<1> QED  BY <1>2, <1>3, AtTheEnd

\* The threads that say the upload is gone know that it was closed.
LEMMA GoneTruth ==
  ASSUME Answering, NEW t \in Thread, NEW s \in Used, s = req[t].sid, req' = req,
         entry' = entry, published' = published, unused' = unused, forgotten' = forgotten,
         entry[s].closed, ~Receipt(s) \/ entry[s].result = NoName, Answer(t, "gone", NoName, {})
  PROVE  Truth(t)'
<1>0. TypeOK /\ s \in Sid
  BY DEF Answering, Safe, Typed, Used
<1>1. s \in forgotten \/ published[s] = NoName
  BY <1>0, ClosedRecord
<1>2. pc'[t] = "done" /\ reply'[t].kind = "gone"
  BY <1>0, Constant DEF TypeOK, Answer, Goto
<1>3. Said(t)'
  BY <1>1, <1>2 DEF Said, Used
<1> QED  BY <1>2, <1>3, AtTheEnd

\* LookupUpload, in its four steps.
LEMMA LookupTruth ==
  ASSUME Answering, NEW t \in Thread, LookupUpload(t)
  PROVE  Truth(t)'
<1>0. Typed /\ TypeOK /\ Registered /\ Recorded /\ Truth(t)
  BY DEF Answering, Safe, Guarded, Typed, Truthful
<1>1. PICK s : s = req[t].sid
  OBVIOUS
<1>2. /\ s \in Used /\ s \in Sid /\ reply[t].kind = "none" /\ pc[t] \in {"look", "find", "peek", "again"}
      /\ entry' = entry /\ published' = published /\ unused' = unused /\ forgotten' = forgotten
  <2>1. pc[t] \in {"look", "find", "peek", "again"}
    BY DEF LookupUpload, LookReceipt, LookFind, LookPeek, LookAgain
  <2>2. /\ entry' = entry /\ published' = published /\ unused' = unused /\ forgotten' = forgotten
    BY DEF LookupUpload, LookReceipt, LookFind, LookPeek, LookAgain, Shared, RegistryVars,
      ReceiptVars, FileVars
  <2> QED  BY <1>0, <1>1, <2>1, <2>2, Constant DEF Typed, Ready, Used, Truth
<1>3. CASE LookReceipt(t)
  <2>1. CASE Receipt(s)
    <3>1. Answer(t, "saved", entry[s].result, {}) /\ req' = req
      BY <1>1, <1>3, <2>1 DEF LookReceipt
    <3>2. entry[s].result # NoName
      BY <1>0, <1>2, <2>1 DEF Recorded
    <3> QED  BY <1>1, <1>2, <3>1, <3>2, SavedTruth
  <2>2. CASE ~Receipt(s)
    <3>1. pc'[t] = "find" /\ reply' = reply
      BY <1>0, <1>1, <1>3, <2>2, Constant DEF LookReceipt, Goto, TypeOK
    <3> QED  BY <1>2, <3>1, OnItsWay DEF Found
  <2> QED  BY <2>1, <2>2
<1>4. CASE LookFind(t)
  <2>1. /\ pc'[t] = IF s \in sessions THEN "peek" ELSE "again"
        /\ reply' = reply /\ req' = req
    BY <1>0, <1>1, <1>4, Constant DEF LookFind, Goto, TypeOK
  <2>2. pc'[t] = "again" => entry'[s].closed
    BY <1>0, <1>2, <2>1 DEF Registered
  <2> QED  BY <1>1, <1>2, <2>1, <2>2, OnItsWay DEF Found
<1>5. CASE LookPeek(t)
  <2>1. CASE Closed(s)
    <3>1. pc'[t] = "again" /\ reply' = reply /\ req' = req
      BY <1>0, <1>1, <1>5, <2>1, Constant DEF LookPeek, Goto, TypeOK
    <3> QED  BY <1>1, <1>2, <2>1, <3>1, OnItsWay DEF Found, Closed
  <2>2. CASE ~Closed(s) /\ req[t].op = "status"
    <3>1. /\ pc'[t] = "done" /\ reply'[t].kind = "uploading" /\ req' = req
          /\ reply'[t].chunks = entry[s].received
      BY <1>0, <1>1, <1>5, <2>2, Constant DEF LookPeek, Answer, Goto, TypeOK
    <3>2. Said(t)'
      BY <1>1, <1>2, <3>1 DEF Said, Used
    <3> QED  BY <3>1, <3>2, AtTheEnd
  <2>3. CASE ~Closed(s) /\ req[t].op # "status"
    <3>1. pc'[t] = "cfind" /\ reply' = reply
      BY <1>0, <1>1, <1>5, <2>3, Constant DEF LookPeek, Goto, TypeOK
    <3>2. req' = [req EXCEPT ![t].seen = entry[s].received]
      BY <1>1, <1>5, <2>3 DEF LookPeek
    <3>3. req'[t].sid = s /\ req'[t].seen = entry[s].received
      BY <1>0, <1>1, <3>2, Constant DEF TypeOK, Request
    <3> QED  BY <1>2, <3>1, <3>3, OnItsWay DEF Found
  <2> QED  BY <2>1, <2>2, <2>3
<1>6. CASE LookAgain(t)
  <2>1. entry[s].closed /\ req' = req
    BY <1>0, <1>1, <1>6 DEF LookAgain, Truth, Found
  <2>2. CASE Receipt(s)
    <3>1. Answer(t, "saved", entry[s].result, {})
      BY <1>1, <1>6, <2>2 DEF LookAgain, ReceiptStill
    <3>2. entry[s].result # NoName
      BY <1>0, <1>2, <2>2 DEF Recorded
    <3> QED  BY <1>1, <1>2, <2>1, <3>1, <3>2, SavedTruth
  <2>3. CASE ~Receipt(s)
    <3>1. Answer(t, "gone", NoName, {})
      BY <1>1, <1>6, <2>3 DEF LookAgain, ReceiptStill
    <3> QED  BY <1>1, <1>2, <2>1, <2>3, <3>1, GoneTruth
  <2> QED  BY <2>2, <2>3
<1> QED  BY <1>3, <1>4, <1>5, <1>6 DEF LookupUpload

\* Completion, cancellation and the end of a session.
LEMMA EndTruth ==
  ASSUME Answering, Grow, NEW t \in Thread, EndSession(t)
  PROVE  Truth(t)'
<1>0. Typed /\ TypeOK /\ Registered /\ Exclusive /\ Holding /\ Received /\ Published /\ Recorded /\ Truth(t)
  BY DEF Answering, Safe, Guarded, Typed, Truthful
<1>1. PICK s : s = req[t].sid
  OBVIOUS
<1>2. /\ req' = req /\ pc[t] \in {"cfind", "xfind", "wait", "drain", "publish", "remember", "close", "clean"}
      /\ s \in Used /\ s \in Sid /\ reply[t].kind = "none" /\ req[t].op \in {"complete", "cancel"}
      /\ Found(t) /\ Holds(t)
  <2>1. pc[t] \in {"cfind", "xfind", "wait", "drain", "publish", "remember", "close", "clean"}
    BY DEF EndSession, CompleteFind, CancelFind, LockWait, CancelLocked, CompleteLocked, Drained,
      CompletePublish, CompleteRemember, CloseEntry, CleanTemp
  <2>2. req[t].op \in {"complete", "cancel"}
    BY <1>0, <2>1 DEF Typed, Roles
  <2>3. req' = req
    BY <2>2 DEF EndSession, CompleteFind, CancelFind, LockWait, CancelLocked, CompleteLocked,
      CompletePublish, CompleteRemember, CloseEntry, CleanTemp
  <2> QED  BY <1>0, <1>1, <2>1, <2>2, <2>3, Constant DEF Typed, Ready, Used, Truth, Holding
<1>s. ASSUME Shared' = Shared
      PROVE  entry' = entry /\ published' = published /\ unused' = unused /\ forgotten' = forgotten
  BY <1>s DEF Shared, RegistryVars, ReceiptVars, FileVars
<1>3. CASE CompleteFind(t)
  <2>1. /\ pc'[t] = IF s \in sessions THEN "wait" ELSE "again"
        /\ reply' = reply /\ pc[t] = "cfind" /\ Shared' = Shared
    BY <1>0, <1>1, <1>3, Constant DEF CompleteFind, Goto, TypeOK
  <2>2. pc'[t] = "again" => entry'[s].closed
    BY <1>0, <1>2, <1>s, <2>1 DEF Registered
  <2>3. req'[t].seen \subseteq entry'[s].received
    BY <1>0, <1>1, <1>2, <1>s, <2>1 DEF Found, Typed, Roles
  <2> QED  BY <1>1, <1>2, <2>1, <2>2, <2>3, OnItsWay DEF Found
<1>4. CASE CancelFind(t)
  <2>1. req[t].op = "cancel" /\ pc[t] = "xfind" /\ Shared' = Shared
    BY <1>0, <1>4 DEF CancelFind, Typed, Roles
  <2>2. CASE s \in sessions
    <3>1. pc'[t] = "wait" /\ reply' = reply
      BY <1>0, <1>1, <1>4, <2>2, Constant DEF CancelFind, Goto, TypeOK
    <3> QED  BY <1>1, <1>2, <2>1, <3>1, OnItsWay DEF Found
  <2>3. CASE s \notin sessions
    <3>1. pc'[t] = "done" /\ reply'[t].kind = "gone" /\ req'[t].op = "cancel"
      BY <1>0, <1>1, <1>2, <1>4, <2>1, <2>3, Constant DEF CancelFind, Answer, Goto, TypeOK
    <3> QED  BY <3>1, AtTheEnd DEF Telling
  <2> QED  BY <2>2, <2>3
<1>5. CASE LockWait(t)
  <2>1. pc[t] = "wait" /\ pc'[t] = "drain" /\ reply' = reply /\ Shared' = Shared
    BY <1>0, <1>5, Constant DEF LockWait, Goto, TypeOK
  <2> QED  BY <1>1, <1>2, <1>s, <2>1, OnItsWay DEF Found
<1>6. CASE CancelLocked(t)
  <2>1. CASE Closed(s)
    <3>1. pc'[t] = "done" /\ reply'[t].kind = "gone" /\ req'[t].op = "cancel"
      BY <1>0, <1>1, <1>2, <1>6, <2>1, Constant DEF CancelLocked, Answer, Goto, TypeOK
    <3> QED  BY <3>1, AtTheEnd DEF Telling
  <2>2. CASE ~Closed(s)
    <3>1. pc'[t] = "close" /\ reply' = reply /\ req'[t].op = "cancel"
      BY <1>0, <1>1, <1>2, <1>6, <2>2, Constant DEF CancelLocked, Goto, TypeOK
    <3> QED  BY <1>2, <3>1, OnItsWay DEF Found
  <2> QED  BY <2>1, <2>2
<1>7. CASE CompleteLocked(t)
  <2>1. pc[t] = "drain" /\ Shared' = Shared /\ req[t].seen \subseteq entry[s].received
    <3>1. pc[t] = "drain" /\ req[t].op = "complete" /\ Shared' = Shared
      BY <1>7 DEF CompleteLocked, Drained
    <3> QED  BY <1>1, <1>2, <3>1 DEF Found
  <2>2. CASE Closed(s) /\ entry[s].result # NoName
    <3>1. Answer(t, "saved", entry[s].result, {})
      BY <1>1, <1>7, <2>2 DEF CompleteLocked
    <3> QED  BY <1>1, <1>2, <1>s, <2>1, <2>2, <3>1, SavedTruth
  <2>3. CASE Closed(s) /\ entry[s].result = NoName
    <3>1. Answer(t, "gone", NoName, {})
      BY <1>1, <1>7, <2>3 DEF CompleteLocked
    <3> QED  BY <1>1, <1>2, <1>s, <2>1, <2>3, <3>1, GoneTruth DEF Closed
  <2>4. CASE ~Closed(s) /\ ~AllReceived(s)
    <3>1. Answer(t, "missing", NoName, Missing(t))
      BY <1>1, <1>7, <2>4 DEF CompleteLocked
    <3>2. pc'[t] = "done" /\ reply'[t].kind = "missing" /\ reply'[t].chunks = Chunks(s) \ req[t].seen
      BY <1>0, <1>1, <3>1, Constant DEF Answer, Goto, TypeOK, Missing
    <3>3. Chunks(s) \ req[t].seen # {} /\ Chunks(s) \ entry[s].received \subseteq Chunks(s) \ req[t].seen
      BY <1>0, <1>2, <2>1, <2>4 DEF AllReceived, Received
    <3>4. s \in Used' /\ Chunks(s)' = Chunks(s) /\ entry' = entry
      BY <1>2, <1>s, <2>1 DEF Chunks, Used
    <3>5. Said(t)'
      BY <1>1, <1>2, <3>2, <3>3, <3>4 DEF Said
    <3> QED  BY <3>2, <3>5, AtTheEnd
  <2>5. CASE ~Closed(s) /\ AllReceived(s)
    <3>1. (Goto(t, "publish") /\ reply' = reply) \/ Answer(t, "failed", NoName, {})
      BY <1>1, <1>7, <2>5 DEF CompleteLocked
    <3>2. CASE Goto(t, "publish") /\ reply' = reply
      <4>1. pc'[t] = "publish"
        BY <1>0, <3>2, Constant DEF Goto, TypeOK
      <4> QED  BY <1>2, <3>2, <4>1, OnItsWay DEF Found
    <3>3. CASE Answer(t, "failed", NoName, {})
      <4>1. pc'[t] = "done" /\ reply'[t].kind = "failed"
        BY <1>0, <3>3, Constant DEF Answer, Goto, TypeOK
      <4> QED  BY <4>1, AtTheEnd DEF Telling
    <3> QED  BY <3>1, <3>2, <3>3
  <2> QED  BY <2>2, <2>3, <2>4, <2>5
<1>8. CASE CompletePublish(t)
  <2> DEFINE old == entry[s].final
  <2>1. PICK n : n = IF Free(old) THEN old ELSE conflictName(old, s, 2)
    OBVIOUS
  <2>2. n \in Name /\ n # NoName
    BY <1>0, <1>2, <2>1, NameType, NoNameAssumption DEF Typed, Named
  <2>3. \/ Goto(t, "remember") /\ reply' = reply /\ published' = [published EXCEPT ![s] = n]
        \/ Answer(t, "failed", NoName, {})
    BY <1>1, <1>8, <2>1 DEF CompletePublish
  <2>4. CASE Goto(t, "remember") /\ reply' = reply /\ published' = [published EXCEPT ![s] = n]
    <3>1. pc'[t] = "remember" /\ published'[s] = n
      BY <1>0, <1>2, <2>4, Constant DEF Goto, TypeOK
    <3> QED  BY <1>1, <1>2, <2>2, <2>4, <3>1, OnItsWay DEF Found
  <2>5. CASE Answer(t, "failed", NoName, {})
    <3>1. pc'[t] = "done" /\ reply'[t].kind = "failed"
      BY <1>0, <2>5, Constant DEF Answer, Goto, TypeOK
    <3> QED  BY <3>1, AtTheEnd DEF Telling
  <2> QED  BY <2>3, <2>4, <2>5
<1>9. CASE CompleteRemember(t)
  <2>1. pc'[t] = "close" /\ reply' = reply /\ published' = published /\ pc[t] = "remember"
    BY <1>0, <1>9, Constant DEF CompleteRemember, Goto, TypeOK, FileVars
  <2>2. req[t].op = "complete" /\ published[s] # NoName
    BY <1>0, <1>1, <1>2, <2>1 DEF Typed, Roles, Found
  <2> QED  BY <1>1, <1>2, <2>1, <2>2, OnItsWay DEF Found
<1>10. CASE CloseEntry(t)
  <2>1. pc'[t] = "clean" /\ reply' = reply /\ published' = published /\ pc[t] = "close"
    BY <1>0, <1>10, Constant DEF CloseEntry, Goto, TypeOK, FileVars
  <2>2. req[t].op = "complete" => published[s] # NoName
    BY <1>1, <1>2, <2>1 DEF Found
  <2>3. ASSUME req[t].op = "cancel" PROVE published[s] = NoName
    <3>1. ~entry[s].closed
      BY <1>1, <1>2, <2>1 DEF Holds
    <3>2. ASSUME NEW a \in Actor, pc[a] \in {"remember", "close"}, Completing(a), req[a].sid = s
          PROVE  FALSE
      BY <1>0, <1>1, <2>1, <2>3, <3>2, Constant DEF Exclusive, Completing, Owning, Deciding
    <3> QED  BY <1>0, <1>2, <3>1, <3>2 DEF Published, Finished, Finishing
  <2> QED  BY <1>1, <1>2, <2>1, <2>2, <2>3, OnItsWay DEF Found
<1>11. CASE CleanTemp(t)
  <2>1. pc[t] = "clean" /\ entry' = entry /\ published' = published /\ unused' = unused
    BY <1>11 DEF CleanTemp, RegistryVars
  <2>2. entry[s].closed
    BY <1>1, <1>2, <2>1 DEF Holds
  <2>3. CASE req[t].op = "complete"
    <3>1. Answer(t, "saved", entry[s].final, {})
      BY <1>1, <1>11, <2>3 DEF CleanTemp, SavedFilename
    <3>2. entry[s].final = published[s] /\ published[s] # NoName
      BY <1>0, <1>1, <1>2, <2>1, <2>3 DEF Found, Recorded
    <3>3. pc'[t] = "done" /\ reply'[t].kind = "saved" /\ reply'[t].name = entry[s].final
      BY <1>0, <3>1, Constant DEF Answer, Goto, TypeOK
    <3>4. Said(t)'
      BY <1>1, <1>2, <2>1, <3>2, <3>3 DEF Said, Used
    <3> QED  BY <3>3, <3>4, AtTheEnd
  <2>4. CASE req[t].op = "cancel"
    <3>1. \E k \in {"cancelled", "failed"} : Answer(t, k, NoName, {})
      BY <1>11, <2>4 DEF CleanTemp, CancelReplies
    <3>2. pc'[t] = "done" /\ reply'[t].kind \in {"cancelled", "failed"}
      BY <1>0, <3>1, Constant DEF Answer, Goto, TypeOK
    <3>3. published[s] = NoName
      BY <1>1, <1>2, <2>1, <2>4 DEF Found
    <3>4. Said(t)'
      BY <1>1, <1>2, <2>1, <2>2, <3>2, <3>3 DEF Said, Used
    <3> QED  BY <3>2, <3>4, AtTheEnd
  <2> QED  BY <1>2, <2>3, <2>4
<1> QED
  BY <1>3, <1>4, <1>5, <1>6, <1>7, <1>8, <1>9, <1>10, <1>11 DEF EndSession

\* One thread moves, the others stay where they are and say what they said.
LEMMA OneMoves ==
  ASSUME Typed, NEW t \in Thread, Arrive(t) \/ Serve(t), NEW u \in Thread \ {t}
  PROVE  Stays(u) /\ reply'[u] = reply[u]
<1>0. TypeOK
  BY DEF Typed
<1>1. /\ \E p : Goto(t, p)
      /\ req' = req \/ \E r : req' = [req EXCEPT ![t] = r]
      /\ reply' = reply \/ \E r : reply' = [reply EXCEPT ![t] = r]
  <2>1. CASE Arrive(t) \/ Respond(t)
    BY <2>1 DEF Arrive, InitSession, StartChunk, StartRequest, Respond, Answer
  <2>2. CASE WriteChunk(t)
    BY <2>2 DEF WriteChunk, ChunkFind, ChunkLock, ChunkBegin, ChunkAck, ChunkFail, Answer
  <2>3. CASE LookupUpload(t)
    <3>1. CASE LookPeek(t)
      BY <3>1 DEF LookPeek, Answer
    <3>2. CASE LookReceipt(t) \/ LookFind(t) \/ LookAgain(t)
      BY <3>2 DEF LookReceipt, LookFind, LookAgain, Answer
    <3> QED  BY <2>3, <3>1, <3>2 DEF LookupUpload
  <2>4. CASE EndSession(t) /\ ~CleanTemp(t)
    BY <2>4 DEF EndSession, CompleteFind, CancelFind, LockWait, CancelLocked, CompleteLocked,
      CompletePublish, CompleteRemember, CloseEntry, Answer
  <2>5. CASE CleanTemp(t)
    BY <1>0, <2>5 DEF CleanTemp, Answer, Typed, Roles
  <2> QED  BY <2>1, <2>2, <2>3, <2>4, <2>5 DEF Serve
<1> QED  BY <1>0, <1>1, Constant DEF Goto, Stays, TypeOK

\* Every step keeps what the requests know and say.
LEMMA TruthfulStep ==
  ASSUME Answering, [Next]_vars
  PROVE  Truthful'
<1>0. Safe /\ Typed /\ TypeOK /\ Truthful /\ Grow
  BY Growing DEF Answering, Safe, Typed
<1>1. ASSUME NEW t \in Thread, Arrive(t) \/ Serve(t) PROVE Truthful'
  <2>1. ASSUME NEW u \in Thread \ {t} PROVE Truth(u)'
    BY <1>0, <1>1, OneMoves, TruthKept DEF Truthful
  <2>2. Truth(t)'
    BY <1>0, <1>1, ArriveTruth, ChunkTruth, LookupTruth, EndTruth DEF Serve
  <2> QED  BY <2>1, <2>2 DEF Truthful
<1>2. ASSUME \A u \in Thread : Stays(u) /\ reply'[u] = reply[u] PROVE Truthful'
  BY <1>0, <1>2, TruthKept DEF Truthful
<1>3. CASE ExpireIdle
  <2>1. /\ reply' = reply
        /\ UNCHANGED <<pc, req>> \/ \E p : Goto(Cleaner, p)
        /\ req' = req \/ \E r : req' = [req EXCEPT ![Cleaner] = r]
    <3>1. CASE CleanTemp(Cleaner)
      BY <1>0, <3>1 DEF CleanTemp, Typed, Roles
    <3>2. CASE ~CleanTemp(Cleaner)
      BY <1>3, <3>2 DEF ExpireIdle, Scan, Sweep, CloseEntry
    <3> QED  BY <3>1, <3>2
  <2>2. \A u \in Thread : Stays(u)
    BY <1>0, <2>1, Constant DEF Goto, Stays, TypeOK
  <2> QED  BY <1>2, <2>1, <2>2
<1>4. CASE Environment /\ ~Restart
  BY <1>2, <1>4 DEF Environment, DeleteFile, ExternalFile, GoStale, ReceiptLapses, Stays
<1>5. CASE Restart
  <2>1. \A u \in Thread : pc'[u] = "idle" /\ reply'[u].kind = "none"
    BY <1>5, Constant DEF Restart, NoReply
  <2> QED  BY <2>1, OnItsWay DEF Truthful, Found
<1>6. CASE UNCHANGED vars
  BY <1>2, <1>6 DEF vars, Stays
<1> QED  BY <1>1, <1>3, <1>4, <1>5, <1>6 DEF Next

\* Before the first request nothing is reserved, remembered or said.
LEMMA AnsweringInit == Init => Answering
<1> SUFFICES ASSUME Init PROVE Reserved /\ Recorded /\ Truthful
  BY SafeInit DEF Answering
<1>1. /\ sessions = {} /\ names = {} /\ receipts = <<>>
      /\ \A s \in Sid : published[s] = NoName /\ entry[s].result = NoName
      /\ \A t \in Thread : pc[t] = "idle" /\ reply[t].kind = "none"
  BY Constant DEF Init, NewEntry, NoReply
<1>2. Reserved
  BY <1>1 DEF Reserved, NamesExact, Suffixed
<1>3. Recorded
  BY <1>1 DEF Recorded, Receipt
<1>4. Truthful
  BY <1>1 DEF Truthful, Truth, Telling, Found
<1> QED  BY <1>2, <1>3, <1>4

\* What the service tells its clients rests on this, whatever they ask in any order.
THEOREM AlwaysAnswering == Spec => []Answering
<1>1. Answering /\ [Next]_vars => Answering'
  BY SafeStep, ReservedStep, RecordedStep, TruthfulStep DEF Answering
<1> QED  BY <1>1, AnsweringInit, PTL DEF Spec

\* What it says of names, answers and progress.
LEMMA AnsweringImplies == Answering => NamesExact /\ AnswersTrue /\ ProgressHonest
<1> SUFFICES ASSUME Answering PROVE NamesExact /\ AnswersTrue /\ ProgressHonest
  OBVIOUS
<1>0. Reserved /\ Truthful /\ Received
  BY DEF Answering, Safe, Guarded
<1>1. ASSUME NEW t \in Thread, Telling(t) PROVE Said(t) /\ req[t].sid \in Sid
  BY <1>0, <1>1 DEF Truthful, Truth, Said, Used
<1>2. AnswersTrue
  BY <1>1 DEF AnswersTrue, SavedTruthful, CancelHonest, NoFalseGone, Telling, Said
<1>3. ProgressHonest
  BY <1>0, <1>1 DEF ProgressHonest, Telling, Said, Received
<1> QED  BY <1>0, <1>2, <1>3 DEF Reserved

\* The reserved names are those of the active sessions, one each.
THEOREM NamesAlwaysExact == Spec => []NamesExact
BY AlwaysAnswering, AnsweringImplies, PTL

\* What clients are told of the end of an upload is true, and stays true.
THEOREM AnswersAlwaysTrue == Spec => []AnswersTrue
BY AlwaysAnswering, AnsweringImplies, PTL

\* Progress names whole chunks only, and a list of missing ones leaves none out.
THEOREM AlwaysHonest == Spec => []ProgressHonest
BY AlwaysAnswering, AnsweringImplies, PTL

\* Publication never replaces a file that is there.
THEOREM NeverClobbers == Spec => NoClobber
<1>1. Safe /\ [Next]_vars => [\A n \in Name :
        disk'[n] \in Sid /\ disk'[n] # disk[n] => disk[n] = Absent]_vars
  <2> SUFFICES ASSUME Safe, [Next]_vars, NEW n \in Name, disk'[n] \in Sid, disk'[n] # disk[n]
               PROVE  disk[n] = Absent
    OBVIOUS
  <2>0. Typed /\ TypeOK
    BY DEF Safe, Typed
  <2>1. ASSUME NEW t \in Thread, Arrive(t) \/ WriteChunk(t) \/ LookupUpload(t) \/ Respond(t)
        PROVE  disk' = disk
    BY <2>1 DEF Arrive, InitSession, StartChunk, StartRequest, Respond, WriteChunk, ChunkFind,
      ChunkLock, ChunkBegin, ChunkAck, ChunkFail, LookupUpload, LookReceipt, LookFind, LookPeek,
      LookAgain, Shared, FileVars
  <2>2. ASSUME NEW t \in Thread, EndSession(t), ~CompletePublish(t) PROVE disk' = disk
    BY <2>2 DEF EndSession, CompleteFind, CancelFind, LockWait, CancelLocked, CompleteLocked,
      CompleteRemember, CloseEntry, CleanTemp, Shared, FileVars
  <2>3. ASSUME NEW t \in Thread, CompletePublish(t) PROVE disk[n] = Absent
    <3>1. PICK m : Free(m) /\ (disk' = disk \/ disk' = [disk EXCEPT ![m] = req[t].sid])
      BY <2>3 DEF CompletePublish
    <3> QED  BY <2>0, <3>1 DEF Free, TypeOK
  <2>4. CASE ExpireIdle
    BY <2>4 DEF ExpireIdle, Scan, Sweep, CloseEntry, CleanTemp, FileVars
  <2>5. ASSUME NEW m \in Name, DeleteFile(m) \/ ExternalFile(m) PROVE FALSE
    BY <2>0, <2>5, MarksAssumption DEF DeleteFile, ExternalFile, TypeOK
  <2>6. CASE ReceiptLapses \/ Restart \/ (\E s \in Sid : GoStale(s)) \/ UNCHANGED vars
    BY <2>6 DEF ReceiptLapses, Restart, GoStale, FileVars, vars
  <2> QED  BY <2>1, <2>2, <2>3, <2>4, <2>5, <2>6 DEF Next, Serve, Environment
<1> QED  BY <1>1, AlwaysSafe, PTL DEF Spec, NoClobber

-----------------------------------------------------------------------------
(* Temporary directories. *)

\* A directory stands for a session that is active or being cleaned up.
Standing(s) == s \in sessions \/ \E a \in Actor : pc[a] = "clean" /\ req[a].sid = s
Kept(s) == (Standing(s) => s \in temp) /\ ("io" \notin Faults /\ s \in temp => Standing(s))

\* A step of t that has nothing to do with directories.
Passes(t) == /\ sessions' = sessions /\ temp' = temp /\ pc[t] # "clean"
             /\ \E p : Goto(t, p) /\ p # "clean"
             /\ req' = req \/ \E r : req' = [req EXCEPT ![t] = r]

\* Every step keeps the directories in line with the sessions, but for those an
\* error leaves behind.
LEMMA TempStep ==
  ASSUME Safe, \A s \in Sid : Kept(s), [Next]_vars
  PROVE  \A s \in Sid : Kept(s)'
<1>0. Typed /\ TypeOK /\ Holding /\ Exclusive /\ Registered
  BY DEF Safe, Guarded, Typed
<1>1. SUFFICES ASSUME NEW s \in Sid PROVE Kept(s)'
  OBVIOUS
<1>2. ASSUME sessions' = sessions, temp' = temp,
             \A a \in Actor : Stays(a) \/ (pc[a] # "clean" /\ pc'[a] # "clean")
      PROVE  Kept(s)'
  BY <1>2 DEF Kept, Standing, Stays
<1>3. ASSUME NEW t \in Thread, InitSession(t) PROVE Kept(s)'
  <2>1. \A a \in Actor : Stays(a) \/ (pc[a] # "clean" /\ pc'[a] # "clean")
    BY <1>0, <1>3, Constant DEF InitSession, Answer, Goto, Stays, TypeOK
  <2>2. \/ sessions' = sessions /\ temp' = temp
        \/ \E r : sessions' = sessions \cup {r} /\ temp' = temp \cup {r}
    BY <1>3 DEF InitSession, RegistryVars, FileVars
  <2> QED  BY <2>1, <2>2 DEF Kept, Standing, Stays
<1>4. ASSUME NEW t \in Thread, (Arrive(t) \/ Serve(t)) /\ ~InitSession(t), ~CloseEntry(t), ~CleanTemp(t)
      PROVE  Kept(s)'
  <2>1. Passes(t)
    <3>1. CASE Arrive(t) \/ Respond(t)
      <4>1. CASE StartChunk(t) \/ Respond(t)
        <5>1. CASE StartChunk(t)
          <6>1. pc[t] = "idle" /\ sessions' = sessions /\ temp' = temp
            BY <5>1 DEF StartChunk, Shared, RegistryVars, FileVars
          <6>2. \/ Goto(t, "wfind") /\ \E r : req' = [req EXCEPT ![t] = r]
                \/ Goto(t, "done") /\ req' = req
            BY <5>1 DEF StartChunk, Answer
          <6> QED  BY <6>1, <6>2 DEF Passes
        <5>2. CASE Respond(t)
          <6>1. pc[t] = "done" /\ Goto(t, "idle") /\ req' = [req EXCEPT ![t] = NoRequest]
            BY <5>2 DEF Respond
          <6>2. sessions' = sessions /\ temp' = temp
            BY <5>2 DEF Respond, Shared, RegistryVars, FileVars
          <6>3. "idle" # "clean" /\ "done" # "clean"
            OBVIOUS
          <6>4. \E p : Goto(t, p) /\ p # "clean"
            BY <6>1, <6>3
          <6>5. \E r : req' = [req EXCEPT ![t] = r]
            BY <6>1
          <6> QED  BY <6>1, <6>2, <6>3, <6>4, <6>5 DEF Passes
        <5> QED  BY <4>1, <5>1, <5>2
      <4>2. CASE StartRequest(t)
        <5>1. PICK r \in Used, op \in Requests : /\ req' = [req EXCEPT ![t] = [NoRequest EXCEPT !.op = op, !.sid = r]]
                                       /\ Goto(t, IF op = "cancel" THEN "xfind" ELSE "look")
          BY <4>2 DEF StartRequest
        <5>2. Goto(t, "xfind") \/ Goto(t, "look")
          BY <5>1
        <5>3. pc[t] = "idle" /\ sessions' = sessions /\ temp' = temp
          BY <4>2 DEF StartRequest, Shared, RegistryVars, FileVars
        <5>4. \E p : Goto(t, p) /\ p # "clean"
          BY <5>2
        <5> QED  BY <5>1, <5>3, <5>4 DEF Passes
      <4> QED  BY <1>4, <3>1, <4>1, <4>2 DEF Arrive
    <3>2. CASE WriteChunk(t)
      BY <3>2 DEF WriteChunk, ChunkFind, ChunkLock, ChunkBegin, ChunkAck, ChunkFail, Answer,
        Shared, RegistryVars, FileVars, Passes
    <3>3. CASE LookPeek(t)
      BY <3>3 DEF LookPeek, Answer, Shared, RegistryVars, FileVars, Passes
    <3>4. CASE LookReceipt(t) \/ LookFind(t) \/ LookAgain(t)
      BY <3>4 DEF LookReceipt, LookFind, LookAgain, Answer, Shared, RegistryVars, FileVars, Passes
    <3>5. CASE CompleteFind(t)
      <4>1. /\ pc[t] = "cfind" /\ req' = req /\ sessions' = sessions /\ temp' = temp
            /\ Goto(t, IF req[t].sid \in sessions THEN "wait" ELSE "again")
        BY <3>5 DEF CompleteFind, Shared, RegistryVars, FileVars, Passes
      <4>2. Goto(t, "wait") \/ Goto(t, "again")
        BY <4>1
      <4> QED  BY <4>1, <4>2 DEF Passes
    <3>6. CASE CancelFind(t) \/ LockWait(t)
      BY <3>6 DEF CancelFind, LockWait, Answer, Shared, RegistryVars, FileVars, Passes
    <3>7. CASE CancelLocked(t) \/ CompleteLocked(t)
      BY <3>7 DEF CancelLocked, CompleteLocked, Drained, Answer, Shared, RegistryVars, FileVars, Passes
    <3>8. CASE CompletePublish(t) \/ CompleteRemember(t)
      <4>1. sessions' = sessions /\ temp' = temp /\ req' = req /\ pc[t] # "clean"
        BY <3>8 DEF CompletePublish, CompleteRemember, FileVars
      <4>2. Goto(t, "remember") \/ Goto(t, "done") \/ Goto(t, "close")
        BY <3>8 DEF CompletePublish, CompleteRemember, Answer
      <4> QED  BY <4>1, <4>2 DEF Passes
    <3>9. \/ Arrive(t) \/ Respond(t) \/ WriteChunk(t) \/ LookPeek(t)
          \/ LookReceipt(t) \/ LookFind(t) \/ LookAgain(t) \/ CompleteFind(t)
          \/ CancelFind(t) \/ LockWait(t) \/ CancelLocked(t) \/ CompleteLocked(t)
          \/ CompletePublish(t) \/ CompleteRemember(t)
      BY <1>4 DEF Serve, LookupUpload, EndSession
    <3> QED  BY <3>1, <3>2, <3>3, <3>4, <3>5, <3>6, <3>7, <3>8, <3>9
  <2>2. \A a \in Actor : Stays(a) \/ (pc[a] # "clean" /\ pc'[a] # "clean")
    BY <1>0, <2>1, Constant DEF Passes, Goto, Stays, TypeOK
  <2> QED  BY <1>2, <2>1, <2>2 DEF Passes
<1>5. ASSUME NEW a \in Actor, CloseEntry(a) PROVE Kept(s)'
  <2>1. /\ pc' = [pc EXCEPT ![a] = "clean"] /\ req' = req /\ temp' = temp /\ pc[a] = "close"
        /\ sessions' = sessions \ {req[a].sid}
    BY <1>5 DEF CloseEntry, Goto, FileVars
  <2>2. req[a].sid \in sessions
    BY <1>0, <2>1 DEF Holding, Holds, Registered, Typed, Ready
  <2> QED  BY <1>0, <2>1, <2>2 DEF Kept, Standing, TypeOK
<1>6. ASSUME NEW a \in Actor, CleanTemp(a) PROVE Kept(s)'
  <2>0. req[a].op \in {"complete", "cancel", "expire"}
    BY <1>0, <1>6, Constant DEF CleanTemp, Typed, Roles, Actor
  <2>1. /\ pc[a] = "clean" /\ sessions' = sessions
        /\ temp' = temp \ {req[a].sid} \/ ("io" \in Faults /\ temp' = temp)
        /\ \E p : Goto(a, p) /\ p # "clean"
        /\ req' = req \/ \E r : req' = [req EXCEPT ![a] = r]
    <3>1. /\ pc[a] = "clean" /\ sessions' = sessions
          /\ temp' = temp \ {req[a].sid} \/ ("io" \in Faults /\ temp' = temp)
      BY <1>6 DEF CleanTemp, RegistryVars
    <3>2. \/ req[a].op = "expire" /\ Goto(a, "idle") /\ req' = [req EXCEPT ![a] = NoRequest]
          \/ Goto(a, "done") /\ req' = req
      BY <1>6, <2>0 DEF CleanTemp, Answer
    <3> QED  BY <3>1, <3>2
  <2>2. req[a].sid \notin sessions
    BY <1>0, <2>1 DEF Holding, Holds, Registered, Typed, Ready
  <2>3. \A b \in Actor \ {a} : pc[b] = "clean" => req[b].sid # req[a].sid
    BY <1>0, <2>1 DEF Exclusive, Owning, Deciding
  <2>4. pc'[a] # "clean" /\ \A b \in Actor \ {a} : Stays(b)
    BY <1>0, <2>1 DEF Goto, Stays, TypeOK
  <2>5. (\E b \in Actor : pc'[b] = "clean" /\ req'[b].sid = s)
          <=> s # req[a].sid /\ \E b \in Actor : pc[b] = "clean" /\ req[b].sid = s
    BY <2>1, <2>3, <2>4 DEF Stays
  <2> QED  BY <2>1, <2>2, <2>5 DEF Kept, Standing
<1>7. CASE Scan \/ Sweep
  <2>1. \A a \in Actor : Stays(a) \/ (pc[a] # "clean" /\ pc'[a] # "clean")
    BY <1>0, <1>7, Constant DEF Scan, Sweep, Goto, Stays, TypeOK
  <2> QED  BY <1>2, <1>7, <2>1 DEF Scan, Sweep, RegistryVars, FileVars
<1>8. CASE (Environment /\ ~Restart) \/ UNCHANGED vars
  <2>1. sessions' = sessions /\ temp' = temp /\ pc' = pc /\ req' = req
    <3>1. CASE ReceiptLapses \/ UNCHANGED vars
      BY <3>1 DEF ReceiptLapses, vars, RegistryVars, FileVars
    <3>2. ASSUME NEW r \in Sid, GoStale(r) PROVE sessions' = sessions /\ temp' = temp /\ pc' = pc /\ req' = req
      BY <3>2 DEF GoStale, FileVars
    <3>3. ASSUME NEW n \in Name, DeleteFile(n) \/ ExternalFile(n)
          PROVE  sessions' = sessions /\ temp' = temp /\ pc' = pc /\ req' = req
      BY <3>3 DEF DeleteFile, ExternalFile, RegistryVars
    <3> QED  BY <1>8, <3>1, <3>2, <3>3 DEF Environment
  <2> QED  BY <1>2, <2>1 DEF Stays
<1>9. CASE Restart
  BY <1>9 DEF Restart, Kept, Standing
<1> QED
  <2>1. \/ \E t \in Thread : Arrive(t) \/ Serve(t)
        \/ Scan \/ Sweep \/ CloseEntry(Cleaner) \/ CleanTemp(Cleaner)
        \/ (Environment /\ ~Restart) \/ Restart \/ UNCHANGED vars
    BY DEF Next, ExpireIdle
  <2> QED  BY <1>3, <1>4, <1>5, <1>6, <1>7, <1>8, <1>9, <2>1, Constant

\* No session loses its temporary directory before it ends (CleanTemp), and none
\* outlives its session but one whose removal failed.
THEOREM TempAlwaysAccounted == Spec => []TempAccounted
<1> DEFINE Inv == \A s \in Sid : Kept(s)
<1>1. Init => Inv
  BY DEF Init, Kept, Standing
<1>2. Safe /\ Inv /\ [Next]_vars => Inv'
  BY TempStep
<1>3. Safe /\ Inv => TempAccounted
  <2> DEFINE standing == sessions \cup {req[a].sid : a \in {b \in Actor : pc[b] = "clean"}}
  <2> SUFFICES ASSUME Safe, Inv
               PROVE  standing \subseteq temp /\ ("io" \notin Faults => temp = standing)
    BY DEF TempAccounted
  <2>1. temp \subseteq Sid /\ standing \subseteq Sid
    BY DEF Safe, Typed, TypeOK, Ready, Used
  <2>2. \A s \in Sid : s \in standing <=> Standing(s)
    BY DEF Standing
  <2> QED  BY <2>1, <2>2 DEF Kept
<1> QED  BY <1>1, <1>2, <1>3, AlwaysSafe, PTL DEF Spec

\* The tables of the service fit together, whatever fails or crashes and whoever takes a
\* name at the last moment (CompleteSession, remove).
THEOREM RegistryAlwaysSound == Spec => []RegistrySound
<1>1. TypeOK /\ NamesExact /\ TempAccounted => RegistrySound
  BY DEF RegistrySound
<1> QED  BY <1>1, TypeCorrect, NamesAlwaysExact, TempAlwaysAccounted, PTL
=============================================================================
