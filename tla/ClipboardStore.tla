---------------------------- MODULE ClipboardStore ----------------------------
(***************************************************************************)
(* The shared clipboard (internal/service/clipboard.go, clipboard_file.go, *)
(* clipboard_image.go, clipboard_thumbnail.go) as the handlers of          *)
(* internal/handler/clipboard*.go drive it.                                *)
(*                                                                         *)
(* The list of entries lives twice: in memory, with the snapshot readers   *)
(* get, and in history.json.  Images are files beside it, thumbnails are   *)
(* in memory.  A change is cut into the steps between which the process    *)
(* may die:                                                                *)
(*                                                                         *)
(*   text, delete, clear   lock -> save -> memory -> drop                  *)
(*   image                 decode -> lock -> draft -> place -> save ...    *)
(*                         (a failed save goes through undo)               *)
(*   open                  open -> opening                                 *)
(*   thumbnail             look -> queue -> again -> open -> opening       *)
(*                              -> render                                  *)
(*                                                                         *)
(* s.mu, thumbnailMu and imageSlot are regions of pc: a writer holds s.mu  *)
(* from lock to the answer, a reader within one step or while opening.     *)
(***************************************************************************)
EXTENDS Integers, Sequences

CONSTANTS
  Client,      \* goroutines serving clipboard requests
  Id,          \* entry ids: the UUIDs the server will draw
  NoId,
  Size,        \* sizes of the images clients publish, once they are PNG
  MaxEntries,  \* ClipboardMaxEntries
  MaxTotal,    \* imageSettings.MaxTotalSizeMB
  Requests,    \* the requests clients send: a subset of
               \* {"text", "image", "delete", "clear", "list", "open", "thumb"}
  Faults       \* what may go wrong: a subset of {"write", "remove", "crash"}

ASSUME ClipboardIds == NoId \notin Id
ASSUME ClipboardLimits ==
  MaxEntries \in Nat \ {0} /\ MaxTotal \in Nat /\ Size \subseteq Nat \ {0}

VARIABLES
  pc,        \* where each goroutine stands
  job,       \* the request it serves and the locals of its handler
  answer,    \* the response it is about to send
  fresh,     \* ids not drawn yet
  entries,   \* s.entries
  snapshot,  \* s.body, with the etag that is a hash of it
  thumbs,    \* keys of s.thumbnails
  history,   \* history.json
  images,    \* ids with a PNG in the images directory
  scraps,    \* ids whose image is still an .image-*.tmp
  process,   \* "up", "down" after a crash, "refused" when startup failed
  told,      \* history: ids acknowledged to a client, or listed
  gone       \* history: ids taken off the list by a request that was committed

vars == <<pc, job, answer, fresh, entries, snapshot, thumbs, history, images,
          scraps, process, told, gone>>
-----------------------------------------------------------------------------
\* A text has size 0, as the Image of its entry is the zero value.
Entry == [id : Id, kind : {"text", "image"}, size : Size \cup {0}]
Op == {"none", "text", "image", "delete", "clear", "list", "open", "thumb"}
Pc == {"idle", "decode", "lock", "draft", "place", "save", "undo", "memory", "drop",
       "list", "open", "opening", "look", "queue", "again", "render", "done"}
Job == [op : Op, id : Id \cup {NoId}, size : Size \cup {0}, next : Seq(Entry),
        drop : SUBSET Id]
Kind == {"none", "created", "deleted", "listed", "picture", "notfound", "busy",
         "quota", "invalid", "failed"}

NoJob == [op |-> "none", id |-> NoId, size |-> 0, next |-> <<>>, drop |-> {}]

Ids(list) == {list[i].id : i \in 1 .. Len(list)}
ImageIds(list) == {list[i].id : i \in {j \in 1 .. Len(list) : list[j].kind = "image"}}
Without(list, id) ==
  LET at == CHOOSE i \in 1 .. Len(list) : list[i].id = id IN
  SubSeq(list, 1, at - 1) \o SubSeq(list, at + 1, Len(list))
\* Or the list grows without a bound.
NewestUncapped(e, list) == <<e>> \o list
Newest(e, list) ==
  <<e>> \o (IF Len(list) < MaxEntries THEN list ELSE SubSeq(list, 1, MaxEntries - 1))
Total(list) ==
  LET total[n \in 0 .. Len(list)] == IF n = 0 THEN 0 ELSE total[n - 1] + list[n].size IN
  total[Len(list)]

Init ==
  /\ pc = [c \in Client |-> "idle"]
  /\ job = [c \in Client |-> NoJob]
  /\ answer = [c \in Client |-> "none"]
  /\ fresh = Id
  /\ entries = <<>> /\ snapshot = <<>> /\ history = <<>>
  /\ thumbs = {} /\ images = {} /\ scraps = {}
  /\ process = "up"
  /\ told = {} /\ gone = {}
-----------------------------------------------------------------------------
Writing == {"draft", "place", "save", "undo", "memory", "drop"}
\* s.mu can be taken for reading, or for writing: wrongly if rendering held it.
MuReadable == \A c \in Client : pc[c] \notin Writing
MuFreeOfRendering == \A c \in Client : pc[c] \notin Writing \cup {"opening", "render"}
MuFree == \A c \in Client : pc[c] \notin Writing \cup {"opening"}
Rendering(c) == job[c].op = "thumb" /\ pc[c] \in {"open", "opening", "render"}
ThumbnailMuFree == \A c \in Client : pc[c] # "again" /\ ~Rendering(c)
\* imageSlot, a channel of capacity one, holds nobody's token.
SlotFree == \A c \in Client :
  /\ pc[c] # "decode" /\ ~Rendering(c)
  /\ ~(job[c].op = "image" /\ pc[c] \in Writing \cup {"lock"})

Goto(c, p) == pc' = [pc EXCEPT ![c] = p]
Answer(c, kind) == Goto(c, "done") /\ answer' = [answer EXCEPT ![c] = kind]

Memory == <<entries, snapshot, thumbs>>
Disk == <<history, images, scraps>>
Ghost == <<told, gone>>
-----------------------------------------------------------------------------
(* Requests *)

\* Text is validated before any lock, an image waits for no slot, and ids come
\* from clients, of entries that were once listed.
Request(c) ==
  /\ process = "up" /\ pc[c] = "idle"
  /\ \/ /\ "text" \in Requests
        /\ \/ \E i \in fresh : /\ job' = [job EXCEPT ![c] = [NoJob EXCEPT !.op = "text", !.id = i]]
                               /\ fresh' = fresh \ {i}
                               /\ Goto(c, "lock") /\ UNCHANGED answer
           \/ Answer(c, "invalid") /\ UNCHANGED <<job, fresh>>
     \/ /\ "image" \in Requests
        /\ \/ SlotFree /\ Goto(c, "decode")
                       /\ job' = [job EXCEPT ![c] = [NoJob EXCEPT !.op = "image"]]
                       /\ UNCHANGED <<answer, fresh>>
           \/ ~SlotFree /\ Answer(c, "busy") /\ UNCHANGED <<job, fresh>>
     \/ \E i \in Id \ fresh, op \in Requests \cap {"delete", "open", "thumb"} :
          /\ job' = [job EXCEPT ![c] = [NoJob EXCEPT !.op = op, !.id = i]]
          /\ Goto(c, CASE op = "delete" -> "lock" [] op = "open" -> "open" [] OTHER -> "look")
          /\ UNCHANGED <<answer, fresh>>
     \/ \E op \in Requests \cap {"clear", "list"} :
          /\ job' = [job EXCEPT ![c] = [NoJob EXCEPT !.op = op]]
          /\ Goto(c, IF op = "clear" THEN "lock" ELSE "list")
          /\ UNCHANGED <<answer, fresh>>
  /\ UNCHANGED <<Memory, Disk, process, Ghost>>

Respond(c) ==
  /\ pc[c] = "done"
  /\ Goto(c, "idle")
  /\ job' = [job EXCEPT ![c] = NoJob]
  /\ answer' = [answer EXCEPT ![c] = "none"]
  /\ UNCHANGED <<fresh, Memory, Disk, process, Ghost>>

\* The body is read, checked, decoded and encoded again as PNG.
Decode(c) ==
  /\ pc[c] = "decode"
  /\ \/ Answer(c, "invalid") /\ UNCHANGED <<job, fresh>>
     \/ \E i \in fresh, z \in Size :
          /\ job' = [job EXCEPT ![c].id = i, ![c].size = z]
          /\ fresh' = fresh \ {i}
          /\ Goto(c, "lock") /\ UNCHANGED answer
  /\ UNCHANGED <<Memory, Disk, process, Ghost>>
-----------------------------------------------------------------------------
(* Changes, under s.mu *)

WithinQuota(list) == Total(list) <= MaxTotal

Change(c, next, p) ==
  /\ job' = [job EXCEPT ![c].next = next, ![c].drop = ImageIds(entries) \ Ids(next)]
  /\ Goto(c, p)
  /\ UNCHANGED answer

\* Create, CreateImage, Delete and Clear: what the list is to become.
Lock(c) ==
  LET entry == [id |-> job[c].id, kind |-> job[c].op, size |-> job[c].size]
      added == Newest(entry, entries)
  IN
  /\ pc[c] = "lock" /\ MuFree
  /\ \/ job[c].op = "text" /\ Change(c, added, "save")
     \/ job[c].op = "image" /\ WithinQuota(added) /\ Change(c, added, "draft")
     \/ job[c].op = "image" /\ ~WithinQuota(added) /\ Answer(c, "quota") /\ UNCHANGED job
     \/ /\ job[c].op = "delete" /\ job[c].id \in Ids(entries)
        /\ Change(c, Without(entries, job[c].id), "save")
     \/ /\ job[c].op = "delete" /\ job[c].id \notin Ids(entries)
        /\ Answer(c, "notfound") /\ UNCHANGED job
     \/ job[c].op = "clear" /\ Change(c, <<>>, "save")
  /\ UNCHANGED <<fresh, Memory, Disk, process, Ghost>>

\* After an error nothing was changed, and an image is taken back; or the error
\* is ignored.
PlaceErrorIgnored(c) == Goto(c, "save") /\ UNCHANGED answer
PlaceFailed(c) == Answer(c, "failed")
SaveErrorIgnored(c) == Goto(c, "memory") /\ UNCHANGED answer
SaveFailed(c) == IF job[c].op = "image" THEN Goto(c, "undo") /\ UNCHANGED answer
                                        ELSE Answer(c, "failed")

\* writeClipboardFile for the image: a temporary file is created ...
DraftImage(c) ==
  /\ pc[c] = "draft"
  /\ scraps' = scraps \cup {job[c].id}
  /\ Goto(c, "place")
  /\ UNCHANGED <<job, answer, fresh, Memory, history, images, process, Ghost>>

\* ... written, synced and renamed; after an error it is removed again,
\* which may fail as well.
PlaceImage(c) ==
  /\ pc[c] = "place"
  /\ \/ images' = images \cup {job[c].id} /\ scraps' = scraps \ {job[c].id}
        /\ Goto(c, "save") /\ UNCHANGED answer
     \/ /\ "write" \in Faults /\ PlaceFailed(c) /\ UNCHANGED images
        /\ \/ scraps' = scraps \ {job[c].id}
           \/ "remove" \in Faults /\ UNCHANGED scraps
  /\ UNCHANGED <<job, fresh, Memory, history, process, Ghost>>

\* save: history.json is replaced by a rename, or stays as it was.
Save(c) ==
  /\ pc[c] = "save"
  /\ \/ /\ history' = job[c].next
        /\ gone' = gone \cup (Ids(history) \ Ids(job[c].next))
        /\ Goto(c, "memory") /\ UNCHANGED answer
     \/ /\ "write" \in Faults /\ SaveFailed(c)
        /\ UNCHANGED <<history, gone>>
  /\ UNCHANGED <<job, fresh, Memory, images, scraps, process, told>>

\* The image of an entry that could not be saved is removed.
UndoImage(c) ==
  /\ pc[c] = "undo"
  /\ \/ images' = images \ {job[c].id}
     \/ "remove" \in Faults /\ UNCHANGED images
  /\ Answer(c, "failed")
  /\ UNCHANGED <<job, fresh, Memory, history, scraps, process, Ghost>>

\* commit: memory follows the disk.
PublishChange(c) ==
  /\ pc[c] = "memory"
  /\ entries' = job[c].next /\ snapshot' = job[c].next
  /\ Goto(c, "drop")
  /\ UNCHANGED <<job, answer, fresh, thumbs, Disk, process, Ghost>>

\* The images nobody refers to any more go one by one; one that cannot be
\* removed is left for the next start.
DropImage(c) ==
  /\ pc[c] = "drop"
  /\ \E i \in job[c].drop :
       /\ job' = [job EXCEPT ![c].drop = @ \ {i}]
       /\ thumbs' = thumbs \ {i}
       /\ \/ images' = images \ {i}
          \/ "remove" \in Faults /\ UNCHANGED images
  /\ UNCHANGED <<pc, answer, fresh, entries, snapshot, history, scraps, process, Ghost>>

FinishChange(c) ==
  LET new == IF job[c].op \in {"text", "image"} THEN {job[c].id} ELSE {} IN
  /\ pc[c] = "drop" /\ job[c].drop = {}
  /\ thumbs' = IF job[c].op = "image" THEN thumbs \cup new ELSE thumbs
  /\ Answer(c, IF new # {} THEN "created" ELSE "deleted")
  /\ told' = told \cup new
  /\ UNCHANGED <<job, fresh, entries, snapshot, Disk, process, gone>>
-----------------------------------------------------------------------------
(* Reading *)

\* The entry is looked up, or taken to be where it was.
ListedBefore(id) == TRUE
StillListed(id) == id \in ImageIds(entries)

\* Snapshot: the body and its validator belong together.
List(c) ==
  /\ pc[c] = "list" /\ MuReadable
  /\ Answer(c, "listed")
  /\ told' = told \cup Ids(snapshot)
  /\ UNCHANGED <<job, fresh, Memory, Disk, process, gone>>

\* OpenImage keeps the read lock from finding the entry to opening its file.
OpenFind(c) ==
  /\ pc[c] = "open" /\ MuReadable
  /\ IF StillListed(job[c].id) THEN Goto(c, "opening") /\ UNCHANGED answer
                               ELSE Answer(c, "notfound")
  /\ UNCHANGED <<job, fresh, Memory, Disk, process, Ghost>>

OpenFile(c) ==
  /\ pc[c] = "opening"
  /\ IF job[c].op = "thumb" /\ job[c].id \in images
       THEN Goto(c, "render") /\ UNCHANGED answer
       ELSE Answer(c, IF job[c].id \in images THEN "picture" ELSE "failed")
  /\ UNCHANGED <<job, fresh, Memory, Disk, process, Ghost>>

\* Thumbnail: most requests find it in memory,
ThumbnailLook(c) ==
  /\ pc[c] = "look" /\ MuReadable
  /\ IF job[c].id \in thumbs THEN Answer(c, "picture")
                             ELSE Goto(c, "queue") /\ UNCHANGED answer
  /\ UNCHANGED <<job, fresh, Memory, Disk, process, Ghost>>

\* ... the others take thumbnailMu, one after the other,
ThumbnailQueue(c) ==
  /\ pc[c] = "queue" /\ ThumbnailMuFree
  /\ Goto(c, "again")
  /\ UNCHANGED <<job, answer, fresh, Memory, Disk, process, Ghost>>

\* ... look once more, and take the decoder's slot if it is free.
ThumbnailAgain(c) ==
  /\ pc[c] = "again" /\ MuReadable
  /\ \/ job[c].id \in thumbs /\ Answer(c, "picture")
     \/ job[c].id \notin thumbs /\ ~SlotFree /\ Answer(c, "busy")
     \/ job[c].id \notin thumbs /\ SlotFree /\ Goto(c, "open") /\ UNCHANGED answer
  /\ UNCHANGED <<job, fresh, Memory, Disk, process, Ghost>>

\* The picture is decoded with no lock but thumbnailMu and the slot, from a
\* handle that outlives the file's name.  Meanwhile the entry may have gone.
ThumbnailStore(c) ==
  /\ pc[c] = "render" /\ MuFree
  /\ IF StillListed(job[c].id)
       THEN thumbs' = thumbs \cup {job[c].id} /\ Answer(c, "picture")
       ELSE Answer(c, "notfound") /\ UNCHANGED thumbs
  /\ UNCHANGED <<job, fresh, entries, snapshot, Disk, process, Ghost>>
-----------------------------------------------------------------------------
(* The process dies, and starts again *)

Crash ==
  /\ "crash" \in Faults /\ process = "up"
  /\ process' = "down"
  /\ pc' = [c \in Client |-> "idle"]
  /\ job' = [c \in Client |-> NoJob]
  /\ answer' = [c \in Client |-> "none"]
  /\ entries' = <<>> /\ snapshot' = <<>> /\ thumbs' = {}
  /\ UNCHANGED <<fresh, Disk, Ghost>>

Loadable == /\ Len(history) <= MaxEntries
            /\ ImageIds(history) \subseteq images

\* NewClipboardService: the history is checked against the images, then those
\* it does not name are removed, with what is left of unfinished ones.
Start ==
  /\ process = "down"
  /\ IF Loadable
       THEN /\ process' = "up"
            /\ entries' = history /\ snapshot' = history
            /\ \/ images' = ImageIds(history) /\ scraps' = {}
               \/ "remove" \in Faults /\ UNCHANGED <<images, scraps>>
       ELSE /\ process' = "refused"
            /\ UNCHANGED <<entries, snapshot, images, scraps>>
  /\ UNCHANGED <<pc, job, answer, fresh, thumbs, history, Ghost>>
-----------------------------------------------------------------------------
Mutate(c) == Decode(c) \/ Lock(c) \/ DraftImage(c) \/ PlaceImage(c) \/ Save(c)
               \/ UndoImage(c) \/ PublishChange(c) \/ DropImage(c) \/ FinishChange(c)
Thumbnail(c) == ThumbnailLook(c) \/ ThumbnailQueue(c) \/ ThumbnailAgain(c)
                  \/ ThumbnailStore(c)
Serve(c) == Mutate(c) \/ List(c) \/ OpenFind(c) \/ OpenFile(c) \/ Thumbnail(c) \/ Respond(c)

Next == \/ \E c \in Client : Request(c) \/ Serve(c)
        \/ Crash \/ Start

Spec == Init /\ [][Next]_vars

\* Go's mutexes are starvation-free, and a request body ends: ReadTimeout.
FairSpec == Spec /\ \A c \in Client : SF_vars(Serve(c))
-----------------------------------------------------------------------------
(* Properties *)

\* Type invariant: what every variable may hold.
TypeOK ==
  /\ pc \in [Client -> Pc]
  /\ job \in [Client -> Job]
  /\ answer \in [Client -> Kind]
  /\ fresh \subseteq Id
  /\ entries \in Seq(Entry) /\ snapshot \in Seq(Entry) /\ history \in Seq(Entry)
  /\ thumbs \subseteq Id /\ images \subseteq Id /\ scraps \subseteq Id
  /\ process \in {"up", "down", "refused"}
  /\ told \subseteq Id /\ gone \subseteq Id

\* Whenever the process dies, every image that history.json names is on disk:
\* the next start accepts the history (commit, CreateImage).
HistoryBacked == ImageIds(history) \subseteq images /\ process # "refused"

\* An entry a client was told of, by an acknowledgement or in a list, is in
\* history.json until a request that was itself saved takes it away: no crash,
\* no failed save and no rollback makes it vanish, or bring back one removed.
ToldDurable == told \subseteq (Ids(history) \cup gone) /\ gone \cap Ids(history) = {}

\* With nobody changing it, the list in memory is the one on disk, and what
\* the images directory holds is exactly the images it names, whatever was
\* rolled back, evicted or interrupted before.
ImagesAccounted ==
  process = "up" /\ MuReadable /\ "remove" \notin Faults =>
    entries = history /\ images = ImageIds(entries) /\ scraps = {}

\* The images of the history fit the quota, also when several are published
\* at a time.
QuotaKept == Total(history) <= MaxTotal

\* The thumbnails kept in memory are those of listed images, so their number
\* is bounded: none comes back for an entry deleted while it was rendered.
ThumbnailsListed == MuReadable => thumbs \subseteq ImageIds(entries)

\* An image in the list can be opened, for as long as it is listed.
ImagesOpen == \A c \in Client :
  job[c].op \in {"open", "thumb"} => answer[c] # "failed"

\* What is on disk is a history the service may have, and can start with.
StoreSound == TypeOK /\ HistoryBacked /\ QuotaKept

\* Images and thumbnails are there exactly as long as the list names them.
ImagesTrue == ImagesAccounted /\ ThumbnailsListed /\ ImagesOpen

\* Every request is answered: s.mu, thumbnailMu and the decoder's slot are
\* never waited for in a circle, and what one request holds the others get.
Answered == \A c \in Client : pc[c] # "idle" ~> pc[c] = "idle"
-----------------------------------------------------------------------------
(* Refinement: the list a client relies on is the one on disk. *)
Promise == INSTANCE ClipboardPromise WITH list <- history

\* The list changes by whole operations only, at the rename in save, and the
\* bound on its length is kept.
PromiseKept == Promise!Spec
=============================================================================
