# gothrough in TLA+

A verification development of the file-transfer server and its web interface in
`src/`: TLA+ models of their stateful parts, TLC configurations that check them on
small instances, and TLAPS proofs about the services for every size of
instance.

* [Inventory](#inventory): what the system consists of and what is hard about it
* [Modules](#modules): which module models which code, and how
* [Runs](#runs): what each configuration checks and shows, with its bounds
* [Fairness](#fairness)
* [Proofs](#proofs): what holds for every value of the constants, and why
* [Divergences](#divergences) between the documentation and the code
* [Limits](#limits): abstractions, and what is not modelled
* [Plan](#plan)

`PROJECT.json` lists the components, runs, mutations, source lines of every
definition, hazards and theorems in machine-readable form.

## Inventory

The server is one Go process: an HTTP router with one goroutine per request, two
services that own all durable state (`internal/service`), one ticker goroutine
(`cmd/main.go`), and a React client embedded in the binary. There is no database:
the upload directory, the clipboard directory and the log directory are the
persistent state. Everything else is lost when the process stops.

| Component | State | Operations | Correct when |
|---|---|---|---|
| **Upload sessions** `service/upload_session.go`, `upload_state.go`, `completion.go`, `handler/upload.go` | `sessions`, `names`, per session: `lifecycle` RWMutex, block mutexes, `received`, `closed`, `result`, payload file, temporary directory; receipts (`completed`) | InitSession, WriteChunk, LookupUpload, CompleteSession, CancelSession, ExpireIdle, GetCompletion, restart | nothing acknowledged is lost or overwritten; a file appears whole, once, without replacing another; every client is told what really happened; nothing is left behind; no request hangs |
| **Upload directories** `service/folder.go`, `files.go` | `createdDirs`, the directory tree | prepareParent, cleanupParents (from init, publish, remove, DeleteFile) | parents exist while needed; exactly the service's own empty directories go |
| **Shared clipboard** `service/clipboard*.go`, `handler/clipboard*.go` | `entries`, `body`/etag snapshot, `history.json`, image files, thumbnails, decoder slot | Create, CreateImage, Delete, Clear, Snapshot, OpenImage, Thumbnail, startup | a crash at any point leaves a history that loads; what was acknowledged survives; images, thumbnails and quota match the list |
| File listing, editing, deletion `service/file_listing.go`, `text.go`, `files.go` | listing cache with expiry, files, temporary files of edits | ListFiles, DeleteFile, SaveText, previews | a cached list never hides a change beyond its bound; an edit never overwrites another |
| **Upload client** `frontend/src/hooks/useUploadQueue.ts`, `features/upload/engine.ts`, `services/upload.ts`, `pages/Upload` | the queue, the run and its file workers, the session and chunks of each transfer, pause, requests under way | choose, drop, start, pause, resume, cancel, remove, reset, retry; claim, send and repeat chunks; complete, confirm, clean up | what the page says is what the server holds; a retry never saves a file twice; a cancelled transfer leaves no session; Stop and Pause are obeyed; every run ends |
| **Remote data of the pages** `hooks/useRemoteData.ts`, `useAutoRefresh.ts`, `services/conditional.ts` | the latest request, data, spinner, entity tag, timer | load, poll, cancel, settle, hide, show | an old answer never replaces a newer state; polling stops and goes on when it should |
| **Clipboard page, files page** `pages/Clipboard`, `pages/Files` | the list shown, what is asked, copied, previewed or deleted; directory, search and page of the list | publish, delete, clear, copy, preview, refresh; open a directory, search, turn the page | what was deleted stays away; a page left alone becomes current; every file can be found |
| **Text editor, drafts, access gate** `components/FilePreview.tsx`, `AccessGate.tsx`, `contexts/EditorDraft*` | draft and the version it began from, the questions before it is given up, a blocked navigation, whether the session is valid | load, type, save, reload, discard, navigate; lock, unlock | no draft is lost by accident, nor saved over what its user has not seen |
| Access control of the server `router/auth.go` | sessions, login buckets | login, logout, check, evict | limits hold, evictions are fair |
| Downloads and archives `handler/download.go`, `service/folder_archive.go` | slot counter, deadlines | stream | slots are returned |
| Logging `logging/rotate.go` | current file, size, numbered files | write, rotate | a failed rename loses no record |
| Startup and shutdown `cmd/main.go`, `app/storage.go` | | listen, tick, drain, close | leftovers of a dead process are removed |
| Names and probes `utils/*.go`; routing and assets; interface components | none | | |

**Interactions.** Handlers call the services synchronously, under the request's
goroutine. The upload service's goroutines meet in three kinds of lock: `s.mu`
(registry and names, and every change of the directory tree), `entry.lifecycle`
(streams read, whoever ends the session writes) and `entry.blocks` (two bodies
for one block). The ticker calls `ExpireIdle`, which may only `TryLock`. The
clipboard has `s.mu`, `thumbnailMu` and the decoder's slot `imageSlot`, which are
taken in different orders by different requests. Uploads, deletions, the editor
and programs outside the server share the upload directory without any lock.
In the browser there is one thread: a handler or a continuation runs from one
`await` to the next, and everything else may happen in between. The queue's
workers meet in mutable refs (`runRef`, `globalPausedRef`, the items) and in
`wakeWaiters`; a page and its polls meet in `request.current`. The router shows
one page at a time. The queue and the draft live above the routes, the draft also
above the access gate, which unmounts everything else when any request is answered
401.

**What is hard.** A session is found under one lock and used under another; the
wait between them can be long, because a chunk's body streams at the client's
pace with the lifecycle lock held. Completion removes the session it has just
turned into a receipt, so that a lookup must ask twice. Bodies break off, are
sent again, and arrive twice at a time. Publication gives up its name when
another program took it. Directories are shared between uploads that end in any
order. The clipboard changes two files and memory in turn, any of which may
fail, and the process may die between any two steps. The browser does not know
whether a request whose answer is missing was served, is still on its way or is
lost, and must not guess: not when it repeats a completion, not when it cleans up a
session whose initialization it no longer waits for. The lists of the pages are
edited locally, polled with entity tags and loaded again around mutations, while
answers that were given up on still arrive. `hazards` in
`PROJECT.json` gives each of these its line and the properties that watch it.

## Modules

| Module | Models | Extends / composes |
|---|---|---|
| `UploadSessions` | the upload service under its handlers, sweeper, restart | instance of `UploadPromise` as `Promise` |
| `UploadPromise` | what the upload API promises of one id | |
| `UploadProofs` | proof of the types, the inductive invariant and what follows from it; the step properties, the refinement, and the truth of answers | `UploadSessions` |
| `UploadPaths` | directories of folder uploads | |
| `PathsProofs` | proof that directories stand while needed and go when not | `UploadPaths` |
| `ClipboardStore` | the clipboard: memory, disk, thumbnails, restart | instance of `ClipboardPromise` as `Promise` |
| `ClipboardPromise` | a list that changes by whole operations | |
| `ClipboardProofs` | proof that the history is whole, durable and has its images; the refinement | `ClipboardStore` |
| `FileListing` | the cached listing, deletion, publication as a writer, the text editor | |
| `ListingProofs` | proof of its types, of fresh listings, of edits that lose nothing and of their hidden files | `FileListing` |
| `UploadClient` | the browser's side of an upload, over a network that loses and delays | instance of `UploadPromise` as `Promise`: its server |
| `ClientProofs` | proof that the page and the server agree | `UploadClient` |
| `RemoteData` | fetching and polling | |
| `ClipboardPage` | the clipboard page beside other devices | instance of `RemoteData` |
| `FilesPage` | the files page beside other devices | two instances of `RemoteData` |
| `TextEditor` | the editor, its draft, the gate and navigation | |
| `EditorProofs` | proof that drafts are kept, and saved over what their user has seen | `TextEditor` |
| `FileBrowser` | what the files page makes of its list | |
| `BrowserProofs` | proof that every file can be reached, and is on one page | `FileBrowser` |
| `MCInterface` | the interface: one page at a time, with the fairness of each | `UploadClient`, instances of the four pages |
| `InterfaceProofs` | proof that the lists are true, their spinners too, drafts are kept, and the directories shown are there | `MCInterface`, instances of `EditorProofs` and `BrowserProofs` |
| `MCUpload`, `MCPaths`, `MCClipboard`, `MCListing`, `MCClient` | model values, folds, targets and symmetry for TLC | the module they name |

### UploadSessions

*Goroutines.* `pc` says where each goroutine stands and `req` holds its request
and locals. A handler is cut exactly where it holds no lock that protects what
it read, or waits for one; what the code does inside one critical section is one
action. The locks themselves are not variables:

| Lock | Held by a goroutine at |
|---|---|
| `entry.lifecycle`, shared | `wblock`, `copy`, `discard` (`Streams`) |
| `entry.lifecycle`, exclusive | `publish`, `remember`, `close`, `clean`; `drain` owns the writer's slot, which already bars new readers, and waits for the old ones (`Owners`) |
| `entry.blocks[i % n]` | `copy`, `discard` (`BlockHeld`) |
| a slot of `chunkSlots` | every `w...` region, `copy`, `discard` (`Slots`) |
| `s.mu` | nobody between actions |

So a `sync.RWMutex` is modelled with its two phases: `LockWait` announces the
writer, `Drained` waits for the streams. `LookPeek` shares the lock within its
one step.

*Handlers.* `InitSession`; `WriteChunk` = `ChunkFind`, `ChunkLock`, `ChunkBegin`,
then `ChunkAck` or `ChunkFail`; `LookupUpload` = `LookReceipt`, `LookFind`,
`LookPeek`, `LookAgain`; `CompleteSession` = `CompleteFind`, `LockWait`,
`CompleteLocked`, `CompletePublish`, `CompleteRemember`, `CloseEntry`,
`CleanTemp`; `CancelSession` shares the end of that path; `ExpireIdle` = `Scan`,
then `Sweep` per entry, `CloseEntry`, `CleanTemp`. Around them: files deleted
through the API, files that others put under a name, a day without a chunk
(`GoStale`), an hour since a receipt (`ReceiptLapses`), and `Restart`.

*Data.* A chunk's body is a model value of `Data`; a block of the payload that
holds no complete body is a `Hole`: a torn or running write is a hole whatever
it managed to write. A name is its sanitized base with the suffix a conflict
gave it, and `Fold` is the lower-casing of `nameKey`. `disk` tells whose inode a
name links to, because publication is a hard link. Receipts all live an hour,
so they lapse in the order they were written. `published` and `forgotten` are
history variables.

### UploadPaths

All of `InitSession`'s reservation, `prepareParent` and `cleanupParents` run
under `s.mu`, so each operation is one action; other programs make, move and
remove entries between any two. `dirs` gives every directory an inode, so that
`os.SameFile` can be modelled, and `Reuse` says whether the file system gives a
freed inode out again. `mkdir` may fail at any level, which leaves the levels
above it, and a publication may fail after its parents were prepared, with its name
exchanged or not. Directories keep their case, reserved names lose it (`Fold`). The loop of `cleanupParents` is written as the set of directories it
reaches and passes, from the deepest upwards. `mine` and `spent` are history.

### ClipboardStore

A change of the list is the sequence the code performs (`Lock`, `DraftImage`,
`PlaceImage`, `Save`, `PublishChange`, `DropImage`, `FinishChange`, or
`UndoImage` after a failed save), and the process may die between any two.
`entries` and `snapshot` are memory, `history` is `history.json`, `images` and
`scraps` the files of the images directory. `Start` refuses a history that names
a missing image, as the code does. A thumbnail takes `thumbnailMu`, then the
decoder's slot, and takes the list's lock again after it rendered without it.

### FileListing

A listing is a scan that takes its time under `listingMu` (`ScanNames`, one
`ScanFile` per file, `ScanEnd`), while files change below it. The three writers
differ in what they hold: `Delete` keeps `s.mu` through `Forget`, `Publish`
gives it up before, and an edit holds `s.mu` from `Compare` and `listingMu` from
`Draft` to `Swap`. Every change of a file counts its `version`, so that what a
list shows (`look`) can be compared with what was promised when it was asked
for (`req.since`): the changes a client was told of, what had happened
when the cache last ran out (both in `due`), or everything when nothing was
cached. `left` bounds the changes, `by` and `orphans` are history. Directories
are left out (a scan reads all names at once), as are files that are no text.

### UploadClient

The server here is `UploadPromise`, which `UploadSessions` is proved to implement,
with the receipts that `LookupUpload` answers from: the two modules together are the
whole of an upload. `wire` holds requests that the server has not seen. A request stays there
when its sender has given up on it (`late`), and whoever sent it cannot tell this
from an answer that was lost, so lost answers need no action of their own.

`job` says where each file worker of the run stands, `lane` where each chunk worker
of its transfer does; an action is what JavaScript runs between two `await`s.
`WorkerBegins` is `uploadFileChunked` and `transferFile` up to the first request,
`Opened` the continuation of the initialization, `Fails` the catch block: the
session is cancelled, and forgotten with the answer, unless a completion was asked
for and may have been done (`completionPending`, here `pending`). `Stopped` and
`Active` are `isStopped` and `checkActive`; `ctrl` is the item's upload controller,
aborted by the user or by the first chunk worker that failed. `waitForChange` is
the `held` states, and `Wake` resolves them. `completeUpload` is the loop
`complete`, `status`, `delay`. `forsaken` is history: the sessions only the sweeper of
the server can end, because a message about them was lost, or because their file was
removed, or the page left, while their completion was underway (`Deserted`).

### RemoteData, ClipboardPage, FilesPage

`RemoteData` has one operator per function of the two hooks. A request is `live`
while it is `request.current`; one that was aborted stays only if its answer was
already there, for its continuation still runs, and must change nothing (`Accepts`).
Effects run after the state change that calls for them and before any answer is
settled (`EffectDue`), but the timer may fire in between.

Each page puts its own state around that: what is asked or copied, the mutation that
runs, the tag of what it shows. A mutation is the continuation before its request
(`RunMutation`, `HandleDelete`), the server's step, and the continuation after it
(`MutationSucceeds`, `DeleteSucceeds`), which edits the list, drops the tag and loads
again. Other devices publish and delete meanwhile. `gone` is history: what
this page was told is deleted. The tag of a list stands for its content.

### TextEditor

The version of a file is a hash of its content, so the text stands for both. `slot`
is the draft that `EditorDraftProvider` keeps; `Lock` takes the editor away and
leaves the slot; `Mount` restores it with the version it began from.
`RequestAction`, `ConfirmDiscard` and `KeepEditing` are the buttons; `Navigate`,
`Proceed` and the blocker the router's. `seen` is history: the text the user had
before them when they began to edit.

### FileBrowser

A path is the sequence of its components. Folders, the directory shown, the entries
and the pages are operators of the list, as the `useMemo`s of `FilesPage.tsx` are;
the list itself changes at will. `SetToSeq` stands for the sorting: it is some order of
the entries, and what is proved is proved of any.

### MCInterface

Nothing but the server and the two providers outlives a page, and the models of
pages share no state; so a behaviour of the interface for TLC is one page's, chosen
in the first state (`at`). This lets one run ask of each page what is its own, and
state once what they promise alike (`ListsTrue`, `SpinnersTrue`, `Settles`).

### The abstract specifications

`UploadPromise` knows neither goroutines nor locks nor files: an id is unused,
open, and then saved or gone for good; bodies are accepted once per chunk while
it is open; it can be saved only when every chunk was accepted; a restart drops
what is open and nothing else. The refinement maps *saved* to the existence of
the link, before any receipt, and what was accepted to the payload itself, so
that a late or torn write to a published file would show as a step the promise
does not have. `ClipboardPromise` is a list that grows by one entry at its head,
loses one, or is emptied, each at once; `ClipboardStore` maps it to
`history.json`.

## Runs

Every property of a passing run is also checked against a mutation of a modelled
definition (`mutants` in `PROJECT.json`): a dropped check, a lock not held, a
stale answer. TLC finds each of them, so no property holds vacuously.

| Run (`.cfg`) | Instance | Properties | Shows |
|---|---|---|---|
| `UploadStreams` | 3 requests, 1 session of at most 1 chunk, 2 bodies, 2 slots | `NoWriteAfterClose`, `AcknowledgedWhole`, `AnswersTrue`, `TempAccounted`, `AckStable`, `PublishOnce` | streams against completions, cancellations and the sweeper, all at once |
| `UploadCrash` | 2 requests, 1 session of at most 2 chunks on one block lock, failing disk, restarts, outsiders | `RegistrySound`, `PublishedWhole`, `ProgressHonest`, `PromiseKept` | partial failures and crashes, a name exchanged by a publication that then fails; the refinement |
| `UploadNames` | 1 request at a time, 2 sessions, 2 names with one key, outsiders | `NamesExact`, `AnswersTrue`, `NoClobber` | reservations, conflicts, names taken at the last moment, a full table of receipts |
| `UploadLiveness` | 3 requests (chunks and cancellations), sweeper, fair | `Answered`, `AbandonedSwept` | no circular wait; abandoned uploads go |
| `ClipboardCrash` | 2 clients, 3 entries, at most 2 kept, image sizes 1 and 2, quota 3, failing writes, crashes | `StoreSound`, `ToldDurable`, `ImagesTrue`, `PromiseKept` | order of disk and memory under failures and crashes |
| `ClipboardLiveness` | 3 clients, 1 image, restarts, fair | `Answered` | the three locks never form a circle |
| `FileListing` | 3 requests, 1 file, 2 contents, 2 temporaries, 2 changes, any number of lists, an outsider, every fault | `TypeOK`, `ListCurrent`, `TempHidden`, `NoLostEdit` | scans against invalidations, editors against each other and against deletions |
| `PathsNested` | 2 uploads into nested directories, two of which differ in case only, 3 inodes, outsiders, failing mkdir, restart | `TreeSound`, `EmptyParentsRemoved`, `OnlyOwnRemoved` | directories are kept while needed and removed when not, but for those that differ in case from a needed one |
| `PathsFullDisk` | failing mkdir only | `FailedInitLeavesNothing` | violated: see below |
| `ClientLanes` | 1 file of at most 2 chunks, 1 file worker, 2 chunk workers, 2 sessions, 1 retry, 4 commands, every fault | `ServerAgrees`, `OnePublication`, `NoForgottenSession`, `NoLostWakeup`, `Obeyed` | the transfer of a file under lost and late requests, restarts, sweeps and every command |
| `Pages` | upload: 2 files, 2 file workers, 5 commands; clipboard: 3 records, at most 2 kept, 3 commands; files: 2 names, 2 versions, 3 commands; editor: 2 files, 3 texts, 10 commands; browser: 6 files in 4 directories, pages of 2; fair | `NothingStuck`, `ListsTrue`, `SpinnersTrue`, `UnsavedKept`, `BrowserTrue`, `Settles`, `GivenUpKnowingly`, `ReplacesWhatWasSeen` | the queue as a whole, the lists, the editor and the directories |
| `StuckPause` | the clipboard and the files page of `Pages` | `PauseSeen` | violated: see below |

Some properties are conjunctions of named parts that one mutation of the code
cannot break without the others being of interest too: `AnswersTrue` is
`SavedTruthful`, `CancelHonest` and `NoFalseGone`; `RegistrySound` is `TypeOK`,
`NamesExact` and `TempAccounted`; `StoreSound` is `TypeOK`,
`HistoryBacked` and `QuotaKept`; `ImagesTrue` is `ImagesAccounted`,
`ThumbnailsListed` and `ImagesOpen`; `TreeSound` is `TypeOK`, `ParentsStand` and
`NoFileAsParent`; `ServerAgrees` is `TypeOK`, `SuccessTrue`, `CompletionWhole` and
`ConfirmedStored`; `Obeyed` is `QuietAfterStop` and `PauseHolds`. `ListsTrue`,
`SpinnersTrue`, `UnsavedKept` and `BrowserTrue` gather the parts of the pages.

**Bounds, and why they are enough.** Three requests suffice for the races that
matter: two bodies for one chunk against one that ends the session; two that end
it against one that looks it up. Two chunks on one block lock give partial
uploads, wrong chunk indices and neighbours on a block. One receipt slot with one
session makes lapses happen; eviction by a newer receipt happens with the two
sessions of `UploadNames`. Two sessions with names that fold together give every
conflict: at initialization, at publication, and a late release of a name that
was reserved again. In `ClipboardCrash` a third entry evicts the first, two
images of size 2 exceed the quota, and any id can be lost by a crash. Directories
are two levels deep, shared at the first level, so cleanup can stop at each
level; a third inode is that of `A`, which lower-casing takes for `a`, or of what an
outsider puts in the place of one. `UploadCrash` is the run where disk errors and
outsiders meet; `UploadNames`, with two sessions, has outsiders only, and what a disk
error does to the reservations of two sessions is left to the theorems.
`MaxForeign = 1` lets an outsider take a name, and again after it was
freed. In `FileListing` a stale scan takes one scanner, one writer and
one more list; a lost edit takes two writers; more of either changes nothing,
as each file has its own version, and the proofs below have no bound. In
`ClientLanes` two chunk workers give every race between one that fails and one that
sends, a second session a retry that begins anew; four commands are start, pause,
resume and stop, or start, stop and two retries. `Pages` adds what takes two files:
the queue, and workers that wait for the next. A page fetches one list, so three
commands of users, network and other devices give a load, a mutation and what
overtakes it; the editor needs ten for a draft to expire, be restored, meet another
device's edit and be saved. Six files on pages of two give three pages, more than
are offered. Symmetry is used for goroutines, ids and bodies, never in runs with
liveness. `Pages` starts instead from one initial state of those that differ only in
what records, files, versions and texts are called (`OneOfEachKind`): no definition
tells these apart, so a permutation of the names turns each behaviour left out into one
that is checked. The theorems are about `InterfaceSpec`, which starts anywhere.

**What the properties say** is written above each of them in the modules. The
ones a reviewer would argue about: `NoFalseGone` (a 404 is never an artefact of
the race between lookup and completion), `ProgressHonest` (a list of missing
chunks computed from an older snapshot is never empty and never leaves one out),
`CancelHonest` (whoever is told *cancelled* will never see the file appear),
`ToldDurable` (an entry a client was told of is not lost by any crash, rollback
or failed write), `ThumbnailsListed` (no thumbnail comes back for an entry
deleted while it was rendered), `ListCurrent`
(a scan that began before a change never reaches the cache after it),
`EmptyParentsRemoved` (the last upload takes its
directories away, in whatever order they end, unless their names differ from those of
others in case only), `OnePublication` (retrying by hand
after a completion whose answer was lost saves no second copy, also when the server
has restarted), `NoForgottenSession` (each open session is in use, may be confirmed
yet by a retry of a file that is still in the queue, or is being cancelled; what is
forsaken is named), `TagTrue` in `ListsTrue` ("not modified" is true of what
the page shows), `ReplacesWhatWasSeen` (a draft restored after a login is saved over
the text it was begun from, or not at all).

## Fairness

`FairSpec` of `UploadSessions` is strong fairness of every accepted request and
weak fairness of the sweeper. Go's `sync.Mutex` is starvation-free, and
`sync.RWMutex` admits the readers that waited when a writer leaves, so a
goroutine that can run again and again does: that is strong fairness, and the
model's `LockWait` keeps the writer's priority that could defeat weaker
assumptions. A body ends because `http.Server.ReadTimeout` in `cmd/main.go` cuts
it off after ten minutes. The ticker there calls `ExpireIdle` every five minutes
until shutdown. Clients are never fair: no property relies on one coming back,
and `AbandonedSwept` is about those that do not. `ClipboardStore` assumes strong
fairness of accepted requests for the same reasons, and nothing of `Crash` or
`Start`.

In the browser every continuation runs, so `UploadClient` is weakly fair in each
step of a worker and in `RunEnds`. Initializations, cancellations and status queries
time out after 30 seconds (`services/http.ts`), which makes `InitFails` and
`CleanFails` fair; chunks and completions have no timeout, and nothing makes their
answers come. So no upload is promised to end by itself, but a cancelled one is
(`Settles`). It also asks that the clipboard page and the files page, left to themselves, end up
showing what the server holds, and that a navigation blocked by a save goes on or is asked
about. The pages assume that effects run, timers fire, continuations run and
the server answers what the network does not lose; nothing is assumed of users, of
other devices or of a page that is hidden. The editor assumes that a request is
answered or given up on.

## Proofs

The proofs hold for any number of goroutines, sessions, names, bodies, chunks,
slots and block locks, with any set of requests and faults; of clients, entries and
limits of the clipboard; of files, workers, chunk workers and retries of the upload
page; of paths, however deep; of records, files, versions and commands of the pages; of
files and texts in the editor; and of entries on a page and pages offered. They assume only
the `ASSUME`s of the modules they are about, which TLC evaluates with each run: model
values are distinct from each other, limits and bounds are natural numbers, `Fold`
maps names to names, images have a size, at least one entry and one receipt are kept,
there is a chunk worker (`upload.ts:10` starts three) and something to upload to; for the
pages (`PagesAssumption`), what stands for no answer, for "not modified" and for a failure
is none of the answers, and no two of them are the same, paths have components, there are
finitely many, and a page takes at least one entry.
Some theorems have a hypothesis of their own:

* those of `EditorProofs`, `TextEditor!Distinct`, and those of `BrowserProofs`,
  `FileBrowser!Usable`, both parts of `PagesAssumption`;
* `OnlyOwnAreRemoved`, that no freed inode is given out again (`~Reuse`). It is
  necessary, as `Divergences` says.

1. `UploadProofs!TypeCorrect`: `Spec => []TypeOK`. `TypeOK` alone is not
   inductive, since an action indexes `entry` by `req[t].sid`; `Typed` adds that a
   goroutine at work has drawn an id that is in use (`Ready`), what request
   stands in which region (`Roles`), and that sessions in use have a name
   (`Named`).
2. `UploadProofs!AlwaysSafe`: `Spec => []Safe`, the inductive invariant.
   * `Exclusive`: one owner of the lifecycle lock, and no stream once it has
     drained the session.
   * `Registered`: the registry holds exactly the sessions that are not closed,
     and their directories exist.
   * `Holding`: what each region relies on. A stream's session is open, its
     index in range, and it copies only if its chunk is not acknowledged;
     whoever publishes has all chunks.
   * `OwnBlock`: two goroutines never copy the same chunk.
   * `Received`: acknowledged chunks are in range and whole, and blocks beyond
     the last chunk are untouched.
   * `Published`: a published session is complete, and until it is closed its
     completion is still at work.

   None is inductive alone: `Received` needs `Holding` (a copy never touches an
   acknowledged chunk), `Holding` needs `OwnBlock` (the other copy of the chunk
   that has just been acknowledged) and `Exclusive` (nobody closes the session
   under a stream), and `Published` needs `Exclusive` again (the set of chunks of
   a published session does not change). The proof has one lemma per kind of
   step; steps that only look or refuse share `QuietStep`.
3. `NeverWrittenAfterClose`, `AlwaysAcknowledgedWhole`, `AlwaysPublishedWhole`:
   the invariants of the runs, from `Safe`.
4. `UploadProofs!AckKept`, `PublishedOnce`: the step properties. `Effects`
   classifies what any step can do to what a client can tell; `Overwrites` and
   `Unpublished` say why it is harmless.
5. `UploadProofs!Refines`: `Spec => PromiseKept`. Initial states map to
   initial states, and each class of `Effects` maps to one step of the promise or
   to a stutter.

6. `ListingProofs!ListingTyped`, `AlwaysCurrent`: `Current` is the inductive
   invariant. `Promised` says that each version that is owed (acknowledged, on
   its way to a client, or to be shown to one who waits) has been made, is in
   the cache while that is served, and in the scan that has passed the file
   (`Shows`). `ShownStep` proves that what is shown once is never missed
   again. A new promise begins in `Forget` or `Swap`, where nothing is cached and,
   by `listingMu` (`Alone`), nothing is being scanned.
7. `ListingProofs!NeverLostEdit`: by `s.mu` (`OneHolder`) no other edit,
   deletion or publication comes between `Compare` and `Swap` (`Untouched`).

8. `EditorProofs!AlwaysCareful`: `Spec => []Careful`, the inductive invariant of the
   editor. `Kept`: the slot holds the draft exactly while it differs from the text it
   began from. `Begun`: what is edited began from what the server last said.
   `Waiting`: when the editor has been told that a save succeeded, that draft has been
   in the file. `Sent`: the editor waits for at most one request, and every save on
   its way, the orphans of an expired session too, carries the version its user saw.
   `Placed`: there is no editor behind the gate, and no draft without its editor on
   an open page. `Kept` after a login needs `Placed` (the slot it restores differs
   from its base), and `Waiting` needs `Sent` (the answer is to this draft's save).
   `UnsavedIsKept` and `SlotIsOwned` are parts of `Kept`;
   `DraftsGivenUpKnowingly` follows from `Kept` and `Waiting`, and
   `SavesReplaceWhatWasSeen` from `Sent`.

9. `UploadProofs!AlwaysAnswering`: `Spec => []Answering`, which adds to `Safe` what
   answers rest on.
   * `Reserved`: the reserved names are those of the sessions in the table, one each,
     and a suffix names the session it was drawn for. So the name a conflict leads to
     is free without a look at the table.
   * `Recorded`: an entry's result and its receipt tell the name that was linked, until
     the receipt is forgotten or while its completion is about to write it.
   * `Truthful`: no reply is there before its end, a reply is true (`Said`), and so is what a
     request has found out on its way to one (`Found`): a lookup that asks again has
     met a closed entry, what a completion has seen was received, a cancellation that
     cleans up was not overtaken by a publication.

   `NamesAlwaysExact`, `AnswersAlwaysTrue`, `AlwaysHonest` and `NeverClobbers` follow.
   Replies stay true because what they tell of only grows (`Grow`): nothing is
   unreceived, unpublished or reopened. The one exception, a receipt that is
   forgotten, is what `forgotten` allows for. `TempAlwaysAccounted` takes `Standing`: a
   directory stands for a session in the table or for one a goroutine is about to
   remove; `Kept` says that no other is there unless removing it failed.
   `RegistryAlwaysSound` puts these together.

10. `ClipboardProofs!AlwaysKept`: `Spec => []Kept`. `Alone` is `s.mu`: whoever writes is
    alone with it. `Agreed` relates memory and disk: `entries` is behind `history` only
    between the rename in `save` and the assignment after it. `Planned` and `Committed`
    say what the holder of the lock has computed, and what of it is done; `OwnId` that an
    id that was drawn is nobody else's, now or in the past. `Stored`, `Accounted` and
    `Pictured` follow the images directory and the thumbnails through each step of a
    change (`Extra` names the one image that is there and not listed). `Sound` bounds the
    list by its limits. `StoreIsSound`, `ToldIsDurable` and `ImagesAreTrue` are parts of
    `Kept`, and `PromiseIsKept` is the refinement of `ClipboardPromise`: only the rename
    in `save` changes what the promise sees, and there `Planned` says that the new list
    is the old one with one operation applied.
    `Total`, the sum of a list, is a recursive function, and the proof needs
    that an entry less is a smaller sum: `UpTo` is an induction over a bounded range,
    from the least element of a nonempty set of numbers (`WFMin`).

11. `ClientProofs!AlwaysCoherent`: `Spec => []Coherent`, the inductive invariant of the upload
    page. `Held`: a file is in the hands of one worker, and has a controller exactly
    as long. `Sessions` and `ItemsTrue`: a session belongs to one file, holds its bytes
    only, and what the page takes for confirmed is stored. `WireTrue`: whatever is on its
    way, however late, was sent for its sender's own session, and a completion only of
    one that is whole and still named by its file. `SavedNamed`: that session is the
    one its file names for good, and so there is one publication (`PublishedOnce`).
    `Lanes` and `Progress`: a chunk of a transfer is confirmed, in a chunk worker's
    hands, or still to be claimed. `ServerAlwaysAgrees`, `AllWoken` and `NoneStuck` follow.
    `NoneForgotten` follows from `Remembered`, a part of `Coherent` (an open session is named
    by its file, which is at work or has asked for its completion, or is forsaken, or is
    being cancelled), and from a second invariant, `SeenTo`: a completion that was asked for
    can be confirmed by a file in the queue of an open page, or its session is closed,
    forsaken or being cancelled, and stays so (`OverStays`). `AlwaysObeyed` is a property of steps; `Senders` lists the five
    places a request can be sent from, and `Live` says that Stop has reached the
    controllers of all five.

12. `ListingProofs!TempAlwaysHidden`: a temporary file lies there only while its edit is
    between `Draft` and `Swap`, with `listingMu` held (`Laid`), and then, by `Alone`,
    nothing scans.

13. `PathsProofs!TreeAlwaysSound`: `Rooted` adds `Reserved` (the reserved names are those of
    the active uploads, one each) and `Given` (each inode on disk was given out). A
    cleanup leaves the parents of every reserved name (`CleanKeeps`), so all that an
    upload needs stands; and since it stands, no later name is opened where
    it stands, which is `NoFileAsParent`.
    `OnlyOwnAreRemoved`: `Owned` says that what `createdDirs` holds was made by this process.
    `EmptyParentsAlwaysRemoved`: `Neat` says that directories and files have their
    parents, that `createdDirs` knows whatever this process made and still stands, and
    that none of it is empty and unneeded. `CleanTidy` is the argument: an end or a
    deletion leaves only the deepest parent empty, the loop reaches it, and whatever its
    removal empties is the next directory the loop comes to. What another spelling of its
    name keeps alive is `Doubled`, and stays so (`DoubledStays`): the upload that spelled it
    otherwise has been opened, and nothing undoes that. The lemmas about
    prefixes on which this rests hold for paths of any depth.

14. `InterfaceProofs!AlwaysKept`: `InterfaceSpec => []PageKept`, the invariant of the page
    that is shown.
    * Of both lists (`FilesFetched`, `ClipFetched`, and `DiskFetched` of the disk
      information): one request at most is live, the spinner turns exactly while it is a
      foreground load, it has left with a tag only if that names what is shown, and its
      answer, once there, holds nothing the page has been told is deleted.
    * `FilesHonest`, `ClipHonest`: the tag names what is shown; neither that nor what the
      server holds has anything that is gone, since versions and ids are not given out
      again; no record is listed twice.
    * `FilesTold`, `ClipTold`: what the server has said of a deletion or a clearing
      is true when the page learns of it, so nothing it makes `gone` can return.
    * `ClipQuiet`: nothing is fetched while a mutation is underway. So the record just
      published cannot be in the list already when it is put in front of it, which is
      `NoneTwice`.

    An answer that is older than a deletion is either dropped, since `cancel` came before
    the request, or was made of what the server held after it. `ListsAreTrue` and
    `SpinnersAreTrue` follow. For the editor, `SameEditor` carries `Careful` over to the one
    the interface shows: `UnsavedIsKept`, `DraftsGivenUpKnowingly` and
    `SavesReplaceWhatWasSeen` are the properties that `Pages` checks. For the directories,
    `SameBrowser` does the same with the types of item 15, and `BrowserIsTrue` follows.
    The filter that takes a record away is a recursive function, `Without`; `Filtered`
    proves what it leaves by the bounded induction of item 10.

15. `BrowserProofs!TypeCorrect`: `Spec => []TypeOK`, and with the types all that the
    directories and pages promise (`TypesShow`), since nothing about them is remembered:
    they are made anew of whatever list has arrived, and `page` and `dir` may be left from
    any older one.
    * `NearestIsShown`: the loop that drops components is the recursive function in
      `Directory`; `LastFolder` proves by the same bounded induction that it stops at the
      last folder on the way, and `FoldersAre` that a folder is what a file lies below.
    * `FilesStayReachable`: `LinksLead` finds each component of a path in the directory
      of those before it.
    * `PagesDivide`, `PageIsThere`: `Ceiling` is the arithmetic of `totalPages`, and
      `Ordered` says that an order of the entries has each in one place; so a page's part of
      it (`PageHolds`) shares none with another's, the last page has an entry, and
      `firstPage` leaves the current page among those offered, however many those are.
    * `TypeCorrect` itself needs `PageIsThere`: a step to another page stays below the number
      of pages, and that is bounded by the paths and directories there can be (`FewShown`).

Before each inductive invariant was proved, TLC confirmed it on the instances of the
runs: `Safe` and `Answering` on those of `UploadStreams`, `UploadCrash` and `UploadNames`,
`Current` and `Hiding` on `FileListing`, `Kept` on `ClipboardCrash`, `Coherent` on
`ClientLanes`, `Rooted`, `Owned` and `Neat` on variants of `PathsNested` with and without
`Reuse`, the parts of `Careful` on 2 files, 3 texts and 9 commands, and `FilesInv`,
`ClipInv` and the types of the directories on the instance of `Pages`.

**Only model-checked:** liveness (`Answered`, `AbandonedSwept`, `Settles`), which the
prover cannot do under fairness. Every other property of a run that passes is stated by one
of the theorems.

## Divergences

1. **A failed initialization can leave directories.** `doc/transfer.md:108` says
   that "failed initialization, cancellation, expiration, and file deletion remove
   empty ancestors created by this service". When creating `a/b` fails after `a`
   was created, `cleanupParents` (`folder.go:94`) starts at `a/b`, which it does
   not own, and stops there; `a` stays. Run `PathsFullDisk`.
2. **Automatic updates can stay paused with nothing underway.** While a record
   waits for its deletion to be confirmed, the page pauses its polls and says
   "Automatic updates paused during this operation" (`locales/en.json:175`);
   `doc/transfer.md:44` promises that they resume. A list that was being loaded when
   Delete was pressed may arrive without the record. Its row goes, and the question
   with it, but `confirming` (`ClipboardPage.tsx:52`, `FilesPage.tsx:56`) stays, and
   the pause has nothing the user could finish or give up. Run `StuckPause`.

Two more observations, of which no run is kept:

* Ownership of a directory is `os.SameFile` (`folder.go:110`), which compares device
  and inode. Where a file system gives a freed inode out again, a directory another
  program made in the place of a removed one passes for the service's own and is
  removed when empty, against "remove only empty ancestors created by this service"
  (`folder.go:83`). `PathsNested.cfg` with `Reuse = TRUE` violates `OnlyOwnRemoved`.
* `useUploadQueue.ts:209` looks at `completionPending` before `missing_chunks`, and
  only completions report missing chunks, so the message about them is never shown;
  a completion the server keeps refusing stays "confirmation pending" until the file
  is removed from the queue.

## Limits

*Abstracted.* Bytes within a chunk, digests of file contents, HTTP wording, JSON,
file name sanitizing, image formats. A disk operation fails without saying why.
Time is an event: a session grows stale, a receipt lapses.

*Uploads.* `Close` at shutdown is a sequence of cancellations and is not an
action; its race with a handler that outlives the grace period leaves one
temporary directory, which the next start removes. `UploadSessions` treats a name
as one component and `UploadPaths` treats a session as one step between its
reservation and its end; they share the reservation of names. On a
case-sensitive file system `createdDirs` keeps the case of a path and `names`
does not: a reservation below `folder/` keeps an empty `Folder/` alive, and nothing
looks at it again. `EmptyParentsRemoved` names that exception (`Doubled`).

*Clipboard.* Not modelled: `.history-*.tmp` files of a crash during a save (no
start removes them; they do not affect the list), a disabled clipboard,
conditional requests, power loss between a rename and the directory's sync,
history files edited by hand beyond missing images or too many entries, limits
lowered between two starts, and the second entry of a client that repeats a
request whose answer a crash swallowed.

*Listing.* Not modelled: conditional answers, subdirectories, previews, two
edits of other programs with the same size and time (which the cache cannot tell
apart), and the probe that every `InitSession` links into the upload directory
for an instant, which a listing can show for two seconds. An edit that a crash
cuts off leaves its temporary file in the upload directory for good: it is
listed like an upload (`orphans`).

*Upload client.* Not modelled: the order of the queue, progress, speed and elapsed
time, messages, the walk through a dropped folder (it gives its files or an error).
Removing a file while its completion runs (`useUploadQueue.ts:196`, `331`), or a lock of the
page, leaves its session to the server's expiry; `NoForgottenSession` names these
exceptions, and they are among `forsaken`. `Leave` unmounts the queue, and a queue
mounted again is a new behaviour. A pause does not stop a completion from being repeated, as in
the code (`PauseHolds` says so).

*Pages.* Not modelled: the draft text of the clipboard page, image uploads to it, the
content of the disk information, sorting, size limits of edited texts, media previews
and the languages. An answer 401 that is late may lock a page its user has unlocked
again: `Lock` may happen at any time.

*Known hazards without a property:* a crash during a save of the clipboard's history
leaves its temporary file; the storage probe of an initialization shows in a listing
for an instant; a rotation of the log whose rename fails shifts the archives again
with each write (`rotate.go:86`); a session table full of valid sessions refuses or
evicts (`auth.go:180`); `Close` at shutdown lists the sessions once.

*Not modelled at all:* see the `not_modelled` components and their reasons in
`PROJECT.json`. Pure string functions, static assets and presentation have no
state to check; downloads are I/O; the others are planned.

## Plan

Done: `UploadSessions`, `UploadPromise`, `UploadPaths`, `ClipboardStore`,
`ClipboardPromise`, `FileListing`, `UploadClient` and their proofs; `RemoteData`, the pages,
and the proofs about the lists, the editor and the directories. Next: `AccessSessions` and
`LogRotation`, the session table and rotation at their limits.
