---------------------------- MODULE InterfaceProofs ----------------------------
(***************************************************************************)
(* Proofs about the pages that the interface shows, for any number of      *)
(* records, files, versions, texts, paths and commands: the lists show     *)
(* nothing that the page was told is gone, their spinners tell of loads,   *)
(* the editor keeps what is typed, and every file can be reached.  Each    *)
(* page has an invariant of its own, and every step of the interface keeps *)
(* that of the page shown.                                                 *)
(***************************************************************************)
EXTENDS MCInterface, SequenceTheorems, WellFoundedInduction, TLAPS

-----------------------------------------------------------------------------
(* The requests of the files page, and what it shows.                      *)

\* A page's requests: one at most is live.
Flight(Tag, Answer) == [background : BOOLEAN, tag : Tag, live : BOOLEAN, answer : Answer]
OneLive(fs) == \A f, g \in fs : f.live /\ g.live => f = g

FileTag == {None} \cup SUBSET Files!File
FileAnswer == {None, NotModified, Failed} \cup SUBSET Files!File
DiskAnswer == {None, NotModified, Failed} \cup Nat

\* The request for the list may leave the page with its tag only while that names what is shown,
\* and brings back nothing the page was told is deleted.
FilesFetched ==
  /\ flights \subseteq Flight(FileTag, FileAnswer) /\ OneLive(flights)
  /\ loading \in BOOLEAN /\ Files!List!LoadingTrue
  /\ \A f \in flights : f.live =>
       /\ f.tag # None => files = f.tag
       /\ f.answer \in SUBSET Files!File => f.answer \cap gone = {}

DiskFetched ==
  /\ diskFlights \subseteq Flight({None}, DiskAnswer) /\ OneLive(diskFlights)
  /\ diskLoading \in BOOLEAN /\ Files!Disk!LoadingTrue

\* No version returns, so what is gone stays gone.
FilesHonest ==
  /\ etag # None => files = etag
  /\ Files!Shown \cap gone = {} /\ truth \cap gone = {}
  /\ \A x \in truth \cup gone : x.version \in used

\* What the page has been told of the server.
FilesTold == deleting.pc = "told" =>
  /\ deleting.result \cap truth = {}
  /\ \A x \in deleting.result : x.name = deleting.name /\ x.version \in used

FilesKept == Files!TypeOK /\ FilesFetched /\ DiskFetched /\ FilesHonest /\ FilesTold
FilesInv == at = "files" => FilesKept
-----------------------------------------------------------------------------
\* What Abort and Fetch make of the requests of the files page.
LEMMA FilesRequests ==
  ASSUME flights \subseteq Flight(FileTag, FileAnswer)
  PROVE  /\ \A ws \in SUBSET flights :
              /\ Files!List!Abort(ws) \subseteq Flight(FileTag, FileAnswer)
              /\ \A f \in Files!List!Abort(ws) : f.live => f \in flights \ ws
              /\ flights \ ws \subseteq Files!List!Abort(ws)
         /\ \A b \in BOOLEAN, t \in FileTag :
              LET new == Files!List!Fetch(b, t) IN
              new \in Flight(FileTag, FileAnswer) /\ new.live /\ new.answer = None /\ new.tag = t
                 /\ new.background = b
<1>1. None \in FileTag /\ None \in FileAnswer
  BY DEF FileTag, FileAnswer
<1> HIDE DEF FileTag, FileAnswer
<1>2. \A a \in FileAnswer :
        LET new == [Files!List!Fetch(FALSE, None) EXCEPT !.live = FALSE, !.answer = a] IN
        new \in Flight(FileTag, FileAnswer) /\ ~new.live
  BY <1>1 DEF Files!List!Fetch, Flight
<1>3. \A f \in flights : f.answer \in FileAnswer
  BY DEF Flight
<1>4. \A ws \in SUBSET flights :
        /\ Files!List!Abort(ws) \subseteq Flight(FileTag, FileAnswer)
        /\ \A f \in Files!List!Abort(ws) : f.live => f \in flights \ ws
        /\ flights \ ws \subseteq Files!List!Abort(ws)
  BY <1>1, <1>2, <1>3 DEF Files!List!Abort
<1>5. \A b \in BOOLEAN, t \in FileTag :
        LET new == Files!List!Fetch(b, t) IN
        new \in Flight(FileTag, FileAnswer) /\ new.live /\ new.answer = None /\ new.tag = t
           /\ new.background = b
  BY <1>1 DEF Files!List!Fetch, Flight
<1> QED
  BY <1>4, <1>5

\* Whoever cancels the list's requests, or starts a load, leaves it in order.
LEMMA FilesCancels ==
  ASSUME FilesFetched,
         \/ Files!List!Cancel
         \/ Files!List!Unmounted /\ here' = FALSE
  PROVE  FilesFetched'
<1>1. Files!List!Live \in SUBSET flights /\ flights \subseteq Flight(FileTag, FileAnswer)
  BY DEF Files!List!Live, FilesFetched
<1>2. flights' = Files!List!Abort(Files!List!Live) /\ loading' \in BOOLEAN /\ (here' => ~loading')
  BY DEF Files!List!Cancel, Files!List!Unmounted, FilesFetched
<1>3. flights' \subseteq Flight(FileTag, FileAnswer) /\ \A f \in flights' : ~f.live
  BY <1>1, <1>2, FilesRequests DEF Files!List!Live
<1> QED
  BY <1>2, <1>3 DEF FilesFetched, OneLive, Files!List!LoadingTrue, Files!List!Live

\* A load in the foreground supersedes what is underway, and turns the spinner.
LEMMA FilesRefreshes ==
  ASSUME Files!Distinct, FilesFetched, Files!List!Refresh
  PROVE  FilesFetched'
<1>1. Files!List!Live \in SUBSET flights /\ flights \subseteq Flight(FileTag, FileAnswer)
         /\ None \in FileTag
  BY DEF Files!List!Live, FilesFetched, FileTag
<1> DEFINE new == Files!List!Fetch(FALSE, None)
           old == Files!List!Abort(Files!List!Live)
<1>2. new \in Flight(FileTag, FileAnswer) /\ new.live /\ new.answer = None /\ new.tag = None
         /\ ~new.background
  BY <1>1, FilesRequests
<1>3. old \subseteq Flight(FileTag, FileAnswer) /\ \A f \in old : ~f.live
  BY <1>1, FilesRequests DEF Files!List!Live
<1>4. flights' = old \cup {new} /\ loading' = TRUE
  BY DEF Files!List!Refresh
<1>5. None \notin SUBSET Files!File
  BY DEF Files!Distinct
<1> HIDE DEF new, old
<1> QED
  BY <1>2, <1>3, <1>4, <1>5 DEF FilesFetched, OneLive, Files!List!LoadingTrue, Files!List!Live

\* A poll begins only where nothing is underway, and with the tag of what is shown.
LEMMA FilesPolls ==
  ASSUME Files!Distinct, FilesFetched, etag \in FileTag, etag # None => files = etag,
         UNCHANGED <<files, loading, gone, here>>,
         NEW fs, fs \in {flights, Files!List!Abort(Files!List!Polls)},
         flights' \in {fs, Files!List!Poll(fs, etag)}
  PROVE  FilesFetched'
<1>1. Files!List!Polls \in SUBSET flights /\ flights \subseteq Flight(FileTag, FileAnswer)
  BY DEF Files!List!Live, Files!List!Polls, FilesFetched
<1>2. /\ fs \subseteq Flight(FileTag, FileAnswer)
      /\ \A f \in fs : f.live => f \in flights
      /\ \A f \in flights : f.live /\ ~f.background => f \in fs
  BY <1>1, FilesRequests DEF Files!List!Live, Files!List!Polls
<1>3. CASE flights' = fs
  BY <1>2, <1>3 DEF FilesFetched, OneLive, Files!List!LoadingTrue, Files!List!Live
<1> DEFINE new == Files!List!Fetch(TRUE, etag)
<1>4. CASE flights' = fs \cup {new} /\ \A f \in fs : ~f.live
  <2>1. new \in Flight(FileTag, FileAnswer) /\ new.live /\ new.answer = None /\ new.tag = etag
           /\ new.background
    BY <1>1, FilesRequests
  <2>2. None \notin SUBSET Files!File
    BY DEF Files!Distinct
  <2> HIDE DEF new
  <2> QED
    BY <1>2, <1>4, <2>1, <2>2 DEF FilesFetched, OneLive, Files!List!LoadingTrue, Files!List!Live
<1> QED
  BY <1>3, <1>4 DEF Files!List!Poll

\* An answer of the server is what it holds.
LEMMA FilesAnswered ==
  ASSUME Files!Distinct, FilesFetched, UNCHANGED <<files, loading, gone, here>>,
                                                   truth \subseteq Files!File,
         truth \cap gone = {}, NEW f \in flights, Files!List!Serve(f, truth) \/ Files!List!Lose(f)
  PROVE  FilesFetched'
<1>1. flights \subseteq Flight(FileTag, FileAnswer)
  BY DEF FilesFetched
<1>2. PICK a \in {NotModified, Failed, truth} : flights' = (flights \ {f})
        \cup {[f EXCEPT !.answer = a]}
  BY DEF Files!List!Serve, Files!List!Lose
<1> DEFINE new == [f EXCEPT !.answer = a]
<1>3. /\ new \in Flight(FileTag, FileAnswer) /\ new.live = f.live /\ new.tag = f.tag
      /\ new.background = f.background /\ new.answer = a
  BY <1>1 DEF Flight, FileAnswer
<1>4. a \in SUBSET Files!File => a \cap gone = {}
  BY DEF Files!Distinct
<1> HIDE DEF new
<1>5. flights' = (flights \ {f}) \cup {new}
  BY <1>2 DEF new
<1>6. (\E g \in flights' : g.live /\ ~g.background) <=> \E g \in flights : g.live /\ ~g.background
  BY <1>3, <1>5
<1>7. flights' \subseteq Flight(FileTag, FileAnswer) /\ OneLive(flights')
  BY <1>1, <1>3, <1>5 DEF FilesFetched, OneLive
<1>8. \A g \in flights' : g.live =>
        /\ g.tag # None => files = g.tag
        /\ g.answer \in SUBSET Files!File => g.answer \cap gone = {}
  BY <1>3, <1>4, <1>5 DEF FilesFetched
<1> QED
  BY <1>6, <1>7, <1>8 DEF FilesFetched, Files!List!LoadingTrue, Files!List!Live

\* The page takes the answer of its live request, and that ends its load.
LEMMA FilesSettles ==
  ASSUME Files!Distinct, FilesFetched, Files!IsListing(files), Files!Shown \cap gone = {},
         UNCHANGED <<gone, here>>, etag \in FileTag, etag # None => files = etag,
         NEW f \in flights, Files!List!Settle(f), etag' = Files!List!Committed(f, etag)
  PROVE  /\ FilesFetched' /\ Files!IsListing(files)' /\ Files!IsListing(etag)'
               /\ Files!Shown' \cap gone = {}
         /\ etag' # None => files' = etag'
<1>1. f \in Flight(FileTag, FileAnswer) /\ flights' = flights \ {f}
  BY DEF FilesFetched, Files!List!Settle
<1>2. CASE ~Files!List!Accepts(f)
  <2>1. files' = files /\ etag' = etag /\ loading' = loading
    <3>1. files' = files /\ etag' = etag /\ loading \in BOOLEAN
      BY <1>2 DEF Files!List!Settle, Files!List!Committed, FilesFetched
    <3>2. loading' = (loading /\ (f.background \/ ~Files!List!Accepts(f)))
      BY DEF Files!List!Settle
    <3> QED
      BY <1>2, <3>1, <3>2
  <2>2. FilesFetched'
    BY <1>1, <1>2, <2>1 DEF FilesFetched, OneLive, Files!List!LoadingTrue, Files!List!Live,
       Files!List!Accepts
  <2> QED
    BY <2>1, <2>2 DEF Files!IsListing, Files!Shown, FileTag
<1>3. CASE Files!List!Accepts(f)
  <2>1. f.live /\ here /\ \A g \in flights' : ~g.live
    BY <1>1, <1>3 DEF FilesFetched, OneLive, Files!List!Accepts
  <2>2. loading' = (loading /\ f.background) /\ loading' = FALSE
    BY <1>1, <1>3, <2>1 DEF FilesFetched, OneLive, Files!List!LoadingTrue, Files!List!Live,
       Files!List!Settle, Flight
  <2>3. FilesFetched'
    BY <1>1, <2>1, <2>2 DEF FilesFetched, OneLive, Files!List!LoadingTrue, Files!List!Live
  <2>4. /\ f.tag # None => files = f.tag
        /\ f.answer \in SUBSET Files!File => f.answer \cap gone = {}
        /\ f.answer \in FileAnswer /\ f.tag \in FileTag /\ f.answer # None
    BY <1>1, <2>1 DEF FilesFetched, Flight, Files!List!Settle
  <2>5. CASE f.answer \in {NotModified, Failed}
    <3>1. files' = files /\ etag' \in {etag, f.tag}
      BY <1>3, <2>5 DEF Files!List!Settle, Files!List!Committed
    <3> QED
      BY <2>3, <2>4, <3>1 DEF Files!IsListing, FileTag, Files!Shown
  <2>6. CASE f.answer \in SUBSET Files!File
    <3>1. files' = f.answer /\ etag' = f.answer
      BY <1>3, <2>6 DEF Files!List!Settle, Files!List!Committed, Files!Distinct
    <3> QED
      BY <2>3, <2>4, <2>6, <3>1 DEF Files!IsListing, Files!Shown
  <2> QED
    BY <2>4, <2>5, <2>6 DEF FileAnswer
<1> QED
  BY <1>2, <1>3
-----------------------------------------------------------------------------
\* The same of the requests for the disk information, which have no tag.
LEMMA DiskRequests ==
  ASSUME diskFlights \subseteq Flight({None}, DiskAnswer)
  PROVE  /\ \A ws \in SUBSET diskFlights :
              /\ Files!Disk!Abort(ws) \subseteq Flight({None}, DiskAnswer)
              /\ \A f \in Files!Disk!Abort(ws) : f.live => f \in diskFlights \ ws
              /\ diskFlights \ ws \subseteq Files!Disk!Abort(ws)
         /\ \A b \in BOOLEAN :
              LET new == Files!Disk!Fetch(b, None) IN
              new \in Flight({None}, DiskAnswer) /\ new.live /\ new.background = b
<1>1. None \in DiskAnswer
  BY DEF DiskAnswer
<1> HIDE DEF DiskAnswer
<1>2. \A a \in DiskAnswer :
        LET new == [Files!Disk!Fetch(FALSE, None) EXCEPT !.live = FALSE, !.answer = a] IN
        new \in Flight({None}, DiskAnswer) /\ ~new.live
  BY <1>1 DEF Files!Disk!Fetch, Flight
<1>3. \A f \in diskFlights : f.answer \in DiskAnswer
  BY DEF Flight
<1>4. \A ws \in SUBSET diskFlights :
        /\ Files!Disk!Abort(ws) \subseteq Flight({None}, DiskAnswer)
        /\ \A f \in Files!Disk!Abort(ws) : f.live => f \in diskFlights \ ws
        /\ diskFlights \ ws \subseteq Files!Disk!Abort(ws)
  BY <1>1, <1>2, <1>3 DEF Files!Disk!Abort
<1>5. \A b \in BOOLEAN :
        LET new == Files!Disk!Fetch(b, None) IN
        new \in Flight({None}, DiskAnswer) /\ new.live /\ new.background = b
  BY <1>1 DEF Files!Disk!Fetch, Flight
<1> QED
  BY <1>4, <1>5

\* The same of the disk space.
LEMMA DiskCancels ==
  ASSUME DiskFetched, Files!Disk!Cancel \/ (Files!Disk!Unmounted /\ here' = FALSE)
  PROVE  DiskFetched'
<1>1. Files!Disk!Live \in SUBSET diskFlights /\ diskFlights \subseteq Flight({None}, DiskAnswer)
  BY DEF Files!Disk!Live, DiskFetched
<1>2. /\ diskFlights' = Files!Disk!Abort(Files!Disk!Live)
      /\ diskLoading' \in BOOLEAN /\ (here' => ~diskLoading')
  BY DEF Files!Disk!Cancel, Files!Disk!Unmounted, DiskFetched
<1>3. diskFlights' \subseteq Flight({None}, DiskAnswer) /\ \A f \in diskFlights' : ~f.live
  BY <1>1, <1>2, DiskRequests DEF Files!Disk!Live
<1> QED
  BY <1>2, <1>3 DEF DiskFetched, OneLive, Files!Disk!LoadingTrue, Files!Disk!Live

\* A load of the disk space supersedes the one underway.
LEMMA DiskRefreshes ==
  ASSUME DiskFetched, Files!Disk!Refresh
  PROVE  DiskFetched'
<1>1. Files!Disk!Live \in SUBSET diskFlights /\ diskFlights \subseteq Flight({None}, DiskAnswer)
  BY DEF Files!Disk!Live, DiskFetched
<1> DEFINE new == Files!Disk!Fetch(FALSE, None)
           old == Files!Disk!Abort(Files!Disk!Live)
<1>2. new \in Flight({None}, DiskAnswer) /\ new.live /\ ~new.background
  BY <1>1, DiskRequests
<1>3. old \subseteq Flight({None}, DiskAnswer) /\ \A f \in old : ~f.live
  BY <1>1, DiskRequests DEF Files!Disk!Live
<1>4. diskFlights' = old \cup {new} /\ diskLoading' = TRUE
  BY DEF Files!Disk!Refresh
<1> HIDE DEF new, old
<1> QED
  BY <1>2, <1>3, <1>4 DEF DiskFetched, OneLive, Files!Disk!LoadingTrue, Files!Disk!Live

\* A poll of the disk space waits for the one underway.
LEMMA DiskPolls ==
  ASSUME DiskFetched, UNCHANGED <<diskLoading, here>>,
         NEW fs, fs \in {diskFlights, Files!Disk!Abort(Files!Disk!Polls)},
         diskFlights' \in {fs, Files!Disk!Poll(fs, None)}
  PROVE  DiskFetched'
<1>1. Files!Disk!Polls \in SUBSET diskFlights /\ diskFlights \subseteq Flight({None}, DiskAnswer)
  BY DEF Files!Disk!Live, Files!Disk!Polls, DiskFetched
<1>2. /\ fs \subseteq Flight({None}, DiskAnswer)
      /\ \A f \in fs : f.live => f \in diskFlights
      /\ \A f \in diskFlights : f.live /\ ~f.background => f \in fs
  BY <1>1, DiskRequests DEF Files!Disk!Live, Files!Disk!Polls
<1>3. CASE diskFlights' = fs
  BY <1>2, <1>3 DEF DiskFetched, OneLive, Files!Disk!LoadingTrue, Files!Disk!Live
<1> DEFINE new == Files!Disk!Fetch(TRUE, None)
<1>4. CASE diskFlights' = fs \cup {new} /\ \A f \in fs : ~f.live
  <2>1. new \in Flight({None}, DiskAnswer) /\ new.live /\ new.background
    BY <1>1, DiskRequests
  <2> HIDE DEF new
  <2> QED
    BY <1>2, <1>4, <2>1 DEF DiskFetched, OneLive, Files!Disk!LoadingTrue, Files!Disk!Live
<1> QED
  BY <1>3, <1>4 DEF Files!Disk!Poll

\* An answer, or the news that there is none, ends no load yet.
LEMMA DiskAnswered ==
  ASSUME DiskFetched, UNCHANGED <<diskLoading, here>>,
         NEW f \in diskFlights, Files!Disk!Serve(f, Files!DiskInfo) \/ Files!Disk!Lose(f)
  PROVE  DiskFetched'
<1>1. diskFlights \subseteq Flight({None}, DiskAnswer)
  BY DEF DiskFetched
<1>2. PICK a \in {NotModified, Failed, 0} : diskFlights' = (diskFlights \ {f})
        \cup {[f EXCEPT !.answer = a]}
  BY DEF Files!Disk!Serve, Files!Disk!Lose, Files!DiskInfo
<1> DEFINE new == [f EXCEPT !.answer = a]
<1>3. new \in Flight({None}, DiskAnswer) /\ new.live = f.live /\ new.background = f.background
  BY <1>1 DEF Flight, DiskAnswer
<1>4. diskFlights' = (diskFlights \ {f}) \cup {new}
  BY <1>2
<1> HIDE DEF new
<1>5. (\E g \in diskFlights' : g.live /\ ~g.background) <=> \E g \in diskFlights : g.live
         /\ ~g.background
  BY <1>3, <1>4
<1>6. diskFlights' \subseteq Flight({None}, DiskAnswer) /\ OneLive(diskFlights')
  BY <1>1, <1>3, <1>4 DEF DiskFetched, OneLive
<1> QED
  BY <1>5, <1>6 DEF DiskFetched, Files!Disk!LoadingTrue, Files!Disk!Live

\* The continuation of a load of the disk space ends its spinner.
LEMMA DiskSettles ==
  ASSUME DiskFetched, disk \in Nat \cup {None}, UNCHANGED here, NEW f \in diskFlights,
         Files!Disk!Settle(f)
  PROVE  DiskFetched' /\ disk' \in Nat \cup {None}
<1>1. f \in Flight({None}, DiskAnswer) /\ diskFlights' = diskFlights \ {f}
  BY DEF DiskFetched, Files!Disk!Settle
<1>2. disk' \in Nat \cup {None}
  BY <1>1 DEF Files!Disk!Settle, Flight, DiskAnswer
<1>3. diskLoading' = (diskLoading /\ (f.background \/ ~Files!Disk!Accepts(f)))
         /\ diskLoading \in BOOLEAN
  BY DEF Files!Disk!Settle, DiskFetched
<1>4. CASE ~Files!Disk!Accepts(f)
  <2>1. diskLoading' = diskLoading
    BY <1>3, <1>4
  <2> QED
    BY <1>1, <1>2, <1>4, <2>1 DEF DiskFetched, OneLive, Files!Disk!LoadingTrue, Files!Disk!Live,
       Files!Disk!Accepts
<1>5. CASE Files!Disk!Accepts(f)
  <2>1. f.live /\ here /\ \A g \in diskFlights' : ~g.live
    BY <1>1, <1>5 DEF DiskFetched, OneLive, Files!Disk!Accepts
  <2>2. diskLoading' = FALSE
    BY <1>1, <1>3, <1>5, <2>1 DEF DiskFetched, OneLive, Files!Disk!LoadingTrue, Files!Disk!Live, Flight
  <2> QED
    BY <1>1, <1>2, <2>1, <2>2 DEF DiskFetched, OneLive, Files!Disk!LoadingTrue, Files!Disk!Live
<1> QED
  BY <1>4, <1>5
-----------------------------------------------------------------------------
\* What does not touch the requests leaves them in order.
LEMMA FilesUntouched ==
  ASSUME FilesFetched, UNCHANGED <<files, loading, flights, gone, here>>
  PROVE  FilesFetched'
  BY DEF FilesFetched, Files!List!LoadingTrue, Files!List!Live
\* The same of the disk space's.
LEMMA DiskUntouched ==
  ASSUME DiskFetched, UNCHANGED <<diskLoading, diskFlights, here>>
  PROVE  DiskFetched'
  BY DEF DiskFetched, Files!Disk!LoadingTrue, Files!Disk!Live

\* The types of what is no request.
FilesRest ==
  /\ Files!IsListing(files) /\ Files!IsListing(etag)
  /\ disk \in Nat \cup {None} /\ truth \subseteq Files!File /\ gone \subseteq Files!File
  /\ here \in BOOLEAN /\ visible \in BOOLEAN /\ edited \in BOOLEAN /\ selecting \in BOOLEAN
  /\ {cycle, diskCycle} \subseteq {"off", "idle", "timer", "ticking"}
  /\ {confirming, previewing} \subseteq Name \cup {None}
  /\ deleting \in [pc : {"idle", "asking", "told", "refreshing", "superseded"}, name : Name \cup {None},
                   result : SUBSET Files!File]
  /\ used \subseteq Version /\ asked \subseteq Name /\ spare \in Nat
\* The parts of the invariant, with the types that the requests do not speak of.
LEMMA FilesTypes == FilesKept <=> FilesRest /\ FilesFetched /\ DiskFetched /\ FilesHonest /\ FilesTold
  BY DEF FilesKept, FilesRest, Files!TypeOK, Files!LoadingTrue, FilesFetched, DiskFetched

\* What the page offers its user.
LEMMA FilesButtonsKeep ==
  ASSUME Files!Distinct, FilesKept, Files!Buttons
  PROVE  FilesKept'
<1>0. FilesRest /\ FilesFetched /\ DiskFetched /\ FilesHonest /\ FilesTold
  BY FilesTypes
<1> SUFFICES FilesRest' /\ FilesFetched' /\ DiskFetched' /\ FilesHonest' /\ FilesTold'
  BY FilesTypes DEF FilesKept, FilesRest, Files!TypeOK, Files!LoadingTrue, FilesFetched, DiskFetched
<1> USE DEF Files!Command, Files!Spend, Files!listVars, Files!diskVars, Files!dialogs,
        Files!server, Files!vars
<1>1. CASE Files!ManualRefresh
  <2>1. FilesFetched' /\ DiskFetched'
    BY <1>0, <1>1, FilesRefreshes, DiskRefreshes DEF Files!ManualRefresh, Files!RefreshAll
  <2> QED
    BY <1>0, <1>1, <2>1 DEF Files!ManualRefresh, FilesRest, FilesHonest, FilesTold, Files!Shown,
       Files!IsListing
<1>2. CASE Files!RefreshDisk
  <2>1. FilesFetched' /\ DiskFetched'
    BY <1>0, <1>2, FilesUntouched, DiskRefreshes DEF Files!RefreshDisk
  <2> QED
    BY <1>0, <1>2, <2>1 DEF Files!RefreshDisk, FilesRest, FilesHonest, FilesTold, Files!Shown,
       Files!IsListing
<1>3. CASE Files!Reconsider \/ Files!ClosePreview
  <2>1. FilesFetched' /\ DiskFetched'
    BY <1>0, <1>3, FilesUntouched, DiskUntouched DEF Files!Reconsider, Files!ClosePreview
  <2> QED
    BY <1>0, <1>3, <2>1 DEF Files!Reconsider, Files!ClosePreview, FilesRest, FilesHonest,
       FilesTold, Files!Shown,
       Files!IsListing
<1>4. CASE Files!HandleDelete
  <2>1. FilesFetched' /\ DiskFetched'
    BY <1>0, <1>4, FilesCancels, DiskCancels DEF Files!HandleDelete
  <2>2. confirming \in Name
    BY <1>0, <1>4 DEF Files!HandleDelete, FilesRest, Files!NamesIn, Files!Shown, Files!IsListing,
       Files!File
  <2> QED
    BY <1>0, <1>4, <2>1, <2>2 DEF Files!HandleDelete, FilesRest, FilesHonest, FilesTold,
       Files!Shown, Files!IsListing
<1>5. ASSUME NEW n \in Name, Files!AskDelete(n) \/ Files!Preview(n)
      PROVE  FilesRest' /\ FilesFetched' /\ DiskFetched' /\ FilesHonest' /\ FilesTold'
  <2>1. flights' = Files!List!Abort(Files!List!Polls)
           /\ diskFlights' = Files!Disk!Abort(Files!Disk!Polls)
    BY <1>5 DEF Files!AskDelete, Files!Preview, Files!StopBackground, Files!List!CancelBackground,
       Files!Disk!CancelBackground
  <2>2. UNCHANGED <<files, loading, gone, here, etag, diskLoading>>
    BY <1>5 DEF Files!AskDelete, Files!Preview
  <2>3. etag \in FileTag /\ (etag # None => files = etag)
    BY <1>0 DEF FilesRest, FilesHonest, FileTag, Files!IsListing
  <2>4. FilesFetched' /\ DiskFetched'
    BY <1>0, <2>1, <2>2, <2>3, FilesPolls, DiskPolls
  <2> QED
    BY <1>0, <1>5, <2>4 DEF Files!AskDelete, Files!Preview, FilesRest, FilesHonest, FilesTold,
       Files!Shown,
       Files!IsListing
<1> QED
  BY <1>1, <1>2, <1>3, <1>4, <1>5 DEF Files!Buttons

\* Edits and deletions as they run.
LEMMA FilesRunningKeeps ==
  ASSUME Files!Distinct, FilesKept, Files!Running
  PROVE  FilesKept'
<1>0. FilesRest /\ FilesFetched /\ DiskFetched /\ FilesHonest /\ FilesTold
  BY FilesTypes
<1> SUFFICES FilesRest' /\ FilesFetched' /\ DiskFetched' /\ FilesHonest' /\ FilesTold'
  BY FilesTypes DEF FilesKept, FilesRest, Files!TypeOK, Files!LoadingTrue, FilesFetched, DiskFetched
<1> USE DEF Files!Spend, Files!listVars, Files!diskVars, Files!dialogs, Files!server, Files!vars
<1>1. CASE Files!EditSaved
  <2>1. FilesFetched' /\ DiskFetched'
    BY <1>0, <1>1, FilesUntouched, DiskUntouched DEF Files!EditSaved
  <2>2. PICK v \in Version \ used :
          /\ truth' = {IF f.name = previewing THEN [f EXCEPT !.version = v] ELSE f : f \in truth}
          /\ used' = used \cup {v}
    BY <1>1 DEF Files!EditSaved
  <2>3. \A f \in truth : LET new == [f EXCEPT !.version = v] IN
          new \in Files!File /\ new.version = v /\ new.name = f.name
    BY <1>0, <2>2 DEF FilesRest, Files!File
  <2>4. \A f \in truth' : f \in truth \/ (f \in Files!File /\ f.version = v)
    BY <2>2, <2>3
  <2>5. gone' = gone /\ UNCHANGED deleting /\ used' \subseteq Version
    BY <1>0, <1>1 DEF Files!EditSaved, FilesRest
  <2>6. FilesRest'
    BY <1>0, <1>1, <2>4, <2>5 DEF Files!EditSaved, FilesRest, Files!IsListing
  <2>7. FilesHonest'
    BY <1>0, <1>1, <2>2, <2>4, <2>5 DEF Files!EditSaved, FilesHonest, Files!Shown
  <2>8. FilesTold'
    BY <1>0, <2>2, <2>4, <2>5 DEF FilesTold
  <2> QED
    BY <2>1, <2>6, <2>7, <2>8
<1>2. CASE Files!RefreshAfterEdit
  <2>1. FilesFetched' /\ DiskFetched'
    <3>1. CASE here
      BY <1>0, <1>2, <3>1, FilesRefreshes, DiskRefreshes DEF Files!RefreshAfterEdit, Files!RefreshAll
    <3>2. CASE ~here
      BY <1>0, <1>2, <3>2, FilesUntouched, DiskUntouched DEF Files!RefreshAfterEdit
    <3> QED
      BY <3>1, <3>2
  <2>2. deleting' = deleting \/ (deleting.pc = "refreshing"
           /\ deleting' = [deleting EXCEPT !.pc = "superseded"])
    BY <1>2 DEF Files!RefreshAfterEdit
  <2>3. FilesTold'
    BY <1>0, <1>2, <2>2 DEF Files!RefreshAfterEdit, FilesTold, FilesRest
  <2>4. etag' \in {None, etag}
    BY <1>2 DEF Files!RefreshAfterEdit
  <2> QED
    BY <1>0, <1>2, <2>1, <2>2, <2>3, <2>4 DEF Files!RefreshAfterEdit, FilesRest, FilesHonest,
       Files!Shown,
       Files!IsListing
<1>3. CASE Files!DeleteFails
  <2>1. FilesFetched' /\ DiskFetched'
    BY <1>0, <1>3, FilesUntouched, DiskUntouched DEF Files!DeleteFails
  <2> QED
    BY <1>0, <1>3, <2>1 DEF Files!DeleteFails, Files!Idle, FilesRest, FilesHonest, FilesTold,
       Files!Shown,
       Files!IsListing
<1>4. CASE Files!DeleteSucceeds
  <2>1. FilesFetched' /\ DiskFetched'
    BY <1>0, <1>4, FilesRefreshes, DiskRefreshes DEF Files!DeleteSucceeds, Files!RefreshAll
  <2>2. /\ deleting.result \cap truth = {} /\ deleting.result \subseteq Files!File
        /\ \A x \in deleting.result : x.name = deleting.name /\ x.version \in used
    BY <1>0, <1>4 DEF Files!DeleteSucceeds, FilesTold, FilesRest
  <2>3. /\ files' = Files!Without(deleting.name) /\ etag' = None /\ gone' = gone \cup deleting.result
        /\ UNCHANGED <<truth, used>>
    BY <1>4 DEF Files!DeleteSucceeds
  <2>4. Files!IsListing(files)' /\ Files!Shown' \cap gone' = {}
    BY <1>0, <2>2, <2>3 DEF FilesRest, FilesHonest, Files!IsListing, Files!Shown, Files!Without,
       Files!Distinct
  <2>5. FilesHonest'
    BY <1>0, <2>2, <2>3, <2>4 DEF FilesHonest
  <2>6. FilesRest' /\ FilesTold'
    BY <1>0, <1>4, <2>2, <2>3, <2>4 DEF Files!DeleteSucceeds, FilesRest, FilesTold, Files!IsListing
  <2> QED
    BY <2>1, <2>5, <2>6
<1>5. CASE Files!DeleteEnds
  <2>1. FilesFetched' /\ DiskFetched'
    BY <1>0, <1>5, FilesUntouched, DiskUntouched DEF Files!DeleteEnds
  <2> QED
    BY <1>0, <1>5, <2>1 DEF Files!DeleteEnds, Files!Idle, FilesRest, FilesHonest, FilesTold,
       Files!Shown,
       Files!IsListing
<1>6. ASSUME NEW n \in asked, Files!DeleteServed(n)
      PROVE  FilesRest' /\ FilesFetched' /\ DiskFetched' /\ FilesHonest' /\ FilesTold'
  <2>1. FilesFetched' /\ DiskFetched'
    BY <1>0, <1>6, FilesUntouched, DiskUntouched DEF Files!DeleteServed
  <2> DEFINE deleted == {f \in truth : f.name = n}
  <2>2. /\ truth' = truth \ deleted /\ UNCHANGED <<files, etag, gone, used>>
        /\ asked' \subseteq asked
    BY <1>6 DEF Files!DeleteServed
  <2>3. \/ deleting' = deleting \/ deleting' = Files!Idle
        \/ deleting.name = n /\ deleting' = [deleting EXCEPT !.pc = "told", !.result = deleted]
    BY <1>6 DEF Files!DeleteServed
  <2>4. deleted \subseteq Files!File /\ \A x \in deleted : x.name = n /\ x.version \in used
    BY <1>0 DEF FilesRest, FilesHonest
  <2>5. /\ FilesTold'
        /\ deleting' \in [pc : {"idle", "asking", "told", "refreshing", "superseded"}, name : Name \cup {None},
                          result : SUBSET Files!File]
    <3>1. CASE deleting' = deleting
      BY <1>0, <2>2, <3>1 DEF FilesTold, FilesRest
    <3>2. CASE deleting' = Files!Idle
      BY <3>2 DEF Files!Idle, FilesTold
    <3>3. CASE deleting.name = n /\ deleting' = [deleting EXCEPT !.pc = "told", !.result = deleted]
      <4> HIDE DEF deleted
      <4>1. deleting'.name = n /\ deleting'.result = deleted
        BY <1>0, <3>3 DEF FilesRest
      <4>2. FilesTold'
        BY <2>2, <2>4, <4>1 DEF FilesTold
      <4> QED
        BY <1>0, <2>4, <3>3, <4>2 DEF FilesRest
    <3> QED
      BY <2>3, <3>1, <3>2, <3>3
  <2>6. FilesHonest'
    BY <1>0, <2>2 DEF FilesHonest, Files!Shown
  <2>7. FilesRest'
    BY <1>0, <1>6, <2>2, <2>5 DEF Files!DeleteServed, FilesRest, Files!IsListing
  <2> QED
    BY <2>1, <2>5, <2>6, <2>7
<1> QED
  BY <1>1, <1>2, <1>3, <1>4, <1>5, <1>6 DEF Files!Running

\* The tab, the network, the timers, and other devices.
LEMMA FilesRestKeeps ==
  ASSUME Files!Distinct, FilesKept,
         Files!Browser \/ Files!Others \/ Files!Effects \/ Files!PollFiles \/ Files!PollDisk \/ Files!Fetching
  PROVE  FilesKept'
<1>0. FilesRest /\ FilesFetched /\ DiskFetched /\ FilesHonest /\ FilesTold
  BY FilesTypes
<1> SUFFICES FilesRest' /\ FilesFetched' /\ DiskFetched' /\ FilesHonest' /\ FilesTold'
  BY FilesTypes DEF FilesKept, FilesRest, Files!TypeOK, Files!LoadingTrue, FilesFetched, DiskFetched
<1> USE DEF Files!Spend, Files!listVars, Files!diskVars, Files!dialogs, Files!server, Files!vars,
        Files!pageVars
<1>e. etag \in FileTag /\ (etag # None => files = etag)
  BY <1>0 DEF FilesRest, FilesHonest, FileTag, Files!IsListing
<1>1. CASE Files!Browser
  <2> USE <1>1 DEF Files!Browser
  <2>0. spare' \in Nat
           /\ UNCHANGED <<etag, files, disk, confirming, previewing, edited, truth, used, asked,
                          deleting, gone>>
    <3>1. spare' \in Nat
             /\ UNCHANGED <<etag, confirming, previewing, edited, truth, used, asked, deleting, gone>>
      BY <1>0 DEF FilesRest
    <3>2. files' = files
      BY DEF Files!List!VisibilityChanges, Files!List!Unmounted
    <3>3. disk' = disk
      BY DEF Files!Disk!VisibilityChanges, Files!Disk!Unmounted
    <3> QED
      BY <3>1, <3>2, <3>3
  <2>1. CASE visible' = ~visible /\ Files!List!VisibilityChanges(Files!Skips, etag)
             /\ Files!Disk!VisibilityChanges(Files!Skips, None) /\ UNCHANGED <<here, selecting>>
    <3>1. FilesFetched'
      <4>1. \E fs \in {flights, Files!List!Abort(Files!List!Polls)} : flights' \in {fs, Files!List!Poll(fs, etag)}
        BY <2>1 DEF Files!List!VisibilityChanges
      <4>2. UNCHANGED <<files, loading, gone, here>>
        BY <2>0, <2>1 DEF Files!List!VisibilityChanges
      <4> QED
        BY <1>0, <1>e, <4>1, <4>2, FilesPolls
    <3>2. DiskFetched'
      <4>1. \E fs \in {diskFlights, Files!Disk!Abort(Files!Disk!Polls)} : diskFlights' \in {fs, Files!Disk!Poll(fs, None)}
        BY <2>1 DEF Files!Disk!VisibilityChanges
      <4>2. UNCHANGED <<diskLoading, here>>
        BY <2>1 DEF Files!Disk!VisibilityChanges
      <4> QED
        BY <1>0, <4>1, <4>2, DiskPolls
    <3>3. cycle' \in {cycle, "ticking", "idle"} /\ diskCycle' \in {diskCycle, "ticking", "idle"}
      BY <2>1 DEF Files!List!VisibilityChanges, Files!Disk!VisibilityChanges
    <3> QED
      BY <1>0, <2>0, <2>1, <3>1, <3>2, <3>3 DEF FilesRest, FilesHonest, FilesTold, Files!Shown,
         Files!IsListing
  <2>2. CASE selecting' = ~selecting
           /\ UNCHANGED <<files, loading, flights, cycle, Files!diskVars, here, visible>>
    <3>1. FilesFetched' /\ DiskFetched'
      BY <1>0, <2>0, <2>2, FilesUntouched, DiskUntouched
    <3> QED
      BY <1>0, <2>0, <2>2, <3>1 DEF FilesRest, FilesHonest, FilesTold, Files!Shown, Files!IsListing
  <2>3. CASE here' = FALSE /\ Files!List!Unmounted /\ Files!Disk!Unmounted
           /\ UNCHANGED <<visible, selecting>>
    <3>1. FilesFetched' /\ DiskFetched'
      BY <1>0, <2>3, FilesCancels, DiskCancels
    <3> QED
      BY <1>0, <2>0, <2>3, <3>1 DEF FilesRest, FilesHonest, FilesTold, Files!Shown, Files!IsListing,
         Files!List!Unmounted, Files!Disk!Unmounted
  <2> QED
    BY <2>1, <2>2, <2>3
<1>2. CASE Files!Others
  <2>1. FilesFetched' /\ DiskFetched'
    BY <1>0, <1>2, FilesUntouched, DiskUntouched DEF Files!Others
  <2>2. UNCHANGED <<files, etag, gone, deleting>> /\ used' \subseteq Version /\ used \subseteq used'
    BY <1>0, <1>2 DEF Files!Others, FilesRest
  <2>3. \A x \in truth' : x \in truth \/ (x \in Files!File /\ x.version \in used' \ used)
    BY <1>2 DEF Files!Others, Files!File
  <2>4. FilesRest'
    BY <1>0, <1>2, <2>2, <2>3 DEF Files!Others, FilesRest, Files!IsListing
  <2>5. FilesHonest' /\ FilesTold'
    BY <1>0, <2>2, <2>3 DEF FilesHonest, FilesTold, Files!Shown
  <2> QED
    BY <2>1, <2>4, <2>5
<1>3. CASE Files!Effects \/ Files!PollFiles
  <2>1. UNCHANGED <<files, loading, gone, here>>
           /\ \E fs \in {flights, Files!List!Abort(Files!List!Polls)} :
          flights' \in {fs, Files!List!Poll(fs, etag)}
    BY <1>3 DEF Files!Effects, Files!PollFiles, Files!List!EffectStarts, Files!List!EffectStops, Files!List!Tick,
       Files!List!TickEnds, Files!List!CancelBackground
  <2>2. FilesFetched' /\ DiskFetched'
    BY <1>0, <1>3, <1>e, <2>1, FilesPolls, DiskUntouched DEF Files!Effects, Files!PollFiles
  <2>3. cycle' \in {"off", "idle", "timer", "ticking"}
    BY <1>3 DEF Files!Effects, Files!PollFiles, Files!List!EffectStarts, Files!List!EffectStops, Files!List!Tick,
       Files!List!TickEnds, Files!List!Scheduled
  <2> QED
    BY <1>0, <1>3, <2>1, <2>2, <2>3 DEF Files!Effects, Files!PollFiles, FilesRest, FilesHonest, FilesTold, Files!Shown,
       Files!IsListing
<1>4. CASE Files!PollDisk
  <2>1. UNCHANGED <<disk, diskLoading, here>>
           /\ \E fs \in {diskFlights, Files!Disk!Abort(Files!Disk!Polls)} :
          diskFlights' \in {fs, Files!Disk!Poll(fs, None)}
    BY <1>4 DEF Files!PollDisk, Files!Disk!EffectStarts, Files!Disk!EffectStops, Files!Disk!Tick,
       Files!Disk!TickEnds, Files!Disk!CancelBackground
  <2>2. FilesFetched' /\ DiskFetched'
    BY <1>0, <1>4, <2>1, FilesUntouched, DiskPolls DEF Files!PollDisk
  <2>3. diskCycle' \in {"off", "idle", "timer", "ticking"}
    BY <1>4 DEF Files!PollDisk, Files!Disk!EffectStarts, Files!Disk!EffectStops, Files!Disk!Tick,
       Files!Disk!TickEnds, Files!Disk!Scheduled
  <2> QED
    BY <1>0, <1>4, <2>1, <2>2, <2>3 DEF Files!PollDisk, FilesRest, FilesHonest, FilesTold, Files!Shown,
       Files!IsListing
<1>5. ASSUME NEW f \in flights, Files!ServeFiles(f) \/ Files!LoseFiles(f)
      PROVE  FilesRest' /\ FilesFetched' /\ DiskFetched' /\ FilesHonest' /\ FilesTold'
  <2>1. FilesFetched' /\ DiskFetched'
    BY <1>0, <1>5, FilesAnswered, DiskUntouched DEF Files!ServeFiles, Files!LoseFiles, FilesRest,
       FilesHonest
  <2> QED
    BY <1>0, <1>5, <2>1 DEF Files!ServeFiles, Files!LoseFiles, FilesRest, FilesHonest, FilesTold,
       Files!Shown,
       Files!IsListing
<1>6. ASSUME NEW f \in flights, Files!SettleFiles(f)
      PROVE  FilesRest' /\ FilesFetched' /\ DiskFetched' /\ FilesHonest' /\ FilesTold'
  <2>1. /\ UNCHANGED <<cycle, disk, diskLoading, diskFlights, diskCycle, confirming, previewing,
                       edited, truth,
                       used, asked, here, visible, deleting, selecting, gone, spare>>
        /\ Files!List!Settle(f) /\ etag' = Files!List!Committed(f, etag)
    BY <1>6 DEF Files!SettleFiles
  <2>2. /\ FilesFetched' /\ Files!IsListing(files)' /\ Files!IsListing(etag)'
              /\ Files!Shown' \cap gone = {}
        /\ etag' # None => files' = etag'
    BY <1>0, <1>e, <2>1, FilesSettles DEF FilesRest, FilesHonest
  <2>3. DiskFetched'
    BY <1>0, <2>1, DiskUntouched
  <2> QED
    BY <1>0, <2>1, <2>2, <2>3 DEF FilesRest, FilesHonest, FilesTold
<1>7. ASSUME NEW f \in diskFlights, Files!ServeDisk(f) \/ Files!LoseDisk(f)
      PROVE  FilesRest' /\ FilesFetched' /\ DiskFetched' /\ FilesHonest' /\ FilesTold'
  <2>1. FilesFetched' /\ DiskFetched'
    BY <1>0, <1>7, DiskAnswered, FilesUntouched DEF Files!ServeDisk, Files!LoseDisk
  <2> QED
    BY <1>0, <1>7, <2>1 DEF Files!ServeDisk, Files!LoseDisk, FilesRest, FilesHonest, FilesTold,
       Files!Shown,
       Files!IsListing
<1>8. ASSUME NEW f \in diskFlights, Files!SettleDisk(f)
      PROVE  FilesRest' /\ FilesFetched' /\ DiskFetched' /\ FilesHonest' /\ FilesTold'
  <2>1. UNCHANGED <<files, loading, flights, cycle, etag, diskCycle, confirming, previewing,
                    edited, truth, used,
                    asked, here, visible, deleting, selecting, gone, spare>> /\ Files!Disk!Settle(f)
    BY <1>8 DEF Files!SettleDisk
  <2>2. FilesFetched' /\ DiskFetched' /\ disk' \in Nat \cup {None}
    BY <1>0, <2>1, FilesUntouched, DiskSettles DEF FilesRest
  <2> QED
    BY <1>0, <2>1, <2>2 DEF FilesRest, FilesHonest, FilesTold, Files!Shown, Files!IsListing
<1> QED
  BY <1>1, <1>2, <1>3, <1>4, <1>5, <1>6, <1>7, <1>8 DEF Files!Fetching

\* Every step of the files page keeps its invariant.
LEMMA FilesStep == ASSUME Files!Distinct, FilesKept, Files!Next PROVE FilesKept'
  BY FilesButtonsKeep, FilesRunningKeeps, FilesRestKeeps DEF Files!Next

\* The files page opens with a load underway and nothing to show.
LEMMA FilesBegin == ASSUME Files!Distinct, Files!Init PROVE FilesKept
<1>1. flights = {Files!List!Fetch(FALSE, None)} /\ diskFlights = {Files!Disk!Fetch(FALSE, None)}
  BY DEF Files!Init
<1>2. /\ Files!List!Fetch(FALSE, None) \in Flight(FileTag, FileAnswer)
      /\ Files!Disk!Fetch(FALSE, None) \in Flight({None}, DiskAnswer)
  BY DEF Files!List!Fetch, Files!Disk!Fetch, Flight, FileTag, FileAnswer, DiskAnswer
<1>3. \A f \in flights : f.live /\ ~f.background /\ f.tag = None /\ f.answer = None
  BY <1>1 DEF Files!List!Fetch
<1>4. \A f \in diskFlights : f.live /\ ~f.background
  BY <1>1 DEF Files!Disk!Fetch
<1>5. FilesFetched
  BY <1>1, <1>2, <1>3 DEF Files!Init, FilesFetched, OneLive, Files!List!LoadingTrue,
     Files!List!Live, Files!Distinct
<1>6. DiskFetched
  BY <1>1, <1>2, <1>4 DEF Files!Init, DiskFetched, OneLive, Files!Disk!LoadingTrue, Files!Disk!Live
<1>7. PICK v \in Version, n \in Name : truth = {[name |-> n, version |-> v]} /\ used = {v}
  BY DEF Files!Init
<1>8. truth \subseteq Files!File /\ (\A x \in truth : x.version \in used)
         /\ Files!NamesIn(truth) \subseteq Name
  BY <1>7 DEF Files!File, Files!NamesIn
<1>9. FilesRest
  BY <1>7, <1>8 DEF Files!Init, FilesRest, Files!IsListing, Files!Idle, Files!Distinct
<1>10. FilesHonest /\ FilesTold
  BY <1>8 DEF Files!Init, FilesHonest, FilesTold, Files!Shown, Files!Idle
<1> QED
  BY <1>5, <1>6, <1>9, <1>10, FilesTypes
-----------------------------------------------------------------------------
(* The clipboard page.                                                     *)

ClipTag == {None} \cup Seq(Id)
ClipAnswer == {None, NotModified, Failed} \cup Seq(Id)

\* A list that may be shown: no record twice, none that is gone.
Showable(list) ==
  Clipboard!IsInjective(list) /\ Clipboard!ToSet(list) \subseteq used \ gone

ClipFetched ==
  /\ flights \subseteq Flight(ClipTag, ClipAnswer) /\ OneLive(flights)
  /\ loading \in BOOLEAN /\ Clipboard!List!LoadingTrue
  /\ \A f \in flights : f.live =>
       /\ f.tag # None => entries = f.tag
       /\ f.answer \in Seq(Id) => Showable(f.answer)

\* No record returns, so what is gone stays gone.
ClipHonest ==
  /\ etag # None => entries = etag
  /\ Showable(entries) /\ Showable(truth) /\ gone \subseteq used

\* While a mutation is underway nothing is fetched, so that its answer is news.
ClipQuiet == op.pc \in {"asking", "told"} => \A f \in flights : ~f.live
ClipTold ==
  /\ op.pc # "idle" => op.ask \in Clipboard!Mutation
  /\ op.pc = "told" =>
       /\ op.result \subseteq used
       /\ op.ask.kind = "publish" =>
            \E e \in used \ gone : op.result = {e} /\ e \notin Clipboard!Shown
       /\ op.ask.kind = "delete" => op.result = {op.ask.id}
       /\ op.ask.kind \in {"delete", "clear"} => op.result \cap Clipboard!ToSet(truth) = {}

ClipKept == Clipboard!TypeOK /\ ClipFetched /\ ClipHonest /\ ClipQuiet /\ ClipTold
ClipInv == at = "clipboard" => ClipKept
-----------------------------------------------------------------------------
\* Induction up to m: what holds of 0 and of each successor below m holds up to m.
LEMMA UpTo ==
  ASSUME NEW m \in Nat, NEW T, 0 \in T, \A n \in T \cap Nat : n < m => n + 1 \in T
  PROVE  0 .. m \subseteq T
<1> DEFINE R == OpToRel(<, Nat)
           F == (0 .. m) \ T
<1>1. SUFFICES ASSUME F # {} PROVE FALSE
  OBVIOUS
<1>2. IsWellFoundedOn(R, Nat)
  BY NatLessThanWellFounded
<1>3. F \subseteq Nat
  OBVIOUS
<1>4. PICK x \in F : \A y \in F : <<y, x>> \notin R
  <2> HIDE DEF R, F
  <2> QED
    BY <1>1, <1>2, <1>3, WFMin
<1>5. \A y \in F : ~(y < x)
  BY <1>3, <1>4 DEF OpToRel
<1>6. x # 0 /\ x - 1 \in 0 .. m /\ x - 1 \notin F
  BY <1>5
<1> QED
  BY <1>6

\* The filter keeps every record but one, and brings in none.
LEMMA Filtered ==
  ASSUME NEW list \in Seq(Id), NEW e
  PROVE  LET rest == Clipboard!Without(e, list) IN
         /\ rest \in Seq(Id)
         /\ Clipboard!ToSet(rest) = Clipboard!ToSet(list) \ {e}
         /\ Clipboard!IsInjective(list) => Clipboard!IsInjective(rest)
<1> DEFINE m == Len(list)
           Longer(s, n) == IF list[n] = e THEN s ELSE Append(s, list[n])
           Keeps(t, k) == t[0] = <<>> /\ \A n \in 1 .. k : t[n] = Longer(t[n - 1], n)
           T == {k \in 0 .. m : \E t \in [0 .. k -> Seq(Id)] : Keeps(t, k)}
<1>0. m \in Nat /\ (\A n \in 1 .. m : list[n] \in Id) /\ DOMAIN list = 1 .. m
  OBVIOUS
<1>1. 0 \in T
  <2>1. [n \in 0 .. 0 |-> <<>>] \in [0 .. 0 -> Seq(Id)] /\ Keeps([n \in 0 .. 0 |-> <<>>], 0)
    OBVIOUS
  <2>2. \E t \in [0 .. 0 -> Seq(Id)] : Keeps(t, 0)
    <3> HIDE DEF Keeps
    <3> QED
      BY <2>1
  <2> QED
    BY <1>0, <2>2
<1>2. ASSUME NEW k \in T, k < m PROVE k + 1 \in T
  <2>1. PICK t \in [0 .. k -> Seq(Id)] : Keeps(t, k)
    BY <1>2
  <2>2. k \in Nat /\ k + 1 \in 1 .. m
    BY <1>0, <1>2
  <2> DEFINE u == [n \in 0 .. k + 1 |-> IF n = k + 1 THEN Longer(t[k], k + 1) ELSE t[n]]
  <2>3. Longer(t[k], k + 1) \in Seq(Id)
    <3>1. t[k] \in Seq(Id) /\ list[k + 1] \in Id
      BY <1>0, <2>1, <2>2
    <3> QED
      BY <3>1
  <2>4. u \in [0 .. k + 1 -> Seq(Id)]
    <3> HIDE DEF Longer
    <3> QED BY <2>1, <2>2, <2>3
  <2>5. Keeps(u, k + 1)
    <3> HIDE DEF Longer
    <3>1. u[0] = <<>>
      BY <2>1, <2>2
    <3>2. ASSUME NEW n \in 1 .. k + 1 PROVE u[n] = Longer(u[n - 1], n)
      <4>1. n \in 0 .. k + 1 /\ n - 1 \in 0 .. k /\ n - 1 \in 0 .. k + 1 /\ n - 1 # k + 1
        BY <2>2
      <4>2. u[n - 1] = t[n - 1]
        BY <4>1
      <4>3. CASE n = k + 1
        <5>1. u[n] = Longer(t[k], k + 1) /\ n - 1 = k
          BY <2>2, <4>1, <4>3
        <5> QED
          BY <4>2, <4>3, <5>1
      <4>4. CASE n # k + 1
        <5>1. u[n] = t[n] /\ n \in 1 .. k
          BY <2>2, <4>1, <4>4
        <5> QED
          BY <2>1, <4>2, <5>1
      <4> QED
        BY <4>3, <4>4
    <3> QED BY <3>1, <3>2
  <2>6. k + 1 \in 0 .. m
    BY <1>0, <2>2
  <2>7. \E v \in [0 .. k + 1 -> Seq(Id)] : Keeps(v, k + 1)
    <3> HIDE DEF Keeps, u
    <3> QED
      BY <2>4, <2>5
  <2> QED
    BY <2>6, <2>7
<1>3. m \in T
  <2> HIDE DEF T
  <2>1. 0 .. m \subseteq T
    BY <1>0, <1>1, <1>2, UpTo
  <2> QED
    BY <1>0, <2>1
<1>4. PICK t \in [0 .. m -> Seq(Id)] : Keeps(t, m)
  BY <1>3
<1> DEFINE Def(g) == [n \in 0 .. Len(list) |->
             IF n = 0 THEN <<>> ELSE IF list[n] = e THEN g[n - 1] ELSE Append(g[n - 1], list[n])]
           f == CHOOSE g : g = Def(g)
<1>5. t = Def(t)
  <2>1. ASSUME NEW n \in 0 .. m
        PROVE  t[n] = IF n = 0 THEN <<>> ELSE IF list[n] = e THEN t[n - 1] ELSE Append(t[n - 1],
                                      list[n])
    <3>1. n = 0 \/ n \in 1 .. m
      BY <1>0
    <3> QED
      BY <1>4, <3>1
  <2> QED
    BY <1>0, <1>4, <2>1
<1>6. f = Def(f)
  BY <1>5
<1>7. Clipboard!Without(e, list) = f[Len(list)]
  BY DEF Clipboard!Without
<1>8. \A n \in 0 .. m : f[n] = IF n = 0 THEN <<>> ELSE Longer(f[n - 1], n)
  <2> HIDE DEF f
  <2> QED BY <1>6
<1> HIDE DEF f, T, Keeps, Def
<1> DEFINE Good(s, n) ==
             /\ s \in Seq(Id)
             /\ Clipboard!ToSet(s) = {list[i] : i \in 1 .. n} \ {e}
             /\ Clipboard!IsInjective(list) => Clipboard!IsInjective(s)
           S == {n \in 0 .. m : Good(f[n], n)}
<1>9. 0 \in S
  <2>1. f[0] = <<>>
    BY <1>0, <1>8
  <2>2. Good(<<>>, 0)
    BY DEF Clipboard!ToSet, Clipboard!IsInjective
  <2> QED
    BY <1>0, <2>1, <2>2
<1>10. ASSUME NEW n \in S \cap Nat, n < m PROVE n + 1 \in S
  <2> DEFINE s == f[n]
             x == list[n + 1]
  <2>1. n + 1 \in 1 .. m /\ n + 1 \in 0 .. m /\ Good(s, n) /\ x \in Id
    <3> HIDE DEF Good
    <3> QED
      BY <1>0, <1>10
  <2>2. f[n + 1] = IF x = e THEN s ELSE Append(s, x)
    BY <1>8, <2>1
  <2>3. {list[i] : i \in 1 .. n + 1} = {list[i] : i \in 1 .. n} \cup {x}
    BY <2>1
  <2>4. CASE x = e
    <3> HIDE DEF s, x
    <3>1. Good(s, n + 1)
      BY <2>1, <2>3, <2>4
    <3> QED
      BY <2>1, <2>2, <2>4, <3>1
  <2>5. CASE x # e
    <3> DEFINE w == Append(s, x)
    <3>1. s \in Seq(Id) /\ w \in Seq(Id) /\ Len(w) = Len(s) + 1 /\ w[Len(s) + 1] = x
          /\ Len(s) \in Nat /\ \A i \in 1 .. Len(s) : w[i] = s[i]
      BY <2>1
    <3>2. Clipboard!ToSet(w) = Clipboard!ToSet(s) \cup {x}
      <4> HIDE DEF w, s, x
      <4>1. DOMAIN w = 1 .. Len(s) + 1 /\ DOMAIN s = 1 .. Len(s)
        BY <3>1
      <4>2. \A i \in DOMAIN w : (i \in DOMAIN s /\ w[i] = s[i]) \/ w[i] = x
        BY <3>1, <4>1
      <4>3. /\ Len(s) + 1 \in DOMAIN w /\ w[Len(s) + 1] = x
            /\ \A i \in DOMAIN s : i \in DOMAIN w /\ w[i] = s[i]
        BY <3>1, <4>1
      <4> QED
        BY <4>2, <4>3 DEF Clipboard!ToSet
    <3>3. Clipboard!ToSet(w) = {list[i] : i \in 1 .. n + 1} \ {e}
      <4> DEFINE A == {list[i] : i \in 1 .. n}
      <4>1. Clipboard!ToSet(s) = A \ {e}
        BY <2>1
      <4>2. {list[i] : i \in 1 .. n + 1} = A \cup {x}
        BY <2>3
      <4> HIDE DEF A, w, s, x
      <4> QED
        BY <2>5, <3>2, <4>1, <4>2
    <3>4. ASSUME Clipboard!IsInjective(list) PROVE Clipboard!IsInjective(w)
      <4>1. x \notin {list[i] : i \in 1 .. n}
        <5> SUFFICES ASSUME NEW i \in 1 .. n, list[i] = x PROVE FALSE
          OBVIOUS
        <5>1. i \in DOMAIN list /\ n + 1 \in DOMAIN list /\ i # n + 1
          BY <1>0, <2>1
        <5> QED
          BY <3>4, <5>1 DEF Clipboard!IsInjective
      <4>2. x \notin Clipboard!ToSet(s) /\ Clipboard!IsInjective(s)
        BY <2>1, <3>4, <4>1
      <4> HIDE DEF w, s, x
      <4>3. DOMAIN w = 1 .. Len(s) + 1 /\ DOMAIN s = 1 .. Len(s)
        BY <3>1
      <4>4. \A i \in 1 .. Len(s) : s[i] # x
        BY <4>2, <4>3 DEF Clipboard!ToSet
      <4> QED
        BY <3>1, <4>2, <4>3, <4>4 DEF Clipboard!IsInjective
    <3>5. Good(w, n + 1)
      BY <3>1, <3>3, <3>4
    <3> HIDE DEF w, s, x, Good
    <3> QED
      BY <2>1, <2>2, <2>5, <3>5 DEF w
  <2> QED
    BY <2>4, <2>5
<1>11. m \in S
  <2> HIDE DEF S
  <2>1. 0 .. m \subseteq S
    BY <1>0, <1>9, <1>10, UpTo
  <2> QED
    BY <1>0, <2>1
<1>12. Clipboard!ToSet(list) = {list[i] : i \in 1 .. m}
  BY <1>0 DEF Clipboard!ToSet
<1> QED
  BY <1>7, <1>11, <1>12

\* A record published is put in front, and pushes out the last of a full list.
LEMMA NewestIs ==
  ASSUME Clipboard!Distinct, NEW list \in Seq(Id), NEW e \in Id
  PROVE  LET new == Clipboard!Newest(e, list) IN
         /\ new \in Seq(Id)
         /\ Clipboard!ToSet(new) \subseteq Clipboard!ToSet(list) \cup {e}
         /\ Clipboard!IsInjective(list) /\ e \notin Clipboard!ToSet(list) => Clipboard!IsInjective(new)
<1> DEFINE new == Clipboard!Newest(e, list)
<1>0. MaxEntries \in Nat /\ MaxEntries >= 1 /\ Len(list) \in Nat /\ DOMAIN list = 1 .. Len(list)
  BY DEF Clipboard!Distinct
<1>1. /\ new \in Seq(Id) /\ Len(new) \in Nat \ {0} /\ Len(new) - 1 <= Len(list) /\ new[1] = e
      /\ \A k \in 1 .. Len(new) - 1 : new[k + 1] = list[k]
  <2>1. CASE Len(list) < MaxEntries
    <3>1. new = <<e>> \o list
      BY <2>1 DEF Clipboard!Newest
    <3> HIDE DEF new
    <3> QED
      BY <1>0, <2>1, <3>1
  <2>2. CASE ~(Len(list) < MaxEntries)
    <3> DEFINE p == SubSeq(list, 1, MaxEntries - 1)
    <3>1. new = <<e>> \o p
      BY <1>0, <2>2 DEF Clipboard!Newest
    <3>2. p \in Seq(Id) /\ Len(p) = MaxEntries - 1 /\ \A k \in 1 .. MaxEntries - 1 : p[k] = list[k]
      BY <1>0, <2>2
    <3> HIDE DEF p, new
    <3> QED
      BY <1>0, <2>2, <3>1, <3>2
  <2> QED
    BY <2>1, <2>2
<1> HIDE DEF new
<1>2. DOMAIN new = 1 .. Len(new)
  BY <1>1
<1>3. \A i \in DOMAIN new : i = 1 \/ (i - 1 \in 1 .. Len(new) - 1 /\ i - 1 \in DOMAIN list
         /\ new[i] = list[i - 1])
  <2> SUFFICES ASSUME NEW i \in DOMAIN new, i # 1
               PROVE  i - 1 \in 1 .. Len(new) - 1 /\ i - 1 \in DOMAIN list /\ new[i] = list[i - 1]
    OBVIOUS
  <2>1. i - 1 \in 1 .. Len(new) - 1 /\ i - 1 \in 1 .. Len(list) /\ (i - 1) + 1 = i
    BY <1>0, <1>1, <1>2
  <2> QED
    BY <1>0, <1>1, <2>1
<1>4. Clipboard!ToSet(new) \subseteq Clipboard!ToSet(list) \cup {e}
  BY <1>1, <1>2, <1>3 DEF Clipboard!ToSet
<1>5. ASSUME Clipboard!IsInjective(list), e \notin Clipboard!ToSet(list)
      PROVE  Clipboard!IsInjective(new)
  <2> SUFFICES ASSUME NEW i \in DOMAIN new, NEW j \in DOMAIN new, new[i] = new[j] PROVE i = j
    BY DEF Clipboard!IsInjective
  <2>1. \A k \in DOMAIN list : list[k] # e
    BY <1>5 DEF Clipboard!ToSet
  <2>2. CASE i = 1 \/ j = 1
    BY <1>1, <1>3, <2>1, <2>2
  <2>3. CASE i # 1 /\ j # 1
    <3>1. i - 1 = j - 1
      BY <1>3, <1>5, <2>3 DEF Clipboard!IsInjective
    <3>2. i \in Nat /\ j \in Nat
      BY <1>1, <1>2
    <3> QED
      BY <3>1, <3>2
  <2> QED
    BY <2>2, <2>3
<1> QED
  BY <1>1, <1>4, <1>5 DEF new
\* What Abort and Fetch make of the requests of the clipboard page.
LEMMA ClipRequests ==
  ASSUME flights \subseteq Flight(ClipTag, ClipAnswer)
  PROVE  /\ \A ws \in SUBSET flights :
              /\ Clipboard!List!Abort(ws) \subseteq Flight(ClipTag, ClipAnswer)
              /\ \A f \in Clipboard!List!Abort(ws) : f.live => f \in flights \ ws
              /\ flights \ ws \subseteq Clipboard!List!Abort(ws)
         /\ \A b \in BOOLEAN, t \in ClipTag :
              LET new == Clipboard!List!Fetch(b, t) IN
              new \in Flight(ClipTag, ClipAnswer) /\ new.live /\ new.answer = None /\ new.tag = t
                 /\ new.background = b
<1>1. None \in ClipTag /\ None \in ClipAnswer
  BY DEF ClipTag, ClipAnswer
<1> HIDE DEF ClipTag, ClipAnswer
<1>2. \A a \in ClipAnswer :
        LET new == [Clipboard!List!Fetch(FALSE, None) EXCEPT !.live = FALSE, !.answer = a] IN
        new \in Flight(ClipTag, ClipAnswer) /\ ~new.live
  BY <1>1 DEF Clipboard!List!Fetch, Flight
<1>3. \A f \in flights : f.answer \in ClipAnswer
  BY DEF Flight
<1>4. \A ws \in SUBSET flights :
        /\ Clipboard!List!Abort(ws) \subseteq Flight(ClipTag, ClipAnswer)
        /\ \A f \in Clipboard!List!Abort(ws) : f.live => f \in flights \ ws
        /\ flights \ ws \subseteq Clipboard!List!Abort(ws)
  BY <1>1, <1>2, <1>3 DEF Clipboard!List!Abort
<1>5. \A b \in BOOLEAN, t \in ClipTag :
        LET new == Clipboard!List!Fetch(b, t) IN
        new \in Flight(ClipTag, ClipAnswer) /\ new.live /\ new.answer = None /\ new.tag = t
           /\ new.background = b
  BY <1>1 DEF Clipboard!List!Fetch, Flight
<1> QED
  BY <1>4, <1>5

\* Whoever cancels the list's requests, or starts a load, leaves it in order.
LEMMA ClipCancels ==
  ASSUME ClipFetched,
         \/ Clipboard!List!Cancel
         \/ Clipboard!List!Unmounted /\ here' = FALSE
  PROVE  ClipFetched'
<1>1. Clipboard!List!Live \in SUBSET flights /\ flights \subseteq Flight(ClipTag, ClipAnswer)
  BY DEF Clipboard!List!Live, ClipFetched
<1>2. flights' = Clipboard!List!Abort(Clipboard!List!Live) /\ loading' \in BOOLEAN
         /\ (here' => ~loading')
  BY DEF Clipboard!List!Cancel, Clipboard!List!Unmounted, ClipFetched
<1>3. flights' \subseteq Flight(ClipTag, ClipAnswer) /\ \A f \in flights' : ~f.live
  BY <1>1, <1>2, ClipRequests DEF Clipboard!List!Live
<1> QED
  BY <1>2, <1>3 DEF ClipFetched, OneLive, Clipboard!List!LoadingTrue, Clipboard!List!Live

\* A load in the foreground supersedes what is underway, and turns the spinner.
LEMMA ClipRefreshes ==
  ASSUME Clipboard!Distinct, ClipFetched, Clipboard!List!Refresh
  PROVE  ClipFetched'
<1>1. Clipboard!List!Live \in SUBSET flights /\ flights \subseteq Flight(ClipTag, ClipAnswer)
         /\ None \in ClipTag
  BY DEF Clipboard!List!Live, ClipFetched, ClipTag
<1> DEFINE new == Clipboard!List!Fetch(FALSE, None)
           old == Clipboard!List!Abort(Clipboard!List!Live)
<1>2. new \in Flight(ClipTag, ClipAnswer) /\ new.live /\ new.answer = None /\ new.tag = None
         /\ ~new.background
  BY <1>1, ClipRequests
<1>3. old \subseteq Flight(ClipTag, ClipAnswer) /\ \A f \in old : ~f.live
  BY <1>1, ClipRequests DEF Clipboard!List!Live
<1>4. flights' = old \cup {new} /\ loading' = TRUE
  BY DEF Clipboard!List!Refresh
<1>5. None \notin Seq(Id)
  BY DEF Clipboard!Distinct
<1> HIDE DEF new, old
<1> QED
  BY <1>2, <1>3, <1>4, <1>5 DEF ClipFetched, OneLive, Clipboard!List!LoadingTrue, Clipboard!List!Live

\* A poll begins only where nothing is underway, and with the tag of what is shown.
LEMMA ClipPolls ==
  ASSUME Clipboard!Distinct, ClipFetched, etag \in ClipTag, etag # None => entries = etag,
         UNCHANGED <<entries, loading, gone, used, here>>,
         NEW fs, fs \in {flights, Clipboard!List!Abort(Clipboard!List!Polls)},
         flights' \in {fs, Clipboard!List!Poll(fs, etag)}
  PROVE  ClipFetched'
<1>1. Clipboard!List!Polls \in SUBSET flights /\ flights \subseteq Flight(ClipTag, ClipAnswer)
  BY DEF Clipboard!List!Live, Clipboard!List!Polls, ClipFetched
<1>2. /\ fs \subseteq Flight(ClipTag, ClipAnswer)
      /\ \A f \in fs : f.live => f \in flights
      /\ \A f \in flights : f.live /\ ~f.background => f \in fs
  BY <1>1, ClipRequests DEF Clipboard!List!Live, Clipboard!List!Polls
<1>3. CASE flights' = fs
  BY <1>2, <1>3 DEF Showable, ClipFetched, OneLive, Clipboard!List!LoadingTrue, Clipboard!List!Live
<1> DEFINE new == Clipboard!List!Fetch(TRUE, etag)
<1>4. CASE flights' = fs \cup {new} /\ \A f \in fs : ~f.live
  <2>1. new \in Flight(ClipTag, ClipAnswer) /\ new.live /\ new.answer = None /\ new.tag = etag
           /\ new.background
    BY <1>1, ClipRequests
  <2>2. None \notin Seq(Id)
    BY DEF Clipboard!Distinct
  <2> HIDE DEF new
  <2> QED
    BY <1>2, <1>4, <2>1, <2>2 DEF Showable, ClipFetched, OneLive, Clipboard!List!LoadingTrue,
       Clipboard!List!Live
<1> QED
  BY <1>3, <1>4 DEF Clipboard!List!Poll

\* An answer of the server is what it holds.
LEMMA ClipAnswered ==
  ASSUME Clipboard!Distinct, ClipFetched, UNCHANGED <<entries, loading, gone, used, here>>,
                                                      truth \in Seq(Id),
         Showable(truth), NEW f \in flights, Clipboard!List!Serve(f, truth) \/ Clipboard!List!Lose(f)
  PROVE  ClipFetched'
<1>1. flights \subseteq Flight(ClipTag, ClipAnswer)
  BY DEF ClipFetched
<1>2. PICK a \in {NotModified, Failed, truth} : flights' = (flights \ {f})
        \cup {[f EXCEPT !.answer = a]}
  BY DEF Clipboard!List!Serve, Clipboard!List!Lose
<1> DEFINE new == [f EXCEPT !.answer = a]
<1>3. /\ new \in Flight(ClipTag, ClipAnswer) /\ new.live = f.live /\ new.tag = f.tag
      /\ new.background = f.background /\ new.answer = a
  BY <1>1 DEF Flight, ClipAnswer
<1>4. a \in Seq(Id) => Showable(a)
  BY DEF Clipboard!Distinct
<1> HIDE DEF new
<1>5. flights' = (flights \ {f}) \cup {new}
  BY <1>2 DEF new
<1>6. (\E g \in flights' : g.live /\ ~g.background) <=> \E g \in flights : g.live /\ ~g.background
  BY <1>3, <1>5
<1>7. flights' \subseteq Flight(ClipTag, ClipAnswer) /\ OneLive(flights')
  BY <1>1, <1>3, <1>5 DEF ClipFetched, OneLive
<1>8. \A g \in flights' : g.live =>
        /\ g.tag # None => entries = g.tag
        /\ g.answer \in Seq(Id) => Showable(g.answer)
  BY <1>3, <1>4, <1>5 DEF ClipFetched
<1> QED
  BY <1>6, <1>7, <1>8 DEF Showable, ClipFetched, Clipboard!List!LoadingTrue, Clipboard!List!Live

\* The page takes the answer of its live request, and that ends its load.
LEMMA ClipSettles ==
  ASSUME Clipboard!Distinct, ClipFetched, entries \in Seq(Id), Showable(entries),
         UNCHANGED <<gone, used, here>>, etag \in ClipTag, etag # None => entries = etag,
         NEW f \in flights, Clipboard!List!Settle(f), etag' = Clipboard!List!Committed(f, etag)
  PROVE  /\ ClipFetched' /\ entries' \in Seq(Id) /\ etag' \in ClipTag /\ Showable(entries)'
         /\ etag' # None => entries' = etag'
<1>1. f \in Flight(ClipTag, ClipAnswer) /\ flights' = flights \ {f}
  BY DEF ClipFetched, Clipboard!List!Settle
<1>2. CASE ~Clipboard!List!Accepts(f)
  <2>1. entries' = entries /\ etag' = etag /\ loading' = loading
    <3>1. entries' = entries /\ etag' = etag /\ loading \in BOOLEAN
      BY <1>2 DEF Clipboard!List!Settle, Clipboard!List!Committed, ClipFetched
    <3>2. loading' = (loading /\ (f.background \/ ~Clipboard!List!Accepts(f)))
      BY DEF Clipboard!List!Settle
    <3> QED
      BY <1>2, <3>1, <3>2
  <2>2. ClipFetched'
    BY <1>1, <1>2, <2>1 DEF Showable, ClipFetched, OneLive, Clipboard!List!LoadingTrue,
       Clipboard!List!Live, Clipboard!List!Accepts
  <2> QED
    BY <2>1, <2>2 DEF Showable
<1>3. CASE Clipboard!List!Accepts(f)
  <2>1. f.live /\ here /\ \A g \in flights' : ~g.live
    BY <1>1, <1>3 DEF ClipFetched, OneLive, Clipboard!List!Accepts
  <2>2. loading' = (loading /\ f.background) /\ loading' = FALSE
    BY <1>1, <1>3, <2>1 DEF ClipFetched, OneLive, Clipboard!List!LoadingTrue, Clipboard!List!Live,
       Clipboard!List!Settle, Flight
  <2>3. ClipFetched'
    BY <1>1, <2>1, <2>2 DEF ClipFetched, OneLive, Clipboard!List!LoadingTrue, Clipboard!List!Live
  <2>4. /\ f.tag # None => entries = f.tag
        /\ f.answer \in Seq(Id) => Showable(f.answer)
        /\ f.answer \in ClipAnswer /\ f.tag \in ClipTag /\ f.answer # None
    BY <1>1, <2>1 DEF ClipFetched, Flight, Clipboard!List!Settle
  <2>5. CASE f.answer \in {NotModified, Failed}
    <3>1. entries' = entries /\ etag' \in {etag, f.tag}
      BY <1>3, <2>5 DEF Clipboard!List!Settle, Clipboard!List!Committed
    <3> QED
      BY <2>3, <2>4, <3>1 DEF Showable
  <2>6. CASE f.answer \in Seq(Id)
    <3>1. entries' = f.answer /\ etag' = f.answer
      BY <1>3, <2>6 DEF Clipboard!List!Settle, Clipboard!List!Committed, Clipboard!Distinct
    <3> QED
      BY <2>3, <2>4, <2>6, <3>1 DEF Showable, ClipTag
  <2> QED
    BY <2>4, <2>5, <2>6 DEF ClipAnswer
<1> QED
  BY <1>2, <1>3

\* What does not touch the requests leaves them in order.
LEMMA ClipUntouched ==
  ASSUME ClipFetched, UNCHANGED <<entries, loading, flights, gone, here>>, used \subseteq used'
  PROVE  ClipFetched'
  BY DEF ClipFetched, Showable, Clipboard!List!LoadingTrue, Clipboard!List!Live

\* What quiet asks of the requests, when none begins.
LEMMA ClipQuiets ==
  ASSUME flights \subseteq Flight(ClipTag, ClipAnswer)
  PROVE  /\ \A f \in Clipboard!List!Abort(Clipboard!List!Polls) : f.live => \E g \in flights : g.live
         /\ \A f \in Clipboard!List!Abort(Clipboard!List!Live) : ~f.live
<1>1. Clipboard!List!Polls \in SUBSET flights /\ Clipboard!List!Live \in SUBSET flights
  BY DEF Clipboard!List!Live, Clipboard!List!Polls
<1> QED
  BY <1>1, ClipRequests DEF Clipboard!List!Live

Operation == [pc : {"idle", "asking", "told", "refreshing"}, ask : Clipboard!Mutation \cup {None}, result : SUBSET Id]

\* The types of what is no request.
ClipRest ==
  /\ entries \in Seq(Id) /\ truth \in Seq(Id) /\ etag \in ClipTag
  /\ cycle \in {"off", "idle", "timer", "ticking"}
  /\ here \in BOOLEAN /\ visible \in BOOLEAN /\ confirmingAll \in BOOLEAN /\ previewing \in BOOLEAN
  /\ selecting \in BOOLEAN
  /\ {confirming, copying, manualCopy} \subseteq Id \cup {None}
  /\ op \in Operation
  /\ used \subseteq Id /\ gone \subseteq Id /\ asked \subseteq Clipboard!Mutation /\ spare \in Nat
\* The parts of the invariant, with the types that the requests do not speak of.
LEMMA ClipTypes == ClipKept <=> ClipRest /\ ClipFetched /\ ClipHonest /\ ClipQuiet /\ ClipTold
  BY DEF Operation, ClipKept, ClipRest, Clipboard!TypeOK, Clipboard!Flight, Flight, ClipTag,
     ClipAnswer, ClipFetched

\* The buttons.
LEMMA ClipButtonsKeep ==
  ASSUME Clipboard!Distinct, ClipKept, Clipboard!Buttons
  PROVE  ClipKept'
<1>0. ClipRest /\ ClipFetched /\ ClipHonest /\ ClipQuiet /\ ClipTold
  BY ClipTypes
<1> SUFFICES ClipRest' /\ ClipFetched' /\ ClipHonest' /\ ClipQuiet' /\ ClipTold'
  BY DEF Operation, ClipKept, ClipRest, Clipboard!TypeOK, Clipboard!Flight, Flight, ClipTag,
     ClipAnswer, ClipFetched
<1> USE DEF Clipboard!Command, Clipboard!Spend, Clipboard!remote, Clipboard!dialogs,
        Clipboard!server, Clipboard!vars
<1>e. /\ etag # None => entries = etag
      /\ etag \in ClipTag /\ flights \subseteq Flight(ClipTag, ClipAnswer)
  BY <1>0 DEF ClipRest, ClipHonest, ClipFetched
<1>1. ASSUME NEW m \in Clipboard!Mutation, Clipboard!Asks(m)
      PROVE  ClipRest' /\ ClipFetched' /\ ClipHonest' /\ ClipQuiet' /\ ClipTold'
  <2>1. Clipboard!List!Cancel /\ op' = [pc |-> "asking", ask |-> m, result |-> {}]
           /\ asked' = asked \cup {m}
    BY <1>1 DEF Clipboard!Asks, Clipboard!RunMutation
  <2>2. ClipFetched' /\ ClipQuiet'
    BY <1>0, <1>e, <2>1, ClipCancels, ClipQuiets DEF ClipQuiet, Clipboard!List!Cancel
  <2>3. ClipRest'
    <3>1. /\ UNCHANGED <<entries, cycle, etag, confirming, confirmingAll, copying, manualCopy,
                         previewing, truth,
                         used, here, visible, selecting, gone>>
          /\ spare > 0 /\ spare' = spare - 1
      BY <1>1 DEF Clipboard!Asks
    <3>2. spare' \in Nat /\ asked' \subseteq Clipboard!Mutation
      BY <1>0, <2>1, <3>1 DEF ClipRest
    <3>3. op' \in Operation
      BY <2>1 DEF Operation
    <3> QED
      BY <1>0, <3>1, <3>2, <3>3 DEF ClipRest
  <2>4. ClipHonest' /\ ClipTold'
    BY <1>0, <1>1, <2>1 DEF Clipboard!Asks, ClipHonest, ClipTold, Showable
  <2> QED
    BY <2>2, <2>3, <2>4
<1>2. CASE Clipboard!Publish \/ Clipboard!RemoveEntry \/ Clipboard!ClearAll
  <2>1. confirming \in Clipboard!Shown => confirming \in Id
    BY <1>0 DEF ClipRest, Clipboard!Shown, Clipboard!ToSet
  <2>2. \E m \in Clipboard!Mutation : Clipboard!Asks(m)
    BY <1>2, <2>1 DEF Clipboard!Publish, Clipboard!RemoveEntry, Clipboard!ClearAll, Clipboard!Mutation
  <2> QED
    BY <1>1, <2>2
<1>3. CASE Clipboard!ManualRefresh
  <2>1. ClipFetched' /\ op.pc = "idle"
    BY <1>0, <1>3, ClipRefreshes DEF Clipboard!ManualRefresh, Clipboard!Busy
  <2>2. ClipRest'
    <3>1. /\ UNCHANGED <<entries, cycle, etag, confirming, copying, manualCopy, previewing, truth,
                         used, asked, op,
                         here, visible, selecting, gone>>
          /\ confirmingAll' = FALSE /\ spare > 0 /\ spare' = spare - 1
      BY <1>3 DEF Clipboard!ManualRefresh
    <3>2. spare' \in Nat
      BY <1>0, <3>1 DEF ClipRest
    <3> QED
      BY <1>0, <3>1, <3>2 DEF ClipRest
  <2>3. ClipHonest' /\ ClipQuiet' /\ ClipTold'
    BY <1>0, <1>3, <2>1 DEF Clipboard!ManualRefresh, ClipHonest, ClipQuiet, ClipTold, Showable
  <2> QED
    BY <2>1, <2>2, <2>3
<1>4. ASSUME \/ Clipboard!AskClear \/ Clipboard!Preview
             \/ \E e \in Id : Clipboard!AskDelete(e) \/ Clipboard!Copy(e)
      PROVE  ClipRest' /\ ClipFetched' /\ ClipHonest' /\ ClipQuiet' /\ ClipTold'
  <2>1. /\ flights' = Clipboard!List!Abort(Clipboard!List!Polls)
        /\ UNCHANGED <<entries, loading, gone, used, here, etag, truth, op>>
    BY <1>4 DEF Clipboard!AskClear, Clipboard!Preview, Clipboard!AskDelete, Clipboard!Copy,
       Clipboard!List!CancelBackground
  <2>2. ClipFetched'
    BY <1>0, <1>e, <2>1, ClipPolls
  <2>3. ClipQuiet'
    BY <1>0, <1>e, <2>1, ClipQuiets DEF ClipQuiet
  <2>4. ClipRest'
    <3>1. UNCHANGED <<cycle, manualCopy, asked, visible, selecting>> /\ spare > 0 /\ spare' = spare - 1
      BY <1>4 DEF Clipboard!AskClear, Clipboard!Preview, Clipboard!AskDelete, Clipboard!Copy
    <3>2. /\ confirming' \in {confirming, None} \cup Id /\ copying' \in {copying} \cup Id
          /\ confirmingAll' \in {confirmingAll, TRUE} /\ previewing' \in {previewing, TRUE}
      BY <1>4 DEF Clipboard!AskClear, Clipboard!Preview, Clipboard!AskDelete, Clipboard!Copy
    <3>3. spare' \in Nat
      BY <1>0, <3>1 DEF ClipRest
    <3> QED
      BY <1>0, <2>1, <3>1, <3>2, <3>3 DEF ClipRest
  <2>5. ClipHonest' /\ ClipTold'
    BY <1>0, <2>1 DEF ClipHonest, ClipTold, Showable, Clipboard!Shown
  <2> QED
    BY <2>2, <2>3, <2>4, <2>5
<1>5. CASE Clipboard!Reconsider \/ Clipboard!CloseManualCopy \/ Clipboard!ClosePreview
  <2>1. UNCHANGED <<entries, loading, flights, gone, used, here, etag, truth, op>>
    BY <1>5 DEF Clipboard!Reconsider, Clipboard!CloseManualCopy, Clipboard!ClosePreview
  <2>2. ClipFetched'
    BY <1>0, <2>1, ClipUntouched
  <2>3. ClipRest'
    <3>1. UNCHANGED <<cycle, copying, asked, visible, selecting>>
             /\ (spare' = spare \/ (spare > 0 /\ spare' = spare - 1))
      BY <1>5 DEF Clipboard!Reconsider, Clipboard!CloseManualCopy, Clipboard!ClosePreview
    <3>2. /\ confirming' \in {confirming, None} /\ manualCopy' \in {manualCopy, None}
          /\ confirmingAll' \in {confirmingAll, FALSE} /\ previewing' \in {previewing, FALSE}
      BY <1>5 DEF Clipboard!Reconsider, Clipboard!CloseManualCopy, Clipboard!ClosePreview
    <3>3. spare' \in Nat
      BY <1>0, <3>1 DEF ClipRest
    <3> QED
      BY <1>0, <2>1, <3>1, <3>2, <3>3 DEF ClipRest
  <2>4. ClipHonest' /\ ClipQuiet' /\ ClipTold'
    BY <1>0, <2>1 DEF ClipHonest, ClipQuiet, ClipTold, Showable, Clipboard!Shown
  <2> QED
    BY <2>2, <2>3, <2>4
<1> QED
  BY <1>2, <1>3, <1>4, <1>5 DEF Clipboard!Buttons

\* A mutation as it runs.
LEMMA ClipServedKeeps ==
  ASSUME Clipboard!Distinct, ClipKept, NEW m \in asked, Clipboard!MutationServed(m)
  PROVE  ClipKept'
<1>0. ClipRest /\ ClipFetched /\ ClipHonest /\ ClipQuiet /\ ClipTold
  BY ClipTypes
<1> SUFFICES ClipRest' /\ ClipFetched' /\ ClipHonest' /\ ClipQuiet' /\ ClipTold'
  BY DEF Operation, ClipKept, ClipRest, Clipboard!TypeOK, Clipboard!Flight, Flight, ClipTag,
     ClipAnswer, ClipFetched
<1>1. /\ UNCHANGED <<entries, loading, flights, cycle, etag, confirming, confirmingAll, copying,
                     manualCopy, previewing,
                     here, visible, selecting, gone, spare>>
      /\ asked' \subseteq asked /\ m \in Clipboard!Mutation
  BY <1>0 DEF Clipboard!MutationServed, Clipboard!remote, Clipboard!dialogs, ClipRest
<1>2. SUFFICES /\ used \subseteq used' /\ used' \subseteq Id /\ truth' \in Seq(Id) /\ Showable(truth)'
               /\ op' \in Operation
               /\ op'.pc \in {"asking", "told"} => op.pc \in {"asking", "told"}
               /\ ClipTold'
  BY <1>0, <1>1, ClipUntouched DEF ClipRest, ClipHonest, ClipQuiet, Showable
<1> DEFINE Hears(ids) == op.pc = "asking" /\ op.ask = m
       /\ op' = [op EXCEPT !.pc = "told", !.result = ids]
<1>3. ASSUME NEW ids \in SUBSET Id, Hears(ids)
      PROVE  /\ op'.pc = "told" /\ op'.ask = m /\ op'.result = ids
             /\ op' \in Operation
  BY <1>0, <1>3 DEF ClipRest, Operation
<1>4. Clipboard!NoOp \in Operation
  BY DEF Clipboard!NoOp, Operation
<1>o. op \in Operation
  BY <1>0 DEF ClipRest
<1>5. ASSUME m.kind = "publish", NEW e \in Id \ used, truth' = Clipboard!Newest(e, truth),
             used' = used \cup {e},
             op' = op \/ Hears({e})
      PROVE  /\ used \subseteq used' /\ used' \subseteq Id /\ truth' \in Seq(Id)
                   /\ Showable(truth)' /\ ClipTold'
             /\ op' = op \/ op.pc = "asking"
  <2>1. e \notin gone /\ e \notin Clipboard!Shown /\ e \notin Clipboard!ToSet(truth)
    BY <1>0, <1>5 DEF ClipHonest, Showable, Clipboard!Shown
  <2>2. /\ truth' \in Seq(Id) /\ Clipboard!ToSet(truth') \subseteq Clipboard!ToSet(truth) \cup {e}
        /\ Clipboard!IsInjective(truth')
    BY <1>0, <1>5, <2>1, NewestIs DEF ClipRest, ClipHonest, Showable
  <2>3. Showable(truth)'
    BY <1>0, <1>1, <1>5, <2>1, <2>2 DEF ClipHonest, Showable
  <2>4. ClipTold'
    <3>1. CASE op' = op
      <4>1. op.pc = "told" => e \notin op.result
        BY <1>0, <1>5 DEF ClipTold
      <4> QED
        BY <1>0, <1>1, <1>5, <2>1, <2>2, <3>1, <4>1 DEF ClipTold, Clipboard!Shown
    <3>2. CASE Hears({e})
      <4>1. op'.pc = "told" /\ op'.ask = m /\ op'.result = {e}
        <5> HIDE DEF Hears
        <5>1. {e} \in SUBSET Id
          OBVIOUS
        <5> QED
          BY <1>3, <3>2, <5>1
      <4> QED
        BY <1>1, <1>5, <2>1, <4>1 DEF ClipTold, Clipboard!Shown
    <3> QED
      BY <1>5, <3>1, <3>2
  <2> QED
    BY <1>0, <1>5, <2>2, <2>3, <2>4 DEF ClipRest
<1>6. ASSUME used' = used, truth' \in Seq(Id), Clipboard!IsInjective(truth'),
             Clipboard!ToSet(truth') \subseteq Clipboard!ToSet(truth),
             NEW ids \in SUBSET used, Clipboard!ToSet(truth') \cap ids = {},
             (m.kind = "delete" /\ ids = {m.id}) \/ m.kind = "clear",
             op' = op \/ Hears(ids)
      PROVE  /\ used \subseteq used' /\ used' \subseteq Id /\ truth' \in Seq(Id)
                   /\ Showable(truth)' /\ ClipTold'
             /\ op' = op \/ op.pc = "asking"
  <2>1. Showable(truth)'
    BY <1>0, <1>1, <1>6 DEF ClipHonest, Showable
  <2>2. ClipTold'
    <3>1. CASE op' = op
      BY <1>0, <1>1, <1>6, <3>1 DEF ClipTold, Clipboard!Shown
    <3>2. CASE Hears(ids)
      <4>1. op'.pc = "told" /\ op'.ask = m /\ op'.result = ids
        <5> HIDE DEF Hears
        <5>1. ids \in SUBSET Id
          BY <1>0 DEF ClipRest
        <5> QED
          BY <1>3, <3>2, <5>1
      <4> QED
        BY <1>1, <1>6, <4>1 DEF ClipTold
    <3> QED
      BY <1>6, <3>1, <3>2
  <2> QED
    BY <1>0, <1>6, <2>1, <2>2 DEF ClipRest
<1>7. ASSUME UNCHANGED <<truth, used>>, op' = op \/ op' = Clipboard!NoOp
      PROVE  Showable(truth)' /\ ClipTold' /\ (op' = op \/ op'.pc = "idle")
  <2>1. op' = op \/ op'.pc = "idle"
    BY <1>7 DEF Clipboard!NoOp
  <2> QED
    BY <1>0, <1>1, <1>7, <2>1 DEF ClipTold, ClipHonest, Showable, Clipboard!Shown
<1>8. CASE m.kind = "publish" /\ \E e \in Id \ used : truth' = Clipboard!Newest(e, truth)
         /\ used' = used \cup {e}
                                  /\ Clipboard!Answered(m, {e})
  <2>1. PICK e \in Id \ used : truth' = Clipboard!Newest(e, truth) /\ used' = used \cup {e}
                               /\ Clipboard!Answered(m, {e})
    BY <1>8
  <2>2. op' = op \/ Hears({e})
    BY <2>1 DEF Clipboard!Answered, Clipboard!Awaited
  <2>3. op' \in Operation
    <3> HIDE DEF Hears
    <3>1. {e} \in SUBSET Id
      OBVIOUS
    <3> QED
      BY <1>3, <1>o, <2>2, <3>1
  <2> HIDE DEF Hears
  <2>4. /\ used \subseteq used' /\ used' \subseteq Id /\ truth' \in Seq(Id) /\ Showable(truth)'
              /\ ClipTold'
        /\ op' = op \/ op.pc = "asking"
    BY <1>5, <1>8, <2>1, <2>2
  <2> QED
    BY <2>3, <2>4
<1>9. CASE m.kind = "delete" /\ m.id \in Clipboard!ToSet(truth)
         /\ truth' = Clipboard!Without(m.id, truth)
           /\ UNCHANGED used /\ Clipboard!Answered(m, {m.id})
  <2>1. op' = op \/ Hears({m.id})
    BY <1>9 DEF Clipboard!Answered, Clipboard!Awaited
  <2>2. {m.id} \in SUBSET used /\ {m.id} \in SUBSET Id
    BY <1>0, <1>9 DEF ClipHonest, Showable, ClipRest
  <2>3. /\ truth' \in Seq(Id) /\ Clipboard!ToSet(truth') = Clipboard!ToSet(truth) \ {m.id}
        /\ Clipboard!IsInjective(truth')
    BY <1>0, <1>9, Filtered DEF ClipRest, ClipHonest, Showable
  <2> HIDE DEF Hears
  <2>4. op' \in Operation
    BY <1>3, <1>o, <2>1, <2>2
  <2>5. /\ used \subseteq used' /\ used' \subseteq Id /\ truth' \in Seq(Id) /\ Showable(truth)'
              /\ ClipTold'
        /\ op' = op \/ op.pc = "asking"
    <3>1. Clipboard!ToSet(truth') \subseteq Clipboard!ToSet(truth)
             /\ Clipboard!ToSet(truth') \cap {m.id} = {}
      BY <2>3
    <3> QED
      BY <1>6, <1>9, <2>1, <2>2, <2>3, <3>1
  <2> QED
    BY <2>4, <2>5
<1>10. CASE m.kind = "clear" /\ truth' = <<>> /\ UNCHANGED used
          /\ Clipboard!Answered(m, Clipboard!ToSet(truth))
  <2> DEFINE ids == Clipboard!ToSet(truth)
  <2>1. op' = op \/ Hears(ids)
    BY <1>10 DEF Clipboard!Answered, Clipboard!Awaited
  <2>2. ids \in SUBSET used /\ ids \in SUBSET Id
    BY <1>0 DEF ClipHonest, Showable, ClipRest
  <2>3. truth' \in Seq(Id) /\ Clipboard!ToSet(truth') = {} /\ Clipboard!IsInjective(truth')
    BY <1>10 DEF Clipboard!ToSet, Clipboard!IsInjective
  <2> HIDE DEF Hears, ids
  <2>4. op' \in Operation
    BY <1>3, <1>o, <2>1, <2>2
  <2>5. /\ used \subseteq used' /\ used' \subseteq Id /\ truth' \in Seq(Id) /\ Showable(truth)'
              /\ ClipTold'
        /\ op' = op \/ op.pc = "asking"
    <3>1. Clipboard!ToSet(truth') \subseteq Clipboard!ToSet(truth)
             /\ Clipboard!ToSet(truth') \cap ids = {}
      BY <2>3
    <3> QED
      BY <1>6, <1>10, <2>1, <2>2, <2>3, <3>1
  <2> QED
    BY <2>4, <2>5
<1>11. CASE UNCHANGED <<truth, used>> /\ (op' = op \/ op' = Clipboard!NoOp)
  <2>1. Showable(truth)' /\ ClipTold' /\ (op' = op \/ op'.pc = "idle")
    BY <1>7, <1>11
  <2>2. used \subseteq used' /\ used' \subseteq Id /\ truth' \in Seq(Id)
    BY <1>0, <1>11 DEF ClipRest
  <2> QED
    BY <1>4, <1>o, <1>11, <2>1, <2>2
<1> QED
  BY <1>8, <1>9, <1>10, <1>11 DEF Clipboard!MutationServed

\* A mutation that is underway: the server answers it, and the page commits what it was told.
LEMMA ClipRunningKeeps ==
  ASSUME Clipboard!Distinct, ClipKept, Clipboard!Running
  PROVE  ClipKept'
<1>0. ClipRest /\ ClipFetched /\ ClipHonest /\ ClipQuiet /\ ClipTold
  BY ClipTypes
<1>00. SUFFICES ASSUME ~\E m \in asked : Clipboard!MutationServed(m)
                PROVE  ClipRest' /\ ClipFetched' /\ ClipHonest' /\ ClipQuiet' /\ ClipTold'
  BY ClipServedKeeps DEF Operation, ClipKept, ClipRest, Clipboard!TypeOK, Clipboard!Flight, Flight,
     ClipTag, ClipAnswer,
     ClipFetched
<1> USE DEF Clipboard!Spend, Clipboard!remote, Clipboard!dialogs, Clipboard!server, Clipboard!vars
<1>n. Clipboard!NoOp \in Operation /\ Clipboard!NoOp.pc = "idle"
  BY DEF Clipboard!NoOp, Operation
<1>1. CASE Clipboard!MutationSucceeds
  <2>1. /\ op.pc = "told" /\ etag' = None /\ entries' = Clipboard!Edited /\ Clipboard!List!Refresh
        /\ op' = [op EXCEPT !.pc = "refreshing"]
        /\ gone' = IF op.ask.kind = "publish" THEN gone ELSE gone \cup op.result
        /\ UNCHANGED <<cycle, copying, previewing, truth, used, asked, here, visible, selecting, spare>>
    BY <1>1 DEF Clipboard!MutationSucceeds
  <2>2. op \in Operation /\ op' \in Operation /\ op'.pc = "refreshing" /\ op'.ask = op.ask
           /\ op.ask \in Clipboard!Mutation
    BY <1>0, <2>1 DEF ClipRest, ClipTold, Operation
  <2>3. ClipFetched' /\ ClipQuiet' /\ ClipTold'
    BY <1>0, <2>1, <2>2, ClipRefreshes DEF ClipQuiet, ClipTold
  <2>4. entries' \in Seq(Id) /\ Showable(entries)' /\ Showable(truth)' /\ gone' \subseteq used'
    <3>1. CASE op.ask.kind = "publish"
      <4>1. PICK e \in used \ gone : op.result = {e} /\ e \notin Clipboard!Shown
        BY <1>0, <2>1, <3>1 DEF ClipTold
      <4>2. entries' = Clipboard!Newest(e, entries) /\ e \in Id /\ gone' = gone
        BY <1>0, <2>1, <3>1, <4>1 DEF Clipboard!Edited, ClipRest
      <4>3. /\ entries' \in Seq(Id) /\ Clipboard!IsInjective(entries')
            /\ Clipboard!ToSet(entries') \subseteq Clipboard!ToSet(entries) \cup {e}
        BY <1>0, <4>1, <4>2, NewestIs DEF ClipRest, ClipHonest, Showable, Clipboard!Shown
      <4> QED
        BY <1>0, <2>1, <4>1, <4>2, <4>3 DEF ClipHonest, Showable
    <3>2. CASE op.ask.kind = "delete"
      <4>1. /\ op.result = {op.ask.id} /\ op.result \cap Clipboard!ToSet(truth) = {}
                  /\ op.result \subseteq used
            /\ entries' = Clipboard!Without(op.ask.id, entries) /\ gone' = gone \cup {op.ask.id}
        BY <1>0, <2>1, <3>2 DEF ClipTold, Clipboard!Edited
      <4>2. /\ entries' \in Seq(Id) /\ Clipboard!IsInjective(entries')
            /\ Clipboard!ToSet(entries') = Clipboard!ToSet(entries) \ {op.ask.id}
        BY <1>0, <4>1, Filtered DEF ClipRest, ClipHonest, Showable
      <4> QED
        BY <1>0, <2>1, <4>1, <4>2 DEF ClipHonest, Showable
    <3>3. CASE op.ask.kind = "clear"
      <4>1. /\ op.result \cap Clipboard!ToSet(truth) = {} /\ op.result \subseteq used
            /\ entries' = <<>> /\ gone' = gone \cup op.result
        BY <1>0, <2>1, <3>3 DEF ClipTold, Clipboard!Edited
      <4>2. entries' \in Seq(Id) /\ Clipboard!IsInjective(entries') /\ Clipboard!ToSet(entries') = {}
        BY <4>1 DEF Clipboard!ToSet, Clipboard!IsInjective
      <4> QED
        BY <1>0, <2>1, <4>1, <4>2 DEF ClipHonest, Showable
    <3> QED
      BY <2>2, <3>1, <3>2, <3>3 DEF Clipboard!Mutation
  <2>5. ClipHonest'
    BY <2>1, <2>4 DEF ClipHonest
  <2>6. ClipRest'
    <3>1. confirmingAll' = FALSE /\ confirming' \in {confirming, None}
             /\ manualCopy' \in {manualCopy, None}
      BY <1>1 DEF Clipboard!MutationSucceeds, Clipboard!Closed
    <3>2. gone' \subseteq Id
      BY <1>0, <2>1, <2>4 DEF ClipRest
    <3>3. etag' \in ClipTag
      BY <2>1 DEF ClipTag
    <3> QED
      BY <1>0, <2>1, <2>2, <2>4, <3>1, <3>2, <3>3 DEF ClipRest
  <2> QED
    BY <2>3, <2>5, <2>6
<1>2. CASE Clipboard!MutationEnds \/ Clipboard!MutationFails \/ Clipboard!CopyEnds
  <2>1. /\ UNCHANGED <<entries, loading, flights, cycle, etag, confirming, confirmingAll,
                       previewing, truth, used, here,
                       visible, selecting, gone>>
        /\ op' \in {op, Clipboard!NoOp} /\ asked' \subseteq asked
        /\ copying' \in {copying, None} /\ manualCopy' \in {manualCopy, copying, None}
        /\ spare' = spare \/ (spare > 0 /\ spare' = spare - 1)
    <3>1. UNCHANGED <<entries, loading, flights, cycle, etag, confirming, confirmingAll,
                      previewing, truth, used, here,
                      visible, selecting, gone>>
      BY <1>2 DEF Clipboard!MutationEnds, Clipboard!MutationFails, Clipboard!CopyEnds
    <3>2. op' \in {op, Clipboard!NoOp} /\ asked' \subseteq asked
      BY <1>2 DEF Clipboard!MutationEnds, Clipboard!MutationFails, Clipboard!CopyEnds
    <3>3. copying' \in {copying, None} /\ manualCopy' \in {manualCopy, copying, None}
      BY <1>2 DEF Clipboard!MutationEnds, Clipboard!MutationFails, Clipboard!CopyEnds
    <3>4. spare' = spare \/ (spare > 0 /\ spare' = spare - 1)
      BY <1>2 DEF Clipboard!MutationEnds, Clipboard!MutationFails, Clipboard!CopyEnds
    <3> QED
      BY <3>1, <3>2, <3>3, <3>4
  <2>2. ClipFetched'
    BY <1>0, <2>1, ClipUntouched
  <2>3. ClipHonest' /\ ClipQuiet' /\ ClipTold'
    BY <1>0, <1>n, <2>1 DEF ClipHonest, ClipQuiet, ClipTold, Showable, Clipboard!Shown
  <2>4. ClipRest'
    <3>1. spare' \in Nat
      BY <1>0, <2>1 DEF ClipRest
    <3> QED
      BY <1>0, <1>n, <2>1, <3>1 DEF ClipRest
  <2> QED
    BY <2>2, <2>3, <2>4
<1> QED
  BY <1>00, <1>1, <1>2 DEF Clipboard!Running

\* The tab, the network, the timers, and other devices.
LEMMA ClipOthersKeep ==
  ASSUME Clipboard!Distinct, ClipKept,
         Clipboard!Browser \/ Clipboard!Others \/ Clipboard!Effects \/ Clipboard!Polling
  PROVE  ClipKept'
<1>0. ClipRest /\ ClipFetched /\ ClipHonest /\ ClipQuiet /\ ClipTold
  BY ClipTypes
<1> SUFFICES ClipRest' /\ ClipFetched' /\ ClipHonest' /\ ClipQuiet' /\ ClipTold'
  BY DEF Operation, ClipKept, ClipRest, Clipboard!TypeOK, Clipboard!Flight, Flight, ClipTag,
     ClipAnswer, ClipFetched
<1> USE DEF Clipboard!Spend, Clipboard!remote, Clipboard!dialogs, Clipboard!server, Clipboard!vars
<1>e. /\ etag # None => entries = etag
      /\ etag \in ClipTag /\ flights \subseteq Flight(ClipTag, ClipAnswer)
  BY <1>0 DEF ClipRest, ClipHonest, ClipFetched
\* What fetches at most a poll, and none while a mutation runs.
<1> DEFINE Calm == /\ UNCHANGED <<entries, loading, gone, used, here, etag, truth, op>>
                   /\ \E fs \in {flights, Clipboard!List!Abort(Clipboard!List!Polls)} :
                        /\ flights' \in {fs, Clipboard!List!Poll(fs, etag)}
                        /\ op.pc # "idle" => flights' = fs
<1>1. ASSUME Calm PROVE ClipFetched' /\ ClipHonest' /\ ClipQuiet' /\ ClipTold'
  <2>1. PICK fs \in {flights, Clipboard!List!Abort(Clipboard!List!Polls)} :
               /\ flights' \in {fs, Clipboard!List!Poll(fs, etag)}
               /\ op.pc # "idle" => flights' = fs
    BY <1>1
  <2>2. ClipFetched'
    BY <1>0, <1>1, <1>e, <2>1, ClipPolls
  <2>3. ClipQuiet'
    BY <1>0, <1>1, <1>e, <2>1, ClipQuiets DEF ClipQuiet
  <2>4. ClipHonest' /\ ClipTold'
    BY <1>0, <1>1 DEF ClipHonest, ClipTold, Showable, Clipboard!Shown
  <2> QED
    BY <2>2, <2>3, <2>4
<1>2. CASE Clipboard!Browser
  <2>1. /\ spare > 0 /\ spare' = spare - 1
        /\ UNCHANGED <<etag, confirming, confirmingAll, copying, manualCopy, previewing, truth,
                       used, asked, op, gone>>
    BY <1>2 DEF Clipboard!Browser
  <2>2. spare' \in Nat
    BY <1>0, <2>1 DEF ClipRest
  <2>3. CASE visible' = ~visible /\ Clipboard!List!VisibilityChanges(Clipboard!Skips, etag)
             /\ UNCHANGED <<here, selecting>>
    <3>1. UNCHANGED <<entries, loading>>
      BY <2>3 DEF Clipboard!List!VisibilityChanges
    <3>2. Calm
      BY <2>1, <2>3, <3>1 DEF Clipboard!List!VisibilityChanges, Clipboard!Skips, Clipboard!Busy
    <3>3. cycle' \in {cycle, "ticking", "idle"}
      BY <2>3 DEF Clipboard!List!VisibilityChanges
    <3>4. ClipRest'
      BY <1>0, <2>1, <2>2, <2>3, <3>1, <3>3 DEF ClipRest
    <3> QED
      BY <1>1, <3>2, <3>4
  <2>4. CASE selecting' = ~selecting /\ UNCHANGED <<entries, loading, flights, cycle, here, visible>>
    <3>1. Calm
      BY <2>1, <2>4
    <3>2. ClipRest'
      BY <1>0, <2>1, <2>2, <2>4 DEF ClipRest
    <3> QED
      BY <1>1, <3>1, <3>2
  <2>5. CASE here' = FALSE /\ Clipboard!List!Unmounted /\ UNCHANGED <<visible, selecting>>
    <3>1. /\ UNCHANGED <<entries, loading>> /\ cycle' = "off"
          /\ flights' = Clipboard!List!Abort(Clipboard!List!Live)
      BY <2>5 DEF Clipboard!List!Unmounted
    <3>2. ClipFetched' /\ ClipQuiet'
      BY <1>0, <1>e, <2>5, <3>1, ClipCancels, ClipQuiets DEF ClipQuiet
    <3>3. ClipHonest' /\ ClipTold'
      BY <1>0, <2>1, <3>1 DEF ClipHonest, ClipTold, Showable, Clipboard!Shown
    <3>4. ClipRest'
      BY <1>0, <2>1, <2>2, <2>5, <3>1 DEF ClipRest
    <3> QED
      BY <3>2, <3>3, <3>4
  <2> QED
    BY <1>2, <2>3, <2>4, <2>5 DEF Clipboard!Browser
<1>3. CASE Clipboard!Others
  <2>1. /\ UNCHANGED <<entries, loading, flights, cycle, etag, confirming, confirmingAll, copying,
                       manualCopy,
                       previewing, asked, here, visible, op, selecting, gone>>
        /\ spare > 0 /\ spare' = spare - 1
    BY <1>3 DEF Clipboard!Others
  <2>2. spare' \in Nat
    BY <1>0, <2>1 DEF ClipRest
  <2>3. /\ used \subseteq used' /\ used' \subseteq Id
        /\ truth' \in Seq(Id) /\ Clipboard!IsInjective(truth')
        /\ Clipboard!ToSet(truth') \subseteq Clipboard!ToSet(truth) \cup (used' \ used)
    <3>1. CASE \E e \in Id \ used : truth' = Clipboard!Newest(e, truth) /\ used' = used \cup {e}
      <4>1. PICK e \in Id \ used : truth' = Clipboard!Newest(e, truth) /\ used' = used \cup {e}
        BY <3>1
      <4>2. e \notin Clipboard!ToSet(truth)
        BY <1>0, <4>1 DEF ClipHonest, Showable
      <4>3. /\ truth' \in Seq(Id) /\ Clipboard!IsInjective(truth')
            /\ Clipboard!ToSet(truth') \subseteq Clipboard!ToSet(truth) \cup {e}
        BY <1>0, <4>1, <4>2, NewestIs DEF ClipRest, ClipHonest, Showable
      <4> QED
        BY <1>0, <4>1, <4>3 DEF ClipRest
    <3>2. CASE \E d \in Clipboard!ToSet(truth) : truth' = Clipboard!Without(d, truth) /\ UNCHANGED used
      <4>1. PICK d : truth' = Clipboard!Without(d, truth) /\ UNCHANGED used
        BY <3>2
      <4>2. /\ truth' \in Seq(Id) /\ Clipboard!IsInjective(truth')
            /\ Clipboard!ToSet(truth') = Clipboard!ToSet(truth) \ {d}
        BY <1>0, <4>1, Filtered DEF ClipRest, ClipHonest, Showable
      <4> QED
        BY <1>0, <4>1, <4>2 DEF ClipRest
    <3> QED
      BY <1>3, <3>1, <3>2 DEF Clipboard!Others
  <2>4. Showable(truth)'
    BY <1>0, <2>1, <2>3 DEF ClipHonest, Showable
  <2>5. ClipFetched'
    BY <1>0, <2>1, <2>3, ClipUntouched
  <2>6. ClipHonest' /\ ClipQuiet'
    BY <1>0, <2>1, <2>3, <2>4 DEF ClipHonest, ClipQuiet, Showable
  <2>7. ClipTold'
    BY <1>0, <2>1, <2>3 DEF ClipTold, Clipboard!Shown
  <2>8. ClipRest'
    BY <1>0, <2>1, <2>2, <2>3 DEF ClipRest
  <2> QED
    BY <2>5, <2>6, <2>7, <2>8
<1>4. CASE Clipboard!Effects \/ Clipboard!Polling
  <2>1. UNCHANGED <<etag, confirming, confirmingAll, copying, manualCopy, previewing, truth, used,
                    asked, here, visible,
                    op, selecting, gone, spare>>
    BY <1>4 DEF Clipboard!Effects, Clipboard!Polling
  <2>2. UNCHANGED <<entries, loading>> /\ cycle' \in {"off", "idle", "timer", "ticking"}
    BY <1>4 DEF Clipboard!Effects, Clipboard!Polling, Clipboard!List!EffectStarts,
       Clipboard!List!EffectStops,
       Clipboard!List!Tick, Clipboard!List!TickEnds, Clipboard!List!Scheduled
  <2>3. Calm
    BY <1>4, <2>1, <2>2 DEF Clipboard!Effects, Clipboard!Polling, Clipboard!List!EffectStarts,
       Clipboard!List!EffectStops, Clipboard!List!CancelBackground, Clipboard!List!Tick,
       Clipboard!List!TickEnds,
       Clipboard!Skips, Clipboard!Busy
  <2>4. ClipRest'
    BY <1>0, <2>1, <2>2 DEF ClipRest
  <2> QED
    BY <1>1, <2>3, <2>4
<1> QED
  BY <1>2, <1>3, <1>4

\* Answers on their way.
LEMMA ClipFetchingKeeps ==
  ASSUME Clipboard!Distinct, ClipKept, NEW f \in flights,
         Clipboard!Serve(f) \/ Clipboard!Lose(f) \/ Clipboard!Settle(f)
  PROVE  ClipKept'
<1>0. ClipRest /\ ClipFetched /\ ClipHonest /\ ClipQuiet /\ ClipTold
  BY ClipTypes
<1> SUFFICES ClipRest' /\ ClipFetched' /\ ClipHonest' /\ ClipQuiet' /\ ClipTold'
  BY DEF Operation, ClipKept, ClipRest, Clipboard!TypeOK, Clipboard!Flight, Flight, ClipTag,
     ClipAnswer, ClipFetched
<1> USE DEF Clipboard!Spend, Clipboard!remote, Clipboard!dialogs, Clipboard!server, Clipboard!vars
<1>1. CASE Clipboard!Serve(f) \/ Clipboard!Lose(f)
  <2>1. /\ UNCHANGED <<entries, loading, cycle, etag, confirming, confirmingAll, copying,
                       manualCopy, previewing, truth,
                       used, asked, here, visible, op, selecting, gone>>
        /\ spare' = spare \/ (spare > 0 /\ spare' = spare - 1)
        /\ Clipboard!List!Serve(f, truth) \/ Clipboard!List!Lose(f)
    <3>1. UNCHANGED <<entries, loading, cycle, etag, confirming, confirmingAll, copying,
                      manualCopy, previewing, truth,
                      used, asked, here, visible, op, selecting, gone>>
      BY <1>1 DEF Clipboard!Serve, Clipboard!Lose
    <3>2. spare' = spare \/ (spare > 0 /\ spare' = spare - 1)
      BY <1>1 DEF Clipboard!Serve, Clipboard!Lose
    <3>3. Clipboard!List!Serve(f, truth) \/ Clipboard!List!Lose(f)
      BY <1>1 DEF Clipboard!Serve, Clipboard!Lose
    <3> QED
      BY <3>1, <3>2, <3>3
  <2>2. ClipFetched'
    BY <1>0, <2>1, ClipAnswered DEF ClipRest, ClipHonest
  <2>3. ClipQuiet'
    <3>1. \E a : flights' = (flights \ {f}) \cup {[f EXCEPT !.answer = a]}
      BY <2>1 DEF Clipboard!List!Serve, Clipboard!List!Lose
    <3>2. \A a : [f EXCEPT !.answer = a].live = f.live
      BY <1>0 DEF ClipFetched, Flight
    <3> QED
      BY <1>0, <2>1, <3>1, <3>2 DEF ClipQuiet
  <2>4. ClipHonest' /\ ClipTold'
    BY <1>0, <2>1 DEF ClipHonest, ClipTold, Showable, Clipboard!Shown
  <2>5. ClipRest'
    <3>1. spare' \in Nat
      BY <1>0, <2>1 DEF ClipRest
    <3> QED
      BY <1>0, <2>1, <3>1 DEF ClipRest
  <2> QED
    BY <2>2, <2>3, <2>4, <2>5
<1>2. CASE Clipboard!Settle(f)
  <2>1. /\ UNCHANGED <<cycle, confirming, confirmingAll, copying, manualCopy, previewing, truth,
                       used, asked, here,
                       visible, op, selecting, gone, spare>>
        /\ Clipboard!List!Settle(f) /\ etag' = Clipboard!List!Committed(f, etag)
    BY <1>2 DEF Clipboard!Settle
  <2>2. /\ ClipFetched' /\ entries' \in Seq(Id) /\ etag' \in ClipTag /\ Showable(entries)'
        /\ etag' # None => entries' = etag'
    BY <1>0, <2>1, ClipSettles DEF ClipRest, ClipHonest
  <2>3. ClipHonest'
    BY <1>0, <2>1, <2>2 DEF ClipHonest, Showable
  <2>4. flights' = flights \ {f} /\ (f.live \/ entries' = entries)
    BY <2>1 DEF Clipboard!List!Settle, Clipboard!List!Accepts
  <2>5. ClipQuiet' /\ ClipTold'
    BY <1>0, <2>1, <2>4 DEF ClipQuiet, ClipTold, Clipboard!Shown
  <2>6. ClipRest'
    BY <1>0, <2>1, <2>2 DEF ClipRest
  <2> QED
    BY <2>2, <2>3, <2>5, <2>6
<1> QED
  BY <1>1, <1>2

\* Every step of the clipboard page keeps its invariant.
LEMMA ClipStep == ASSUME Clipboard!Distinct, ClipKept, Clipboard!Next PROVE ClipKept'
  BY ClipButtonsKeep, ClipRunningKeeps, ClipOthersKeep, ClipFetchingKeeps DEF Clipboard!Next

\* The clipboard page opens with a load underway and nothing to show.
LEMMA ClipBegin == ASSUME Clipboard!Distinct, Clipboard!Init PROVE ClipKept
<1>1. flights = {Clipboard!List!Fetch(FALSE, None)} /\ entries = <<>> /\ etag = None
         /\ op = Clipboard!NoOp /\ gone = {}
  BY DEF Clipboard!Init
<1>2. Clipboard!List!Fetch(FALSE, None) \in Flight(ClipTag, ClipAnswer)
  BY DEF Clipboard!List!Fetch, Flight, ClipTag, ClipAnswer
<1>3. \A f \in flights : f.live /\ ~f.background /\ f.tag = None /\ f.answer = None
  BY <1>1 DEF Clipboard!List!Fetch
<1>4. ClipFetched
  BY <1>1, <1>2, <1>3 DEF Clipboard!Init, ClipFetched, OneLive, Clipboard!List!LoadingTrue,
     Clipboard!List!Live,
     Clipboard!Distinct
<1>5. PICK e \in Id : truth = <<e>> /\ used = {e}
  BY DEF Clipboard!Init
<1>6. Showable(truth) /\ Showable(entries)
  BY <1>1, <1>5 DEF Showable, Clipboard!ToSet, Clipboard!IsInjective
<1>7. op \in Operation /\ op.pc = "idle"
  BY <1>1 DEF Clipboard!NoOp, Operation
<1>8. ClipRest
  <2>1. truth \in Seq(Id) /\ used \subseteq Id /\ entries \in Seq(Id) /\ etag \in ClipTag
    BY <1>1, <1>5 DEF ClipTag
  <2>2. /\ cycle = "off" /\ here = TRUE /\ visible = TRUE /\ confirming = None /\ confirmingAll = FALSE
        /\ copying = None /\ manualCopy = None /\ previewing = FALSE /\ selecting = FALSE
              /\ asked = {} /\ gone = {}
        /\ spare \in Nat
    BY DEF Clipboard!Init, Clipboard!Distinct
  <2> QED
    BY <1>7, <2>1, <2>2 DEF ClipRest
<1>9. ClipHonest /\ ClipQuiet /\ ClipTold
  BY <1>1, <1>6, <1>7 DEF ClipHonest, ClipQuiet, ClipTold
<1> QED
  BY <1>4, <1>8, <1>9, ClipTypes
-----------------------------------------------------------------------------
(* The editor, of which EditorProofs speaks.                               *)

E == INSTANCE EditorProofs WITH wire <- asked, left <- spare, MaxCommands <- EditorCommands

\* What EditorProofs says of its editor it says of the one the interface shows.
LEMMA SameEditor ==
  /\ Editor!Distinct <=> E!Distinct
  /\ Editor!Init <=> E!Init
  /\ Editor!Next <=> E!Next
  /\ E!TypeOK /\ E!UnsavedKept /\ E!SlotOwned => Editor!TypeOK /\ Editor!UnsavedKept /\ Editor!SlotOwned
  /\ E!GivenUpKnowingly => Editor!GivenUpKnowingly
  /\ E!ReplacesWhatWasSeen => Editor!ReplacesWhatWasSeen
  BY DEF Editor!vars, E!vars, Editor!Draft, E!Draft, Editor!Pending, E!Pending, Editor!Editor, E!Editor,
     Editor!Request, E!Request, Editor!Distinct, E!Distinct, Editor!Load, E!Load, Editor!Save,
     E!Save, Editor!Orphaned, E!Orphaned, Editor!Empty, E!Empty, Editor!Restored, E!Restored,
     Editor!Init, E!Init, Editor!Spend, E!Spend, Editor!Command, E!Command, Editor!Dirty, E!Dirty,
     Editor!Working, E!Working, Editor!Asking, E!Asking, Editor!Discarded, E!Discarded,
     Editor!Mount, E!Mount, Editor!OpenFilesBare, E!OpenFilesBare, Editor!OpenFiles, E!OpenFiles,
     Editor!Unlock, E!Unlock, Editor!CheckDenies, E!CheckDenies, Editor!Lock, E!Lock, Editor!Logout,
     E!Logout, Editor!Leave, E!Leave, Editor!Navigate, E!Navigate, Editor!Proceed, E!Proceed,
     Editor!OpenPreview, E!OpenPreview, Editor!Loaded, E!Loaded, Editor!Edit, E!Edit, Editor!Type,
     E!Type, Editor!Perform, E!Perform, Editor!Offered, E!Offered, Editor!RequestAction,
     E!RequestAction, Editor!ConfirmDiscard, E!ConfirmDiscard, Editor!KeepEditing, E!KeepEditing,
     Editor!Savable, E!Savable, Editor!SaveText, E!SaveText, Editor!Answer, E!Answer, Editor!Served,
     E!Served, Editor!Lost, E!Lost, Editor!SaveTold, E!SaveTold, Editor!Others, E!Others,
     Editor!Next, E!Next, Editor!TypeOK, E!TypeOK, Editor!UnsavedKept, E!UnsavedKept,
     Editor!SlotOwned, E!SlotOwned, Editor!GivenUpKnowingly, E!GivenUpKnowingly,
     Editor!ReplacesWhatWasSeen, E!ReplacesWhatWasSeen
-----------------------------------------------------------------------------
(* The directories and their pages, of which BrowserProofs speaks.         *)

B == INSTANCE BrowserProofs

\* What BrowserProofs says of its directories it says of those the interface shows.
LEMMA SameBrowser ==
  /\ Browser!Usable <=> B!Usable
  /\ Browser!Init <=> B!Init
  /\ Browser!Next <=> B!Next
  /\ B!TypeOK => Browser!TypeOK
  /\ B!EveryFileReachable => Browser!EveryFileReachable
  /\ B!NearestSurvivor => Browser!NearestSurvivor
  /\ B!PageShown => Browser!PageShown
  /\ B!PagesWhole => Browser!PagesWhole
<1>1. /\ \A s : Browser!Prefixes(s) = B!Prefixes(s) /\ Browser!ToSet(s) = B!ToSet(s)
      /\ \A s, t : Browser!IsPrefix(s, t) <=> B!IsPrefix(s, t)
      /\ \A s, t : Browser!IsStrictPrefix(s, t) <=> B!IsStrictPrefix(s, t)
      /\ \A s, e : Browser!Contains(s, e) <=> B!Contains(s, e)
  BY DEF Browser!Prefixes, B!Prefixes, Browser!ToSet, B!ToSet, Browser!IsPrefix, B!IsPrefix,
     Browser!IsStrictPrefix, B!IsStrictPrefix, Browser!Contains, B!Contains
<1>2. \A S : Browser!Max(S) = B!Max(S) /\ Browser!Min(S) = B!Min(S)
  BY DEF Browser!Max, B!Max, Browser!Min, B!Min
<1>3. \A S : Browser!Cardinality(S) = B!Cardinality(S) /\ (Browser!IsFiniteSet(S) <=> B!IsFiniteSet(S))
  BY DEF Browser!Cardinality, B!Cardinality, Browser!IsFiniteSet, B!IsFiniteSet
<1>4. \A S : Browser!SetToSeq(S) = B!SetToSeq(S)
  BY <1>3 DEF Browser!SetToSeq, B!SetToSeq, Browser!IsInjective, B!IsInjective
<1>5. /\ \A f : Browser!Parents(f) = B!Parents(f)
      /\ Browser!Keyword = B!Keyword
  BY <1>1 DEF Browser!Parents, B!Parents, Browser!Keyword, B!Keyword
<1>6. Browser!Directories = B!Directories /\ Browser!Folders = B!Folders
  BY <1>5 DEF Browser!Directories, B!Directories, Browser!Folders, B!Folders
<1>7. Browser!Directory = B!Directory
  BY <1>6 DEF Browser!Directory, B!Directory
<1>8. \A d : Browser!Inside(d) = B!Inside(d)
  BY <1>1, <1>6 DEF Browser!Inside, B!Inside
<1>9. Browser!Filtered = B!Filtered
  BY <1>1, <1>7, <1>8 DEF Browser!Filtered, B!Filtered
<1>10. Browser!TotalPages = B!TotalPages
  BY <1>2, <1>3, <1>9 DEF Browser!TotalPages, B!TotalPages
<1>11. Browser!CurrentPage = B!CurrentPage
  BY <1>2, <1>10 DEF Browser!CurrentPage, B!CurrentPage
<1>12. \A n : Browser!PageFiles(n) = B!PageFiles(n)
  BY <1>1, <1>2, <1>4, <1>9 DEF Browser!PageFiles, B!PageFiles
<1>13. Browser!Pages = B!Pages
  BY <1>2, <1>10, <1>11 DEF Browser!FirstPage, B!FirstPage, Browser!Pages, B!Pages
<1>14. (Browser!Usable <=> B!Usable) /\ (Browser!Init <=> B!Init)
  BY <1>3, <1>5, <1>6 DEF Browser!Usable, B!Usable, Browser!Init, B!Init
<1>15. Browser!Next <=> B!Next
  <2>1. \A d : Browser!OpenDirectory(d) \/ Browser!History(d) <=> B!OpenDirectory(d) \/ B!History(d)
    BY <1>1, <1>6, <1>7, <1>9
       DEF Browser!OpenDirectory, B!OpenDirectory, Browser!History, B!History
  <2>2. \A keyword : Browser!Search(keyword) <=> B!Search(keyword)
    BY DEF Browser!Search, B!Search
  <2>3. Browser!TurnPage <=> B!TurnPage
    BY <1>10, <1>11, <1>13 DEF Browser!TurnPage, B!TurnPage
  <2>4. (Browser!ListArrives <=> B!ListArrives) /\ (Browser!Deleted <=> B!Deleted)
    BY DEF Browser!ListArrives, B!ListArrives, Browser!Deleted, B!Deleted
  <2>5. \A f : Browser!Delete(f) <=> B!Delete(f)
    BY <1>11, <1>12 DEF Browser!Delete, B!Delete
  <2> QED
    BY <1>5, <1>6, <2>1, <2>2, <2>3, <2>4, <2>5 DEF Browser!Next, B!Next
<1>16. B!TypeOK => Browser!TypeOK
  BY <1>3, <1>5, <1>6 DEF Browser!TypeOK, B!TypeOK
<1>17. B!EveryFileReachable => Browser!EveryFileReachable
  BY <1>8 DEF Browser!EveryFileReachable, B!EveryFileReachable
<1>18. B!NearestSurvivor => Browser!NearestSurvivor
  BY <1>1, <1>7 DEF Browser!NearestSurvivor, B!NearestSurvivor
<1>19. (B!PageShown => Browser!PageShown) /\ (B!PagesWhole => Browser!PagesWhole)
  BY <1>9, <1>10, <1>11, <1>12, <1>13
     DEF Browser!PageShown, B!PageShown, Browser!PagesWhole, B!PagesWhole
<1> QED
  BY <1>14, <1>15, <1>16, <1>17, <1>18, <1>19
-----------------------------------------------------------------------------
(* The interface shows one page, whose invariant every step keeps.         *)

EditorInv == at = "editor" => E!Careful
BrowserInv == at = "browser" => B!TypeOK
PageKept == FilesInv /\ ClipInv /\ EditorInv /\ BrowserInv

\* Nothing happens to a page whose variables stay as they are.
LEMMA FilesStill ==
  ASSUME FilesKept, UNCHANGED <<filesOnly, lists, shared>>
  PROVE  FilesKept'
<1>1. FilesFetched' /\ DiskFetched'
  BY FilesUntouched, DiskUntouched DEF FilesKept, filesOnly, lists, shared
<1>2. FilesRest'
  BY FilesTypes DEF FilesRest, filesOnly, lists, shared, Files!IsListing
<1>3. FilesHonest' /\ FilesTold'
  BY DEF FilesKept, FilesHonest, FilesTold, Files!Shown, filesOnly, lists, shared
<1> QED
  BY <1>1, <1>2, <1>3, FilesTypes, PTL
\* The same of the clipboard page.
LEMMA ClipStill ==
  ASSUME ClipKept, UNCHANGED <<clipboardOnly, lists, shared>>
  PROVE  ClipKept'
<1>1. ClipFetched'
  BY ClipUntouched DEF ClipKept, clipboardOnly, lists
<1>2. ClipRest'
  BY ClipTypes DEF ClipRest, clipboardOnly, lists, shared
<1>3. ClipHonest' /\ ClipQuiet' /\ ClipTold'
  BY DEF ClipKept, ClipHonest, ClipQuiet, ClipTold, Showable, Clipboard!Shown, clipboardOnly, lists
<1> QED
  BY <1>1, <1>2, <1>3, ClipTypes, PTL

\* The page shown first is in order.
LEMMA Begins == ASSUME InterfaceInit PROVE PageKept
<1>1. Files!Distinct /\ Clipboard!Distinct /\ E!Distinct /\ B!Usable
  BY PagesAssumption, SameEditor, SameBrowser
<1>2. at = "files" => FilesKept
  BY <1>1, FilesBegin DEF InterfaceInit
<1>3. at = "clipboard" => ClipKept
  BY <1>1, ClipBegin DEF InterfaceInit
<1>4. at = "editor" => E!Careful
  <2> SUFFICES ASSUME at = "editor" PROVE E!Careful
    OBVIOUS
  <2>1. E!Init
    BY SameEditor DEF InterfaceInit
  <2> QED
    BY <1>1, <2>1, E!CarefulInit
<1>5. at = "browser" => B!TypeOK
  <2> SUFFICES ASSUME at = "browser" PROVE B!TypeOK
    OBVIOUS
  <2>1. B!Init
    BY SameBrowser DEF InterfaceInit
  <2> QED
    BY <1>1, <2>1, B!TypesBegin
<1> QED
  BY <1>2, <1>3, <1>4, <1>5 DEF PageKept, FilesInv, ClipInv, EditorInv, BrowserInv

\* A step is one of the page shown.
LEMMA OnePageGoes ==
  ASSUME [InterfaceNext]_<<at, vars, pages>>
  PROVE  /\ at' = at
         /\ at = "files" => [Files!Next]_pages
         /\ at = "clipboard" => [Clipboard!Next]_pages
         /\ at = "editor" => [E!Next]_E!vars
         /\ at = "browser" => [B!Next]_B!vars
<1>1. /\ at' = at
      /\ \/ UNCHANGED pages
         \/ at = "clipboard" /\ Clipboard!Next
         \/ at = "files" /\ Files!Next
         \/ at = "editor" /\ Editor!Next
         \/ at = "browser" /\ Browser!Next
  BY DEF InterfaceNext, Uploading, Clipping, Listing, Editing, Browsing
<1>2. UNCHANGED pages => UNCHANGED E!vars /\ UNCHANGED B!vars
  BY DEF pages, editorOnly, browserOnly, shared, E!vars, B!vars
<1> QED
  BY <1>1, <1>2, SameEditor, SameBrowser

\* Every step keeps the invariant.
LEMMA Keeps == ASSUME PageKept, [InterfaceNext]_<<at, vars, pages>> PROVE PageKept'
<1>1. Files!Distinct /\ Clipboard!Distinct /\ E!Distinct /\ B!Usable
  BY PagesAssumption, SameEditor, SameBrowser
<1>2. at = "files" => FilesKept'
  <2> SUFFICES ASSUME at = "files" PROVE FilesKept'
    OBVIOUS
  <2>1. FilesKept /\ (Files!Next \/ UNCHANGED <<filesOnly, lists, shared>>)
    BY OnePageGoes DEF PageKept, FilesInv, pages
  <2> QED
    BY <1>1, <2>1, FilesStep, FilesStill
<1>3. at = "clipboard" => ClipKept'
  <2> SUFFICES ASSUME at = "clipboard" PROVE ClipKept'
    OBVIOUS
  <2>1. ClipKept /\ (Clipboard!Next \/ UNCHANGED <<clipboardOnly, lists, shared>>)
    BY OnePageGoes DEF PageKept, ClipInv, pages
  <2> QED
    BY <1>1, <2>1, ClipStep, ClipStill
<1>4. at = "editor" => E!Careful'
  <2> SUFFICES ASSUME at = "editor" PROVE E!Careful'
    OBVIOUS
  <2>1. E!Careful /\ [E!Next]_E!vars
    BY OnePageGoes DEF PageKept, EditorInv
  <2> QED
    BY <1>1, <2>1, E!StepKeeps
<1>5. at = "browser" => B!TypeOK'
  <2> SUFFICES ASSUME at = "browser" PROVE B!TypeOK'
    OBVIOUS
  <2>1. B!TypeOK /\ [B!Next]_B!vars
    BY OnePageGoes DEF PageKept, BrowserInv
  <2> QED
    BY <1>1, <2>1, B!TypesKept
<1> QED
  BY <1>2, <1>3, <1>4, <1>5, OnePageGoes DEF PageKept, FilesInv, ClipInv, EditorInv, BrowserInv

\* The invariant of the page shown holds in every reachable state.
THEOREM AlwaysKept == InterfaceSpec => []PageKept
  BY Begins, Keeps, PTL DEF InterfaceSpec

\* However the requests of a page overtake one another, and whatever other devices do, no file
\* or record the page was told is deleted comes back into view, the tag it sends is that of what
\* it shows, and no record is listed twice (useRemoteData.ts:57, FilesPage.tsx:157,
\* ClipboardPage.tsx:105).
THEOREM ListsAreTrue == InterfaceSpec => []ListsTrue
<1>1. PageKept => ListsTrue
  BY DEF PageKept, FilesInv, ClipInv, FilesKept, FilesHonest, ClipKept, ClipHonest, Showable, ListsTrue,
     Files!DeletedStaysGone, Files!TagTrue, Clipboard!DeletedStaysGone, Clipboard!TagTrue,
     Clipboard!NoneTwice, Clipboard!Shown
<1> QED
  BY <1>1, AlwaysKept, PTL

\* Superseded, aborted and lost requests all leave the spinner to the load that still goes on,
\* and end it with the last (useRemoteData.ts:30, 51, 73).
THEOREM SpinnersAreTrue == InterfaceSpec => []SpinnersTrue
<1>1. PageKept => SpinnersTrue
  BY DEF PageKept, FilesInv, ClipInv, FilesKept, FilesFetched, DiskFetched, ClipKept, ClipFetched,
     SpinnersTrue, Files!LoadingTrue, Clipboard!LoadingTrue
<1> QED
  BY <1>1, AlwaysKept, PTL

\* What was typed and not saved is kept, in the slot of its file, by the editor that the
\* interface shows (EditorDraftProvider.tsx:4, FilePreview.tsx:153).
THEOREM UnsavedIsKept == InterfaceSpec => []UnsavedKept
<1>1. PageKept => UnsavedKept
  BY SameEditor, E!CarefulShows DEF PageKept, EditorInv, UnsavedKept
<1> QED
  BY <1>1, AlwaysKept, PTL

\* Its drafts are given up only by their user, or when they are saved (FilePreview.tsx:93, 116).
THEOREM DraftsGivenUpKnowingly == InterfaceSpec => GivenUpKnowingly
<1>1. ASSUME PageKept, [InterfaceNext]_<<at, vars, pages>>
      PROVE  at = "editor" => Editor!GivenUpKnowingly
  <2> SUFFICES ASSUME at = "editor" PROVE Editor!GivenUpKnowingly
    OBVIOUS
  <2>1. E!Distinct /\ E!Careful /\ [E!Next]_E!vars
    BY <1>1, PagesAssumption, SameEditor, OnePageGoes DEF PageKept, EditorInv
  <2>2. E!GivenUpKnowingly
    BY <2>1, E!StepGivesUpKnowingly
  <2> QED
    BY <2>2, SameEditor
<1> QED
  BY <1>1, AlwaysKept, PTL DEF InterfaceSpec, GivenUpKnowingly

\* Its saves replace the text the draft began from and no other (FilePreview.tsx:126).
THEOREM SavesReplaceWhatWasSeen == InterfaceSpec => ReplacesWhatWasSeen
<1>1. ASSUME PageKept, [InterfaceNext]_<<at, vars, pages>>
      PROVE  at = "editor" => Editor!ReplacesWhatWasSeen
  <2> SUFFICES ASSUME at = "editor" PROVE Editor!ReplacesWhatWasSeen
    OBVIOUS
  <2>1. E!Distinct /\ E!Careful /\ [E!Next]_E!vars
    BY <1>1, PagesAssumption, SameEditor, OnePageGoes DEF PageKept, EditorInv
  <2>2. E!ReplacesWhatWasSeen
    BY <2>1, E!StepReplacesWhatWasSeen
  <2> QED
    BY <2>2, SameEditor
<1> QED
  BY <1>1, AlwaysKept, PTL DEF InterfaceSpec, ReplacesWhatWasSeen

\* Whatever files come and go, the directory shown is the nearest that survives of the one asked
\* for, links lead to every file, and every entry is on one of the pages offered, the one shown
\* among them, whichever page the interface shows (FilesPage.tsx:81-143).
THEOREM BrowserIsTrue == InterfaceSpec => []BrowserTrue
<1>1. PageKept => BrowserTrue
  BY PagesAssumption, SameBrowser, B!TypesShow DEF PageKept, BrowserInv, BrowserTrue
<1> QED
  BY <1>1, AlwaysKept, PTL
=============================================================================
