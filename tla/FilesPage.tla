------------------------------- MODULE FilesPage -------------------------------
(***************************************************************************)
(* The list of uploaded files as one device shows it: pages/Files, which   *)
(* fetches the files and the disk information separately (two instances of *)
(* RemoteData) and polls both, while it deletes and edits files and other  *)
(* devices upload and delete.                                              *)
(*                                                                         *)
(*   deletion   idle -> asking -> told -> refreshing -> idle               *)
(*              asking -> idle when it is refused or no answer comes       *)
(***************************************************************************)
EXTENDS Integers, FiniteSets

CONSTANTS
  Name,
  Version,      \* no two contents of a name have the same
  None, NotModified, Failed,
  MaxCommands   \* bound on what users do and on what the network loses

VARIABLES
  files, loading, flights, cycle,                   \* listFiles
  disk, diskLoading, diskFlights, diskCycle,        \* getDiskInfo
  mounted, visible,
  etag,
  deleting,     \* deleteInProgress.current and the deletion that runs
  confirming, previewing,
  edited,       \* an edit was saved and the page is not told yet
  selecting,
  truth,        \* the files of the server
  used,         \* history: versions there ever were
  wire,         \* deletions the server has not seen
  gone,         \* history: files this page was told are deleted
  left

listVars == <<files, loading, flights, cycle, etag>>
diskVars == <<disk, diskLoading, diskFlights, diskCycle>>
dialogs == <<confirming, previewing, edited>>
server == <<truth, used, wire>>
vars == <<listVars, diskVars, dialogs, server, mounted, visible, deleting, selecting, gone, left>>
-----------------------------------------------------------------------------
List == INSTANCE RemoteData WITH data <- files
Disk == INSTANCE RemoteData WITH
  data <- disk, loading <- diskLoading, flights <- diskFlights, cycle <- diskCycle

File == [name : Name, version : Version]
\* What stands for an answer is none, and differs from another.
Distinct ==
  /\ None # NotModified /\ None # Failed /\ NotModified # Failed /\ None \notin Name
  /\ \A a \in {None, NotModified, Failed} : a \notin Nat /\ \A fs \in SUBSET File : a # fs
  /\ MaxCommands \in Nat
NamesIn(fs) == {f.name : f \in fs}
Shown == IF files = None THEN {} ELSE files
Idle == [pc |-> "idle", name |-> None, result |-> {}]
Busy == deleting.pc # "idle"
Paused == confirming # None \/ Busy \/ previewing # None

\* What it says is shown and nothing else.
DiskInfo == 0

Init ==
  /\ files = None /\ loading = TRUE /\ flights = {List!Fetch(FALSE, None)} /\ cycle = "off"
  /\ disk = None /\ diskLoading = TRUE /\ diskFlights = {Disk!Fetch(FALSE, None)} /\ diskCycle = "off"
  /\ mounted = TRUE /\ visible = TRUE /\ etag = None /\ deleting = Idle
  /\ confirming = None /\ edited = FALSE /\ selecting = FALSE
  /\ \E v \in Version, n \in Name : truth = {[name |-> n, version |-> v]} /\ used = {v}
  /\ previewing \in {None} \cup NamesIn(truth)   \* the draft kept across a login
  /\ wire = {} /\ gone = {} /\ left = MaxCommands

Spend == left > 0 /\ left' = left - 1
Command == Spend /\ mounted /\ previewing = None
-----------------------------------------------------------------------------
(* Refreshing both.                                                        *)

StopBackground == List!CancelBackground /\ Disk!CancelBackground
RefreshAll == List!Refresh /\ Disk!Refresh

\* The button of the header looks at both requests, the one beside an error of the list
\* at the list's alone.
ManualRefresh ==
  /\ Command /\ ~Busy /\ ~loading
  /\ confirming' = None /\ RefreshAll
  /\ UNCHANGED <<files, cycle, etag, disk, diskCycle, previewing, edited, server, mounted, visible,
                 deleting, selecting, gone>>

\* The button beside the error of the disk information.
RefreshDisk ==
  /\ Command /\ ~Busy /\ ~diskLoading /\ Disk!Refresh
  /\ UNCHANGED <<listVars, disk, diskCycle, dialogs, server, mounted, visible, deleting, selecting, gone>>

\* The editor has saved a file, and says so.
EditSaved ==
  /\ Spend /\ previewing \in NamesIn(truth) /\ ~edited /\ edited' = TRUE
  /\ \E v \in Version \ used :
       /\ truth' = {IF f.name = previewing THEN [f EXCEPT !.version = v] ELSE f : f \in truth}
       /\ used' = used \cup {v}
  /\ UNCHANGED <<listVars, diskVars, confirming, previewing, wire, mounted, visible, deleting, selecting,
                 gone>>
RefreshAfterEdit ==
  /\ edited /\ edited' = FALSE
  /\ IF mounted
     THEN /\ etag' = None /\ RefreshAll
          /\ deleting' = IF deleting.pc = "refreshing" THEN [deleting EXCEPT !.pc = "superseded"]
                         ELSE deleting
     ELSE UNCHANGED <<etag, loading, flights, diskLoading, diskFlights, deleting>>
  /\ UNCHANGED <<files, cycle, disk, diskCycle, confirming, previewing, server, mounted, visible, selecting,
                 gone, left>>
-----------------------------------------------------------------------------
(* A deletion.                                                             *)

AskDelete(n) ==
  /\ Command /\ ~Busy /\ n \in NamesIn(Shown) /\ n # confirming
  /\ confirming' = n /\ StopBackground
  /\ UNCHANGED <<files, loading, cycle, etag, disk, diskLoading, diskCycle, previewing, edited, server,
                 mounted, visible, deleting, selecting, gone>>
\* The Cancel button; openDirectory, a search, another order or page close it as well.
Reconsider ==
  /\ Command /\ ~Busy /\ confirming # None /\ confirming' = None
  /\ UNCHANGED <<listVars, diskVars, previewing, edited, server, mounted, visible, deleting, selecting,
                 gone>>

\* handleDelete up to its request.
HandleDeleteKeepsDisk ==
  /\ Command /\ ~Busy /\ confirming \in NamesIn(Shown)
  /\ deleting' = [pc |-> "asking", name |-> confirming, result |-> {}]
  /\ wire' = wire \cup {confirming}
  /\ List!Cancel /\ Disk!CancelKeepsLoading
  /\ UNCHANGED <<files, cycle, etag, disk, diskCycle, dialogs, truth, used, mounted, visible, selecting,
                 gone>>
HandleDelete ==
  /\ Command /\ ~Busy /\ confirming \in NamesIn(Shown)
  /\ deleting' = [pc |-> "asking", name |-> confirming, result |-> {}]
  /\ wire' = wire \cup {confirming}
  /\ List!Cancel /\ Disk!Cancel
  /\ UNCHANGED <<files, cycle, etag, disk, diskCycle, dialogs, truth, used, mounted, visible, selecting,
                 gone>>

DeleteServed(n) ==
  /\ n \in wire /\ wire' = wire \ {n}
  /\ LET deleted == {f \in truth : f.name = n}
         awaited == deleting.pc = "asking" /\ deleting.name = n
     IN
     /\ truth' = truth \ deleted
     /\ deleting' = CASE ~awaited -> deleting
                      [] awaited /\ deleted = {} -> Idle
                      [] OTHER -> [deleting EXCEPT !.pc = "told", !.result = deleted]
  /\ UNCHANGED <<listVars, diskVars, dialogs, used, mounted, visible, selecting, gone, left>>
DeleteFails ==
  /\ deleting.pc = "asking" /\ Spend /\ deleting' = Idle
  /\ \/ UNCHANGED wire
     \/ wire' = wire \ {deleting.name}
  /\ UNCHANGED <<listVars, diskVars, dialogs, truth, used, mounted, visible, selecting, gone>>

Without(n) == IF files = None THEN None ELSE {f \in files : f.name # n}
DeleteSucceeds ==
  /\ deleting.pc = "told" /\ mounted
  /\ etag' = None /\ files' = Without(deleting.name) /\ confirming' = None /\ RefreshAll
  /\ deleting' = [deleting EXCEPT !.pc = "refreshing"]
  /\ gone' = gone \cup deleting.result
  /\ UNCHANGED <<cycle, disk, diskCycle, previewing, edited, server, mounted, visible, selecting, left>>
DeleteEnds ==
  /\ \/ deleting.pc = "told" /\ ~mounted
     \/ deleting.pc = "refreshing" /\ List!Live = {} /\ Disk!Live = {}
     \/ deleting.pc = "superseded"
  /\ deleting' = Idle
  /\ UNCHANGED <<listVars, diskVars, dialogs, server, mounted, visible, selecting, gone, left>>
-----------------------------------------------------------------------------
Preview(n) ==
  /\ Command /\ n \in NamesIn(Shown) /\ previewing' = n /\ StopBackground
  /\ UNCHANGED <<files, loading, cycle, etag, disk, diskLoading, diskCycle, confirming, edited, server,
                 mounted, visible, deleting, selecting, gone>>
ClosePreview ==
  /\ previewing # None /\ ~edited /\ mounted /\ previewing' = None
  /\ UNCHANGED <<listVars, diskVars, confirming, edited, server, mounted, visible, deleting, selecting, gone,
                 left>>
-----------------------------------------------------------------------------
(* Fetching.                                                               *)

\* autoRefresh's and autoRefreshDisk's reasons to skip a poll.
Skips == Busy \/ selecting

pageVars == <<dialogs, server, mounted, visible, deleting, selecting, gone>>

SettleFiles(f) ==
  /\ ~List!EffectDue(Paused) /\ List!Settle(f) /\ etag' = List!Committed(f, etag)
  /\ UNCHANGED <<cycle, diskVars, pageVars, left>>
ServeFiles(f) ==
  /\ List!Serve(f, truth)
  /\ UNCHANGED <<files, loading, cycle, etag, diskVars, pageVars, left>>
LoseFiles(f) ==
  /\ Spend /\ List!Lose(f)
  /\ UNCHANGED <<files, loading, cycle, etag, diskVars, pageVars>>
SettleDisk(f) ==
  /\ ~Disk!EffectDue(Paused) /\ Disk!Settle(f)
  /\ UNCHANGED <<listVars, diskCycle, pageVars, left>>
ServeDisk(f) ==
  /\ Disk!Serve(f, DiskInfo)
  /\ UNCHANGED <<listVars, disk, diskLoading, diskCycle, pageVars, left>>
LoseDisk(f) ==
  /\ Spend /\ Disk!Lose(f)
  /\ UNCHANGED <<listVars, disk, diskLoading, diskCycle, pageVars>>

Effects ==
  /\ List!EffectStarts(Paused) \/ List!EffectStops(Paused)
  /\ UNCHANGED <<etag, diskVars, pageVars, left>>
PollFiles ==
  /\ List!Tick(Skips, etag) \/ List!TickEnds
  /\ UNCHANGED <<etag, diskVars, pageVars, left>>
PollDisk ==
  /\ Disk!EffectStarts(Paused) \/ Disk!EffectStops(Paused) \/ Disk!Tick(Skips, None) \/ Disk!TickEnds
  /\ UNCHANGED <<listVars, pageVars, left>>

Browser ==
  /\ Spend /\ mounted
  /\ \/ /\ visible' = ~visible
        /\ List!VisibilityChanges(Skips, etag) /\ Disk!VisibilityChanges(Skips, None)
        /\ UNCHANGED <<mounted, selecting>>
     \/ /\ selecting' = ~selecting
        /\ UNCHANGED <<files, loading, flights, cycle, diskVars, mounted, visible>>
     \/ mounted' = FALSE /\ List!Unmounted /\ Disk!Unmounted /\ UNCHANGED <<visible, selecting>>
  /\ UNCHANGED <<etag, dialogs, server, deleting, gone>>

\* Another device uploads or deletes.
Others ==
  /\ Spend
  /\ \/ \E n \in Name \ NamesIn(truth), v \in Version \ used :
          truth' = truth \cup {[name |-> n, version |-> v]} /\ used' = used \cup {v}
     \/ \E f \in truth : truth' = truth \ {f} /\ UNCHANGED used
  /\ UNCHANGED <<listVars, diskVars, dialogs, wire, mounted, visible, deleting, selecting, gone>>
-----------------------------------------------------------------------------
Buttons ==
  \/ ManualRefresh \/ RefreshDisk \/ Reconsider \/ HandleDelete \/ ClosePreview
  \/ \E n \in Name : AskDelete(n) \/ Preview(n)
Running ==
  \/ EditSaved \/ RefreshAfterEdit \/ DeleteFails \/ DeleteSucceeds \/ DeleteEnds
  \/ \E n \in wire : DeleteServed(n)
Fetching ==
  \/ \E f \in flights : ServeFiles(f) \/ LoseFiles(f) \/ SettleFiles(f)
  \/ \E f \in diskFlights : ServeDisk(f) \/ LoseDisk(f) \/ SettleDisk(f)
Next == Buttons \/ Running \/ Browser \/ Others \/ Effects \/ PollFiles \/ PollDisk \/ Fetching

Spec == Init /\ [][Next]_vars
-----------------------------------------------------------------------------
IsListing(x) == x = None \/ \E fs \in SUBSET File : x = fs
TypeOK ==
  /\ IsListing(files) /\ IsListing(etag)
  /\ disk \in Nat \cup {None} /\ truth \subseteq File /\ gone \subseteq File
  /\ {loading, diskLoading, mounted, visible, edited, selecting} \subseteq BOOLEAN
  /\ {cycle, diskCycle} \subseteq {"off", "idle", "timer", "ticking"}
  /\ {confirming, previewing} \subseteq Name \cup {None}
  /\ deleting \in [pc : {"idle", "asking", "told", "refreshing", "superseded"}, name : Name \cup {None},
                   result : SUBSET File]
  /\ used \subseteq Version /\ wire \subseteq Name /\ left \in Nat

\* A file this page was told is deleted never comes back into view with an older answer;
\* a file uploaded later under its name may (FilesPage.tsx:152, 158; useRemoteData.ts:57).
DeletedStaysGone == Shown \cap gone = {}

\* The tag sent is the tag of the list shown (FilesPage.tsx:40, 77, 157).
TagTrue == etag # None /\ mounted => files = etag

\* Neither spinner outlives its load, nor does a load have none (FilesPage.tsx:152, 153).
LoadingTrue == List!LoadingTrue /\ Disk!LoadingTrue

\* Polling stops only while something the user can see and end is underway
\* (FilesPage.tsx:56, 174).
PauseSeen == mounted /\ confirming # None => confirming \in NamesIn(Shown)

\* Once nothing is going on, a page that the user looks at shows what the server holds.
LeftAlone == mounted /\ visible /\ ~selecting /\ ~Paused
UpToDate == files = truth
=============================================================================
